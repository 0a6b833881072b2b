# Mink: models and proofs of the kernel core

Mink is a small 32-bit x86 kernel. It boots from a multiboot loader, starts a
table of statically linked *features* in dependency order, and then idles with
interrupts enabled. What it consists of, beyond the console, is memory
management: a buddy allocator over bitmaps, physical zones on top of it, page
tables, an allocator of kernel address space, slab caches and `kmalloc`, all
under spinlocks that mask interrupts.

This directory holds TLA+ modules translated from the C sources, TLC
configurations for small instances, and proofs for all instances.

## 1. Inventory

| Component | State | Operations | Hard behaviour | What makes it correct |
|---|---|---|---|---|
| Buddy allocator (`buddy.c`, `bitmap.c`) | one bitmap per block order | `buddy_alloc`, `buddy_free`, `buddy_free_range` | long sequences of splits and merges; the end of a region; misaligned ranges | no page in two free blocks; no page lost; a request fails only if no block of that size is free; calls return |
| Physical memory (`pmm.c`, `arch/x86/mem.c`) | start-up stage, early ranges, three buddy allocators in one storage area | `init_physical_memory_early`, `early_alloc_page`, `init_physical_memory`, `alloc_pages`, `free_pages` | pages given out before the allocators exist; ranges across 1MB and 4GB; layout of the bitmaps | no page has two uses; only memory the boot loader reported is used; `PAGE_REQ_*` is kept |
| Slab caches (`slab.c`) | list of slabs, a bitmap in each, `c->empty` | `slab_cache_create`, `_alloc`, `_free` (`_destroy` is not used) | `c->empty` against slabs that go away; bitmap and objects in one slab; exhausted address space | an object has one owner; bitmaps, list and `c->empty` agree |
| Spinlocks (`locking.c`, `arch/x86/hal.c`) | `val`, `interrupts` per lock; the CPU's interrupt flag | `spinlock_acquire`, `spinlock_release` | an interrupt between any two instructions; nesting; `lock->interrupts` read after the release | mutual exclusion; on one CPU no interrupt under a lock, and the flag is restored |
| Loader and features (`arch/x86/loader2.c`, `kmain.c`, `init_memory` of `arch/x86/mem.c`) | early allocator, copies of the boot loader's data, command line; feature table, states, the recursion's stack; ranges of memory | `loader`, `earlyalloc`, `process_args`, `init_features`, `resolve_feature`, `init_feature`, `init_memory` | data that do not fit or are not there; missing names, cycles, failing init functions | copies stay apart; what was reported is taken over; each feature once, after its prerequisites; start-up ends |
| Page tables (`arch/x86/vmm.c`) | page directory, page tables | `map`, `unmap`, `get_mapping`, `clone_address_space` | a page table allocated under the lock; the order of locks | one mapping per page; no deadlock with `pmm.c` |
| Address space (`vmspace.c`) | a buddy allocator over addresses | `vmspace_init`, `vmspace_alloc`, `vmspace_free` | physical page returned before its mapping goes; sizes that are no power of two | mappings and both allocators agree; nothing leaks |
| Heap (`kmalloc.c`) | seven slab caches, headers | `kmalloc`, `kfree` | which allocator a block came from | a block goes back where it came from |
| Interrupts (`arch/x86/idt.c`, `isrs.c`, `irqs.c`, `timer.c`, `tick.c`, `panic` of `sys.c`) | gates, table of routines, two interrupt controllers, jiffies | `idt_init`, `isrs_init`, `irqs_init`, `install_isr`, `irq_handler`, `fault_handler`, `kernel_tick`, `panic` | handlers between any two instructions; lines of the second controller; a fault at any moment | every interrupt is acknowledged at the controllers it came through; panic's text gets out |
| Console (`utils.c`, `console.c`, `arch/x86/vgaterm.c`, `serialterm.c`) | `printk`'s static buffer, list of consoles, cursor, two screen buffers | `printk`, `console_register`, `console_writestring`, `vgaterm_putchar`, `write_serial` | the tick prints while the kernel prints, and nothing is locked | the screen shows what was printed; the cursor stays on it |
| Formatting, RAM file system, symbols (`vsprintf.c`, `tokenize` of `utils.c`, `ramfs.c`, `elf.c`) | none: functions of strings and images | `number`, `vsprintf`, `tokenize`, `ramfs_*`, `elf_lookup_symbol` | combinations of flags, width and precision; the least int; names as long as their field | the result is what a reference definition says |
| Descriptor tables (`gdt.c`, `.s` files), unit tests | hardware tables, assembly | | | not modelled |

How they interact: `kmalloc` calls `slab_cache_alloc` or `vmspace_alloc`;
`slab_cache_alloc` calls `vmspace_alloc`; `vmspace_alloc` calls `alloc_pages`
and `map`; `map` calls `alloc_page` for a page table. Each of these holds its
lock across the calls, so the locks nest in this order. `loader` leaves its
copies to `kmain` and to `init_memory`, which gives the memory map to `pmm.c`
and `vmm.c`. Handlers and `panic` call the same `printk` as the code that they
interrupt. Everything before
`enable_interrupts()` in `kmain` runs with interrupts off; afterwards only
interrupt handlers run concurrently with the kernel on the one CPU.

## 2. Modules

| Module | Models | Extends / uses |
|---|---|---|
| `PageAllocator` | what a page allocator promises (abstract) | |
| `Blocks` | blocks of a buddy allocator: orders, pages, buddies | |
| `Buddy` | `buddy.c` over `bitmap.c`, one step per loop round | `Blocks`; instance of `PageAllocator` |
| `Pmm` | `pmm.c`, `remove_range` of `mem.c`, the three allocators in shared storage | `Blocks` |
| `BuddyProofs` | proofs about `Buddy` and `Pmm` | `Buddy`, `Pmm` |
| `Slab` | `slab.c` for one cache | |
| `SlabProofs` | proofs about `Slab` | `Slab` |
| `Spinlock` | `locking.c`, the interrupt flag, handlers | |
| `SpinlockProofs` | proofs about `Spinlock` | `Spinlock` |
| `Features` | `init_features` and what it calls in `kmain.c` | |
| `Words` | `tokenize` of `utils.c` | |
| `Boot` | `loader2.c`, `process_args`, `init_memory` of `mem.c` | `Features`, `Words` |
| `BootProofs` | proofs about `Features` and `Boot` | `Boot` |
| `Vgaterm` | `vgaterm.c`, one step per store | |
| `Console` | `printk`, `console.c`, `serialterm.c` | `Vgaterm` |
| `Interrupts` | `idt.c`, `isrs.c`, `irqs.c`, `timer.c`, `tick.c`, `panic`, printing in `kmain.c` | `Console` |
| `InterruptsProofs` | proofs about `Vgaterm`, `Console` and `Interrupts` | `Interrupts` |
| `Formatting` | `vsprintf.c` | |
| `Images` | `ramfs.c`, `elf_lookup_symbol` | |
| `Library` | calls of these functions and reference definitions | `Formatting`, `Words`, `Images` |
| `PageMap` | what `map` and `unmap` promise (abstract) | |
| `Vmm` | `vmm.c`: page tables in frames, the recursive windows, the TLB | instance of `PageMap` |
| `VmmProofs` | proofs about `Vmm` | `Vmm` |
| `Vmspace` | `vmspace.c` over the promises of `PageAllocator` and `PageMap` | |
| `VmspaceProofs` | proofs about `Vmspace` | `Vmspace` |
| `Kmalloc` | `kmalloc.c` over the promises of `Slab` and `Vmspace` | |
| `KmallocProofs` | proofs about `Kmalloc` | `Kmalloc` |
| `MC...` | constants for TLC | the module after `MC` |

Modules with a type invariant have it as a conjunct of their first property
(`NoDoubleUse`, `BitmapsExact`, `StartedOnce`, `FramesAccounted`,
`FramesExclusive`, `BlocksReturned`); those of `Buddy` and `Spinlock` are part of
the invariants that are proved. Operators introduced by "Mutant:" are no part of a
specification: they are plausible mistakes in the definition that follows
them, which the properties tell from it. `Formatting` (and with it `Library`) has
`RECURSIVE` operators, which keeps it from the provers.

### Buddy and PageAllocator

`orders[k]` is the set of the indices whose bit is set in `bd->orders[k]`; a
block `(k, i)` covers the pages `i * 2^k .. (i+1) * 2^k - 1` of the region. The
power of two is the function `Size`, given with its doubling law as an
assumption, because exponentiation is beyond the provers (so it is in `Vmspace`
and `Kmalloc`; for TLC it is a table of the powers). `call` holds the
locals of the call in progress: `AllocSearch`, `AllocSplit` and `AllocTake` are
the three loops of `buddy_alloc`; `Free`, `FreeMerge` and `FreeDone` those of
`buddy_free`; `FreeRange` and `FreeRangeStep` those of `buddy_free_range`, whose
calls of `buddy_free` use the same actions. The callers hold a lock, so two calls
are never in progress at once. Callers are modelled by what they may do: free
what they hold, in whole or in aligned parts (as `vmspace_free` does), and
register each page once. Byte ranges are counted in half pages, enough to tell
an aligned bound from another one.

`PageAllocator` forgets the bitmaps: it has the free and the held pages, and
says that a block is handed out only from free pages and that a request is
refused only if no aligned block of that size is free.

### Pmm

Here the bitmaps are bits of one storage area, `bits`, at the places that
`init_physical_memory` computes, so that the model sees what happens if two
bitmaps overlap. A call of the allocator is one step; `Buddy` covers what happens
inside. Each loop is a recursive function of what it changes, which gives the
state in which the loop ends: `Split` of `buddy_alloc`, `Merge` of `buddy_free`,
`FreeRangeLoop` of `buddy_free_range`, and in `init_physical_memory`
`EarlyTakeMany`, which takes the pages of the bitmaps, and `FreeEarlyRanges`.
Addresses are pages, so memory
maps have page-aligned bounds; `Buddy` has ranges that end within a page. The
number of page tables that `init_virtual_memory` allocates early is a constant.

### Slab

A slab is a number in address order, so that the comparison
`c->empty > obj` is the order of the pairs `<<slab, index>>`. The vmspace may put
a new slab at any free place. The bitmap's bytes have addresses, and `Write`
lets the owner of an object change the bits that lie within it. After `create()`
has written through `~0`, nothing is known any more and the model stops
(`wild`). The model starts with the cache that `slab_cache_create` leaves;
`slab_cache_destroy` is left out: nothing calls it, it takes no lock and it
leaves `c->empty` pointing into a slab that is gone.

### Spinlock

Contexts are the kernel code of a CPU and the handler that interrupted it. Each
access to the interrupt flag, to `lock->val` and to `lock->interrupts` is a step
of its own; an interrupt comes between any two steps when the flag is on. Locks
are numbered in nesting order; a context that has lock `k` may take `l` if some
code in the kernel does that (`Nested`). Handlers may take any lock: that is what
masking interrupts under a lock is for. `Wanted` says which locks the code of
each CPU uses. `callers` is a ghost, the CPUs that have called
`spinlock_acquire` so far; `OneCPU` says that there is at most one. Mutual
exclusion needs nothing of the kind; what is said about the interrupt flag needs
it (section 5), and so does the return of an acquire, since of several CPUs one
may wait forever.

### Features

`table` is the linker's section: names and lists of names. `stack` is the
recursion of `init_feature`; `NextPrereq` handles one list element of the
innermost call and `RunInit` runs its init function with any result. `Boot`
drives it.

### Boot

`info` is what the boot loader leaves: the flags, and the parts that they
declare valid. Each block of `loader` that a flag guards is an action and calls
`earlyalloc` with the length that the code computes; pointers into the early
allocator's buffer are offsets, so that the model sees blocks that overlap or
leave it. The command line goes through `tokenize` of `Words`. When the
feature `x86/mem` is to be initialised, `init_memory` runs instead of
`RunInit`: it walks the memory map with one step per entry, over offsets in the
map, and then returns. What `pmm.c` and `vmm.c` make of the ranges is in `Pmm`
and `Vmm`. Where the code reads through a null pointer, or past `ranges[]`,
the model stops (`wild`); a command line that was never copied is
`Garbage`, with any effect on `KDEBUG`. Lengths and the early allocator's `idx`
are unsigned numbers modulo `AddrSpace` (`unsigned`); what the boot loader
reports lies in memory beside the buffer, so that each part is shorter than
what the buffer leaves of the address space (`InMemory`).

### Vgaterm, Console and Interrupts

One CPU runs the kernel, a handler or `panic`; `running` is the stack of
contexts. Handlers run with interrupts off (the gates are interrupt gates), so
they do not nest, but an exception may come anywhere. Each store to a static
variable of `vgaterm.c` is a step. The variables are not volatile and a handler
may change them between a load and a use, so a use sees either what is in memory
or what the call loaded or stored before (`X`, `Y`), as the compiler likes.
`printk` fills its buffer character by character and the consoles read it
back in the same way. A store past `term_backbuff` hits whatever the linker has
put there, the cursor and the pointer to the front buffer perhaps: the model
stops (`wild`). Colours are left out.

`panic` prints its message and the stack trace, then its last words (`SoLong`),
then clears the flag (`die`). Message and trace are one text: the flag is off in
everything that calls `panic`, and nothing that `panic` has interrupted runs again. Where the trace is between two prints (`Walking`)
its walk through the frames may fault, and a second panic takes the place of
the first. Start-up calls `panic` itself too (`KernelPanics`), with the flag off.
 The two controllers are external:
lines that wait and lines in service, with their priorities, and a
non-specific end of interrupt. A vector without a gate resets the CPU. `raced` is a
ghost: some context has called `printk` while another one was in a call. `text` is
all that was printed, and is dropped once prints have raced.

### Formatting, Words, Images and Library

Pure functions. A string is a sequence of characters, an image a record.
Arithmetic is modulo `Word`, so that the negative of the least int is computed
as the machine does; `ramfs_size` and `ramfs_file_count` return their unsigned
fields as an int (`int`), and the end of a symbol wraps at `AddrSpace`. `Library` has one step, the call, from any of the inputs;
its properties state the result by other means than the code: a number is read
back (`Value`), the fields of a directive are taken before it is
spelled, a line is cut at all its spaces at once.

### Vmm and PageMap

Directories and tables are frames with `N` entries, and a virtual page is a pair
of indices. The code reaches entries only through the windows of the recursive
page directory trick, so `Dir` and `Table` translate the window's page like any
other: by walking the tables (`WalkIn`), or from the TLB, which may keep any
translation that was right once (`Fill`) until `invlpg` or a load of `cr3`. A
frame from the allocator holds leftovers that look like mappings. The loops of
`map`, `unmap`, `init_virtual_memory` and `clone_address_space` make one step per
round. The loader's table is at two places of the directory, as `loader.s` puts
it. Sizes in bytes scale with `N`, so that the multiplication in
`clone_address_space` wraps as it does in 32 bits. Physical addresses are cut to 32
bits where the code does it (`cut`, modulo `FrameLimit`). Callers map and unmap only
pages outside the loader's table and the windows. `PageMap` is the partial
function from pages to frames and flags, and the request in progress: `Map`
gives the next page of the request the frame and the flags that the caller
asked for. All page tables are invisible there. It speaks of the current address
space, which `clone_address_space` leaves alone in the code; the copy-on-write that
`hal.h:150` announces is not what it does (section 5).

### Vmspace

Both allocators are sets of free pages from which any aligned free block may be
taken, and the page tables a partial function: what `Buddy` and `Vmm` are
shown to implement. The calls of one vmspace are serial (`vms->lock`), in steps
of one call to a part each; other users of `alloc_page` and `free_page`
(`OthersTake`, `OthersGive`) come in between. `lost` counts the frames by which
`vmspace_init` rounds its request up.

### Kmalloc

Memory is what the properties tell apart: the free pages of the vmspace, the
slabs and objects of each cache, and which headers are intact. The caches may
give out any unused object and may keep or return an unused slab, which covers
what `Slab` does with its list and `c->empty`. In slabs of small objects the
bitmap lies over the last ones (finding 2): from the moment one of these is
given out, payload, header and bitmap change each other, and the model stops
(`overlaid`). `kmalloc` and `kfree` take no
lock, so the call of an allocator and the access to the header are steps of
their own, and two contexts interleave. `Write` is the owner of a block, who
fills the bytes that were asked for. `got` is a ghost: the size that the
allocator really gave.

## 3. Runs

| Run | Instance | Shows |
|---|---|---|
| `buddy` | 4 orders, 12 pages, a range of eight pages and one of a page and a half | `NoOverlap`, `Accounted`: a page is in one free block, or held, or pending. `AllocComplete`: no spurious failure. `AbstractSpec`: implements `PageAllocator`. `CallReturns` |
| `pmm` | three maps of at most 12 pages, zones of at most 7 pages, 3 orders | `NoDoubleUse`, `Conserved`, `ZonePromise`, `NoSpuriousFailure` |
| `pmm_layout` | the real geometry of a PC with 128MB | violation: overlapping bitmaps hand out a page of the kernel |
| `slab` | 3 slabs of 3 objects | `BitmapsExact`, `EmptyValid`, `SlabsLinked`, `NoDoubleHandout` |
| `slab_overlap` | one slab, objects as small as the bitmap's byte | violation: an object in use is handed out again |
| `spinlock` | 2 CPUs with their handlers, 3 nested locks, of which one CPU uses all and the other the innermost | `MutualExclusion`, `MaskedWhileHeld`, `FlagRestored`, `AcquireReturns` |
| `boot` | every boot loader's data with a plain table; all 15625 tables of 3 features with at most one prerequisite of each kind, with good data | `EarlyApart`: the copies are inside the buffer and apart. `TakenOver`: from reliable data, exactly the available memory, the words and the symbols are taken over and nothing runs wild. `StartedOnce`, `InOrder`: features start once and after their prerequisites, in a recursion of bounded depth. `BootEnds` |
| `interrupts` | screen of 2 by 2, a line that wraps and scrolls, lines 0 and 8, exception 14 | `ScreenShowsText`: without a race both buffers and both cursors show the text. `RacesHeal`: after a race the cursor is on the screen again, unless something was stored past the back buffer. `PanicSent`: each of panic's texts goes out whole. `Acknowledged` |
| `library` | numbers of 5 bits, directives with every conversion and up to two flags, lines of 5 characters, two files, two symbols | `NumberRight`, `VsprintfRight`, `LookupsRight`: the results are those of the reference definitions |
| `vmm` | 7 entries per table, two user tables, one clone, four sizes of memory, all below the limit of 128 frames | `TlbCoherent`, `LookupRight`, `FramesAccounted`; `AbstractSpec`: implements `PageMap` |
| `vmspace` | 4 pages and 3 of bitmaps, 9 or 3 frames, others with up to 2 frames | `FramesExclusive`, `MappedExactly`, `NothingLost`, `OnlyOutOfMemory` |
| `kmalloc` | 2 contexts, caches of 4 bytes (bitmap over an object) and 8 bytes (room for it), 6 pages, 5 blocks at a time | `NoCorruption`, `PayloadsApart`, `BlocksReturned` |

Bounds and why they are enough:

* `buddy`: 12 is no multiple of the largest block, and the second range ends in
  the middle of a page at which a larger block would start; 4 orders allow
  chains of three splits or merges.
* `pmm`: one map continues across 4GB, one makes `early_alloc_page` use up a
  range and move on, one has too little memory and ends in the panic. In this
  small geometry each zone's bitmap of every order fits one byte, so all three
  overheads are equal and the layout is free of overlaps; the run shows what
  the rest of the code does when the layout is right, and `pmm_layout` shows
  that at real sizes it is not. `MaxNum` (5 pages) exceeds the largest block, so
  that the panic of `buddy_alloc` is reached.
* `slab`: three slabs in any address order give first, middle and last positions
  in the list; the geometry (64 bytes, objects of 16) keeps objects and bitmap
  apart, as the real one does for objects of 64 bytes and more.
* `spinlock`: three locks (`vmspace.lock`, `address_space.lock`, that of `pmm.c`) nest
  to the depth that the kernel has under one outer lock; `slab_cache.lock` and
  `global_vmm_lock` are taken around them in the same way. The second CPU
  makes the compare and swap a contended one; that it takes only the innermost
  lock keeps the run small. `SpinlockProofs` has all locks on any number of CPUs.
* `boot`: three features give every kind of cycle and chain. The buffer of 115
  bytes takes some combinations of the copies and not others, one of them the 114
  bytes that are the most it gives out; argv has room for two words where the
  longest line has three (one of them empty); `ranges` has room for two of up to three available
  entries, while the loop would go on to four, as 32 and 128 in the code. The
  address space (256) is just large enough for these data.
* `interrupts`: the print of four characters reaches the edge, the last line and
  the scroll; the two interrupts may be a tick with and without a dot
  (`TickDot` 2) and one without a routine, whose message has a line end and may
  scroll in the middle of the kernel's scroll. `BufSize` 5 is the longest
  text and its 0. Both contexts below `panic` can so be caught between any two
  stores, and either handler can meet what the other one has left.
* `library`: 5 bits have a least int and numbers of several digits in every base,
  the widths lie below, at and above the digits; `NameSize` 2 is reached and
  exceeded by the names; an image may be larger than the largest int, and symbols
  lie anywhere in an address space of 8, up to its end. Widths and precisions given by `*` are left out
  (section 5).
* `vmm`: two pages from the end of one user table reach into the next; one page
  of the kernel has a table from the start; the memories are enough for
  everything, too little for the clone, for a user table, for start-up. The TLB
  may keep a page and the window on its table.
* `vmspace`: pairs and single pages of addresses and frames, fragmented by the
  bitmaps in the middle; the second memory has no place for the bitmaps.
* `kmalloc`: the sizes are scaled down (a header of 2 bytes, pages of 32, slabs
  of two pages) and keep the kernel's order: between the largest cache and a
  page is a size that has to be rounded to a page. The requests lie on both
  sides of each limit. Six pages are three slabs, or two and two single pages;
  five blocks use them up in every mixture and fill a slab of 4-byte objects up
  to the one that the bitmap lies over.

Fairness: `Buddy` assumes that a call in progress continues (it runs under a
lock with interrupts off and waits for nothing). `Spinlock` assumes that a CPU
continues inside `spinlock_acquire` and `spinlock_release`, that code under a lock
reaches its release and that handlers return; nothing is assumed about when
interrupts come. `Boot` assumes that the boot CPU keeps executing.
`Interrupts` assumes that the CPU executes and accepts an interrupt that the
controllers pass on while the flag is on; nothing about when devices raise them.

## 4. Proofs

The theorems hold for every value of the constants that the modules' assumptions
allow; the assumptions only say what the types of the constants are, that sizes
are positive and in the order they have in the code, and that `Size` doubles.
Where a theorem needs more, the hypothesis is named in its statement and given
below; each is there because the code really fails without it, and each is
satisfied by the passing run of the same module (that of `NeverOverlaid` by the
kernel's caches of 64 bytes and more).

| Module | Theorems | Hypothesis |
|---|---|---|
| `BuddyProofs` | `Apartness` (`NoOverlap`), `Safety` (`Accounted`), `Completeness` (`AllocComplete`), `Refinement` (of `PageAllocator`) | `RangesAligned`: ranges start at a page boundary (`buddy.c:110`, section 5) |
| | `StartUpSafe` (of `Pmm`) | `MapsApart`: the boot loader's ranges do not overlap |
| `SpinlockProofs` | `Exclusion` (`MutualExclusion`) | none |
| | `Masked` (`MaskedWhileHeld`), `FlagSafety` (`FlagRestored`) | none; the properties speak of executions in which one CPU uses the locks (`OneCPU`) |
| `BootProofs` | `StartedOnceAlways`, `InOrderAlways` (of `Features` alone), `BootStartedOnce`, `BootInOrder`, `EarlyApartAlways`, `TakenOverAlways` | none; `BootAssumption` says that the reported data lie in memory (`InMemory`) |
| `SlabProofs` | `BitmapsExactAlways`, `EmptyValidAlways`, `SlabsLinkedAlways`, `HandoutOnce` (the action property `NoDoubleHandout`) | `NoOverlay`: no object reaches into its slab's bitmap (finding 2) |
| `VmmProofs` | `TlbCoherentAlways`, `LookupRightAlways`, `FramesAccountedAlways`, `Refinement` (of `PageMap`) | `InRange`, `SecondWindowUncached`, `Below4GB` (`vmm.c:168`, section 5) |
| `VmspaceProofs` | `FramesExclusiveAlways`, `MappedExactlyAlways`, `NothingLostAlways`, `OnlyOutOfMemoryAlways` | `Below4GB` (`vmspace.c:47`, section 5) |
| `KmallocProofs` | `NoCorruptionAlways`, `PayloadsApartAlways`, `BlocksReturnedAlways` | none; up to the moment when an object with bitmap bytes is given out |
| | `NeverOverlaid` | every cache that requests go to has room for its bitmap (finding 2) |
| `InterruptsProofs` | `RacesHealAlways`, `PanicSentAlways`, `ScreenShowsTextAlways` | none; up to a store past the back buffer |

In each module `IInv` is the inductive invariant, and one lemma for each action
shows that the action keeps it.

`BuddyProofs`. `NoOverlap` and `Accounted` are not inductive: a merge is right only
if the block being merged is marked and no other pair of buddies is marked. `IInv`
adds `InFlight`: the block of the call in progress is marked, and two marked
buddies are those that this call has just split or is about to merge. For
`Completeness`, from "no two marked buddies" to "every free aligned block lies in
a marked block", the argument is a least counterexample on the order
(`LeastNatural`, from the library's well-founded induction). In `Refinement` the
free pages are the mapping: splits and merges are stuttering steps.

For `Pmm`, `StartUpSafe` is independent of where the bitmaps are: what
`early_alloc_page` gives out and what `init_physical_memory` registers are apart,
for every memory map. What the allocators then do depends on the layout, which is
wrong on any PC (finding 1), so that there is no theorem about it. There are four
lemmas instead (`NoDoubleUseAlways`, `ConservedAlways`, `ZonePromiseAlways`,
`NoSpuriousFailureAlways`) under the condition `StorageFits`, that the bitmaps of
each zone end where the next ones start. That is what `pmm.c:163-171` was to bring
about; it holds for the small maps of run `pmm`, fails for that of `pmm_layout`, and
would hold if the offsets were repaired. They say that the layout is all
that is wrong. Their argument has four layers:

* Loops. `LoopExists` and `LoopKeeps` say, for any set of states with a rank that
  goes down, that the recursive function exists and that what one round keeps holds
  at the end. For each of the five loops there is a lemma that its rank goes
  down and one that a round keeps the loop's invariant.
* Bits. If `StorageFits`, a bit belongs to one bitmap only (`BitsDiffer`), so that
  setting and clearing it changes one bitmap of one zone (`SetBit`, `ClearBit`,
  `Elsewhere`).
* Blocks. `Marks(b, z)` reads the bitmaps of a zone in the form that `Buddy` has
  them, and the lemmas about blocks are used again. `Sound` says of every zone that
  its free blocks are apart and within the zone and that no two buddies are marked;
  `PairAt` is what holds instead during a loop. That merging stays within the zone,
  which the FIXME at `buddy.c:152` asks for, follows: a block that covers only pages
  of the zone has its index, and that of its buddy, within the bitmap
  (`InZoneIndex`). The effect of each call is stated once, as the pages it takes or
  gives (`AllocEffect`, `BuddyFreeEffect`, `FreeRangeEffect`, `RegisterEffect`).
* Steps. `PmmIInv` says of the early stage that the ranges are apart from each other,
  the kernel and the pages taken, and of the full stage that free and handed out pages
  are together what was registered; one lemma for each action.

`PmmAssumption` asks of every range at 1MB that it is at least `KernelEnd` long, an
empty one included: `remove_range` subtracts without a check.

`SpinlockProofs`. `FlagInv` says what each context of the CPU that uses the locks
carries: the value of the flag from before its first lock, first in `saved` and
then in `lock->interrupts`; that a context which is not running has no lock; and
that on all other CPUs no call was ever made. `OneCPU` is needed for the flag:
`spinlock_release` reads `lock->interrupts` after it has given up the lock, and on
another CPU the next owner may have overwritten it. The kernel runs on one CPU
(`get_num_cpucores` returns 1).

`BootProofs`. A feature is marked exactly if it was started or its call is on
the stack, and it is in only one place (`MarkInv`): this bounds the recursion by
the number of features even if the table has a cycle. For the order, `OrderInv`
and `SortedInv` speak of any numbering of the features that goes up from
prerequisites to those that name them: the stack goes down in it, so what a
call has passed is done or is just above it. The rest of the module shows that the
loader's steps and the walk of `init_memory` are stuttering steps of `Features`,
or the step that `Features` makes for `x86/mem`; `EarlyInv` orders the copies by
the request that made them.
For `TakenOver`, `LoaderInv` says that with reliable data `idx` is exactly the
sum of the copies made so far, so that no request fails, and `WalkInv` that the
loop of `init_memory` is always between two entries and has taken over the
available ones before it (`Took`), the n-th of them as the n-th range. Where
entries end is a recursive function (`Ends`); that it is well defined and grows,
so that the loop finds one entry where it is, is proved by a least counterexample
(`AddsExists`, `EndsAre`, `EndsGrow`). The loop runs once because a feature whose
init function runs is not started (`MarkInv`), and its bound of 128 ranges loses
none because `ranges` holds fewer: hence `MaxRanges <= MaxEntries` in
`BootAssumption`.

`SlabProofs`. `IInv` adds to the three invariants that `c->empty`, if set, is in a
slab of the list and its bit is clear. `slab_cache_free` compares `c->empty` with
a slab that it is about to return: the proof of this step needs both
`BitmapsExact` (the slab is really unused) and `SlabsLinked` (taking it out of the
list leaves no other out). `RoomForBitmap` gives the condition on sizes from
which `NoOverlay` follows.

`VmmProofs`. `IInv` says where the two windows point (`WindowInv`), that each table
has one place and is no directory (`FrameInv`, `UseInv`), and that the TLB agrees
with the tables even after a panic (`TlbInv`). From these follow what an access
through a window reaches (`WindowDir`, `WindowTable`, `SecondWindow`), and what
each handler writes: in all, nothing but the entry of the page that is being
mapped or unmapped changes a translation. The clone that is being filled in
holds what its frame held before, so only its first `call.d` entries are
spoken of (`Filled`). The result is for any number of clones. Hypotheses: `InRange`
says that callers map only pages between the loader's tables and the windows, for
their whole length; `SecondWindowUncached` that the TLB keeps no page of the
second window, which `clone_address_space` moves and fills without an `invlpg`
(`vmm.c:386`, "FIXME"). `AllUser` is the lemma that `PAGE_TABLE_SIZE * i`
wraps to 0 for every entry, at any size of tables.

`VmspaceProofs`. The invariant follows a call through its rounds: pages of the
call, those of them that are mapped (`CallMapped`), frames that are taken and not
yet mapped (`Pending`), and the one page whose frame `vmspace_free` has already
given back (`Stale`). Every page for callers and every frame is in one of the
places (`PageInv`, `FrameInv`), so that others may take frames between any
two rounds.

`KmallocProofs`. `Layout` places slabs, large blocks and objects in the pages of the
vmspace, for all blocks that are held by callers or by calls in progress. Two
blocks are apart for different reasons, one for each pair of kinds (objects of one
slab, of two slabs, large blocks), and a header is intact because no payload
reaches its address; blocks being allocated or freed by an interrupted context
count as held. `Overlaid` objects end the argument, and a cache gives one out only
if it has no room for the bitmap (`SomeOverlaid`); from that follows
`NeverOverlaid`.

`InterruptsProofs`. A handler may stop `vgaterm_putchar` between any two stores,
print, and return. `RacesHeal` is not inductive: while a context is
stopped inside `putchar`, the cursor may be past the end of a line or of the
screen. `HealInv` says what the code that is left does about it. `Clean` is
what `putchar` knows at each of its steps if nobody moves the cursor;
`KernelKeeps` is what remains of it for an interrupted kernel when a handler has
moved the cursor anywhere on the screen, `HandlerKeeps` the same for a
handler that `panic` interrupts; `KernelNeeds` says that the rest of the interrupted
`putchar` brings the cursor back from wherever the handler leaves it. `StackInv`
gives the possible stacks of contexts. The attempt showed that a CPU which
resets on an exception without a gate has to have its interrupt flag off, as the
hardware does it; the model had left the flag alone.
Nothing is claimed of the time after a store past the back buffer (`wild`); that
only prints which race come to it is part of the theorem.
For `PanicSent`, `SentInv` adds that `panic` has `printk`'s buffer to itself:
nothing runs above it, so that from its `format` step on the buffer is its
text, up to the NUL (`Prints`), and what has been sent to the serial console ends
with the part that `panic` has passed (`SentEnds`). The assumption of
`Interrupts` that every text is shorter than the buffer is needed here: `printk`
does not check it (`utils.c`).
For `ScreenShowsText`, `ScreenInv` ties the terminal to the text printed so far.
`Roll`, the position after each character, is a recursive function; that it is
well defined, that it depends on the text before it only and that positions only
grow (so that no two characters have the same cell) is proved by a least
counterexample on the length (`RollExists`, `RollAgrees`, `RollMoves`, from the
library's well-founded induction). `Rest(k)` says what both buffers and cursors
are after `k` characters, `Middle` what they are at each step of `putchar` on the
way from `k` to `k + 1`, line by line while it scrolls, and `Progress` which of
the two holds at each step of the call. `ConsInv` says that the terminal is
registered once, so that each character is put once.

Only model-checked:

* liveness (`CallReturns`, `AcquireReturns`, `BootEnds`, `Acknowledged`), which is
  beyond the prover;
* `Formatting` and `Library`, because of recursive operators or because
  they are functions over data; `Images` likewise.

## 5. Findings

1. `pmm.c:167`: the bitmaps of the zones overlap (run `pmm_layout`).
2. `slab.c:125`: the bitmap of a slab overlaps its last objects (run
   `slab_overlap`); of the `kmalloc` caches, those of 8, 16 and 32 bytes are
   affected.

Seen in the code while modelling, without a run of their own:

* `hal.h:123`: "Require that the returned page be < 0x10000000" is 256MB, while the name
  is `PAGE_REQ_UNDER4GB` and `pmm.c` gives out pages up to 4GB (0x100000000).
  `ZonePromise` is about the limit that the code uses.
* `locking.c:27`: with two CPUs `lock->interrupts` may belong to the next owner when
  `spinlock_release` reads it, so that the flag comes on under an outer lock or
  stays off. The kernel uses one CPU; `MaskedWhileHeld` and `FlagRestored` are about
  that (`OneCPU`).
* `vmm.c:168`, `vmm.c:375`: physical addresses above 4GB are cut to 32 bits (`cut`). Run
  and theorems are about memory below 4GB.
* `ramfs.c:31-43`: sizes and counts are `uint32_t` in the image and are returned as
  `int`; an image of 2GB has a negative size.
* `elf.c`: the end of a symbol is computed in 32 bits, so that one which ends at the
  top of the address space is never found.
* `vmspace.c:47`: frames above 4GB, which `PAGE_REQ_NONE` prefers, are cut to 32
  bits (`uintptr` in `Vmspace`), and other frames are mapped.
* `slab.c:140`, `kmalloc.c:47`: the result of `vmspace_alloc` is not looked at; when
  address space runs out, `~0` is written through (`wild`).
* `kmain.c:46`: the kernel still prints after `enable_interrupts()`, and a tick or
  an unhandled interrupt prints too. `printk`'s buffer may then be garbled, and
  `vgaterm.c:105` may write past `term_backbuff` (`wild` in `Vgaterm` can be
  reached). `RacesHeal` bounds the harm only up to that store: the cursor, the
  pointer to the front buffer or other statics may be what it overwrites.
* `loader2.c:131`: the copy of the memory map is made and its address thrown away,
  while `loader2.c:28` says that `mboot` has "all its pointers pointing to memory
  that has been earlyalloc()d". `loader2.c` and `mem.c` look at the flag for `mem_lower`, not at the one for the map.
* `loader2.c`: results of `earlyalloc` are not looked at; without a command line
  `tokenize` reads whatever is there, and a map that does not fit is read at 0.
  `loader2.c:51`: `elf` has no initial value if a section is missing.
* `mem.c:36`: `ranges` has 32 elements, and the loop goes to 128.
* `kmain.c:71`: `strcmp` is used as if it returned true for equal strings, so that
  any argument but the debugging one turns debugging on.
* `vsprintf.c:125`, `vsprintf.c:140`: a `*` is not skipped, so that a width or
  precision given by it ends the directive (`Amount`).
* `arch/x86/hal.c:50`: a symbol that is not found is passed to `%s` as NULL.
* `ramfs.c` is not linked into the kernel, only into its test.
* `buddy.c:110`: a misaligned start of a range moves up and the extent stays, so
  that a page past the end of the range is freed.
* `kmalloc.c:41`: for a request above 2GB, `1U << l2` shifts by 32, and the
  block is a page.
* `kmain.c:143`: a negative result of an init function counts as success, while
  `hal.h:284` says "Returns >0 on success".
* `timer.c:31`: `x86/pit` calls `install_isr` before `x86/mem` is up, which
  `isrs.c:161` forbids; it does not name `x86/mem` as a prerequisite.
* `vmm.c:395`: `PAGE_TABLE_SIZE * i` is 0 in 32 bits, so that every directory entry
  counts as user-mode and a clone gets its own kernel tables (`is_user`).
* `vmm.c:414`: an entry of a cloned table is written only if it is writable and
  `make_cow` is set; the rest is what the frame held before (`CloneEntry`). The
  old address space keeps its write access, although `hal.h:150` says that "all
  pages marked WRITE are modified so that they are copy-on-write".
* `vmm.c:386`: no `invlpg` when the second window gets another directory, so that a
  second clone could write into the first one's. The run makes one clone.
* `vmm.c:56`: `switch_address_space` does not update `current`.
* `vmm.c:275`: `iterate_mappings` never returns the page it is given.

Nothing in the kernel calls `clone_address_space`, `switch_address_space` or
`iterate_mappings` yet.

## 6. Not modelled, and plan

Not modelled:

* `switch_address_space`, `iterate_mappings` (`vmm.c`), `slab_cache_destroy` (`slab.c`),
  `uninstall_isr` (`isrs.c`),
  `vgaterm_moveto`, `debugk`: nothing calls them. Clones after the first, for
  the reason given in section 5.
* Encodings of descriptor tables, port I/O, the stubs and the jump to the higher
  half (`gdt.c`, `.s` files); the programming of the timer chip and the serial
  port; wording and colours of messages; the lines of
  the stack trace one by one (it is part of the text of `panic`).
* The unit-test framework, and the tests of `ramfs.c` themselves.

Left to prove: nothing that a run checks as an invariant, but for those of `Library`.
