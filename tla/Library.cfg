SPECIFICATION Spec
CONSTANTS
    Word = 32
    NameSize = 2
    AddrSpace = 8
    NULL = NULL
    Pending = Pending
    Numbers <- SmallNumbers
    Directives <- SmallDirectives
    Lines <- SmallLines
    Files <- SmallFiles
    Symbols <- SmallSymbols
INVARIANTS
    NumberRight
    VsprintfRight
    LookupsRight
