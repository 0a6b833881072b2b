----------------------------- MODULE MCLibrary -----------------------------
(* Inputs for the functions of Library.                                    *)
EXTENDS Library

SmallNumbers ==
    [num : {-16, -15, -9, -1, 0, 1, 7, 8, 10, 15},
     base : {2, 8, 10, 16},
     size : {-1, 0, 2, 6},
     precision : {-1, 0, 3},
     type : SUBSET {"ZEROPAD", "SIGN", "PLUS", "SPACE", "LEFT", "SPECIAL", "SMALL"}]

(* The argument that a conversion takes.                                   *)
Args(c) ==
    CASE c = "s" -> {<<>>, <<"t", "u", "v">>}
      [] c = "c" -> {"t"}
      [] OTHER -> {-3, 12}

SmallDirectives ==
    UNION {[before : {<<>>, <<"a">>}, after : {<<>>, <<"b">>},
            flags : SeqOf(DOMAIN FlagOf, 2),
            width : {<<>>, <<"4">>, <<"1", "2">>},
            precision : {<<>>, <<"0">>, <<"1", "1">>},
            qualifier : {<<>>, <<"l">>},
            conversion : {c}, arg : Args(c)]
           : c \in DOMAIN Base \cup {"c", "s", "%", "q", "n"}}

SmallLines == [line : SeqOf({" ", "w"}, 5), maxout : 0 .. 3]

(* With names of two characters, the last two are the same.                *)
Names == {<<>>, <<"a">>, <<"a", "b">>, <<"a", "b", "c">>}

SmallFiles ==
    UNION {[magic : {MINK_RAMFS_MAGIC, "bad", NULL}, version : {10, 11},
            names : [1 .. n -> {m \in Names : Len(m) <= NameSize}],
            length : [1 .. n -> {0, 1}], count : 0 .. n, name : Names \cup {NULL}]
           : n \in 0 .. 2}

(* The last value and size make a symbol that reaches the end of memory.   *)
SymbolEntries == [type : {0, STT_FUNC}, value : {0, 2, 3, 6}, size : {0, 2}, name : {"f", "g"}]

SmallSymbols == [symtab : UNION {[1 .. n -> SymbolEntries] : n \in 0 .. 2}, addr : 0 .. (AddrSpace - 1)]
=============================================================================
