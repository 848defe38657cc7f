--------------------------- MODULE MCMachoDwarf ---------------------------
(***************************************************************************)
(* Small Mach-O inputs for MachoDwarf, in units of a load command: a      *)
(* header of one unit, then __PAGEZERO, __TEXT with __text at T, __DATA,  *)
(* __LINKEDIT at L = T + 4 with four bytes of dyld info, symbols, strings *)
(* and signature, and the commands that point into it.  T = 16 leaves no *)
(* room for the three-unit __DWARF command, T = 17 just enough.  The      *)
(* last command is LC_MAIN, an unknown one, or a 32-bit segment.          *)
(***************************************************************************)
EXTENDS MachoDwarf

Sec(n, o, sz, nr) == [name |-> n, offset |-> o, size |-> sz, reloff |-> 0, nreloc |-> nr]
Seg(n, ln, o, sz, ss) ==
  [kind |-> "seg64", name |-> n, len |-> ln, offset |-> o, filesz |-> sz, addr |-> 1, sects |-> ss]
Cmd(k, f) == [kind |-> k, len |-> 1, f |-> f]

Exe(T, last) ==
  LET L == T + 4 IN
  [cmdOffset |-> 1, size |-> L + 4,
   cmds |-> << Seg("__PAGEZERO", 1, 0, 0, <<>>),
               Seg("__TEXT", 2, 0, T + 2, <<Sec("__text", T, 2, 0)>>),
               Seg("__DATA", 2, T + 2, 2, <<Sec("__data", T + 2, 2, 0)>>),
               Seg("__LINKEDIT", 1, L, 4, <<>>),
               Cmd("dyld_info", [RebaseOff |-> L, RebaseLen |-> 1, BindOff |-> L + 1,
                                 BindLen |-> 1, WeakBindOff |-> 0, WeakBindLen |-> 0,
                                 LazyBindOff |-> L + 1, LazyBindLen |-> 0,
                                 ExportOff |-> L + 2, ExportLen |-> 1]),
               Cmd("symtab", [Symoff |-> L + 2, Nsyms |-> 1, Stroff |-> L + 3, Strsize |-> 1]),
               Cmd("dysymtab", [Tocoffset |-> 0, Modtaboff |-> 0, Extrefsymoff |-> 0,
                                Indirectsymoff |-> L + 3, Nindirectsyms |-> 1,
                                Extreloff |-> 0, Locreloff |-> 0]),
               Cmd("linkedit_data", [DataOff |-> L + 3, DataLen |-> 1]),
               Cmd("encryption", [CryptOff |-> T, CryptLen |-> 2]),
               [kind |-> "uuid", len |-> 1, uuid |-> "linker"],
               [kind |-> last, len |-> 1] >>]

MCExes == {Exe(T, last) : T \in {16, 17}, last \in {"main", "note", "seg32"}}

\* A malformed executable whose __text starts at 13, inside the load
\* commands, which end at 14: availablePadding wraps below zero.
MCExesWrap == {Exe(13, "main")}

\* The dSYM's __DWARF segment at offset 2: __debug_info (3 bytes) and
\* __debug_line (2 bytes) right after it or after a gap; zlib shrinks one
\* of the two; __debug_line may carry relocations.
Dsym(gap, z, nr) ==
  [seg |-> Seg("__DWARF", 3, 2, 5 + gap,
               <<Sec("__debug_info", 2, 3, 0), Sec("__debug_line", 5 + gap, 2, nr)>>),
   zsize |-> z]

MCDsyms == {Dsym(gap, z, nr) : gap \in {0, 1}, z \in {<<2, 2>>, <<3, 1>>}, nr \in {0, 1}}
====
