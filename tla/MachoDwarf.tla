---------------------------- MODULE MachoDwarf ----------------------------
(***************************************************************************)
(* machoCombineDwarf (cmd/link/internal/ld/macho_combine_dwarf.go): the   *)
(* linker copies a Mach-O executable into a new file with the __DWARF     *)
(* segment of its dSYM inserted before __LINKEDIT, adds a load command    *)
(* for it in the header padding, and moves every file offset that points *)
(* into __LINKEDIT.                                                        *)
(*                                                                         *)
(* A file is a function from offsets to labels naming where each byte     *)
(* came from, so a rewritten offset is right exactly when it points at    *)
(* the label the old one pointed at.  Offsets are in small units; a load  *)
(* command is a record with its length, and the header is the sequence of *)
(* them from cmdOffset on.  Seeks, reads and writes are the updates of    *)
(* the file functions they perform; I/O errors are not modelled.          *)
(***************************************************************************)
EXTENDS Naturals, Sequences, FiniteSets, FiniteSetsExt, SequencesExt

CONSTANTS
  Exes,           \* the executables: [cmdOffset, size, cmds]
  Dsyms,          \* the dSYMs: their __DWARF segment command and zlib sizes
  Rounds,         \* values of -R (*FlagRound)
  MaxOut          \* a bound on the output file's size

ExeByte(i)   == <<"exe", i>>
DsymByte(i)  == <<"dsym", i>>
ZByte(k, j)  == <<"z", k, j>>     \* byte j of the compressed section k
CmdByte(j)   == <<"cmd", j>>      \* byte j of the inserted load command
Hole         == <<"hole">>

\* Rnd (lib.go): v rounded up to a multiple of r.
Rnd(v, r) == IF r <= 0 THEN v ELSE ((v + r - 1) \div r) * r

\* Writing the labels s at offset at.
Write(f, at, s) ==
  [x \in DOMAIN f |-> IF at <= x /\ x < at + Len(s) THEN s[x - at + 1] ELSE f[x]]

Bytes(L(_), from, n) == [j \in 1..n |-> L(from + j - 1)]

\* exem.Segment(name): the index of the segment command, or 0 when missing.
Segment(cmds, name) ==
  LET ks == {k \in DOMAIN cmds : cmds[k].kind = "seg64" /\ cmds[k].name = name}
  IN  IF ks = {} THEN 0 ELSE Min(ks)

\* exem.Section(name): the sections of that name; nil is the empty set.
Section(cmds, name) ==
  LET segs == {k \in DOMAIN cmds : cmds[k].kind = "seg64"}
  IN  {x \in UNION {Range(cmds[k].sects) : k \in segs} : x.name = name}

CmdsSize(cmds) == FoldLeft(LAMBDA a, c : a + c.len, 0, cmds)

\* The header offset at which load command k starts.
CmdOff(e, cmds, k) == e.cmdOffset + CmdsSize(SubSeq(cmds, 1, k - 1))

\* The fields machoUpdateLoadCommand moves, by command kind.
UpdatedFields ==
  [dyld_info     |-> {"RebaseOff", "BindOff", "WeakBindOff", "LazyBindOff", "ExportOff"},
   symtab        |-> {"Symoff", "Stroff"},
   dysymtab      |-> {"Tocoffset", "Modtaboff", "Extrefsymoff", "Indirectsymoff",
                      "Extreloff", "Locreloff"},
   linkedit_data |-> {"DataOff"},
   encryption    |-> {"CryptOff"}]

\* Load commands the loop leaves alone.
Untouched == {"dylib", "main", "load_dylinker", "source_version", "build_version"}

(***************************************************************************)
(* machoCompressSection: "ZLIB", the size and the zlib stream, kept only  *)
(* if shorter than the section.  zsize is that length, which depends on   *)
(* the contents; it is part of the dSYM input.                            *)
(***************************************************************************)
machoCompressSection(d, k) ==
  LET s == d.seg.sects[k] IN
  IF d.zsize[k] >= s.size
  THEN [compressed |-> FALSE, contents |-> Bytes(DsymByte, s.offset, s.size)]
  ELSE [compressed |-> TRUE, contents |-> Bytes(LAMBDA j : ZByte(k, j), 0, d.zsize[k])]

(***************************************************************************)
(* machoCompressSections: nil unless compressDWARF and no section has     *)
(* relocations; else the sections at their offsets in the new contents.  *)
(***************************************************************************)
RECURSIVE CompressFrom(_, _, _, _)
CompressFrom(d, k, sects, buf) ==
  IF k > Len(d.seg.sects) THEN [sects |-> sects, bytes |-> buf]
  ELSE LET c   == machoCompressSection(d, k)
           new == [d.seg.sects[k] EXCEPT
                     !.offset = d.seg.offset + Len(buf),
                     !.size   = IF c.compressed THEN Len(c.contents) ELSE @]
       IN  CompressFrom(d, k + 1, Append(sects, new), buf \o c.contents)

machoCompressSections(d, compress) ==
  IF ~compress \/ \E k \in DOMAIN d.seg.sects : d.seg.sects[k].nreloc # 0
  THEN [sects |-> <<>>, bytes |-> <<>>, nil |-> TRUE]
  ELSE LET r == CompressFrom(d, 1, <<>>, <<>>)
       IN  [sects |-> r.sects, bytes |-> r.bytes, nil |-> FALSE]
(***************************************************************************)
(* The load command updates.  Offsets are uint32 and uint64 fields; the   *)
(* files here are far below 4 GiB, so the additions do not wrap.          *)
(***************************************************************************)

\* A variant that places a compressed section at its offset in the dSYM.
machoUpdateSectionsNoDelta(seg, delta, cs) ==
  [seg EXCEPT !.sects =
     [j \in DOMAIN @ |->
        IF ~cs.nil
        THEN [@[j] EXCEPT !.size = cs.sects[j].size, !.offset = cs.sects[j].offset]
        ELSE [@[j] EXCEPT !.offset = IF @ # 0 THEN @ + delta ELSE @,
                          !.reloff = IF @ # 0 THEN @ + delta ELSE @]]]

\* machoUpdateSections: with compressed sections, each takes the compressed
\* size and its offset in the new contents plus delta; otherwise nonzero
\* offsets and relocation offsets move by delta.
machoUpdateSections(seg, delta, cs) ==
  [seg EXCEPT !.sects =
     [j \in DOMAIN @ |->
        IF ~cs.nil
        THEN [@[j] EXCEPT !.size   = cs.sects[j].size,
                          !.offset = IF cs.sects[j].offset # 0
                                     THEN cs.sects[j].offset + delta ELSE @]
        ELSE [@[j] EXCEPT !.offset = IF @ # 0 THEN @ + delta ELSE @,
                          !.reloff = IF @ # 0 THEN @ + delta ELSE @]]]

NoCompression == [sects |-> <<>>, bytes |-> <<>>, nil |-> TRUE]

\* machoUpdateSegment: only a segment at or after __LINKEDIT moves.
machoUpdateSegment(seg, linkOff, linkoffset) ==
  IF seg.offset < linkOff THEN seg
  ELSE machoUpdateSections([seg EXCEPT !.offset = @ + linkoffset],
                           linkoffset, NoCompression)

\* A variant that moves only fields strictly past __LINKEDIT's start.
machoUpdateLoadCommandStrict(cmd, fields, linkOff, linkoffset) ==
  [cmd EXCEPT !.f = [n \in DOMAIN @ |->
                      IF n \in fields /\ @[n] > linkOff THEN @[n] + linkoffset
                      ELSE @[n]]]

\* machoUpdateLoadCommand: the named fields at or after __LINKEDIT move.
machoUpdateLoadCommand(cmd, fields, linkOff, linkoffset) ==
  [cmd EXCEPT !.f = [n \in DOMAIN @ |->
                      IF n \in fields /\ @[n] >= linkOff THEN @[n] + linkoffset
                      ELSE @[n]]]

VARIABLES
  in,       \* the inputs: [exe, dsym, round, compress]
  out,      \* outf's contents: offset -> label
  cmds,     \* the load commands in outf's header, in order
  hdr,      \* outf's Ncmd and Cmdsz
  reader,   \* loadCmdReader: [offset, next]
  i,        \* the loop counter over exem.Ncmd
  loc,      \* linkseg.Offset, dwarfstart, dwarfsize, linkstart, compressedSects
  pc        \* "combine", "loop", "header", "done", or the error returned

vars == <<in, out, cmds, hdr, reader, i, loc, pc>>

Init ==
  /\ in \in [exe : Exes, dsym : Dsyms, round : Rounds, compress : BOOLEAN]
  /\ out = [x \in 0..MaxOut - 1 |-> Hole]
  /\ cmds = in.exe.cmds
  /\ hdr = [ncmd |-> Len(in.exe.cmds), cmdsz |-> CmdsSize(in.exe.cmds)]
  /\ reader = [offset |-> 0, next |-> 0]
  /\ i = 0
  /\ loc = [linkOff |-> 0, dwarfstart |-> 0, dwarfsize |-> 0, linkstart |-> 0,
            cs |-> NoCompression]
  /\ pc = "combine"

(***************************************************************************)
(* machoCombineDwarf up to the loop: copy the executable up to            *)
(* __LINKEDIT, the DWARF (compressed or not) at dwarfstart, __LINKEDIT at *)
(* linkstart; check for room and write the __DWARF command after the     *)
(* last one; bump Ncmd and Cmdsz.  The checks return in the code's order, *)
(* leaving what was written so far.                                      *)
(***************************************************************************)
Combine ==
  LET e      == in.exe
      d      == in.dsym
      ls     == Segment(e.cmds, "__LINKEDIT")
      L      == e.cmds[ls].offset
      cs     == machoCompressSections(d, in.compress)
      dstart == Rnd(L, in.round)
      dsize  == IF cs.nil THEN d.seg.filesz ELSE Len(cs.bytes)
      lstart == Rnd(dstart + dsize, in.round)
      f1     == Write(out, 0, Bytes(ExeByte, 0, L))
      f2     == Write(f1, dstart, IF cs.nil THEN Bytes(DsymByte, d.seg.offset, d.seg.filesz)
                                  ELSE cs.bytes)
      f3     == Write(f2, lstart, Bytes(ExeByte, L, e.size - L))
      text   == CHOOSE x \in Section(e.cmds, "__text") : TRUE
      dwarfCmdOffset == e.cmdOffset + CmdsSize(e.cmds)
      \* availablePadding is a uint32 difference: it wraps when text precedes
      \* the end of the load commands, and then the check passes.
      noRoom == text.offset >= dwarfCmdOffset /\ text.offset - dwarfCmdOffset < d.seg.len
  IN
  /\ pc = "combine"
  /\ CASE ls = 0 ->
          pc' = "missing __LINKEDIT segment" /\ UNCHANGED <<out, cmds, hdr, loc>>
       [] Section(e.cmds, "__text") = {} ->
          pc' = "missing __text section" /\ out' = f3 /\ UNCHANGED <<cmds, hdr, loc>>
       [] noRoom ->
          pc' = "no room to add dwarf info" /\ out' = f3 /\ UNCHANGED <<cmds, hdr, loc>>
       [] OTHER ->
          /\ out' = Write(f3, dwarfCmdOffset, Bytes(CmdByte, 0, d.seg.len))
          /\ cmds' = Append(e.cmds, d.seg)
          /\ hdr' = [ncmd |-> Len(e.cmds) + 1, cmdsz |-> CmdsSize(e.cmds) + d.seg.len]
          /\ loc' = [linkOff |-> L, dwarfstart |-> dstart, dwarfsize |-> dsize,
                     linkstart |-> lstart, cs |-> cs]
          /\ pc' = "loop"
  /\ reader' = [offset |-> 0, next |-> e.cmdOffset]
  /\ UNCHANGED <<in, i>>

\* loadCmdReader.Next: the command that starts at reader.next.
NextCmd == CHOOSE k \in DOMAIN cmds : CmdOff(in.exe, cmds, k) = reader.next
AdvanceReader ==
  reader' = [offset |-> reader.next, next |-> reader.next + cmds[NextCmd].len]

(***************************************************************************)
(* One iteration of the loop over exem.Ncmd commands: read the next one   *)
(* and update it by its kind.                                             *)
(***************************************************************************)
UpdateCmd ==
  LET k   == NextCmd
      c   == cmds[k]
      lo  == loc.linkstart - loc.linkOff
  IN
  /\ pc = "loop"
  /\ i < Len(in.exe.cmds)
  /\ AdvanceReader
  /\ i' = i + 1
  /\ CASE c.kind = "seg64" ->
          cmds' = [cmds EXCEPT ![k] = machoUpdateSegment(c, loc.linkOff, lo)] /\ UNCHANGED pc
       [] c.kind = "seg32" ->
          pc' = "panic: unexpected 32-bit segment" /\ UNCHANGED cmds
       [] c.kind \in DOMAIN UpdatedFields ->
          /\ cmds' = [cmds EXCEPT ![k] = machoUpdateLoadCommand(c, UpdatedFields[c.kind],
                                                                loc.linkOff, lo)]
          /\ UNCHANGED pc
       [] c.kind = "uuid" ->
          cmds' = [cmds EXCEPT ![k].uuid = "buildid"] /\ UNCHANGED pc
       [] c.kind \in Untouched -> UNCHANGED <<cmds, pc>>
       [] OTHER -> pc' = "unknown load command" /\ UNCHANGED cmds
  /\ UNCHANGED <<in, out, hdr, loc>>

(***************************************************************************)
(* machoUpdateDwarfHeader: the command after the last one is the __DWARF *)
(* segment; it gets dwarfstart, its file size, no address, and its       *)
(* sections move by dwarfstart - realdwarf.Offset.                       *)
(***************************************************************************)
machoUpdateDwarfHeader ==
  LET k   == NextCmd
      c   == cmds[k]
      seg == [c EXCEPT !.offset = loc.dwarfstart,
                       !.filesz = IF ~loc.cs.nil
                                  THEN FoldLeft(LAMBDA a, x : a + x.size, 0, loc.cs.sects)
                                  ELSE loc.dwarfsize,
                       !.addr = 0]
  IN
  /\ pc = "loop"
  /\ i = Len(in.exe.cmds)
  /\ AdvanceReader
  /\ IF c.kind # "seg64"
     THEN pc' = "panic: not a Segment64" /\ UNCHANGED cmds
     ELSE /\ cmds' = [cmds EXCEPT ![k] = machoUpdateSections(seg,
                                            loc.dwarfstart - in.dsym.seg.offset, loc.cs)]
          /\ pc' = "done"
  /\ UNCHANGED <<in, out, hdr, i, loc>>

Next == Combine \/ UpdateCmd \/ machoUpdateDwarfHeader

Spec == Init /\ [][Next]_vars

PointsAt(x, lab) == x \in DOMAIN out /\ out[x] = lab

\* Command n, the rewrite of o, locates the same executable bytes.
Preserved(o, n) ==
  CASE o.kind = "seg64" ->
         /\ o.filesz > 0 =>
              /\ PointsAt(n.offset, ExeByte(o.offset))
              /\ PointsAt(n.offset + o.filesz - 1, ExeByte(o.offset + o.filesz - 1))
         /\ \A s \in DOMAIN o.sects : \A j \in 0..o.sects[s].size - 1 :
              PointsAt(n.sects[s].offset + j, ExeByte(o.sects[s].offset + j))
    [] o.kind \in DOMAIN UpdatedFields ->
         \A f \in DOMAIN o.f \cap UpdatedFields[o.kind] : PointsAt(n.f[f], ExeByte(o.f[f]))
    [] OTHER -> TRUE

(***************************************************************************)
(* Every file offset in the executable's load commands (segments,        *)
(* sections, dyld info, symbol tables, code signature, encryption) points *)
(* in the combined file at the bytes it pointed at before: the copies,   *)
(* the rounding of dwarfstart and linkstart and the ">= linkseg.Offset"  *)
(* moves of machoUpdateSegment and machoUpdateLoadCommand agree.          *)
(***************************************************************************)
OffsetsPreserved ==
  pc = "done" => \A k \in 1..Len(in.exe.cmds) : Preserved(in.exe.cmds[k], cmds[k])

\* Byte j of DWARF section s as the combined file should hold it.
DwarfByte(s, j) ==
  IF ~loc.cs.nil /\ in.dsym.zsize[s] < in.dsym.seg.sects[s].size
  THEN ZByte(s, j)
  ELSE DsymByte(in.dsym.seg.sects[s].offset + j)

(***************************************************************************)
(* The header counts the inserted __DWARF command, and each of its       *)
(* sections, compressed or not, lies inside the segment's file range and *)
(* holds that section's bytes: the offsets machoCompressSections computes *)
(* in the dSYM and machoUpdateDwarfHeader moves to dwarfstart, and the   *)
(* Filesz it sums, match what was written.                               *)
(***************************************************************************)
DwarfSegmentPlaced ==
  pc = "done" =>
    LET dc == cmds[Len(cmds)] IN
    /\ hdr = [ncmd |-> Len(cmds), cmdsz |-> CmdsSize(cmds)]
    /\ \A s \in DOMAIN dc.sects :
         /\ dc.offset <= dc.sects[s].offset
         /\ dc.sects[s].offset + dc.sects[s].size <= dc.offset + dc.filesz
         /\ \A j \in 0..dc.sects[s].size - 1 : PointsAt(dc.sects[s].offset + j, DwarfByte(s, j))
====
