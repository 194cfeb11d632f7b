---------------------------- MODULE ElfInterface ----------------------------
(***************************************************************************)
(* The headers of an elf file, read twice by different code: Elf::Init     *)
(* reads them all (ReadProgramHeaders, ReadSectionHeaders), and MapInfo    *)
(* asks for the load bias or the build id without making an Elf            *)
(* (ElfInterface::GetLoadBias, ReadBuildIDFromMemory).                     *)
(***************************************************************************)
EXTENDS Integers, Sequences, SequencesExt

CONSTANTS
    ElfFiles,      \* [phdrs, phReadable, shdrs, shReadable, names, fdes]: the headers, how many of each
                   \* can be read, whether the section names can, and the pcs .debug_frame or .eh_frame
                   \* has an FDE for
    Pcs

Word == 2 ^ 8
Wrap(n) == n % Word
NhdrSize == 12
Align4(n) == ((n + 3) \div 4) * 4

VARIABLES file, state,
    load_bias_, pt_loads_, note        \* note: where gnu_build_id_offset_ and gnu_build_id_size_ point

vars == <<file, state, load_bias_, pt_loads_, note>>

NoNote == [name |-> "none", size |-> 0, readable |-> 0, notes |-> <<>>]

Init ==
    /\ file \in ElfFiles /\ state = "new"
    /\ load_bias_ = 0 /\ pt_loads_ = [o \in {} |-> 0] /\ note = NoNote

Readable(headers, n) == SubSeq(headers, 1, n)
Executable(p) == p.type = "LOAD" /\ p.exec

\* One iteration of ReadProgramHeaders, as far as PT_LOAD.
\* Mutant: the bias is set by every executable load.
ReadProgramHeaderLast(s, p) ==
    IF ~Executable(p) THEN s
    ELSE [bias |-> Wrap(p.vaddr - p.offset), first |-> FALSE,
          loads |-> [o \in DOMAIN s.loads \cup {p.offset} |-> IF o = p.offset THEN p ELSE s.loads[o]]]
ReadProgramHeader(s, p) ==
    IF ~Executable(p) THEN s
    ELSE [bias |-> IF s.first THEN Wrap(p.vaddr - p.offset) ELSE s.bias, first |-> FALSE,
          loads |-> [o \in DOMAIN s.loads \cup {p.offset} |-> IF o = p.offset THEN p ELSE s.loads[o]]]

IsBuildId(h) == h.type = "NOTE" /\ h.name = ".note.gnu.build-id"

\* ReadSectionHeaders, as far as SHT_NOTE: a later section replaces an earlier one.
ReadSectionHeader(n, h) == IF file.names /\ IsBuildId(h) THEN h ELSE n

\* Elf::Init, ElfInterfaceImpl::ReadAllHeaders
ReadAllHeaders ==
    LET s == FoldLeft(ReadProgramHeader, [bias |-> 0, first |-> TRUE, loads |-> pt_loads_],
                      Readable(file.phdrs, file.phReadable))
    IN
    /\ state = "new" /\ state' = "ready"
    /\ load_bias_' = s.bias /\ pt_loads_' = s.loads
    /\ note' = FoldLeft(ReadSectionHeader, NoNote, Readable(file.shdrs, file.shReadable))
    /\ UNCHANGED file

\* The owner goes on to use it.
Used == state = "ready" /\ UNCHANGED vars

Next == ReadAllHeaders \/ Used

Spec == Init /\ [][Next]_vars

\* ElfInterface::GetLoadBias: the first executable load, unless a header before it cannot be read.
GetLoadBias ==
    LET loads == SelectSeq(Readable(file.phdrs, file.phReadable), Executable)
    IN  IF loads = <<>> THEN 0 ELSE Wrap(Head(loads).vaddr - Head(loads).offset)

\* GetBuildIDInfo: the first build id section.
GetBuildIDInfo ==
    LET ids == SelectSeq(Readable(file.shdrs, file.shReadable), IsBuildId)
    IN  IF ids = <<>> \/ ~file.names THEN NoNote ELSE Head(ids)

\* One iteration of the loops of ReadBuildID and ReadBuildIDFromMemory, for a note n of section h.
NoteStep(h, s, n) ==
    LET name == s.offset + NhdrSize
        desc == IF n.namesz > 0 THEN name + Align4(n.namesz) ELSE name
        Left(offset) == Wrap(h.size - offset)        \* unsigned
        stop == [s EXCEPT !.done = TRUE]
    IN  CASE s.done \/ s.offset >= h.size -> stop
          [] Left(s.offset) < NhdrSize \/ name > h.readable -> stop
          [] Left(name) < n.namesz \/ name + n.namesz > h.readable -> stop
          [] OTHER ->
                IF n.namesz > 0 /\ n.build_id
                THEN IF Left(desc) < n.descsz \/ n.descsz = 0 \/ desc + n.descsz > h.readable THEN stop
                     ELSE [stop EXCEPT !.id = n.id]
                ELSE [s EXCEPT !.offset = desc + Align4(n.descsz)]

ReadBuildID(h) ==
    FoldLeft(LAMBDA s, n : NoteStep(h, s, n), [offset |-> 0, done |-> FALSE, id |-> ""], h.notes).id

\* ElfInterface::IsValidPc
IsValidPc(pc) ==
    IF DOMAIN pt_loads_ = {} THEN pc \in file.fdes
    ELSE \E o \in DOMAIN pt_loads_ : pt_loads_[o].vaddr <= pc /\ pc < pt_loads_[o].vaddr + pt_loads_[o].memsz

(* Properties.                                                             *)

\* What a section of notes says: the first build id, if it is all there.
Says(h) ==
    LET SizeOf(n) == NhdrSize + Align4(n.namesz) + Align4(n.descsz)
        At(i) == FoldLeft(LAMBDA k, n : k + SizeOf(n), 0, SubSeq(h.notes, 1, i - 1))
        ids == {i \in DOMAIN h.notes : h.notes[i].build_id /\ \A j \in 1 .. i - 1 : ~h.notes[j].build_id}
        whole == {i \in ids : LET n == h.notes[i]
                                  end == At(i) + NhdrSize + Align4(n.namesz) + n.descsz
                              IN  n.descsz > 0 /\ end <= h.size /\ end <= h.readable}
    IN  {h.notes[i].id : i \in whole}

(* The two readers of the headers agree, and read what is there: MapInfo's load bias and build id *)
(* of a map without an Elf are those the Elf would report, also if the file ends among its        *)
(* headers or its notes, and a pc is valid exactly if an executable load contains it or, where no *)
(* such load can be read, an FDE.  Left out are two build id sections (one reader takes the       *)
(* first, the other the last), two loads at one offset, and note sections whose size is not a     *)
(* multiple of four, where the size left wraps.                                                   *)
HeadersExact ==
    LET loads == {i \in 1 .. file.phReadable : Executable(file.phdrs[i])}
        sections == SelectSeq(file.shdrs, IsBuildId)
    IN  state = "ready" =>
        /\ load_bias_ = GetLoadBias
        /\ \A i \in loads : (\A j \in loads : i <= j) => load_bias_ = Wrap(file.phdrs[i].vaddr - file.phdrs[i].offset)
        /\ (\A i, j \in loads : file.phdrs[i].offset = file.phdrs[j].offset => i = j) =>
              \A pc \in Pcs : IsValidPc(pc) <=>
                 \/ \E i \in loads : pc \in file.phdrs[i].vaddr .. file.phdrs[i].vaddr + file.phdrs[i].memsz - 1
                 \/ loads = {} /\ pc \in file.fdes
        /\ Len(sections) <= 1 =>
              /\ ReadBuildID(note) = ReadBuildID(GetBuildIDInfo)
              /\ note.size % 4 = 0 => ReadBuildID(note) \in (IF Says(note) = {} THEN {""} ELSE Says(note))
=============================================================================
