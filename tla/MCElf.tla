------------------------------- MODULE MCElf -------------------------------
(* What is looked up in an ELF or dex file: a behaviour is one of Symbols, of DwarfEhFrameWithHdr, of *)
(* ArmExidx, of ElfInterface, of DexFile, of Regs or of AndroidUnwinder.                             *)
EXTENDS Symbols, ArmWorlds

Some == {<<0, 1, "func">>, <<0, 2, "func">>, <<1, 1, "func">>, <<1, 0, "func">>,
         <<1, 2, "object">>, <<3, 1, "object">>, <<3, 1, "undef">>}
NameOf == <<"a", "b", "a">>
MakeTable(t, n) ==
    [i \in 0 .. n - 1 |->
       [value |-> t[i][1], size |-> t[i][2], type |-> t[i][3], name |-> NameOf[i + 1]]]
AllSymtabs == UNION {{MakeTable(t, n) : t \in [0 .. n - 1 -> Some]} : n \in 0 .. 3}

SomeFdes == {[pc_start |-> r[1], pc_end |-> r[2]] : r \in {<<1, 3>>, <<2, 2>>, <<3, 3>>, <<3, 4>>}}
HdrEntry(pc_, fde) == [pc |-> pc_, fde |-> fde]
ProperEntries == {HdrEntry(f.pc_start, f) : f \in SomeFdes}
\* An FDE that starts after the pc of its entry, one that starts before it, one that cannot be read.
OtherEntries == {HdrEntry(r[1], [pc_start |-> r[2], pc_end |-> r[3]]) : r \in {<<1, 3, 4>>, <<2, 1, 3>>, <<2, -1, -1>>}}
HdrTables ==
    [0 .. 3 -> ProperEntries] \cup UNION {[0 .. n - 1 -> ProperEntries \cup OtherEntries] : n \in 0 .. 3}

Phdrs ==
    [type : {"LOAD"}, exec : BOOLEAN, offset : {0, 4}, vaddr : {0, 6}, memsz : {3}]
    \cup {[type |-> "OTHER", exec |-> TRUE, offset |-> 1, vaddr |-> 9, memsz |-> 1]}
Note(namesz, build_id, descsz, id) == [namesz |-> namesz, build_id |-> build_id, descsz |-> descsz, id |-> id]
SomeNotes == {Note(4, TRUE, 8, "x"), Note(4, TRUE, 0, "y"), Note(4, FALSE, 5, "z"), Note(0, FALSE, 4, "w"),
              Note(3, TRUE, 5, "v")}
NoteLists == {<<>>} \cup {<<a>> : a \in SomeNotes} \cup {<<a, b>> : a \in SomeNotes, b \in SomeNotes}
Section(section, size, readable, notes) ==
    [type |-> "NOTE", name |-> section, size |-> size, readable |-> readable, notes |-> notes]
OtherNotes == Section("other", 24, 60, <<Note(4, TRUE, 8, "x")>>)
SectionLists ==
    {<<OtherNotes, Section(".note.gnu.build-id", size, readable, notes)>> :
       size \in {0, 15, 16, 24, 28, 48}, readable \in {12, 24, 60}, notes \in NoteLists}
HeaderFiles ==
    UNION {{[phdrs |-> p, phReadable |-> n, shdrs |-> <<>>, shReadable |-> 0, names |-> TRUE, fdes |-> {3, 5}] :
              p \in [1 .. n + k -> Phdrs]} : n \in 0 .. 2, k \in 0 .. 1}
    \cup {[phdrs |-> <<>>, phReadable |-> 0, shdrs |-> s, shReadable |-> r, names |-> b, fdes |-> {}] :
             s \in SectionLists, r \in {1, 2}, b \in BOOLEAN}

DexMap(base, backed, refused) ==
    [key |-> 1, base |-> base, size |-> 4, backed |-> backed, refused |-> refused]
DexMaps == {DexMap(0, TRUE, FALSE), DexMap(2, TRUE, FALSE), DexMap(0, TRUE, TRUE), DexMap(0, FALSE, FALSE)}
Method(class, offset, size) == [class |-> class, offset |-> offset, size |-> size]
DexContents ==
    {{}, {Method(2, 1, 2), Method(1, 3, 1)}, {Method(1, 0, 1), Method(2, 1, 1), Method(1, 2, 2)}}

Site(arch, rel_pc, size, tops, valid, load_bias, readable) ==
    [arch |-> arch, rel_pc |-> rel_pc, size |-> size, tops |-> tops, valid |-> valid,
     load_bias |-> load_bias, readable |-> readable]
\* The ends of blx reg; of bl near and far; of code that is no call.
ThumbTops(size) == IF size = 2 THEN {<<15, 2>>, <<4, 2>>} ELSE {<<15, 7>>, <<15, 6>>}
CallSizes == [arm64 |-> {0, 4}, riscv64 |-> {0, 4}, mips |-> {0, 8}, mips64 |-> {0, 8},
              x86 |-> {0, 2, 5}, x86_64 |-> {0, 2, 5, 7}]
RegsSites ==
    {s \in UNION {{Site("arm", rel_pc, size, t, v, b, r) : t \in ThumbTops(size)} :
                    rel_pc \in 0 .. 13, size \in {0, 2, 4}, v \in BOOLEAN, b \in {0, 4}, r \in BOOLEAN} :
         /\ s.size = 2 => s.rel_pc % 2 = 1
         /\ LET end == s.rel_pc - (s.rel_pc % 2)
            IN  end - s.size >= 0 /\ (s.size = 0 \/ s.rel_pc < s.load_bias \/ end - s.size >= s.load_bias)}
    \cup {s \in UNION {{Site(a, rel_pc, size, <<0, 0>>, TRUE, 0, TRUE) : size \in CallSizes[a]} :
                          a \in DOMAIN CallSizes, rel_pc \in 0 .. 13} : s.rel_pc >= s.size}

SetupsOf(kind, own, givens, regs, maps) ==
    [kind : {kind}, own : {own}, arch : {"arm64"}, given : givens, memory : {"null", "given"}, maps : maps,
     parses : BOOLEAN, regs : regs]
NotParsed == [id |-> 0, parsed |-> FALSE]
UnwinderSetups ==
    SetupsOf("android", TRUE, {"unknown"}, {{}}, {NotParsed})
    \cup SetupsOf("android", FALSE, {"unknown"}, {{"fail", "arm64"}, {"arm64", "arm"}, {"riscv64"}}, {NotParsed})
    \cup SetupsOf("android", FALSE, {"arm64", "mips"}, {{"riscv64", "arm64"}}, {NotParsed})
    \cup UNION {SetupsOf("pid", own, {"arm64"}, {{}}, {NotParsed, [id |-> 9, parsed |-> TRUE]}) : own \in BOOLEAN}

VARIABLES
    kind,
    hTable, hUnreadable, hValid, hFdeInfo, hAt, hPc, hFirst, hLast, hFde,
    xIndex, xUnreadable, xAddrs, xAt, xPc, xFirst, xLast, xEntry,
    xWhich, xData, xCfa, xRegs, xPcSet, xStatus, xFinished,
    eFile, eState, eBias, eLoads, eNote,
    dDisk, dCopy, dApis, dMapped, dLock, dFiles, dPc, dMap, dAnswer,
    rArch, rForm, rStack, rLimit, rRegs, rState, rSite, rAdjustment,
    aSetup, aOnce, aBy, aStatus, aInitted, aArch, aMaps, aMemory, aJit, aMade, aPc, aCall, aRegs, aUses,
    aError, aAnswer, aCalls

hVars == <<hTable, hUnreadable, hValid, hFdeInfo, hAt, hPc, hFirst, hLast, hFde>>
xVars == <<xIndex, xUnreadable, xAddrs, xAt, xPc, xFirst, xLast, xEntry, xWhich, xData, xCfa, xRegs,
           xPcSet, xStatus, xFinished>>
eVars == <<eFile, eState, eBias, eLoads, eNote>>
dVars == <<dDisk, dCopy, dApis, dMapped, dLock, dFiles, dPc, dMap, dAnswer>>
rVars == <<rArch, rForm, rStack, rLimit, rRegs, rState, rSite, rAdjustment>>
aVars == <<aSetup, aOnce, aBy, aStatus, aInitted, aArch, aMaps, aMemory, aJit, aMade, aPc, aCall, aRegs, aUses,
           aError, aAnswer, aCalls>>
elfVars == <<kind, vars, hVars, xVars, eVars, dVars, rVars, aVars>>

H == INSTANCE DwarfEhFrameWithHdr WITH
       Fdes <- SomeFdes, Tables <- HdrTables, Pcs <- 0 .. 4,
       table <- hTable, unreadable <- hUnreadable, valid <- hValid, fde_info_ <- hFdeInfo, at <- hAt,
       pc <- hPc, first <- hFirst, last <- hLast, fde <- hFde

X == INSTANCE ArmExidx WITH
       Indexes <- ExidxIndexes, Pcs <- 0 .. 5, load_bias_ <- 1, Ids <- ArmIds, World <- ArmWorld,
       index <- xIndex, unreadable <- xUnreadable, addrs_ <- xAddrs, at <- xAt, pc <- xPc,
       first <- xFirst, last <- xLast, entry <- xEntry, which <- xWhich, data_ <- xData,
       cfa_ <- xCfa, regs_ <- xRegs, pc_set_ <- xPcSet, status_ <- xStatus, finished <- xFinished

E == INSTANCE ElfInterface WITH
       ElfFiles <- HeaderFiles, Pcs <- {0, 2, 3, 5, 6, 8, 9}, file <- eFile, state <- eState,
       load_bias_ <- eBias, pt_loads_ <- eLoads, note <- eNote

D == INSTANCE DexFile WITH
       Threads <- {1, 2}, Maps <- DexMaps, Contents <- DexContents, Pcs <- 0 .. 5, MaxLoads <- 2,
       disk <- dDisk, copy <- dCopy, apis <- dApis, g_mapped_dex_files <- dMapped, g_lock <- dLock,
       files <- dFiles, pc <- dPc, map <- dMap, answer <- dAnswer

R == INSTANCE Regs WITH
       Limits <- {0, 3, 12, 70, 82, 200, 312, 561, 584, 770, 800}, CallSites <- RegsSites,
       arch <- rArch, form <- rForm, stack <- rStack, limit <- rLimit, regs_ <- rRegs, state <- rState, site <- rSite,
       adjustment <- rAdjustment

A == INSTANCE AndroidUnwinder WITH
       Threads <- {"t1", "t2"}, Setups <- UnwinderSetups, MaxCalls <- 2, setup <- aSetup, once <- aOnce,
       by <- aBy, initialize_status_ <- aStatus, initted_ <- aInitted, arch_ <- aArch, maps_ <- aMaps,
       process_memory_ <- aMemory, jit_debug_ <- aJit, made <- aMade, pc <- aPc, call <- aCall, regs <- aRegs,
       uses <- aUses, error <- aError, answer <- aAnswer, calls <- aCalls

ASSUME H!HdrAssumption /\ X!ExidxAssumption /\ D!DexAssumption

\* The variables of a component that is not looked at.
NoSymbols ==
    /\ symtab = 0 /\ unreadable = 0 /\ symbols_ = 0 /\ mapped = 0 /\ remap_ = 0 /\ global_variables_ = 0
    /\ pc = "off" /\ addr = 0 /\ first = 0 /\ last = 0 /\ info = 0 /\ name = 0 /\ func_offset = 0
NoHdr ==
    /\ hTable = 0 /\ hUnreadable = 0 /\ hValid = 0 /\ hFdeInfo = 0 /\ hAt = "off" /\ hPc = 0
    /\ hFirst = 0 /\ hLast = 0 /\ hFde = 0
NoExidx ==
    /\ xIndex = 0 /\ xUnreadable = 0 /\ xAddrs = 0 /\ xAt = "off" /\ xPc = 0 /\ xFirst = 0 /\ xLast = 0
    /\ xEntry = 0 /\ xWhich = 0 /\ xData = 0 /\ xCfa = 0 /\ xRegs = 0 /\ xPcSet = 0 /\ xStatus = 0
    /\ xFinished = 0
NoHeaders == eFile = 0 /\ eState = "off" /\ eBias = 0 /\ eLoads = 0 /\ eNote = 0
NoDex ==
    /\ dDisk = 0 /\ dCopy = 0 /\ dApis = 0 /\ dMapped = 0 /\ dLock = 0 /\ dFiles = 0 /\ dPc = "off"
    /\ dMap = 0 /\ dAnswer = 0
NoRegs ==
    /\ rArch = 0 /\ rForm = 0 /\ rStack = 0 /\ rLimit = 0 /\ rRegs = 0 /\ rState = "off" /\ rSite = 0 /\ rAdjustment = 0
NoUnwinder ==
    /\ aSetup = 0 /\ aOnce = 0 /\ aBy = 0 /\ aStatus = 0 /\ aInitted = 0 /\ aArch = 0 /\ aMaps = 0 /\ aMemory = 0
    /\ aJit = 0 /\ aMade = 0 /\ aPc = 0 /\ aCall = 0 /\ aRegs = 0 /\ aUses = 0 /\ aError = 0 /\ aAnswer = 0
    /\ aCalls = 0

ElfInit ==
    \/ /\ kind = "symbols" /\ Init
       /\ NoHdr /\ NoExidx /\ NoHeaders /\ NoDex /\ NoRegs /\ NoUnwinder
    \/ /\ kind = "hdr" /\ H!Init
       /\ NoSymbols /\ NoExidx /\ NoHeaders /\ NoDex /\ NoRegs /\ NoUnwinder
    \/ /\ kind = "exidx" /\ X!Init
       /\ NoSymbols /\ NoHdr /\ NoHeaders /\ NoDex /\ NoRegs /\ NoUnwinder
    \/ /\ kind = "headers" /\ E!Init
       /\ NoSymbols /\ NoHdr /\ NoExidx /\ NoDex /\ NoRegs /\ NoUnwinder
    \/ /\ kind = "dex" /\ D!Init
       /\ NoSymbols /\ NoHdr /\ NoExidx /\ NoHeaders /\ NoRegs /\ NoUnwinder
    \/ /\ kind = "regs" /\ R!Init
       /\ NoSymbols /\ NoHdr /\ NoExidx /\ NoHeaders /\ NoDex /\ NoUnwinder
    \/ /\ kind = "unwinder" /\ A!Init
       /\ NoSymbols /\ NoHdr /\ NoExidx /\ NoHeaders /\ NoDex /\ NoRegs
ElfNext ==
    \/ kind = "symbols" /\ Next /\ UNCHANGED <<kind, hVars, xVars, eVars, dVars, rVars, aVars>>
    \/ kind = "hdr" /\ H!Next /\ UNCHANGED <<kind, vars, xVars, eVars, dVars, rVars, aVars>>
    \/ kind = "exidx" /\ X!Next /\ UNCHANGED <<kind, vars, hVars, eVars, dVars, rVars, aVars>>
    \/ kind = "headers" /\ E!Next /\ UNCHANGED <<kind, vars, hVars, xVars, dVars, rVars, aVars>>
    \/ kind = "dex" /\ D!Next /\ UNCHANGED <<kind, vars, hVars, xVars, eVars, rVars, aVars>>
    \/ kind = "regs" /\ R!Next /\ UNCHANGED <<kind, vars, hVars, xVars, eVars, dVars, aVars>>
    \/ kind = "unwinder" /\ A!Next /\ UNCHANGED <<kind, vars, hVars, xVars, eVars, dVars, rVars>>
ElfSpec == ElfInit /\ [][ElfNext]_elfVars

(* The properties of the components. *)
FdeExact == H!FdeExact
EntryExact == X!EntryExact
UndoesPrologue == X!UndoesPrologue
HeadersExact == kind = "headers" => E!HeadersExact
DexFilesExact == kind = "dex" => D!DexFilesExact
CallerFound == kind = "regs" => R!CallerFound
UnwindsPrepared == kind = "unwinder" => A!UnwindsPrepared

(* Every lookup ends.  An iteration of a search narrows its range, also where the range came from *)
(* the cache and when the table is unsorted; a table of symbols is searched again only if it had  *)
(* not been sorted yet, and stays sorted during the lookup, so that a lookup searches it at most  *)
(* twice; and an unwind instruction uses at least a byte of its entry.                            *)
LookupsEnd ==
    [][/\ (pc = "search" /\ pc' = "search") => last' - first' < last - first
       /\ (pc = "null" /\ pc' = "search") => mapped = FALSE
       /\ pc \in {"search", "null"} => mapped' = (mapped \/ pc = "null")
       /\ (hAt = "search" /\ hAt' = "search") => hLast' - hFirst' < hLast - hFirst
       /\ (xAt = "search" /\ xAt' = "search") => xLast' - xFirst' < xLast - xFirst
       /\ (xAt = "decode" /\ xAt' = "decode") => Len(xData') < Len(xData)]_elfVars
====
