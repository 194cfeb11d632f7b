----------------------------- MODULE MCMapInfo -----------------------------
(* Address spaces for MapInfo, all with pages of size 1. *)
EXTENDS MapInfo, TLC

Map(start, offset, flags, name) ==
    [start |-> start, end |-> start + 1, offset |-> offset, flags |-> flags, name |-> name]
Blank(start) == Map(start, 0, "none", "")
Image(at, size) == [at |-> at, size |-> size, good |-> TRUE, bias |-> 7 + at]

\* A library mapped read-only, then read-execute, with a gap between the two.
Library == <<Map(0, 0, "r", "lib"), Blank(1), Map(2, 1, "rx", "lib")>>
\* A library whose first mapped page is not the first page of the file.
LateLibrary == <<Map(0, 1, "r", "lib"), Map(1, 2, "rx", "lib"), Map(2, 3, "rw", "lib")>>
\* A library with two read-only maps in front of its code.
TwoReadOnly == <<Map(0, 0, "r", "lib"), Map(1, 1, "r", "lib"), Map(2, 2, "rx", "lib")>>
\* Two libraries stored one after the other in an archive.
Archive == <<Map(0, 1, "r", "apk"), Map(1, 2, "rx", "apk"), Map(2, 3, "r", "apk"), Map(3, 4, "rx", "apk")>>
\* An archive with one library, a device map, an empty map and a page of anonymous memory.
Mixed == <<Map(0, 1, "r", "apk"), Map(1, 2, "rx", "apk"), Map(2, 0, "device", "apk"),
           [Map(3, 0, "rx", "lib") EXCEPT !.end = 3], Map(4, 0, "rw", "")>>

World(maps0, opens, lib, apk) ==
    [maps |-> maps0, files |-> [n \in {"lib", "apk"} |->
        [opens |-> opens, elfs |-> IF n = "lib" THEN lib ELSE apk]]]

With(worlds, use0) == {[maps |-> w.maps, files |-> w.files, use |-> use0] : w \in worlds}

Lib == {Image(0, 3)}
Apk == {Image(1, 2), Image(3, 2)}
Bad == {[Image(0, 3) EXCEPT !.good = FALSE]}

Readable == {World(Library, {TRUE}, Lib, Apk), World(LateLibrary, {TRUE}, Lib, Apk),
             World(Archive, {TRUE}, Lib, Apk), World(TwoReadOnly, {TRUE}, Lib, Apk)}
InMemory == {World(Library, {FALSE}, Lib, Apk), World(Archive, {FALSE}, Lib, Apk)}
Odd      == {World(Mixed, {TRUE}, Lib, Apk), World(Mixed, {FALSE}, Lib, Apk),
             World(Library, {TRUE}, Bad, Apk), World(Library, {FALSE}, {}, {})}
\* Opening or mapping a file succeeds at one time and fails at another.
Flaky    == {World(Library, BOOLEAN, Lib, Apk), World(Mixed, BOOLEAN, Lib, Apk)}

\* A library read from its file, and one that can only be read from memory.
LibraryWorlds == {World(Library, {TRUE}, Lib, Apk), World(Library, {FALSE}, Lib, Apk)}

AllWorlds == Readable \cup InMemory \cup Odd
BiasWorlds == LibraryWorlds \cup {World(Archive, {FALSE}, Lib, Apk)}

Use(caching, ops, callers, calls0) ==
    [caching |-> caching, ops |-> ops, callers |-> callers, calls |-> calls0]

\* Three threads get elfs, two of files that open at times; with the cache, one thread; and two that
\* call every method.
Cases ==
    With(AllWorlds, Use(FALSE, {"GetElf", "GetFunctionName"}, 3, 1))
    \cup With(Flaky, Use(FALSE, {"GetElf", "GetFunctionName"}, 2, 2))
    \cup With(AllWorlds, Use(TRUE, {"GetElf"}, 1, 5))
    \cup With(BiasWorlds, Use(FALSE, Methods, 2, 2))

\* Two threads with the cache enabled.
TwoWithCache == With({World(Library, {TRUE}, Lib, Apk)}, Use(TRUE, {"GetElf"}, 2, 1))

Symmetry == Permutations(Threads)
=============================================================================
