----------------------------- MODULE MemorySpec -----------------------------
(***************************************************************************)
(* What a cached Memory promises (include/unwindstack/Memory.h): a read    *)
(* returns bytes the process has had at their addresses since the reader   *)
(* last called Clear, from the start on, and as many as asked for unless   *)
(* it met a page that could not be read.                                   *)
(***************************************************************************)
EXTENDS Integers, Sequences

CONSTANTS
    Readers,       \* a Clear concerns one of them
    NumPages, PageSize,
    Versions,      \* contents of a page
    Unreadable

Pages == 0 .. NumPages - 1
PageOf(addr) == addr \div PageSize

VARIABLES
    memory,        \* Versions or Unreadable, per page
    window,        \* what each page has been since the reader's last Clear
    result         \* the last read: [reader, addr, size, bytes]

vars == <<memory, window, result>>

\* A byte is its address and the version of its page.
Byte(addr, v) == <<addr, v>>

None == [reader |-> CHOOSE r \in Readers : TRUE, addr |-> 0, size |-> 0, bytes |-> <<>>]

Init ==
    /\ memory \in [Pages -> Versions \cup {Unreadable}]
    /\ window = [r \in Readers |-> [p \in Pages |-> {memory[p]}]]
    /\ result = None

Legal(r) ==
    LET n == Len(r.bytes)
        next == PageOf(r.addr + n)
    IN
    /\ r.reader \in Readers
    /\ n <= r.size
    /\ \A i \in 1 .. n :
          LET a == r.addr + i - 1
          IN  /\ PageOf(a) \in Pages
              /\ \E v \in window[r.reader][PageOf(a)] \ {Unreadable} : r.bytes[i] = Byte(a, v)
    /\ \A i, j \in 1 .. n :           \* a page is read in one piece
          PageOf(r.addr + i - 1) = PageOf(r.addr + j - 1) => r.bytes[i][2] = r.bytes[j][2]
    /\ n < r.size => next \notin Pages \/ Unreadable \in window[r.reader][next]

Read == Legal(result') /\ UNCHANGED <<memory, window>>

\* The process writes to a page, maps or unmaps it.
Change(p, v) ==
    /\ memory' = [memory EXCEPT ![p] = v]
    /\ window' = [r \in Readers |-> [window[r] EXCEPT ![p] = @ \cup {v}]]
    /\ UNCHANGED result

Clear(r) ==
    /\ window' = [window EXCEPT ![r] = [p \in Pages |-> {memory[p]}]]
    /\ UNCHANGED <<memory, result>>

Next ==
    \/ Read
    \/ \E r \in Readers : Clear(r)
    \/ \E p \in Pages, v \in Versions \cup {Unreadable} : Change(p, v)

Spec == Init /\ [][Next]_vars
=============================================================================
