--------------------------- MODULE UnwinderProofs ---------------------------
(***************************************************************************)
(* Proofs about Unwinder, for every number of frames, every address space  *)
(* and every stack.                                                        *)
(***************************************************************************)
EXTENDS Unwinder, SequenceTheorems, TLAPS

\* The first n elements of a sequence.
LEMMA PrefixProperties ==
    ASSUME NEW S, NEW seq \in Seq(S), NEW n \in Nat, n <= Len(seq)
    PROVE  /\ SubSeq(seq, 1, n) \in Seq(S)
           /\ Len(SubSeq(seq, 1, n)) = n
           /\ \A i \in 1 .. n : SubSeq(seq, 1, n)[i] = seq[i]
  OBVIOUS

\* What an iteration does to the list of frames: it keeps those there are and adds none, or
\* a dex frame, a real frame, or both in that order.
Extends(old, new, dexFrame, frame) ==
    /\ new \in Seq(Frame)
    /\ Len(new) \in Nat /\ Len(old) <= Len(new) /\ Len(new) <= Len(old) + 2
    /\ \A i \in 1 .. Len(old) : new[i] = old[i]
    /\ \A i \in Len(old) + 1 .. Len(new) :
          new[i] = dexFrame \/ (new[i] = frame /\ i = Len(new))

\* FillInDexFrame and FillInFrame make frames.
LEMMA FrameType ==
    ASSUME TypeOK, NEW signal \in BOOLEAN, NEW stepped \in BOOLEAN
    PROVE  /\ FillInFrame(signal, stepped) \in Frame
           /\ dex_pc # 0 => FillInDexFrame \in Frame
  <1>1. map_info \in Kinds
    BY UnwinderAssumption DEF TypeOK, map_info
  <1>2. (map_info.mapped /\ adjust_pc /\ ~signal) \in BOOLEAN
    OBVIOUS
  <1> QED
    BY <1>1, <1>2, UnwinderAssumption DEF TypeOK, FillInFrame, FillInDexFrame, Frame

\* What a step that fails may leave in the registers.
LEMMA PartialTypes ==
    ASSUME TypeOK
    PROVE  /\ PartialPcs \subseteq Pcs /\ PartialSps \subseteq Sps
           /\ PartialDexPcs \subseteq DexPcs \cup {0} /\ PartialSignal \subseteq BOOLEAN
  BY DEF TypeOK, PartialPcs, PartialSps, PartialDexPcs, PartialSignal, ClearDexPc

\* The frames of an iteration that does not stop early.
LEMMA NewFramesExtend ==
    ASSUME TypeOK, NEW signal \in BOOLEAN, NEW stepped \in BOOLEAN
    PROVE  /\ Extends(frames_, frames_ \o NewFrames(signal, stepped), FillInDexFrame,
                      FillInFrame(signal, stepped))
           /\ ignore_frame => frames_ \o NewFrames(signal, stepped) = frames_
           /\ ~ignore_frame =>
                 LET new == frames_ \o NewFrames(signal, stepped)
                 IN  Len(new) > Len(frames_) /\ new[Len(new)] = FillInFrame(signal, stepped)
           /\ (dex_pc = 0 => Len(frames_ \o NewFrames(signal, stepped)) <= Len(frames_) + 1)
  <1> DEFINE new == frames_ \o NewFrames(signal, stepped)
  <1>0. frames_ \in Seq(Frame) /\ Len(frames_) \in Nat
    BY DEF TypeOK
  <1>1. CASE ignore_frame
    <2>1. NewFrames(signal, stepped) = <<>>
      BY <1>1 DEF NewFrames
    <2>2. new = frames_
      BY <1>0, <2>1, ConcatEmptySeq
    <2> QED
      BY <1>0, <1>1, <2>2 DEF Extends
  <1>2. CASE ~ignore_frame /\ dex_pc # 0
    <2>1. NewFrames(signal, stepped) = <<FillInDexFrame, FillInFrame(signal, stepped)>>
      BY <1>2 DEF NewFrames
    <2> DEFINE d == FillInDexFrame  f == FillInFrame(signal, stepped)
    <2>2. d \in Frame /\ f \in Frame
      BY <1>2, FrameType
    <2> HIDE DEF d, f
    <2>3. <<d, f>> \in Seq(Frame) /\ Len(<<d, f>>) = 2 /\ <<d, f>>[1] = d /\ <<d, f>>[2] = f
      BY <2>2
    <2>4. /\ frames_ \o <<d, f>> \in Seq(Frame)
          /\ Len(frames_ \o <<d, f>>) = Len(frames_) + 2
          /\ \A i \in 1 .. Len(frames_) + 2 : (frames_ \o <<d, f>>)[i] =
                IF i <= Len(frames_) THEN frames_[i] ELSE <<d, f>>[i - Len(frames_)]
      BY <1>0, <2>3, ConcatProperties
    <2>5. new = frames_ \o <<d, f>>
      BY <2>1 DEF d, f
    <2> HIDE DEF new
    <2>6. Extends(frames_, new, d, f) /\ Len(new) > Len(frames_) /\ new[Len(new)] = f
      BY <1>0, <2>3, <2>4, <2>5 DEF Extends
    <2> QED
      BY <1>2, <2>6 DEF new, d, f
  <1>3. CASE ~ignore_frame /\ dex_pc = 0
    <2>1. NewFrames(signal, stepped) = <<FillInFrame(signal, stepped)>>
      BY <1>3 DEF NewFrames
    <2> DEFINE f == FillInFrame(signal, stepped)
    <2>2. f \in Frame
      BY FrameType
    <2> HIDE DEF f
    <2>3. <<f>> \in Seq(Frame) /\ Len(<<f>>) = 1 /\ <<f>>[1] = f
      BY <2>2
    <2>4. /\ frames_ \o <<f>> \in Seq(Frame)
          /\ Len(frames_ \o <<f>>) = Len(frames_) + 1
          /\ \A i \in 1 .. Len(frames_) + 1 : (frames_ \o <<f>>)[i] =
                IF i <= Len(frames_) THEN frames_[i] ELSE <<f>>[i - Len(frames_)]
      BY <1>0, <2>3, ConcatProperties
    <2>5. new = frames_ \o <<f>>
      BY <2>1 DEF f
    <2> DEFINE d == FillInDexFrame
    <2> HIDE DEF new, d
    <2>a. /\ new \in Seq(Frame) /\ Len(new) = Len(frames_) + 1 /\ new[Len(new)] = f
          /\ \A i \in 1 .. Len(frames_) : new[i] = frames_[i]
      BY <1>0, <2>3, <2>4, <2>5
    <2>6. Extends(frames_, new, d, f) /\ Len(new) = Len(frames_) + 1 /\ new[Len(new)] = f
      BY <1>0, <2>a DEF Extends
    <2> QED
      BY <1>0, <1>3, <2>6 DEF new, d, f
  <1> QED
    BY <1>1, <1>2, <1>3

AdjustedIn(frames) ==
    \A i \in DOMAIN frames :
       frames[i].adjusted <=>
          (~frames[i].dex /\ MapOf[frames[i].pc].mapped /\ ~frames[i].inner /\ ~frames[i].signal)

ConfirmedIn(frames) == \A i \in DOMAIN frames : frames[i].guessed => frames[i].stepped

(* The inductive invariant.  While the loop runs there is room for a frame; a frame was skipped  *)
(* only if there are none; the pc is adjusted from the second iteration on; every guess that was *)
(* kept was stepped from; and the guess that is being tried has not lost the error.              *)
IInv ==
    /\ TypeOK /\ FramesBounded
    /\ AllButInnermostAdjusted /\ GuessesConfirmed
    /\ running =>
          /\ Len(frames_) < max_frames_
          /\ adjust_pc = ~inner
          /\ skipping => frames_ = <<>>
          /\ ConfirmedIn(frames_)
          /\ return_address_attempt => last_error_ = lost

\* A frame of the new list is an old one, the dex frame or the real frame.
LEMMA ExtendsSplit ==
    ASSUME NEW old \in Seq(Frame), NEW d, NEW f, NEW list, Extends(old, list, d, f),
           NEW i \in 1 .. Len(list)
    PROVE  \/ i \in 1 .. Len(old) /\ list[i] = old[i]
           \/ i > Len(old) /\ list[i] = d
           \/ i > Len(old) /\ list[i] = f /\ i = Len(list)
  BY DEF Extends

\* The new frames are adjusted as they should be if the real frame is.
LEMMA ExtendsAdjusted ==
    ASSUME NEW old \in Seq(Frame), NEW d, NEW f, NEW list, Extends(old, list, d, f),
           AdjustedIn(old), ~d.adjusted, d.dex,
           f.adjusted <=> (~f.dex /\ MapOf[f.pc].mapped /\ ~f.inner /\ ~f.signal)
    PROVE  AdjustedIn(list)
  <1>1. DOMAIN list = 1 .. Len(list) /\ DOMAIN old = 1 .. Len(old)
    BY DEF Extends
  <1> SUFFICES ASSUME NEW i \in 1 .. Len(list)
               PROVE  list[i].adjusted <=> (~list[i].dex /\ MapOf[list[i].pc].mapped
                                            /\ ~list[i].inner /\ ~list[i].signal)
    BY <1>1 DEF AdjustedIn
  <1>2. CASE i \in 1 .. Len(old) /\ list[i] = old[i]
    BY <1>1, <1>2 DEF AdjustedIn
  <1>3. CASE list[i] = d
    BY <1>3
  <1>4. CASE list[i] = f
    BY <1>4
  <1> QED
    BY <1>2, <1>3, <1>4, ExtendsSplit

\* The new guesses are confirmed if the dex frame is no guess and the real frame, if it is one, was
\* stepped from.
LEMMA ExtendsConfirmed ==
    ASSUME NEW old \in Seq(Frame), NEW d, NEW f, NEW list, Extends(old, list, d, f),
           ConfirmedIn(old), ~d.guessed, f.guessed => f.stepped
    PROVE  ConfirmedIn(list)
  <1>1. DOMAIN list = 1 .. Len(list) /\ DOMAIN old = 1 .. Len(old)
    BY DEF Extends
  <1> SUFFICES ASSUME NEW i \in 1 .. Len(list) PROVE list[i].guessed => list[i].stepped
    BY <1>1 DEF ConfirmedIn
  <1>2. CASE i \in 1 .. Len(old) /\ list[i] = old[i]
    BY <1>1, <1>2 DEF ConfirmedIn
  <1>3. CASE list[i] = d
    BY <1>3
  <1>4. CASE list[i] = f
    BY <1>4
  <1> QED
    BY <1>2, <1>3, <1>4, ExtendsSplit

\* A list without its last frame still extends the old one if something had been added, and the
\* real frame is not among what is left.
LEMMA ExtendsPop ==
    ASSUME NEW old \in Seq(Frame), NEW d, NEW f, NEW g, NEW list, Extends(old, list, d, f),
           Len(list) > Len(old)
    PROVE  /\ Extends(old, SubSeq(list, 1, Len(list) - 1), d, g)
           /\ Len(SubSeq(list, 1, Len(list) - 1)) = Len(list) - 1
  <1>1. list \in Seq(Frame) /\ Len(list) \in Nat /\ Len(old) \in Nat
    BY DEF Extends
  <1>2. Len(list) - 1 \in Nat /\ Len(list) - 1 <= Len(list)
    BY <1>1
  <1> DEFINE s == SubSeq(list, 1, Len(list) - 1)
  <1>3. /\ s \in Seq(Frame) /\ Len(s) = Len(list) - 1
        /\ \A i \in 1 .. Len(list) - 1 : s[i] = list[i]
    BY <1>1, <1>2, PrefixProperties, Zenon
  <1> HIDE DEF s
  <1>4. Extends(old, s, d, g)
    BY <1>1, <1>3 DEF Extends
  <1> QED
    BY <1>3, <1>4 DEF s

\* What an iteration does to the frames: every action is one of these.
Kept(signal, stepped) ==
    /\ Extends(frames_, frames_', FillInDexFrame, FillInFrame(signal, stepped))
    /\ Len(frames_') <= max_frames_
    /\ AdjustedIn(frames_') /\ GuessesConfirmed'
    /\ running' => ConfirmedIn(frames_')

\* A list that extends the frames keeps what the invariant says of them.
LEMMA ExtendsKeeps ==
    ASSUME IInv, running, NEW signal \in BOOLEAN, NEW stepped \in BOOLEAN, NEW list,
           Extends(frames_, list, FillInDexFrame, FillInFrame(signal, stepped))
    PROVE  /\ AdjustedIn(list)
           /\ stepped \/ ~return_address_attempt => ConfirmedIn(list)
  <1> DEFINE f == FillInFrame(signal, stepped)  d == FillInDexFrame
  <1>1. frames_ \in Seq(Frame) /\ AdjustedIn(frames_) /\ ConfirmedIn(frames_)
    BY DEF IInv, TypeOK, AllButInnermostAdjusted, AdjustedIn
  <1>2. f.adjusted <=> (~f.dex /\ MapOf[f.pc].mapped /\ ~f.inner /\ ~f.signal)
    BY DEF IInv, TypeOK, FillInFrame, map_info
  <1>3. ~d.adjusted /\ d.dex /\ ~d.guessed
    BY DEF FillInDexFrame
  <1>4. stepped \/ ~return_address_attempt => (f.guessed => f.stepped)
    BY DEF FillInFrame
  <1> HIDE DEF f, d
  <1>5. Extends(frames_, list, d, f)
    BY DEF d, f
  <1>6. AdjustedIn(list)
    BY <1>1, <1>2, <1>3, <1>5, ExtendsAdjusted
  <1>7. stepped \/ ~return_address_attempt => ConfirmedIn(list)
    BY <1>1, <1>3, <1>4, <1>5, ExtendsConfirmed
  <1> QED
    BY <1>6, <1>7

\* The room is enough for what is added.
LEMMA RoomEnough ==
    ASSUME IInv, running, ~NoRoom, NEW signal \in BOOLEAN, NEW stepped \in BOOLEAN
    PROVE  Len(frames_ \o NewFrames(signal, stepped)) <= max_frames_
  <1> DEFINE n == Len(frames_ \o NewFrames(signal, stepped))
  <1>1. /\ Len(frames_) \in Nat /\ Len(frames_) < max_frames_ /\ max_frames_ \in Nat
    BY UnwinderAssumption DEF IInv, TypeOK
  <1>2. /\ n \in Nat /\ n <= Len(frames_) + 2
        /\ ignore_frame => n = Len(frames_)
        /\ dex_pc = 0 => n <= Len(frames_) + 1
    BY NewFramesExtend DEF IInv, Extends
  <1> HIDE DEF n
  <1>3. n <= max_frames_
    BY <1>1, <1>2 DEF NoRoom
  <1> QED
    BY <1>3 DEF n

\* What an iteration adds if it does not stop early, and was no guess that failed, keeps the list as
\* it should be.
LEMMA AddedKept ==
    ASSUME IInv, running, ~NoRoom, NEW signal \in BOOLEAN, NEW stepped \in BOOLEAN,
           stepped \/ ~return_address_attempt, frames_' = frames_ \o NewFrames(signal, stepped)
    PROVE  Kept(signal, stepped)
  <1>1. Extends(frames_, frames_', FillInDexFrame, FillInFrame(signal, stepped))
    BY NewFramesExtend DEF IInv
  <1>2. AdjustedIn(frames_') /\ ConfirmedIn(frames_')
    BY <1>1, ExtendsKeeps
  <1>3. GuessesConfirmed'
    BY <1>2 DEF GuessesConfirmed, ConfirmedIn
  <1> QED
    BY <1>1, <1>2, <1>3, RoomEnough DEF Kept

\* The frame of a guess that failed is there only if it was not taken back.
LEMMA GuessFailsKept ==
    ASSUME IInv, running, GuessFails
    PROVE  \E signal, stepped \in BOOLEAN : Kept(signal, stepped)
  <1>a. PICK signal \in PartialSignal :
           LET frames == frames_ \o NewFrames(signal, FALSE)
           IN  frames_' = IF RemoveSpeculative(frames) THEN SubSeq(frames, 1, Len(frames) - 1) ELSE frames
    BY DEF GuessFails
  <1>b. signal \in BOOLEAN
    BY PartialTypes DEF IInv
  <1> DEFINE list == frames_ \o NewFrames(signal, FALSE)
             shorter == SubSeq(list, 1, Len(list) - 1)
  <1>0. TypeOK /\ frames_ \in Seq(Frame) /\ Len(frames_) \in Nat
    BY DEF IInv, TypeOK
  <1>1. /\ Extends(frames_, list, FillInDexFrame, FillInFrame(signal, FALSE))
        /\ ignore_frame => list = frames_
        /\ ~ignore_frame => Len(list) > Len(frames_)
    BY <1>0, <1>b, NewFramesExtend
  <1>2. Len(list) \in Nat /\ Len(list) <= max_frames_
    BY <1>1, <1>b, RoomEnough DEF GuessFails, Extends
  <1>3. frames_' = IF RemoveSpeculative(list) THEN shorter ELSE list
    BY <1>a
  <1>4. ignore_frame => frames_ = <<>>
    BY DEF IInv, ignore_frame
  <1>r. ~running'
    BY DEF GuessFails, Stop
  <1> HIDE DEF list
  <1>5. CASE RemoveSpeculative(list)
    <2>1. Len(list) > 0
      BY <1>2, <1>5 DEF RemoveSpeculative
    <2>2. Len(list) > Len(frames_)
      BY <1>1, <1>4, <2>1
    <2>3. /\ Extends(frames_, shorter, FillInDexFrame, FillInFrame(signal, TRUE))
          /\ Len(shorter) = Len(list) - 1
      BY <1>0, <1>1, <2>2, ExtendsPop
    <2> HIDE DEF shorter
    <2>4. Len(shorter) <= max_frames_
      BY <1>2, <2>3, UnwinderAssumption
    <2>5. AdjustedIn(shorter) /\ ConfirmedIn(shorter)
      BY <2>3, <1>b, ExtendsKeeps
    <2>6. frames_' = shorter
      BY <1>3, <1>5
    <2>7. GuessesConfirmed'
      BY <2>5, <2>6 DEF GuessesConfirmed, ConfirmedIn
    <2> QED
      BY <1>b, <1>r, <2>3, <2>4, <2>5, <2>6, <2>7 DEF Kept
  <1>6. CASE ~RemoveSpeculative(list)
    <2>1. AdjustedIn(list) /\ frames_' = list
      BY <1>1, <1>b, <1>3, <1>6, ExtendsKeeps
    <2>2. GuessesConfirmed'
      <3> SUFFICES ASSUME NEW i \in 1 .. Len(list), list[i].guessed, ~list[i].stepped
                   PROVE  i = Len(list) /\ i <= 2 /\ ~MapOf[list[1].pc].mapped
        BY <1>1, <1>r, <2>1 DEF GuessesConfirmed, Extends
      <3>1. Len(list) <= 2 /\ ~MapOf[list[1].pc].mapped
        BY <1>2, <1>6 DEF RemoveSpeculative
      <3>2. ~(i \in 1 .. Len(frames_) /\ list[i] = frames_[i])
        BY <1>0 DEF IInv, ConfirmedIn
      <3>3. list[i] # FillInDexFrame
        BY DEF FillInDexFrame
      <3>4. list[i] = FillInDexFrame \/ i = Len(list)
        <4> DEFINE d == FillInDexFrame  f == FillInFrame(signal, FALSE)
        <4>1. Extends(frames_, list, d, f)
          BY <1>1
        <4> HIDE DEF d, f
        <4>2. list[i] = d \/ i = Len(list)
          BY <1>0, <3>2, <4>1, ExtendsSplit
        <4> QED
          BY <4>2 DEF d
      <3> QED
        BY <1>2, <3>1, <3>3, <3>4
    <2> QED
      BY <1>b, <1>r, <1>1, <1>2, <2>1, <2>2 DEF Kept
  <1> QED
    BY <1>5, <1>6

\* The dex frame alone.
LEMMA ExtendsAppend ==
    ASSUME NEW old \in Seq(Frame), NEW d \in Frame, NEW f
    PROVE  Extends(old, Append(old, d), d, f) /\ Len(Append(old, d)) = Len(old) + 1
  BY DEF Extends

\* Running out of room after the dex frame keeps the list as it should be.
LEMMA StopAfterDexKept ==
    ASSUME IInv, running, StopAfterDex
    PROVE  Kept(FALSE, TRUE)
  <1> DEFINE list == Append(frames_, FillInDexFrame)
  <1>0. TypeOK /\ frames_ \in Seq(Frame) /\ Len(frames_) \in Nat
    BY DEF IInv, TypeOK
  <1>1. FillInDexFrame \in Frame /\ Len(frames_) + 1 = max_frames_
    BY <1>0, FrameType DEF StopAfterDex, NoRoom
  <1>2. /\ Extends(frames_, list, FillInDexFrame, FillInFrame(FALSE, TRUE))
        /\ Len(list) = Len(frames_) + 1
    BY <1>0, <1>1, ExtendsAppend
  <1>3. frames_' = list
    BY DEF StopAfterDex
  <1> HIDE DEF list
  <1>4. AdjustedIn(list) /\ ConfirmedIn(list)
    BY <1>2, ExtendsKeeps
  <1>5. Len(list) <= max_frames_
    BY <1>0, <1>1, <1>2
  <1>6. GuessesConfirmed'
    BY <1>3, <1>4 DEF GuessesConfirmed, ConfirmedIn
  <1> QED
    BY <1>2, <1>3, <1>4, <1>5, <1>6 DEF Kept

\* Every step keeps the invariant.
LEMMA InvStep == IInv /\ [Next]_vars => IInv'
  <1> SUFFICES ASSUME IInv, [Next]_vars PROVE IInv'
    OBVIOUS
  <1>0. TypeOK /\ max_frames_ \in Nat
    BY UnwinderAssumption DEF IInv
  <1>a. ASSUME NEW signal \in BOOLEAN, NEW stepped \in BOOLEAN, Kept(signal, stepped)
        PROVE  /\ frames_' \in Seq(Frame) /\ FramesBounded'
               /\ AllButInnermostAdjusted' /\ GuessesConfirmed'
               /\ running' => ConfirmedIn(frames_')
    BY <1>a DEF Kept, Extends, FramesBounded, AllButInnermostAdjusted, AdjustedIn
  <1>1. CASE running /\ StopAtSuffix
    <2>1. TypeOK'
      BY <1>0, <1>1 DEF TypeOK, StopAtSuffix, Stop, regs
    <2> QED
      BY <1>1, <2>1 DEF IInv, StopAtSuffix, Stop, FramesBounded, AllButInnermostAdjusted,
         GuessesConfirmed
  <1>2. CASE running /\ StopAfterDex
    <2>1. Kept(FALSE, TRUE)
      BY <1>2, StopAfterDexKept
    <2>2. TypeOK'
      BY <1>0, <1>2, <1>a, <2>1 DEF TypeOK, StopAfterDex, Stop, Errors
    <2>3. ~running'
      BY <1>2 DEF StopAfterDex, Stop
    <2> QED
      BY <1>a, <2>1, <2>2, <2>3 DEF IInv, ConfirmedIn
  <1>3. CASE running /\ Guess
    <2>0. PICK signal \in PartialSignal : frames_' = frames_ \o NewFrames(signal, FALSE)
      BY <1>3 DEF Guess
    <2>1. /\ signal \in BOOLEAN /\ frames_' = frames_ \o NewFrames(signal, FALSE)
          /\ ~NoRoom /\ ~return_address_attempt
      BY <1>0, <1>3, <2>0, PartialTypes DEF Guess
    <2>2. Kept(signal, FALSE)
      BY <1>3, <2>1, AddedKept
    <2>3. TypeOK'
      <3>1. pc' \in Pcs /\ sp' \in Sps /\ dex_pc' \in DexPcs \cup {0}
        BY <1>0, <1>3, PartialTypes DEF Guess
      <3>2. running' \in BOOLEAN /\ (skipping /\ ignore_frame) \in BOOLEAN
        BY <1>3 DEF Guess
      <3>3. last_error_' \in Errors /\ lost' \in Errors
        BY <1>3 DEF Guess, Errors
      <3> QED
        BY <1>0, <1>3, <1>a, <2>1, <2>2, <3>1, <3>2, <3>3 DEF TypeOK, Guess, Filled
    <2>4. adjust_pc' = ~inner' /\ (running' => last_error_' = lost')
      BY <1>3 DEF Guess, Filled, IInv
    <2>5. skipping' => frames_' = <<>>
      <3>1. ignore_frame => frames_ \o NewFrames(signal, FALSE) = frames_
        BY <1>0, <2>1, NewFramesExtend
      <3> QED
        BY <1>3, <2>1, <3>1 DEF Guess, Filled, IInv
    <2>6. running' => Len(frames_') < max_frames_
      BY <1>3 DEF Guess
    <2> QED
      BY <1>a, <2>1, <2>2, <2>3, <2>4, <2>5, <2>6 DEF IInv, ConfirmedIn
  <1>4. CASE running /\ GiveUp
    <2>1. PICK signal \in BOOLEAN : Kept(signal, FALSE)
      BY <1>0, <1>4, AddedKept, PartialTypes DEF GiveUp
    <2>2. TypeOK'
      <3>1. pc' \in Pcs /\ sp' \in Sps /\ dex_pc' \in DexPcs \cup {0}
        BY <1>0, <1>4, PartialTypes DEF GiveUp
      <3>2. (skipping /\ ignore_frame) \in BOOLEAN
        OBVIOUS
      <3> QED
        BY <1>0, <1>4, <1>a, <2>1, <3>1, <3>2 DEF TypeOK, GiveUp, Filled, Stop
    <2>3. ~running'
      BY <1>4 DEF GiveUp, Stop
    <2> QED
      BY <1>a, <2>1, <2>2, <2>3 DEF IInv, ConfirmedIn
  <1>5. CASE running /\ GuessFails
    <2>1. PICK signal \in BOOLEAN, stepped \in BOOLEAN : Kept(signal, stepped)
      BY <1>5, GuessFailsKept
    <2>2. TypeOK'
      <3>1. pc' \in Pcs /\ sp' \in Sps /\ dex_pc' \in DexPcs \cup {0}
        BY <1>0, <1>5, PartialTypes DEF GuessFails
      <3>2. (skipping /\ ignore_frame) \in BOOLEAN
        OBVIOUS
      <3> QED
        BY <1>0, <1>5, <1>a, <2>1, <3>1, <3>2 DEF TypeOK, GuessFails, Filled, Stop
    <2>3. ~running'
      BY <1>5 DEF GuessFails, Stop
    <2> QED
      BY <1>a, <2>1, <2>2, <2>3 DEF IInv, ConfirmedIn
  <1>6. ASSUME running, NEW signal \in BOOLEAN, NEW finished \in BOOLEAN, Step(signal, finished)
        PROVE  IInv'
    <2>1. frames_' = frames_ \o NewFrames(signal, TRUE) /\ ~NoRoom
      BY <1>6 DEF Step
    <2>2. Kept(signal, TRUE)
      BY <1>6, <2>1, AddedKept
    <2>3. TypeOK'
      <3>1. (skipping /\ ignore_frame) \in BOOLEAN
        OBVIOUS
      <3>2. /\ running' \in BOOLEAN /\ inner' \in BOOLEAN
            /\ lost' \in Errors /\ last_error_' \in Errors /\ return_address_attempt' \in BOOLEAN
        BY <1>0, <1>6 DEF Step, Stop, StepErrors, TypeOK, Errors
      <3> QED
        BY <1>0, <1>6, <1>a, <2>2, <3>1, <3>2 DEF TypeOK, Step, Filled
    <2>4.
          /\ running' => /\ Len(frames_') # max_frames_ /\ ~inner' /\ ~return_address_attempt'
                         /\ adjust_pc'
      BY <1>6 DEF Step, Stop, Filled, IInv
    <2>5. skipping' => frames_' = <<>>
      <3>1. ignore_frame => frames_ \o NewFrames(signal, TRUE) = frames_
        BY <1>0, NewFramesExtend
      <3> QED
        BY <1>6, <2>1, <3>1 DEF Step, Filled, IInv
    <2>6. running' => Len(frames_') < max_frames_
      BY <1>0, <2>2, <2>4 DEF Kept, Extends
    <2>7. running' => adjust_pc' = ~inner'
      BY <2>3, <2>4 DEF TypeOK
    <2> QED
      BY <1>a, <2>2, <2>3, <2>4, <2>5, <2>6, <2>7 DEF IInv, ConfirmedIn
  <1>7. CASE UNCHANGED vars
    BY <1>7 DEF vars, regs, IInv, TypeOK, FramesBounded, AllButInnermostAdjusted,
       GuessesConfirmed, ConfirmedIn
  <1> QED
    BY <1>1, <1>2, <1>3, <1>4, <1>5, <1>6, <1>7 DEF Next, Iterate, Returned

\* The invariant holds at the start.
LEMMA InvInit == Init => IInv
  <1> SUFFICES ASSUME Init PROVE IInv
    OBVIOUS
  <1>1. frames_ = <<>> /\ frames_ \in Seq(Frame) /\ Len(frames_) = 0 /\ DOMAIN frames_ = {}
    BY EmptySeq DEF Init
  <1>2. running \in BOOLEAN /\ (running => 0 < max_frames_)
    <2>1. running = (max_frames_ # 0)
      BY DEF Init
    <2>2. max_frames_ # 0 => 0 < max_frames_
      BY UnwinderAssumption
    <2> QED
      BY <2>1, <2>2, Zenon
  <1>3. TypeOK
    BY <1>1, <1>2 DEF Init, TypeOK, Errors
  <1>4. FramesBounded /\ AllButInnermostAdjusted /\ GuessesConfirmed /\ ConfirmedIn(frames_)
    BY <1>1, UnwinderAssumption DEF Init, FramesBounded, AllButInnermostAdjusted,
       GuessesConfirmed, ConfirmedIn
  <1> QED
    BY <1>1, <1>2, <1>3, <1>4 DEF Init, IInv

\* The inductive invariant is an invariant of Unwinder::Unwind.
THEOREM Invariance == Spec => []IInv
  BY InvInit, InvStep, PTL DEF Spec

(* Unwind keeps its variables in their types, whatever the stack looks like. *)
THEOREM TypeCorrect == Spec => []TypeOK
  <1>1. IInv => TypeOK
    BY DEF IInv
  <1> QED
    BY <1>1, Invariance, PTL

(* Unwind never makes more than max_frames_ frames, for every max_frames_. *)
THEOREM NeverTooManyFrames == Spec => []FramesBounded
  <1>1. IInv => FramesBounded
    BY DEF IInv
  <1> QED
    BY <1>1, Invariance, PTL

(* On every stack Unwind adjusts every mapped pc of a real frame but the innermost and a signal    *)
(* frame's own: every return address, and the pc a signal interrupted.                            *)
THEOREM AdjustsAllButInnermost == Spec => []AllButInnermostAdjusted
  <1>1. IInv => AllButInnermostAdjusted
    BY DEF IInv
  <1> QED
    BY <1>1, Invariance, PTL

(* A guess Unwind could not step from is reported only in the case the code describes, and no      *)
(* guess is made from one.                                                                        *)
THEOREM GuessesAreSound == Spec => []GuessesConfirmed
  <1>1. IInv => GuessesConfirmed
    BY DEF IInv
  <1> QED
    BY <1>1, Invariance, PTL

\* A list that extends the old one has it as its beginning.
LEMMA ExtendsPrefix ==
    ASSUME NEW old \in Seq(Frame), NEW d, NEW f, NEW list, Extends(old, list, d, f)
    PROVE  Len(list) >= Len(old) /\ SubSeq(list, 1, Len(old)) = old
  <1>1. Len(old) \in Nat /\ Len(list) \in Nat /\ Len(old) <= Len(list) /\ list \in Seq(Frame)
    BY DEF Extends
  <1> DEFINE s == SubSeq(list, 1, Len(old))
  <1>2. /\ s \in Seq(Frame) /\ Len(s) = Len(old)
        /\ \A i \in 1 .. Len(old) : s[i] = list[i]
    BY <1>1, PrefixProperties
  <1> HIDE DEF s
  <1>3. \A i \in 1 .. Len(s) : s[i] = old[i]
    BY <1>1, <1>2 DEF Extends
  <1>4. s = old
    BY <1>2, <1>3, SeqEqual
  <1> QED
    BY <1>1, <1>4 DEF s

(* No iteration of Unwind changes or removes a frame of an earlier one. *)
THEOREM EarlierFramesKept == Spec => FramesKept
  <1> DEFINE Prefix == Len(frames_') >= Len(frames_) /\ SubSeq(frames_', 1, Len(frames_)) = frames_
  <1>1. IInv /\ [Next]_vars => [Prefix]_vars
    <2> SUFFICES ASSUME IInv, Next PROVE Prefix \/ UNCHANGED vars
      OBVIOUS
    <2>0. frames_ \in Seq(Frame)
      BY DEF IInv, TypeOK
    <2>a. TypeOK
      BY DEF IInv
    <2>1. ASSUME NEW signal \in BOOLEAN, NEW stepped \in BOOLEAN, Kept(signal, stepped) PROVE Prefix
      BY <2>0, <2>1, ExtendsPrefix DEF Kept
    <2>2. CASE running /\ StopAtSuffix
      <3>1. frames_' = frames_
        BY <2>2 DEF StopAtSuffix
      <3>2. SubSeq(frames_, 1, Len(frames_)) = frames_ /\ Len(frames_) \in Nat
        BY <2>0, SubSeqFull
      <3> QED
        BY <3>1, <3>2
    <2>3. CASE running /\ StopAfterDex
      BY <2>1, <2>3, StopAfterDexKept
    <2>4. CASE running /\ Guess
      BY <2>a, <2>1, <2>4, AddedKept, PartialTypes DEF Guess
    <2>5. CASE running /\ GiveUp
      BY <2>a, <2>1, <2>5, AddedKept, PartialTypes DEF GiveUp
    <2>6. CASE running /\ GuessFails
      BY <2>1, <2>6, GuessFailsKept
    <2>7. ASSUME running, NEW signal \in BOOLEAN, NEW finished \in BOOLEAN, Step(signal, finished)
          PROVE  Prefix
      BY <2>1, <2>7, AddedKept DEF Step
    <2> QED
      BY <2>2, <2>3, <2>4, <2>5, <2>6, <2>7 DEF Next, Iterate, Returned
  <1> QED
    BY <1>1, Invariance, PTL DEF Spec, FramesKept

(* A guess that leads to an unmapped pc leaves the error of the frame it was made for. *)
THEOREM ErrorNotHidden == Spec => GuessKeepsError
  <1> DEFINE Keeps == (running /\ return_address_attempt /\ ~map_info.mapped /\ lost # "none") =>
                         last_error_' \in {lost, "max_frames"}
  <1>1. IInv /\ [Next]_vars => [Keeps]_vars
    <2> SUFFICES ASSUME IInv, Next, running, return_address_attempt, ~map_info.mapped, lost # "none"
                 PROVE  last_error_' \in {lost, "max_frames"}
      OBVIOUS
    <2>1. last_error_ = lost
      BY DEF IInv
    <2>2. CASE StopAtSuffix
      BY <2>1, <2>2 DEF StopAtSuffix, Stop
    <2>3. CASE StopAfterDex
      BY <2>3 DEF StopAfterDex, Stop
    <2>4. CASE GuessFails
      <3>1. PICK e \in Errors : StepError(e) /\ last_error_' = e
        BY <2>4 DEF GuessFails, Stop
      <3> QED
        BY <2>1, <3>1 DEF StepError, MapError
    <2>5. ~Guess /\ ~GiveUp
      BY DEF Guess, GiveUp
    <2>6. ~(\E signal, finished \in BOOLEAN : Step(signal, finished))
      BY DEF Step, MayStep
    <2> QED
      BY <2>2, <2>3, <2>4, <2>5, <2>6 DEF Next, Iterate, Returned
  <1> QED
    BY <1>1, Invariance, PTL DEF Spec, GuessKeepsError
=============================================================================
