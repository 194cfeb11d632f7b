----------------------------- MODULE Unwinder -----------------------------
(***************************************************************************)
(* Unwinder::Unwind (Unwinder.cpp): from the registers of a thread to the  *)
(* list of its frames.  One action is one iteration of the loop.           *)
(*                                                                         *)
(* What the stack and the unwind information say is unknown: a step may    *)
(* fail, finish, or lead to any pc and sp.  When it fails the unwinder     *)
(* guesses that the caller is at the return address, and takes the frame   *)
(* back if it cannot step from there either.                               *)
(***************************************************************************)
EXTENDS Integers, Sequences

CONSTANTS
    Pcs,             \* code addresses; 0 is none of them
    MapOf,           \* the map of each: [mapped, skip, stop, device, elf, jit]
    DexPcs,          \* those of dex code that is being interpreted
    Sps,             \* stack pointers
    DeviceSps,       \* those in a device map
    max_frames_

Kinds == [mapped : BOOLEAN,   \* maps_->Find(pc) # nullptr
          skip : BOOLEAN,     \* the name of the map is in initial_map_names_to_skip
          stop : BOOLEAN,     \* its suffix is in map_suffixes_to_ignore
          device : BOOLEAN,   \* MAPS_FLAGS_DEVICE_MAP
          elf : BOOLEAN,      \* the map has a valid elf
          jit : BOOLEAN]      \* it is executable and jit_debug_->Find has an elf for it

ASSUME UnwinderAssumption ==
    /\ 0 \notin Pcs /\ DexPcs \subseteq Pcs /\ MapOf \in [Pcs -> Kinds]
    /\ Sps \subseteq Nat /\ DeviceSps \subseteq Sps
    /\ max_frames_ \in Nat

Errors == {"none", "unwind_info", "invalid_map", "invalid_elf", "max_frames", "repeated"}

VARIABLES
    pc, sp, dex_pc,            \* regs_; dex_pc is 0 when there is none
    frames_,
    return_address_attempt, adjust_pc,
    skipping,                  \* initial_map_names_to_skip # nullptr
    last_error_,
    running,
    inner,                     \* ghost: no iteration yet, pc is the innermost one
    lost                       \* ghost: the error of the frame the guess was made for

regs == <<pc, sp, dex_pc>>
vars == <<regs, frames_, return_address_attempt, adjust_pc, skipping, last_error_, running,
          inner, lost>>

Init ==
    /\ pc \in Pcs /\ sp \in Sps /\ dex_pc = 0     \* after fallback_pc
    /\ frames_ = <<>>
    /\ return_address_attempt = FALSE /\ adjust_pc = FALSE
    /\ skipping \in BOOLEAN
    /\ last_error_ = "none"
    /\ running = (max_frames_ # 0)
    /\ inner = TRUE /\ lost = "none"

map_info     == MapOf[pc]
ignore_frame == map_info.mapped /\ skipping /\ map_info.skip
ShouldStop   == map_info.mapped /\ ~ignore_frame /\ map_info.stop
in_device_map == map_info.mapped /\ (map_info.device \/ sp \in DeviceSps)

\* A frame; guessed, inner and signal say how it was reached, stepped that the unwinder got on from
\* it by a step.
FillInDexFrame ==
    [pc |-> dex_pc, dex |-> TRUE, adjusted |-> FALSE, guessed |-> FALSE, inner |-> FALSE,
     signal |-> FALSE, stepped |-> FALSE]
FillInFrame(signal, stepped) ==
    [pc |-> pc, dex |-> FALSE, adjusted |-> map_info.mapped /\ adjust_pc /\ ~signal,
     guessed |-> return_address_attempt, inner |-> inner, signal |-> signal, stepped |-> stepped]

\* The frames an iteration adds.
NewFrames(signal, stepped) ==
    IF ignore_frame THEN <<>>
    ELSE IF dex_pc # 0 THEN <<FillInDexFrame, FillInFrame(signal, stepped)>>
    ELSE <<FillInFrame(signal, stepped)>>

\* No room is left when the dex frame has been added.
NoRoom == ~ignore_frame /\ dex_pc # 0 /\ Len(frames_) + 1 = max_frames_

\* Mutant: the error of the previous frame is always replaced.
MapErrorAlways == IF ~map_info.mapped THEN "invalid_map" ELSE last_error_

\* last_error_ when the pc has no map: that of the previous frame is not hidden by a guess.
MapError ==
    IF ~map_info.mapped /\ (~return_address_attempt \/ last_error_ = "none")
    THEN "invalid_map" ELSE last_error_

MayStep == map_info.mapped /\ ~in_device_map /\ (map_info.elf \/ map_info.jit)

Stop(error) ==
    /\ running' = FALSE
    /\ last_error_' = error
    /\ UNCHANGED <<return_address_attempt, inner, lost>>

\* The registers and flags of an iteration that gets past filling in the frame.
ClearDexPc == IF ignore_frame THEN dex_pc ELSE 0
\* Mutant: the pc is adjusted only once a frame has been added.
FilledIfAdded ==
    /\ skipping' = (skipping /\ ignore_frame)
    /\ adjust_pc' = (adjust_pc \/ ~ignore_frame)
\* Mutant: frames are skipped after a frame was added.
FilledStillSkipping ==
    /\ skipping' = skipping
    /\ adjust_pc' = TRUE
Filled ==
    /\ skipping' = (skipping /\ ignore_frame)
    /\ adjust_pc' = TRUE

\* The map has a suffix to ignore: break before anything is added.
StopAtSuffix ==
    /\ ShouldStop
    /\ Stop(last_error_)
    /\ UNCHANGED <<regs, frames_, adjust_pc, skipping>>

\* The dex frame is the last one there is room for.
StopAfterDex ==
    /\ ~ShouldStop /\ NoRoom
    /\ frames_' = Append(frames_, FillInDexFrame)
    /\ dex_pc' = 0
    /\ Stop("max_frames")
    /\ UNCHANGED <<pc, sp, adjust_pc, skipping>>

\* What elf->GetLastError yields after a step that succeeds: the error of an earlier step is still
\* there after StepIfSignalHandler, that of the DWARF sections after StepExidx.
StepErrors == {"none", "unwind_info"}

\* elf->Step or elf->StepIfSignalHandler succeeds.
Step(signal, finished) ==
    /\ ~ShouldStop /\ ~NoRoom /\ MayStep
    /\ frames_' = frames_ \o NewFrames(signal, TRUE)
    /\ Filled
    /\ pc' \in Pcs /\ sp' \in Sps /\ dex_pc' \in DexPcs \cup {0}
    /\ LET full == Len(frames_') = max_frames_
           repeated == pc' = pc /\ sp' = sp
       IN  \E e \in StepErrors :
             IF finished THEN Stop(e)
             ELSE /\ return_address_attempt' = FALSE
                  /\ last_error_' = IF repeated THEN "repeated"
                                    ELSE IF full THEN "max_frames" ELSE e
                  /\ running' = (~repeated /\ ~full)
                  /\ inner' = FALSE
                  /\ UNCHANGED lost

\* A step that fails may have happened in part: the registers that were evaluated before the one
\* that could not be are changed, and so may be dex_pc and is_signal_frame.
PartialPcs    == IF MayStep THEN Pcs ELSE {pc}
PartialSps    == IF MayStep THEN Sps ELSE {sp}
PartialDexPcs == IF MayStep THEN {ClearDexPc, 0} \cup DexPcs ELSE {ClearDexPc}
PartialSignal == IF MayStep THEN BOOLEAN ELSE {FALSE}

\* The error when no step was taken.
StepError(e) ==
    IF ~map_info.mapped \/ in_device_map THEN e = MapError
    ELSE IF MayStep THEN e \in {"none", "unwind_info"}
    ELSE e = "invalid_elf"

\* Not stepped, and not a guess: SetPcFromReturnAddress finds another pc to go on from.
Guess ==
    /\ ~ShouldStop /\ ~NoRoom /\ ~return_address_attempt /\ ~in_device_map
    /\ \E signal \in PartialSignal : frames_' = frames_ \o NewFrames(signal, FALSE)
    /\ Filled
    /\ sp' \in PartialSps /\ dex_pc' \in PartialDexPcs
    /\ \E failed \in PartialPcs : pc' \in Pcs \ {failed}
    /\ LET repeated == pc' = pc /\ sp' = sp
       IN  \E e \in Errors :
             /\ StepError(e) /\ lost' = e
             /\ last_error_' = IF repeated THEN "repeated" ELSE e
             /\ running' = (~repeated /\ Len(frames_') < max_frames_)
    /\ return_address_attempt' = TRUE
    /\ inner' = FALSE

\* Not stepped, and there is no other return address, or pc or sp is in a device map.
GiveUp ==
    /\ ~ShouldStop /\ ~NoRoom /\ ~return_address_attempt
    /\ \E signal \in PartialSignal : frames_' = frames_ \o NewFrames(signal, FALSE)
    /\ Filled
    /\ pc' \in PartialPcs /\ sp' \in PartialSps /\ dex_pc' \in PartialDexPcs
    /\ \E e \in Errors : StepError(e) /\ Stop(e)

\* Mutant: off by one.
RemoveSpeculativeLate(frames) ==
    Len(frames) > 3 \/ (Len(frames) > 0 /\ MapOf[frames[1].pc].mapped)

\* Whether the frame of a failed guess is taken back.
RemoveSpeculative(frames) ==
    Len(frames) > 2 \/ (Len(frames) > 0 /\ MapOf[frames[1].pc].mapped)

\* Mutant: goes on after taking the frame of a guess back.
GuessFailsGoesOn ==
    /\ ~ShouldStop /\ ~NoRoom /\ return_address_attempt
    /\ Filled
    /\ dex_pc' = ClearDexPc
    /\ UNCHANGED <<pc, sp, frames_, return_address_attempt, last_error_, running, inner, lost>>

\* A guess that could not be stepped from.
GuessFails ==
    /\ ~ShouldStop /\ ~NoRoom /\ return_address_attempt
    /\ \E signal \in PartialSignal :
          LET frames == frames_ \o NewFrames(signal, FALSE)
          IN  frames_' = IF RemoveSpeculative(frames) THEN SubSeq(frames, 1, Len(frames) - 1) ELSE frames
    /\ \E e \in Errors : StepError(e) /\ Stop(e)
    /\ Filled
    /\ pc' \in PartialPcs /\ sp' \in PartialSps /\ dex_pc' \in PartialDexPcs

Iterate ==
    /\ running
    /\ \/ StopAtSuffix \/ StopAfterDex \/ Guess \/ GiveUp \/ GuessFails
       \/ \E signal, finished \in BOOLEAN : Step(signal, finished)

Returned == ~running /\ UNCHANGED vars

Next == Iterate \/ Returned

Spec == Init /\ [][Next]_vars

\* The loop is sequential code: it goes on until it ends.
FairSpec == Spec /\ WF_vars(Iterate)

(* Properties.                                                             *)

Frame == [pc : Pcs, dex : BOOLEAN, adjusted : BOOLEAN, guessed : BOOLEAN, inner : BOOLEAN,
          signal : BOOLEAN, stepped : BOOLEAN]

(* Types. *)
TypeOK ==
    /\ pc \in Pcs /\ sp \in Sps /\ dex_pc \in DexPcs \cup {0}
    /\ frames_ \in Seq(Frame)
    /\ return_address_attempt \in BOOLEAN /\ adjust_pc \in BOOLEAN /\ skipping \in BOOLEAN
    /\ last_error_ \in Errors /\ lost \in Errors
    /\ running \in BOOLEAN /\ inner \in BOOLEAN

(* Never more than max_frames_ frames, although an iteration can add two. *)
FramesBounded == Len(frames_) <= max_frames_

(* A guessed frame stays in the list only if the unwinder got on from it by a step, so no guess   *)
(* is made from a guess and none is reported unconfirmed when the loop ends.  The exception is    *)
(* that of the code (Unwinder.cpp:266): the thread jumped into the middle of nowhere and its      *)
(* caller is the last frame that can be had.                                                      *)
GuessesConfirmed ==
    \A i \in DOMAIN frames_ :
       frames_[i].guessed /\ ~frames_[i].stepped =>
          ~running /\ i = Len(frames_) /\ i <= 2 /\ ~MapOf[frames_[1].pc].mapped

(* The pc of a frame is moved back into the instruction in front of it, except for the pc of a    *)
(* signal frame and for the innermost pc, whichever frames are skipped and whatever is guessed.   *)
(* So every return address is moved; but so is the pc a signal interrupted, which is none: the    *)
(* loop does not remember that the frame before was a signal frame.                               *)
AllButInnermostAdjusted ==
    \A i \in DOMAIN frames_ :
       LET f == frames_[i]
       IN  f.adjusted <=> (~f.dex /\ MapOf[f.pc].mapped /\ ~f.inner /\ ~f.signal)

(* A frame of an earlier iteration is never changed or taken away: what pop_back removes is the   *)
(* frame of the failed guess, also when that frame was in a skipped library and was not added.    *)
FramesKept ==
    [][Len(frames_') >= Len(frames_) /\ SubSeq(frames_', 1, Len(frames_)) = frames_]_vars

(* A guess that leads nowhere does not hide the error of the frame it was made for ("don't hide   *)
(* error for the previous frame", Unwinder.cpp), unless the frames are used up.                   *)
GuessKeepsError ==
    [][(running /\ return_address_attempt /\ ~map_info.mapped /\ lost # "none") =>
          last_error_' \in {lost, "max_frames"}]_vars

\* A step after which the loop goes on pops something off the stack, and a failed one before a
\* guess pushes nothing.
Pops == running' => (sp' > sp \/ (return_address_attempt' /\ sp' = sp))

(* Unwinding ends: once no library is skipped any more whatever the unwind information says, and  *)
(* in skipped libraries, whose frames are not counted, if steps pop something off the stack.      *)
Terminates ==
    /\ ~skipping ~> ~running
    /\ <>[][Pops]_vars => <>(~running)
=============================================================================
