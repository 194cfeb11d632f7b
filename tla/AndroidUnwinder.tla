--------------------------- MODULE AndroidUnwinder ---------------------------
(***************************************************************************)
(* One AndroidUnwinder, local or remote, that several threads use at once  *)
(* (AndroidUnwinder.cpp), or one UnwinderFromPid that one thread uses      *)
(* again and again (Unwinder.cpp): how they come by what an unwind needs.  *)
(***************************************************************************)
EXTENDS Integers

CONSTANTS
    Threads,
    Setups,        \* [kind, own, arch, given, memory, maps, parses, regs]: "android" or "pid"; whether
                   \*   the process is the caller's own; its architecture; the architecture, memory and maps
                   \*   the constructor was given; whether Parse succeeds; and the registers ptrace may get
    MaxCalls

VARIABLES
    setup,
    once, by,                                   \* initialize_: "new", "running", "done"; and the thread that runs it
    initialize_status_, initted_,
    arch_, maps_, process_memory_, jit_debug_,  \* jit_debug_ stands for dex_files_ too
    made,                                       \* how many Maps were made
    pc, call,                                   \* of each thread, and what it was called with
    regs, uses,                                 \* the registers, and what the unwind is done with
    error, answer, calls

parts == <<arch_, maps_, process_memory_, jit_debug_, made>>
local == <<pc, call, regs, uses, error, answer, calls>>
vars == <<setup, once, by, initialize_status_, initted_, parts, local>>

Null == "null"
NoMaps == [id |-> 0, parsed |-> FALSE]
NoJit == <<Null, Null>>
NoUse == [arch |-> Null, regs |-> Null, maps |-> NoMaps, memory |-> Null, jit |-> NoJit]
SupportedArchs == {"arm", "arm64", "x86", "x86_64"}   \* by RemoteGetArch; RemoteGet knows riscv64 too

Init ==
    /\ setup \in Setups
    /\ once = "new" /\ by = Null /\ initialize_status_ = FALSE /\ initted_ = FALSE
    /\ arch_ = setup.given /\ maps_ = setup.maps /\ process_memory_ = setup.memory /\ jit_debug_ = NoJit /\ made = 0
    /\ pc = [t \in Threads |-> "idle"] /\ call = [t \in Threads |-> Null]
    /\ regs = [t \in Threads |-> Null] /\ uses = [t \in Threads |-> NoUse]
    /\ error = [t \in Threads |-> "NONE"] /\ answer = [t \in Threads |-> TRUE]
    /\ calls = [t \in Threads |-> 0]

Goto(t, label) == pc' = [pc EXCEPT ![t] = label]
Fail(t, code) ==
    /\ Goto(t, "idle")
    /\ error' = [error EXCEPT ![t] = code] /\ answer' = [answer EXCEPT ![t] = FALSE]

\* Unwind(tid), Unwind(ucontext) and Unwind(regs), each with what it may be given.
Unwind(t, c, arg) ==
    /\ setup.kind # "pid" /\ pc[t] = "idle" /\ calls[t] < MaxCalls
    /\ calls' = [calls EXCEPT ![t] = @ + 1]
    /\ call' = [call EXCEPT ![t] = c]
    /\ regs' = [regs EXCEPT ![t] = arg] /\ uses' = [uses EXCEPT ![t] = NoUse]
    /\ IF c # "tid" /\ arg = Null
       THEN Fail(t, "INVALID_PARAMETER")
       ELSE /\ Goto(t, "initialize")
            /\ error' = [error EXCEPT ![t] = "NONE"] /\ answer' = [answer EXCEPT ![t] = TRUE]
    /\ UNCHANGED <<setup, once, by, initialize_status_, initted_, parts>>

\* Initialize: one thread runs the function, the others wait for it, and all get its status.
AfterInitialize(t) ==
    /\ pc[t] = "initialize" /\ once = "done"
    /\ IF initialize_status_
       THEN Goto(t, "initialized") /\ UNCHANGED <<error, answer>>
       ELSE Fail(t, error[t])
    /\ UNCHANGED <<setup, once, by, initialize_status_, initted_, parts, call, regs, uses, calls>>
CallOnce(t) ==
    /\ pc[t] = "initialize" /\ once = "new"
    /\ once' = "running" /\ by' = t
    /\ Goto(t, "arch")
    /\ UNCHANGED <<setup, initialize_status_, initted_, parts, call, regs, uses, error, answer, calls>>
\* Mutant: a flag in place of call_once, that is set too early.
InitializeByFlag(t) ==
    \/ CallOnce(t)
    \/ /\ pc[t] = "initialize" /\ once \in {"running", "done"} /\ Goto(t, "initialized")
       /\ UNCHANGED <<setup, once, by, initialize_status_, initted_, parts, call, regs, uses, error, answer, calls>>
Initialize(t) == CallOnce(t) \/ AfterInitialize(t)

\* The function of call_once ends; the thread has its status and goes on to test it.
EndOnce(t, status, code) ==
    /\ once' = "done" /\ initialize_status_' = status
    /\ error' = [error EXCEPT ![t] = code]
    /\ Goto(t, "initialize")

RemoteGetArch ==
    {IF r = "fail" THEN [arch |-> "unknown", code |-> "PTRACE_CALL"]
     ELSE IF r \in SupportedArchs THEN [arch |-> r, code |-> "NONE"]
     ELSE [arch |-> "unknown", code |-> "UNSUPPORTED"] : r \in setup.regs}
\* InternalInitialize, up to the maps.
InternalInitializeArch(t) ==
    /\ pc[t] = "arch"
    /\ \E got \in IF setup.own THEN {[arch |-> setup.arch, code |-> "NONE"]}
                  ELSE IF arch_ = "unknown" THEN RemoteGetArch
                  ELSE {[arch |-> arch_, code |-> "NONE"]} :
          /\ arch_' = got.arch
          /\ IF got.arch = "unknown"
             THEN EndOnce(t, FALSE, got.code)
             ELSE Goto(t, "maps") /\ UNCHANGED <<once, initialize_status_, error>>
    /\ UNCHANGED <<setup, by, initted_, maps_, process_memory_, jit_debug_, made, call, regs, uses, answer, calls>>
\* The maps are replaced before they are parsed.
InternalInitializeMaps(t) ==
    /\ pc[t] = "maps"
    /\ made' = made + 1 /\ maps_' = [id |-> made + 1, parsed |-> FALSE]
    /\ Goto(t, "parse")
    /\ UNCHANGED <<setup, once, by, initialize_status_, initted_, arch_, process_memory_, jit_debug_>>
    /\ UNCHANGED <<call, regs, uses, error, answer, calls>>
InternalInitializeParse(t) ==
    /\ pc[t] = "parse"
    /\ IF setup.parses
       THEN /\ maps_' = [maps_ EXCEPT !.parsed = TRUE]
            /\ Goto(t, "memory") /\ UNCHANGED <<once, initialize_status_, error>>
       ELSE EndOnce(t, FALSE, "MAPS_PARSE") /\ UNCHANGED maps_
    /\ UNCHANGED <<setup, by, initted_, arch_, process_memory_, jit_debug_, made, call, regs, uses, answer, calls>>
CreateProcessMemory == IF setup.own THEN "thread cached" ELSE "cached"
InternalInitializeMemory(t) ==
    /\ pc[t] = "memory"
    /\ process_memory_' = IF process_memory_ # Null THEN process_memory_
                          ELSE CreateProcessMemory
    /\ Goto(t, "debug")
    /\ UNCHANGED <<setup, once, by, initialize_status_, initted_, arch_, maps_, jit_debug_, made>>
    /\ UNCHANGED <<call, regs, uses, error, answer, calls>>
InitializeDebug(t) ==
    /\ pc[t] = "debug"
    /\ jit_debug_' = <<arch_, process_memory_>>
    /\ EndOnce(t, TRUE, error[t])
    /\ UNCHANGED <<setup, by, initted_, arch_, maps_, process_memory_, made, call, regs, uses, answer, calls>>

\* The registers to start from: those given, the thread's own, those of another process, or those of
\* a thread of this one, which ThreadUnwinder stops.
RegsFor(t) ==
    CASE call[t] = "regs" -> {[regs |-> regs[t], code |-> "NONE"]}
      [] call[t] = "ucontext" ->
           {IF arch_ \in SupportedArchs \cup {"riscv64"} THEN [regs |-> arch_, code |-> "NONE"]
            ELSE [regs |-> Null, code |-> "INVALID_PARAMETER"]}
      [] call[t] = "tid" /\ setup.own -> {[regs |-> setup.arch, code |-> "NONE"]}
      [] OTHER ->
           {IF r = "fail" THEN [regs |-> Null, code |-> "PTRACE_CALL"]
            ELSE IF r \in SupportedArchs \cup {"riscv64"} THEN [regs |-> r, code |-> "NONE"]
            ELSE [regs |-> Null, code |-> "UNSUPPORTED"] : r \in setup.regs}
Start(t) ==
    /\ pc[t] = "initialized"
    /\ \E r \in RegsFor(t) :
          IF r.regs = Null THEN Fail(t, r.code) /\ UNCHANGED uses
          ELSE IF r.regs # arch_ THEN Fail(t, "BAD_ARCH") /\ UNCHANGED uses
          ELSE /\ uses' = [uses EXCEPT ![t] = [arch |-> arch_, regs |-> r.regs, maps |-> maps_,
                                               memory |-> process_memory_, jit |-> jit_debug_]]
               /\ Goto(t, "unwinding") /\ UNCHANGED <<error, answer>>
    /\ UNCHANGED <<setup, once, by, initialize_status_, initted_, parts, call, regs, calls>>
\* A ThreadUnwinder gets the maps and the memory; its own Init makes readers of its own in place of
\* those it was given (UnwinderFromPid::Init, Unwinder.cpp:394).
StartThread(t) ==
    /\ pc[t] = "initialized" /\ call[t] = "tid" /\ setup.own
    /\ uses' = [uses EXCEPT ![t] = [arch |-> setup.arch, regs |-> setup.arch, maps |-> maps_,
                                    memory |-> process_memory_, jit |-> <<setup.arch, process_memory_>>]]
    /\ Goto(t, "unwinding")
    /\ UNCHANGED <<setup, once, by, initialize_status_, initted_, parts, call, regs, error, answer, calls>>

\* UnwinderFromPid::Unwind, with Init.
PidUnwind(t) ==
    /\ setup.kind = "pid" /\ pc[t] = "idle" /\ calls[t] < MaxCalls
    /\ \A u \in Threads \ {t} : calls[u] = 0
    /\ calls' = [calls EXCEPT ![t] = @ + 1] /\ call' = [call EXCEPT ![t] = "pid"]
    /\ initted_' = TRUE
    /\ \/ /\ ~initted_ /\ maps_ = NoMaps /\ ~setup.parses
          /\ made' = made + 1 /\ Fail(t, "INVALID_MAP")
          /\ UNCHANGED <<maps_, process_memory_, jit_debug_, uses>>
       \/ /\ \/ /\ initted_
                /\ UNCHANGED <<maps_, process_memory_, jit_debug_, made>>
             \/ /\ ~initted_
                /\ \/ maps_ # NoMaps /\ UNCHANGED <<maps_, made>>
                   \/ /\ maps_ = NoMaps /\ setup.parses
                      /\ made' = made + 1 /\ maps_' = [id |-> made + 1, parsed |-> TRUE]
                /\ process_memory_' = IF process_memory_ # Null THEN process_memory_ ELSE CreateProcessMemory
                /\ jit_debug_' = <<arch_, process_memory_'>>
          /\ uses' = [uses EXCEPT ![t] = [arch |-> arch_, regs |-> arch_, maps |-> maps_',
                                           memory |-> process_memory_', jit |-> jit_debug_']]
          /\ Goto(t, "unwinding") /\ error' = [error EXCEPT ![t] = "NONE"] /\ UNCHANGED answer
    /\ UNCHANGED <<setup, once, by, initialize_status_, arch_, regs>>

\* The unwind, the subject of Unwinder, ends with some frames or none.
Finish(t) ==
    /\ pc[t] = "unwinding"
    /\ Goto(t, "idle")
    /\ answer' \in {[answer EXCEPT ![t] = b] : b \in BOOLEAN}
    /\ UNCHANGED <<setup, once, by, initialize_status_, initted_, parts, call, regs, uses, error, calls>>

Calls(t) ==
    \/ Unwind(t, "tid", Null)
    \/ \E c \in {"ucontext", "regs"}, arg \in {Null, setup.arch, "x86"} : Unwind(t, c, arg)
Step(t) ==
    \/ Initialize(t) \/ InternalInitializeArch(t) \/ InternalInitializeMaps(t) \/ InternalInitializeParse(t)
    \/ InternalInitializeMemory(t) \/ InitializeDebug(t) \/ Start(t) \/ StartThread(t) \/ Finish(t)
Done == (\A t \in Threads : pc[t] = "idle") /\ UNCHANGED vars
Next == (\E t \in Threads : Calls(t) \/ Step(t) \/ PidUnwind(t)) \/ Done

Spec == Init /\ [][Next]_vars

(* Properties.                                                             *)

(* Every unwind has what it needs, and every refusal is explained.  Whichever thread comes first  *)
(* and however many wait for it, all unwinds of one AndroidUnwinder are done with the same parsed *)
(* maps, with a memory (the one given, if any), with JIT and dex readers made for both, and with  *)
(* registers of its architecture.  A call that returns false without an unwind has an error code. *)
(* Exceptions: once an initialisation has failed, call_once never tries it again, and only the    *)
(* thread that ran it is told why; an UnwinderFromPid whose Parse failed takes its Init for done  *)
(* the next time, and unwinds without maps.                                                       *)
UnwindsPrepared ==
    \A t \in Threads :
       /\ pc[t] = "unwinding" =>
            LET u == uses[t]
                failedBefore == setup.kind = "pid" /\ setup.maps = NoMaps /\ ~setup.parses
            IN  ~failedBefore =>
                   /\ u.maps = maps_ /\ u.maps.parsed /\ made <= 1
                   /\ u.memory # Null /\ (setup.memory # Null => u.memory = setup.memory)
                   /\ u.jit = <<u.arch, u.memory>>
                   /\ u.regs = u.arch /\ u.arch = arch_
       /\ pc[t] = "idle" /\ ~answer[t] /\ uses[t] = NoUse =>
            \/ error[t] # "NONE"
            \/ once = "done" /\ ~initialize_status_ /\ (by # t \/ calls[t] > 1)
==============================================================================
