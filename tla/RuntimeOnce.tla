---------------------------- MODULE RuntimeOnce ----------------------------
(***************************************************************************)
(* runtime() of src/driver.rs: the one tokio Runtime that every call on    *)
(* every host thread runs on, made by whichever call needs it first.  The  *)
(* look and the set of the OnceLock are separate steps, so several threads *)
(* may build a Runtime at once; all but one are dropped again.             *)
(***************************************************************************)
EXTENDS FiniteSets

CONSTANTS
  Threads,    \* host threads
  Runtimes,   \* Runtime values; each is built at most once
  NoRuntime

ASSUME RuntimeAssumption == NoRuntime \notin Runtimes

VARIABLES
  cell,    \* RUNTIME: the Runtime it was set to, or NoRuntime
  alive,   \* the Runtimes built and not dropped
  built,   \* the Runtimes ever built
  pc,      \* thread -> where its call stands
  own,     \* thread -> the Runtime it has built and still owns, or NoRuntime
  using    \* thread -> the &'static Runtime runtime() returned, or NoRuntime

runtimeVars == <<cell, alive, built, pc, own, using>>

RuntimeTypeOK ==
  /\ cell \in Runtimes \cup {NoRuntime}
  /\ alive \subseteq built /\ built \subseteq Runtimes
  /\ pc \in [Threads -> {"idle", "build", "set", "get", "run"}]
  /\ own \in [Threads -> Runtimes \cup {NoRuntime}]
  /\ using \in [Threads -> Runtimes \cup {NoRuntime}]

RuntimeInit ==
  /\ cell = NoRuntime
  /\ alive = {} /\ built = {}
  /\ pc = [t \in Threads |-> "idle"]
  /\ own = [t \in Threads |-> NoRuntime]
  /\ using = [t \in Threads |-> NoRuntime]

Goto(t, phase) == pc' = [pc EXCEPT ![t] = phase]

(* RUNTIME.get() at the head of runtime(): done if it is set.              *)
Look(t) ==
  /\ pc[t] = "idle"
  /\ IF cell = NoRuntime
       THEN Goto(t, "build") /\ UNCHANGED using
       ELSE Goto(t, "run") /\ using' = [using EXCEPT ![t] = cell]
  /\ UNCHANGED <<cell, alive, built, own>>

Build(t, r) ==
  /\ pc[t] = "build"
  /\ r \notin built
  /\ built' = built \cup {r}
  /\ alive' = alive \cup {r}
  /\ own' = [own EXCEPT ![t] = r]
  /\ Goto(t, "set")
  /\ UNCHANGED <<cell, using>>

(* "create tokio runtime failed": the call fails, the cell stays as it is. *)
BuildFails(t) ==
  /\ pc[t] = "build"
  /\ Goto(t, "idle")
  /\ UNCHANGED <<cell, alive, built, own, using>>

(* A mutant: the last Runtime built replaces the one that is there.        *)
SetReplaces(t) ==
  /\ pc[t] = "set"
  /\ cell' = own[t]
  /\ alive' = alive \ {cell}
  /\ own' = [own EXCEPT ![t] = NoRuntime]
  /\ Goto(t, "get")
  /\ UNCHANGED <<built, using>>

(* let _ = RUNTIME.set(runtime): an empty cell takes it, a full one gives  *)
(* it back in the Err that is dropped on the spot.                         *)
Set(t) ==
  /\ pc[t] = "set"
  /\ IF cell = NoRuntime
       THEN cell' = own[t] /\ UNCHANGED alive
       ELSE alive' = alive \ {own[t]} /\ UNCHANGED cell
  /\ own' = [own EXCEPT ![t] = NoRuntime]
  /\ Goto(t, "get")
  /\ UNCHANGED <<built, using>>

(* RUNTIME.get() once more; ok_or_else would turn None into a failed call. *)
Get(t) ==
  /\ pc[t] = "get"
  /\ IF cell = NoRuntime
       THEN Goto(t, "idle") /\ UNCHANGED using
       ELSE Goto(t, "run") /\ using' = [using EXCEPT ![t] = cell]
  /\ UNCHANGED <<cell, alive, built, own>>

(* block_on returns and the call goes on; its next call looks again.       *)
Done(t) ==
  /\ pc[t] = "run"
  /\ using' = [using EXCEPT ![t] = NoRuntime]
  /\ Goto(t, "idle")
  /\ UNCHANGED <<cell, alive, built, own>>

RuntimeNext == \E t \in Threads :
  \/ Look(t) \/ BuildFails(t) \/ Set(t) \/ Get(t) \/ Done(t)
  \/ \E r \in Runtimes : Build(t, r)

RuntimeSpec == RuntimeInit /\ [][RuntimeNext]_runtimeVars

-----------------------------------------------------------------------------

(* Every call in block_on runs on the same Runtime, the one in the cell,   *)
(* and that one has not been dropped: sessions opened by one call keep     *)
(* their I/O driver for the calls after it (runtime(), block_on).          *)
OneRuntime == \A t \in Threads :
  pc[t] = "run" => using[t] = cell /\ cell \in alive

(* What races to be first and loses is dropped: no Runtime, with its       *)
(* worker threads, outlives the call that built it unless it is the one.   *)
NoneLeaks == \A r \in alive : r = cell \/ \E t \in Threads : own[t] = r

(* A thread that gets past the set finds the cell full: the last           *)
(* ok_or_else of runtime() never fires.                                    *)
SetThenFound == \A t \in Threads : pc[t] = "get" => cell # NoRuntime

(* Why OneRuntime holds: a thread owns what it builds until it sets it, and *)
(* nobody else does.                                                       *)
Ownership ==
  /\ cell # NoRuntime => cell \in alive
  /\ \A t \in Threads : pc[t] = "set" <=> own[t] # NoRuntime
  /\ \A t \in Threads : own[t] # NoRuntime => own[t] \in alive /\ own[t] # cell
  /\ \A t, u \in Threads : own[t] # NoRuntime /\ own[t] = own[u] => t = u
  /\ \A t \in Threads : pc[t] = "run" => using[t] = cell /\ cell # NoRuntime

(* The inductive invariant of runtime().                                   *)
RuntimeInv == RuntimeTypeOK /\ Ownership /\ NoneLeaks /\ SetThenFound
=============================================================================
