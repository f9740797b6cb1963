---------------------------- MODULE PauseService ----------------------------
(***************************************************************************)
(* What stressapptest's WorkerStatus class promises to its users: the     *)
(* control thread can bring every worker to a standstill, hold it there   *)
(* and let go, and can tell the workers to stop.                          *)
(*                                                                         *)
(* A worker is "working" (anywhere in its own code), "parked" (inside a   *)
(* call that will not return before the pause is over) or "gone" (it has  *)
(* left the group).  WorkerStatus is shown to implement this              *)
(* specification.                                                          *)
(***************************************************************************)
CONSTANT Workers

VARIABLES
  mode,     \* what the control thread has brought about
  at        \* where each worker is

vars == <<mode, at>>

Modes  == {"run", "pausing", "paused", "stopped"}
Places == {"working", "parked", "gone"}

Init ==
  /\ mode = "run"
  /\ at = [w \in Workers |-> "working"]

\* PauseWorkers() is called.
RequestPause ==
  /\ mode = "run"
  /\ mode' = "pausing"
  /\ UNCHANGED at

\* A worker notices the request; the last one to do so may end the wait of
\* PauseWorkers().
Park(w) ==
  /\ mode = "pausing"
  /\ at[w] = "working"
  /\ at' = [at EXCEPT ![w] = "parked"]
  /\ \/ mode' = "pausing"
     \/ /\ mode' = "paused"
        /\ \A v \in Workers : at'[v] # "working"

\* PauseWorkers() finds every worker already parked.
Quiesce ==
  /\ mode = "pausing"
  /\ \A w \in Workers : at[w] # "working"
  /\ mode' = "paused"
  /\ UNCHANGED at

\* ResumeWorkers(), or StopWorkers() on a paused group, lets all go at once.
Release ==
  /\ mode = "paused"
  /\ mode' \in {"run", "stopped"}
  /\ at' = [w \in Workers |-> IF at[w] = "parked" THEN "working" ELSE at[w]]

\* StopWorkers() on a running group.
Stop ==
  /\ mode = "run"
  /\ mode' = "stopped"
  /\ UNCHANGED at

\* A worker leaves for good, never in the middle of a pause.
Leave(w) ==
  /\ mode \in {"run", "stopped"}
  /\ at[w] = "working"
  /\ at' = [at EXCEPT ![w] = "gone"]
  /\ UNCHANGED mode

Next ==
  \/ RequestPause
  \/ Quiesce
  \/ Release
  \/ Stop
  \/ \E w \in Workers : Park(w) \/ Leave(w)

Spec == Init /\ [][Next]_vars
=============================================================================
