------------------------- MODULE WorkerStatusProofs -------------------------
(***************************************************************************)
(* Proofs about WorkerStatus, for any finite set of workers: its types,   *)
(* and, in a build that has pthread barriers, the safety properties of    *)
(* the pause protocol and that it implements PauseService.                *)
(***************************************************************************)
EXTENDS WorkerStatus, FiniteSetTheorems, TLAPS

-----------------------------------------------------------------------------
(* The inductive invariant.                                                *)

\* num_workers_ counts the workers that are registered.
CountInv == num_workers_ = Cardinality(Counted)

\* Who holds which lock.
LockInv ==
  /\ readers = {w \in Workers : pc[w] \in HoldLocs \cup {"rm_unlock"}}
  /\ \A w \in Workers :
        pc[w] \in {"rm_destroy", "rm_init", "rm_dec"} => numLock = {w}

\* Where the control thread is decides the status and which workers exist.
StageInv ==
  /\ pc[Control] = "setup" => \A w \in Workers : pc[w] \in {"new", "added"}
  /\ pc[Control] # "setup" => \A w \in Workers : pc[w] # "new"
  /\ pc[Control] \notin {"setup", "spawn"} =>
        \A w \in Workers : pc[w] # "added"
  /\ pc[Control] \in {"setup", "spawn", "idle", "pause_set", "resume_wait"}
        => status_ = "RUN"
  /\ pc[Control] \in {"pause_wait", "paused", "resume_set"}
        => status_ = "PAUSE"
  /\ pc[Control] \in {"stop_wait", "join", "joined", "destroyed"}
        => status_ = "STOP"
  /\ pc[Control] = "stop_set" => status_ \in {"RUN", "PAUSE"}

\* The three phases of the protocol: nobody is at the barrier; PauseWorkers()
\* gathers the workers; all workers are held until the second wait.
Running ==
  \/ pc[Control] \in {"setup", "spawn", "idle", "pause_set", "join",
                      "joined", "destroyed"}
  \/ pc[Control] = "stop_set" /\ status_ = "RUN"
Gathering == pc[Control] = "pause_wait"
Held ==
  \/ pc[Control] \in {"paused", "resume_set", "resume_wait", "stop_wait"}
  \/ pc[Control] = "stop_set" /\ status_ = "PAUSE"

RunningInv ==
  Running => /\ arrived = {}
             /\ \A w \in Workers : pc[w] \notin {"b1", "b2", "rb1", "rb2"}

GatheringInv ==
  Gathering =>
    /\ \A w \in Workers : pc[w] \in {"failed", "work", "continue", "b1",
                                     "remove", "rb1", "done"}
    /\ \A w \in Workers : w \in arrived => pc[w] \in {"b1", "rb1"}

HeldInv ==
  Held =>
    /\ \A w \in Workers : pc[w] \in {"b2", "rb2", "done"}
    /\ \A w \in Workers : w \in arrived => pc[w] \in {"b2", "rb2"}
    /\ Control \in arrived => pc[Control] \in {"resume_wait", "stop_wait"}

\* The barrier's threshold, except while a departing worker rebuilds it.
BarrierInv ==
  pc[Control] \notin {"setup", "destroyed"} =>
    /\ (\A w \in Workers : pc[w] \notin {"rm_init", "rm_dec"})
         => barrierCount = num_workers_ + 1
    /\ (\E w \in Workers : pc[w] = "rm_dec") => barrierCount = num_workers_

PhaseInv == RunningInv /\ GatheringInv /\ HeldInv /\ BarrierInv

IInv ==
  /\ TypeOK
  /\ CountInv
  /\ LockInv
  /\ StageInv
  /\ HAVE_PTHREAD_BARRIERS => PhaseInv

-----------------------------------------------------------------------------
(* Facts about sets of workers.                                            *)

\* The counted workers form a finite set.
LEMMA CountedFinite ==
  IsFiniteSet(Counted) /\ Cardinality(Counted) \in Nat
BY WorkersAssumption, FS_Subset, FS_CardinalityType DEF Counted

\* A set of threads of the group that is as large as the group is the group.
LEMMA FullHouse ==
  ASSUME NEW S, S \subseteq Counted \cup {Control},
         Cardinality(S) = Cardinality(Counted) + 1
  PROVE  S = Counted \cup {Control}
<1>1. Control \notin Counted
  BY WorkersAssumption DEF Counted
<1>2. /\ IsFiniteSet(Counted \cup {Control})
      /\ Cardinality(Counted \cup {Control}) = Cardinality(Counted) + 1
  BY <1>1, CountedFinite, FS_AddElement
<1> QED
  BY <1>2, FS_Subset

-----------------------------------------------------------------------------
(* The invariant is inductive: one lemma per kind of step.                 *)

\* The initial state satisfies the invariant.
LEMMA InitIInv == Init => IInv
<1> SUFFICES ASSUME Init PROVE IInv
  OBVIOUS
<1> USE WorkersAssumption DEF Init
<1>1. TypeOK
  BY DEF TypeOK, Threads, WorkerLocs, ControlLocs
<1>2. CountInv
  <2>1. Counted = {}
    BY DEF Counted, Threads
  <2> QED
    BY <2>1, FS_EmptySet DEF CountInv
<1>3. LockInv
  BY DEF LockInv, HoldLocs, Threads
<1>4. StageInv
  BY DEF StageInv, Threads
<1>5. PhaseInv
  BY DEF PhaseInv, RunningInv, GatheringInv, HeldInv, BarrierInv, Running,
         Gathering, Held, Threads
<1> QED
  BY <1>1, <1>2, <1>3, <1>4, <1>5 DEF IInv

\* Steps that leave every worker where it is, and the barrier alone.
LEMMA ControlMoves ==
  ASSUME IInv,
         \/ CallPause \/ CallResume \/ CallStop \/ QueueWriter \/ SpawnDone
         \/ PauseWorkers \/ ResumeWorkers \/ StopWorkers \/ JoinThreads
  PROVE  IInv'
<1> USE WorkersAssumption DEF IInv, CallPause, CallResume, CallStop, Call,
        QueueWriter, SpawnDone, PauseWorkers, ResumeWorkers, StopWorkers,
        SetStatus, JoinThreads, Goto
<1>0. /\ Control \in Threads
      /\ \A w \in Workers : w \in Threads /\ w # Control
  BY DEF Threads
<1>1. /\ \A w \in Workers : pc'[w] = pc[w]
      /\ UNCHANGED <<readers, numLock, num_workers_, barrierCount, arrived,
                     paused>>
  BY <1>0 DEF TypeOK
<1>2. TypeOK'
  BY <1>0, <1>1 DEF TypeOK, ControlLocs
<1>3. CountInv'
  BY <1>1 DEF CountInv, Counted
<1>4. LockInv'
  BY <1>1 DEF LockInv
<1>5. StageInv'
  BY <1>0, <1>1 DEF StageInv, TypeOK
<1>6. ASSUME HAVE_PTHREAD_BARRIERS PROVE PhaseInv'
  <2>1. RunningInv'
    BY <1>0, <1>1, <1>6 DEF PhaseInv, RunningInv, Running, StageInv, TypeOK
  <2>2. GatheringInv'
    BY <1>0, <1>1, <1>6 DEF PhaseInv, GatheringInv, RunningInv, Running,
       Gathering, StageInv, LockInv, TypeOK, WorkerLocs, ContinueLocs,
       RemoveLocs, HoldLocs
  <2>3. HeldInv'
    BY <1>0, <1>1, <1>6 DEF PhaseInv, HeldInv, Held, StageInv, TypeOK
  <2>4. BarrierInv'
    BY <1>0, <1>1, <1>6 DEF PhaseInv, BarrierInv, TypeOK
  <2> QED
    BY <2>1, <2>2, <2>3, <2>4 DEF PhaseInv
<1> QED
  BY <1>2, <1>3, <1>4, <1>5, <1>6

\* The object's construction and destruction.
LEMMA LifeCycle ==
  ASSUME IInv, Initialize \/ Destroy
  PROVE  IInv'
<1> USE WorkersAssumption, FlagsAssumption DEF IInv, Initialize, Destroy, Goto
<1>0. /\ Control \in Threads
      /\ \A w \in Workers : w \in Threads /\ w # Control
  BY DEF Threads
<1>1. /\ \A w \in Workers : pc'[w] = pc[w]
      /\ UNCHANGED <<status_, readers, wrQueued, numLock, num_workers_,
                     arrived, paused>>
  BY <1>0 DEF TypeOK
<1>2. TypeOK'
  BY <1>0, <1>1 DEF TypeOK, ControlLocs
<1>3. CountInv'
  BY <1>1 DEF CountInv, Counted
<1>4. LockInv'
  BY <1>1 DEF LockInv
<1>5. StageInv'
  BY <1>0, <1>1 DEF StageInv, TypeOK
<1>6. ASSUME HAVE_PTHREAD_BARRIERS PROVE PhaseInv'
  BY <1>0, <1>1, <1>6 DEF PhaseInv, RunningInv, GatheringInv, HeldInv,
     BarrierInv, Running, Gathering, Held, TypeOK, StageInv
<1> QED
  BY <1>2, <1>3, <1>4, <1>5, <1>6

\* A worker is registered: the only step that adds to the count.
LEMMA Registration ==
  ASSUME IInv, NEW w \in Workers, AddWorkers(w)
  PROVE  IInv'
<1> USE WorkersAssumption DEF IInv, AddWorkers, Goto
<1>0. /\ Control \in Threads
      /\ \A v \in Workers : v \in Threads /\ v # Control
  BY DEF Threads
<1>1. pc' = [pc EXCEPT ![w] = "added"] /\ pc'[w] = "added"
  BY <1>0 DEF TypeOK
<1>2. TypeOK'
  BY <1>0, <1>1 DEF TypeOK, WorkerLocs
<1>3. CountInv'
  <2>1. Counted' = Counted \cup {w} /\ w \notin Counted
    BY <1>0, <1>1 DEF Counted, TypeOK
  <2> QED
    BY <2>1, CountedFinite, FS_AddElement DEF CountInv
<1>4. LockInv'
  BY <1>0, <1>1 DEF LockInv, TypeOK, HoldLocs
<1>5. StageInv'
  BY <1>0, <1>1 DEF StageInv, TypeOK
<1>6. ASSUME HAVE_PTHREAD_BARRIERS PROVE PhaseInv'
  BY <1>0, <1>1, <1>6 DEF PhaseInv, RunningInv, GatheringInv, HeldInv,
     BarrierInv, Running, Gathering, Held, TypeOK, StageInv
<1> QED
  BY <1>2, <1>3, <1>4, <1>5, <1>6

\* A worker moves within its own code, or to the door of the barrier.
LEMMA WorkerMoves ==
  ASSUME IInv, NEW w \in Workers,
         \/ SpawnThread(w) \/ CallContinueRunning(w) \/ LeaveEarly(w)
         \/ ContinueRunningNoPause(w) \/ ContinueRunning(w)
  PROVE  IInv'
<1> USE WorkersAssumption DEF IInv, SpawnThread, CallContinueRunning,
        LeaveEarly, ContinueRunningNoPause, ContinueRunning, Goto
<1>0. /\ Control \in Threads
      /\ \A v \in Workers : v \in Threads /\ v # Control
  BY DEF Threads
<1>1. PICK loc \in {"work", "failed", "continue", "b1", "remove"} :
        /\ pc' = [pc EXCEPT ![w] = loc]
        /\ loc = "b1" => status_ = "PAUSE"
        /\ pc[w] = "added" => pc[Control] = "spawn"
        /\ loc = "failed" => pc[w] = "added"
  BY DEF TypeOK
<1>2. /\ pc'[w] = loc
      /\ \A t \in Threads : t # w => pc'[t] = pc[t]
      /\ pc[w] \in {"added", "work", "continue"}
      /\ UNCHANGED <<status_, readers, wrQueued, numLock, num_workers_,
                     barrierCount, arrived>>
  BY <1>0, <1>1 DEF TypeOK
<1>3. TypeOK'
  BY <1>0, <1>1, <1>2 DEF TypeOK, WorkerLocs, ContinueLocs, RemoveLocs
<1>4. CountInv'
  BY <1>0, <1>1, <1>2 DEF CountInv, Counted
<1>5. LockInv'
  BY <1>0, <1>1, <1>2 DEF LockInv, HoldLocs
<1>6. StageInv'
  BY <1>0, <1>1, <1>2 DEF StageInv
<1>7. ASSUME HAVE_PTHREAD_BARRIERS PROVE PhaseInv'
  <2>1. RunningInv'
    BY <1>0, <1>1, <1>2, <1>7 DEF PhaseInv, RunningInv, Running, StageInv
  <2>2. GatheringInv'
    BY <1>0, <1>1, <1>2, <1>7 DEF PhaseInv, GatheringInv, Gathering
  <2>3. HeldInv'
    BY <1>0, <1>1, <1>2, <1>7 DEF PhaseInv, HeldInv, Held
  <2>4. BarrierInv'
    BY <1>0, <1>1, <1>2, <1>7 DEF PhaseInv, BarrierInv
  <2> QED
    BY <2>1, <2>2, <2>3, <2>4 DEF PhaseInv
<1> QED
  BY <1>3, <1>4, <1>5, <1>6, <1>7

\* RemoveSelf() up to the decrement: locks are taken, the barrier is rebuilt.
LEMMA Departure ==
  ASSUME IInv, NEW w \in Workers,
         \/ RemoveSelfCheck(w) \/ AcquireNumWorkersLock(w)
         \/ BarrierDestroy(w) \/ BarrierInit(w)
  PROVE  IInv'
<1> USE WorkersAssumption, FlagsAssumption DEF IInv, RemoveSelfCheck,
        AcquireNumWorkersLock, BarrierDestroy, BarrierInit, Goto
<1>0. /\ Control \in Threads
      /\ \A v \in Workers : v \in Threads /\ v # Control
  BY DEF Threads
<1>1. PICK loc \in {"rb1", "rm_lock", "rm_destroy", "rm_init", "rm_dec"} :
        pc' = [pc EXCEPT ![w] = loc]
  OBVIOUS
<1>2. /\ pc'[w] = loc
      /\ \A t \in Threads : t # w => pc'[t] = pc[t]
      /\ UNCHANGED <<status_, wrQueued, num_workers_, arrived, paused>>
  BY <1>0, <1>1 DEF TypeOK
<1>3. TypeOK'
  BY <1>0, <1>1, <1>2 DEF TypeOK, WorkerLocs, RemoveLocs, HoldLocs
<1>4. CountInv'
  BY <1>0, <1>1, <1>2 DEF CountInv, Counted
<1>5. LockInv'
  BY <1>0, <1>1, <1>2 DEF LockInv, HoldLocs, TypeOK
<1>6. StageInv'
  BY <1>0, <1>1, <1>2 DEF StageInv
<1>7. ASSUME HAVE_PTHREAD_BARRIERS PROVE PhaseInv'
  <2>1. RunningInv'
    BY <1>0, <1>1, <1>2, <1>7 DEF PhaseInv, RunningInv, Running, StageInv
  <2>2. GatheringInv'
    BY <1>0, <1>1, <1>2, <1>7
       DEF PhaseInv, GatheringInv, Gathering, StageInv
  <2>3. HeldInv'
    BY <1>0, <1>1, <1>2, <1>7 DEF PhaseInv, HeldInv, Held
  <2>4. BarrierInv'
    BY <1>0, <1>1, <1>2, <1>7 DEF PhaseInv, BarrierInv, LockInv, TypeOK
  <2> QED
    BY <2>1, <2>2, <2>3, <2>4 DEF PhaseInv
<1> QED
  BY <1>3, <1>4, <1>5, <1>6, <1>7

\* RemoveSelf() takes the worker out of the count.
LEMMA Decrement ==
  ASSUME IInv, NEW w \in Workers, DecrementWorkers(w)
  PROVE  IInv'
<1> USE WorkersAssumption DEF IInv, DecrementWorkers, Goto
<1>0. /\ Control \in Threads
      /\ \A v \in Workers : v \in Threads /\ v # Control
  BY DEF Threads
<1>1. /\ pc' = [pc EXCEPT ![w] = "rm_unlock"]
      /\ pc'[w] = "rm_unlock"
      /\ \A t \in Threads : t # w => pc'[t] = pc[t]
  BY <1>0 DEF TypeOK
<1>2. CountInv' /\ num_workers_' \in Nat
  <2>1. w \in Counted /\ Counted' = Counted \ {w}
    BY <1>0, <1>1 DEF Counted
  <2>2. /\ Cardinality(Counted \ {w}) = Cardinality(Counted) - 1
        /\ Cardinality(Counted \ {w}) \in Nat
    BY <2>1, CountedFinite, FS_RemoveElement, FS_CardinalityType
  <2> QED
    BY <2>1, <2>2 DEF CountInv
<1>3. TypeOK'
  BY <1>0, <1>1, <1>2 DEF TypeOK, WorkerLocs
<1>4. LockInv'
  BY <1>0, <1>1 DEF LockInv, HoldLocs, TypeOK
<1>5. StageInv'
  BY <1>0, <1>1 DEF StageInv
<1>6. ASSUME HAVE_PTHREAD_BARRIERS PROVE PhaseInv'
  <2>1. RunningInv' /\ GatheringInv' /\ HeldInv'
    BY <1>0, <1>1, <1>6 DEF PhaseInv, RunningInv, GatheringInv, HeldInv,
       Running, Gathering, Held
  <2>2. BarrierInv'
    BY <1>0, <1>1, <1>6 DEF PhaseInv, BarrierInv, LockInv, TypeOK
  <2> QED
    BY <2>1, <2>2 DEF PhaseInv
<1> QED
  BY <1>2, <1>3, <1>4, <1>5, <1>6

\* RemoveSelf() returns.
LEMMA Departed ==
  ASSUME IInv, NEW w \in Workers, ReleaseStatusLock(w)
  PROVE  IInv'
<1> USE WorkersAssumption DEF IInv, ReleaseStatusLock, Goto
<1>0. /\ Control \in Threads
      /\ \A v \in Workers : v \in Threads /\ v # Control
  BY DEF Threads
<1>1. /\ pc' = [pc EXCEPT ![w] = "done"]
      /\ pc'[w] = "done"
      /\ \A t \in Threads : t # w => pc'[t] = pc[t]
  BY <1>0 DEF TypeOK
<1>2. TypeOK'
  BY <1>0, <1>1 DEF TypeOK, WorkerLocs
<1>3. CountInv'
  BY <1>0, <1>1 DEF CountInv, Counted
<1>4. LockInv'
  BY <1>0, <1>1 DEF LockInv, HoldLocs, TypeOK
<1>5. StageInv'
  BY <1>0, <1>1 DEF StageInv
<1>6. ASSUME HAVE_PTHREAD_BARRIERS PROVE PhaseInv'
  BY <1>0, <1>1, <1>6 DEF PhaseInv, RunningInv, GatheringInv, HeldInv,
     Running, Gathering, Held, BarrierInv
<1> QED
  BY <1>2, <1>3, <1>4, <1>5, <1>6

\* What returning from the barrier does to the program counters.
LEMMA Passing ==
  ASSUME TypeOK, NEW S \in SUBSET Threads, PassBarrier(S)
  PROVE  /\ \A t \in Threads : pc'[t] = IF t \in S THEN AfterWait(pc[t])
                                                  ELSE pc[t]
         /\ pc' \in [Threads -> WorkerLocs \cup ControlLocs]
         /\ pc'[Control] \in ControlLocs
         /\ \A w \in Workers : pc'[w] \in WorkerLocs
         /\ paused' \in [Workers -> BOOLEAN]
<1>0. Control \in Threads /\ \A w \in Workers : w \in Threads
  BY DEF Threads
<1>1. \A t \in Threads : pc'[t] = IF t \in S THEN AfterWait(pc[t]) ELSE pc[t]
  BY DEF PassBarrier
<1>2. \A loc \in WorkerLocs : AfterWait(loc) \in WorkerLocs
  BY DEF AfterWait, WorkerLocs, ContinueLocs, RemoveLocs, HoldLocs
<1>3. \A loc \in ControlLocs : AfterWait(loc) \in ControlLocs
  BY DEF AfterWait, ControlLocs
<1>4. /\ pc'[Control] \in ControlLocs
      /\ \A w \in Workers : pc'[w] \in WorkerLocs
  BY <1>0, <1>1, <1>2, <1>3 DEF TypeOK
<1>5. pc' \in [Threads -> WorkerLocs \cup ControlLocs]
  BY <1>4 DEF PassBarrier, Threads
<1>6. paused' \in [Workers -> BOOLEAN]
  BY DEF PassBarrier, TypeOK
<1> QED
  BY <1>1, <1>4, <1>5, <1>6

\* A thread returns from the barrier or starts to wait on it: the part of the
\* invariant that does not depend on the barrier.
LEMMA BarrierTypes ==
  ASSUME IInv, NEW t \in Threads, WaitOnPauseBarrier(t)
  PROVE  TypeOK' /\ CountInv' /\ LockInv' /\ StageInv'
<1> USE WorkersAssumption DEF IInv
<1>0. /\ Control \in Threads
      /\ \A v \in Workers : v \in Threads /\ v # Control
  BY DEF Threads
<1>1. CASE UNCHANGED <<pc, paused>> /\ arrived' = arrived \cup {t}
  BY <1>1 DEF WaitOnPauseBarrier, TypeOK, CountInv, Counted, LockInv, StageInv
<1>2. ASSUME NEW S \in SUBSET Threads, PassBarrier(S),
             arrived' \in SUBSET Threads
      PROVE  TypeOK' /\ CountInv' /\ LockInv' /\ StageInv'
  <2>0. UNCHANGED <<status_, readers, wrQueued, numLock, num_workers_,
                    barrierCount>>
    BY DEF WaitOnPauseBarrier
  <2>1. TypeOK'
    BY <1>2, <2>0, Passing DEF TypeOK
  <2>2. \A u \in Threads : pc'[u] = IF u \in S THEN AfterWait(pc[u])
                                              ELSE pc[u]
    BY <1>2, Passing
  <2>3. \A u \in Threads :
          pc'[u] # pc[u] => /\ pc[u] \in BarrierLocs
                            /\ pc'[u] = AfterWait(pc[u])
    BY <2>2 DEF AfterWait, BarrierLocs
  <2>4. \A u \in Threads :
          pc'[u] # pc[u] =>
             pc'[u] \in {"b2", "continue", "rb2", "remove", "paused", "idle",
                         "join"}
    BY <2>3 DEF AfterWait, BarrierLocs
  <2>5. CountInv'
    <3>1. Counted' = Counted
      BY <1>0, <2>3, <2>4 DEF Counted, BarrierLocs
    <3> QED
      BY <2>0, <3>1 DEF CountInv
  <2>6. LockInv'
    BY <1>0, <2>0, <2>3, <2>4 DEF LockInv, HoldLocs, BarrierLocs
  <2>7. \/ pc'[Control] = pc[Control]
        \/ pc[Control] = "pause_wait" /\ pc'[Control] = "paused"
        \/ pc[Control] = "resume_wait" /\ pc'[Control] = "idle"
        \/ pc[Control] = "stop_wait" /\ pc'[Control] = "join"
    <3>1. \/ pc'[Control] = pc[Control]
          \/ /\ pc[Control] \in {"pause_wait", "resume_wait", "stop_wait"}
             /\ pc'[Control] = AfterWait(pc[Control])
      BY <1>0, <2>3 DEF BarrierLocs, TypeOK, ControlLocs
    <3>2. /\ AfterWait("pause_wait") = "paused"
          /\ AfterWait("resume_wait") = "idle"
          /\ AfterWait("stop_wait") = "join"
      BY DEF AfterWait
    <3> QED
      BY <3>1, <3>2
  <2>8. StageInv'
    BY <1>0, <2>0, <2>3, <2>4, <2>7 DEF StageInv, BarrierLocs
  <2> QED
    BY <2>1, <2>5, <2>6, <2>8
<1>3. arrived \cup {t} \in SUBSET Threads /\ {t} \in SUBSET Threads
  BY DEF TypeOK
<1> QED
  BY <1>1, <1>2, <1>3 DEF WaitOnPauseBarrier, TypeOK

\* In a build with barriers, a thread comes to the barrier only during a pause,
\* and the threshold is then exact.
LEMMA AtTheBarrier ==
  ASSUME IInv, HAVE_PTHREAD_BARRIERS, NEW t \in Threads,
         WaitOnPauseBarrier(t)
  PROVE  /\ ~Running
         /\ Gathering \/ Held
         /\ pc[Control] \notin {"setup", "spawn", "destroyed"}
         /\ \A w \in Workers :
              pc[w] \in {"failed", "work", "continue", "b1", "remove", "rb1",
                         "b2", "rb2", "done"}
         /\ barrierCount = num_workers_ + 1
<1> USE WorkersAssumption DEF IInv
<1>1. ~Running
  <2>1. CASE t = Control
    BY <2>1 DEF WaitOnPauseBarrier, BarrierLocs, Running
  <2>2. CASE t \in Workers
    <3>1. pc[t] \in {"b1", "b2", "rb1", "rb2"}
      BY <2>2 DEF WaitOnPauseBarrier, BarrierLocs, TypeOK, WorkerLocs,
         ContinueLocs, RemoveLocs, HoldLocs
    <3> QED
      BY <2>2, <3>1 DEF PhaseInv, RunningInv
  <2> QED
    BY <2>1, <2>2 DEF Threads
<1>2. Gathering \/ Held
  BY <1>1 DEF Running, Gathering, Held, StageInv, TypeOK, ControlLocs
<1>3. pc[Control] \notin {"setup", "spawn", "destroyed"}
  BY <1>1 DEF Running
<1> QED
  BY <1>1, <1>2, <1>3 DEF PhaseInv, GatheringInv, HeldInv, BarrierInv

\* The arrival that completes the barrier finds the whole group there and
\* moves it: into the pause, or out of it.
LEMMA Completion ==
  ASSUME IInv, HAVE_PTHREAD_BARRIERS, NEW t \in Threads,
         WaitOnPauseBarrier(t),
         Cardinality(arrived \cup {t}) = barrierCount,
         PassBarrier(arrived \cup {t})
  PROVE  /\ Control \in arrived \cup {t}
         /\ \A w \in Workers :
              \/ pc[w] = "done" /\ pc'[w] = "done"
              \/ /\ w \in arrived \cup {t}
                 /\ pc[w] \in {"b1", "rb1", "b2", "rb2"}
                 /\ pc'[w] = AfterWait(pc[w])
         /\ Gathering =>
              /\ pc'[Control] = "paused"
              /\ \A w \in Workers : pc'[w] \in {"b2", "rb2", "done"}
         /\ Held =>
              /\ \/ pc[Control] = "resume_wait" /\ pc'[Control] = "idle"
                 \/ pc[Control] = "stop_wait" /\ pc'[Control] = "join"
              /\ \A w \in Workers : pc'[w] \in {"continue", "remove", "done"}
<1> USE WorkersAssumption DEF IInv
<1> DEFINE S == arrived \cup {t}
<1>0. /\ Control \in Threads
      /\ \A v \in Workers : v \in Threads /\ v # Control
      /\ t \in Workers \/ t = Control
  BY DEF Threads
<1>1. \A w \in Workers : w \in S => pc[w] \in {"b1", "rb1", "b2", "rb2"}
  BY <1>0, AtTheBarrier DEF WaitOnPauseBarrier, BarrierLocs, PhaseInv,
     GatheringInv, HeldInv, TypeOK, WorkerLocs, ContinueLocs, RemoveLocs,
     HoldLocs
<1>2. S \subseteq Counted \cup {Control}
  BY <1>1 DEF Counted, TypeOK, Threads
<1>3. S = Counted \cup {Control}
  BY <1>2, AtTheBarrier, FullHouse DEF CountInv
<1>4. \A w \in Workers : w \in S \/ pc[w] = "done"
  BY <1>3, AtTheBarrier DEF Counted
<1>5. S \in SUBSET Threads
  BY DEF TypeOK
<1>6. \A u \in Threads : pc'[u] = IF u \in S THEN AfterWait(pc[u]) ELSE pc[u]
  BY <1>5, Passing
<1>7. \A w \in Workers :
        \/ pc[w] = "done" /\ pc'[w] = "done"
        \/ /\ w \in S
           /\ pc[w] \in {"b1", "rb1", "b2", "rb2"}
           /\ pc'[w] = AfterWait(pc[w])
  BY <1>0, <1>1, <1>4, <1>6
<1>8. pc'[Control] = AfterWait(pc[Control])
  BY <1>0, <1>3, <1>6
<1>9. ASSUME Gathering
      PROVE  /\ pc'[Control] = "paused"
             /\ \A w \in Workers : pc'[w] \in {"b2", "rb2", "done"}
  <2>1. \A w \in Workers : pc'[w] \in {"b2", "rb2", "done"}
    BY <1>7, <1>9 DEF PhaseInv, GatheringInv, AfterWait
  <2>2. pc'[Control] = "paused"
    BY <1>8, <1>9 DEF Gathering, AfterWait
  <2> QED
    BY <2>1, <2>2
<1>10. ASSUME Held
       PROVE  /\ \/ pc[Control] = "resume_wait" /\ pc'[Control] = "idle"
                 \/ pc[Control] = "stop_wait" /\ pc'[Control] = "join"
              /\ \A w \in Workers :
                   pc'[w] \in {"continue", "remove", "done"}
  <2>1. \A w \in Workers : pc'[w] \in {"continue", "remove", "done"}
    BY <1>7, <1>10 DEF PhaseInv, HeldInv, AfterWait
  <2>2. pc[Control] \in {"resume_wait", "stop_wait"}
    BY <1>0, <1>3, <1>10 DEF PhaseInv, HeldInv, Held, WaitOnPauseBarrier,
       BarrierLocs
  <2> QED
    BY <1>8, <2>1, <2>2 DEF AfterWait
<1>11. Control \in S
  BY <1>3
<1> QED
  BY <1>7, <1>9, <1>10, <1>11

\* A worker at the barrier is in step with the control thread.
LEMMA BarrierPhases ==
  ASSUME IInv, HAVE_PTHREAD_BARRIERS, NEW t \in Threads,
         WaitOnPauseBarrier(t)
  PROVE  PhaseInv'
<1> USE WorkersAssumption DEF IInv
<1>0. /\ Control \in Threads
      /\ \A v \in Workers : v \in Threads /\ v # Control
      /\ t \in Workers \/ t = Control
  BY DEF Threads
<1>1. UNCHANGED <<status_, readers, wrQueued, numLock, num_workers_,
                  barrierCount>>
  BY DEF WaitOnPauseBarrier
<1>2. CASE UNCHANGED pc /\ arrived' = arrived \cup {t}
  <2>1. RunningInv'
    BY <1>1, <1>2, AtTheBarrier DEF RunningInv, Running
  <2>2. GatheringInv'
    BY <1>0, <1>1, <1>2 DEF PhaseInv, GatheringInv, Gathering,
       WaitOnPauseBarrier, BarrierLocs
  <2>3. HeldInv'
    BY <1>0, <1>1, <1>2 DEF PhaseInv, HeldInv, Held, WaitOnPauseBarrier,
       BarrierLocs
  <2>4. BarrierInv'
    BY <1>1, <1>2 DEF PhaseInv, BarrierInv
  <2> QED
    BY <2>1, <2>2, <2>3, <2>4 DEF PhaseInv
<1>3. CASE /\ Cardinality(arrived \cup {t}) = barrierCount
           /\ PassBarrier(arrived \cup {t})
           /\ arrived' = {}
  <2>0. barrierCount = num_workers_ + 1
    BY AtTheBarrier
  <2>1. CASE Gathering
    <3>1. /\ pc'[Control] = "paused"
          /\ \A w \in Workers : pc'[w] \in {"b2", "rb2", "done"}
      BY <1>3, <2>1, Completion
    <3> QED
      BY <1>1, <1>3, <2>0, <3>1 DEF PhaseInv, RunningInv, GatheringInv,
         HeldInv, BarrierInv, Running, Gathering
  <2>2. CASE Held
    <3>1. /\ pc'[Control] \in {"idle", "join"}
          /\ \A w \in Workers : pc'[w] \in {"continue", "remove", "done"}
      BY <1>3, <2>2, Completion
    <3> QED
      BY <1>1, <1>3, <2>0, <3>1 DEF PhaseInv, RunningInv, GatheringInv,
         HeldInv, BarrierInv, Running, Gathering, Held
  <2> QED
    BY <2>1, <2>2, AtTheBarrier
<1> QED
  BY <1>2, <1>3 DEF WaitOnPauseBarrier

-----------------------------------------------------------------------------
(* The invariant and what follows from it.                                 *)

\* Every step preserves the invariant.
LEMMA NextIInv == IInv /\ [Next]_vars => IInv'
<1> SUFFICES ASSUME IInv, [Next]_vars PROVE IInv'
  OBVIOUS
<1>1. CASE ControlCall
  BY <1>1, ControlMoves DEF ControlCall
<1>2. CASE ControlStep
  <2>1. CASE \/ QueueWriter \/ SpawnDone \/ PauseWorkers \/ ResumeWorkers
             \/ StopWorkers \/ JoinThreads
    BY <2>1, ControlMoves
  <2>2. CASE Initialize \/ Destroy
    BY <2>2, LifeCycle
  <2>3. CASE WaitOnPauseBarrier(Control)
    BY <2>3, BarrierTypes, BarrierPhases DEF IInv, Threads
  <2>4. ASSUME NEW w \in Workers, AddWorkers(w) \/ SpawnThread(w)
        PROVE  IInv'
    BY <2>4, Registration, WorkerMoves
  <2> QED
    BY <1>2, <2>1, <2>2, <2>3, <2>4 DEF ControlStep
<1>3. ASSUME NEW w \in Workers, WorkerStep(w) PROVE IInv'
  <2>1. CASE \/ CallContinueRunning(w) \/ ContinueRunningNoPause(w)
             \/ LeaveEarly(w) \/ ContinueRunning(w)
    BY <2>1, WorkerMoves
  <2>2. CASE RemoveSelf(w)
    BY <2>2, Departure, Decrement, Departed DEF RemoveSelf
  <2>3. CASE WaitOnPauseBarrier(w)
    BY <2>3, BarrierTypes, BarrierPhases DEF IInv, Threads
  <2> QED
    BY <1>3, <2>1, <2>2, <2>3 DEF WorkerStep
<1>4. CASE UNCHANGED vars
  BY <1>4 DEF vars, IInv, TypeOK, CountInv, Counted, LockInv, StageInv,
     PhaseInv, RunningInv, GatheringInv, HeldInv, BarrierInv, Running,
     Gathering, Held
<1> QED
  BY <1>1, <1>2, <1>3, <1>4 DEF Next, Finished

\* The invariant holds in every reachable state of a WorkerStatus object.
LEMMA Invariance == Spec => []IInv
BY InitIInv, NextIInv, PTL DEF Spec

\* The fields of a WorkerStatus object keep their types; in particular
\* num_workers_ never goes negative, however many workers leave early.
THEOREM TypeCorrect == Spec => []TypeOK
<1>1. IInv => TypeOK
  BY DEF IInv
<1> QED
  BY <1>1, Invariance, PTL

\* In a build with pthread barriers, no worker runs its own code between the
\* return of PauseWorkers() and the end of the pause, for any number of
\* workers, any of which may leave early or never have started.
THEOREM QuietPause == Spec => [](HAVE_PTHREAD_BARRIERS => PauseIsQuiet)
<1>1. IInv => (HAVE_PTHREAD_BARRIERS => PauseIsQuiet)
  BY DEF IInv, PhaseInv, HeldInv, Held, PauseIsQuiet
<1> QED
  BY <1>1, Invariance, PTL

\* The claim of RemoveSelf()'s comment: nobody waits on the barrier that a
\* departing worker destroys, because it holds the status lock with a status
\* other than PAUSE and the previous pause has been left by everyone.
THEOREM RebuildIsSafe ==
  Spec => [](HAVE_PTHREAD_BARRIERS => BarrierIdleWhenRebuilt)
<1>1. IInv => (HAVE_PTHREAD_BARRIERS => BarrierIdleWhenRebuilt)
  BY DEF IInv, PhaseInv, RunningInv, GatheringInv, HeldInv, Running,
     Gathering, Held, StageInv, TypeOK, ControlLocs, BarrierIdleWhenRebuilt
<1> QED
  BY <1>1, Invariance, PTL

\* No thread waits on a barrier that is destroyed or not yet initialised.
THEOREM BarrierAlive == Spec => []NoWaitOnDeadBarrier
<1>1. IInv => NoWaitOnDeadBarrier
  <2> SUFFICES ASSUME IInv, HAVE_PTHREAD_BARRIERS, barrierCount = 0,
                      NEW t \in Threads, pc[t] \in BarrierLocs
               PROVE  FALSE
    BY DEF NoWaitOnDeadBarrier
  <2>1. ~Running
    <3>1. CASE t = Control
      BY <3>1 DEF BarrierLocs, Running
    <3>2. CASE t \in Workers
      <4>1. pc[t] \in {"b1", "b2", "rb1", "rb2"}
        BY <3>2 DEF IInv, BarrierLocs, TypeOK, WorkerLocs, ContinueLocs,
           RemoveLocs, HoldLocs
      <4> QED
        BY <3>2, <4>1 DEF IInv, PhaseInv, RunningInv
    <3> QED
      BY <3>1, <3>2 DEF Threads
  <2>2. Gathering \/ Held
    BY <2>1 DEF IInv, Running, Gathering, Held, StageInv, TypeOK, ControlLocs
  <2>3. barrierCount = num_workers_ + 1
    BY <2>1, <2>2 DEF IInv, PhaseInv, GatheringInv, HeldInv, BarrierInv,
       Running
  <2> QED
    BY <2>3 DEF IInv, TypeOK
<1> QED
  BY <1>1, Invariance, PTL

\* While somebody waits, the threshold is exactly the size of the group.
THEOREM ThresholdExact ==
  Spec => [](HAVE_PTHREAD_BARRIERS => ThresholdMatchesGroup)
<1>1. IInv => (HAVE_PTHREAD_BARRIERS => ThresholdMatchesGroup)
  <2> SUFFICES ASSUME IInv, HAVE_PTHREAD_BARRIERS, arrived # {}
               PROVE  barrierCount = Cardinality(Counted) + 1
    BY DEF ThresholdMatchesGroup
  <2>1. ~Running
    BY DEF IInv, PhaseInv, RunningInv
  <2>2. Gathering \/ Held
    BY <2>1 DEF IInv, Running, Gathering, Held, StageInv, TypeOK, ControlLocs
  <2> QED
    BY <2>1, <2>2 DEF IInv, PhaseInv, GatheringInv, HeldInv, BarrierInv,
       Running, CountInv
<1> QED
  BY <1>1, Invariance, PTL

-----------------------------------------------------------------------------
(* WorkerStatus implements PauseService.                                   *)

\* The promise's places, from the phase of the protocol.
LEMMA Places ==
  ASSUME IInv, HAVE_PTHREAD_BARRIERS
  PROVE  /\ absAt \in [Workers -> {"working", "parked", "gone"}]
         /\ \A w \in Workers :
              /\ pc[w] \notin {"b1", "b2", "rb1", "rb2"} => w \notin arrived
              /\ absAt[w] = "parked"
                   <=> (pc[w] \in {"b2", "rb2"} \/ w \in arrived)
              /\ absAt[w] = "gone" <=> pc[w] \in {"rm_unlock", "done"}
<1>1. Running \/ Gathering \/ Held
  BY DEF IInv, StageInv, TypeOK, ControlLocs, Running, Gathering, Held
<1>2. \A w \in Workers :
        pc[w] \notin {"b1", "b2", "rb1", "rb2"} => w \notin arrived
  BY <1>1 DEF IInv, PhaseInv, RunningInv, GatheringInv, HeldInv
<1>3. absAt \in [Workers -> {"working", "parked", "gone"}]
  BY DEF absAt
<1>4. ASSUME NEW w \in Workers
      PROVE  /\ absAt[w] = "parked"
                  <=> (pc[w] \in {"b2", "rb2"} \/ w \in arrived)
             /\ absAt[w] = "gone" <=> pc[w] \in {"rm_unlock", "done"}
  BY <1>2 DEF absAt
<1> QED
  BY <1>2, <1>3, <1>4

\* Two states in which the workers are at the same places.
LEMMA SamePlaces ==
  ASSUME IInv, IInv', HAVE_PTHREAD_BARRIERS,
         \A w \in Workers :
           /\ (pc'[w] \in {"b2", "rb2"} \/ w \in arrived')
                <=> (pc[w] \in {"b2", "rb2"} \/ w \in arrived)
           /\ pc'[w] \in {"rm_unlock", "done"}
                <=> pc[w] \in {"rm_unlock", "done"}
  PROVE  absAt' = absAt
<1>1. \A w \in Workers : absAt'[w] = absAt[w]
  BY DEF absAt
<1>2. /\ absAt' \in [Workers -> {"working", "parked", "gone"}]
      /\ absAt \in [Workers -> {"working", "parked", "gone"}]
  BY DEF absAt
<1> QED
  BY <1>1, <1>2

\* The promise's mode, from where the control thread is.
LEMMA Mode ==
  ASSUME IInv
  PROVE  /\ absMode = "pausing" <=> Gathering
         /\ absMode = "paused" <=> Held
         /\ absMode = "stopped"
              <=> pc[Control] \in {"join", "joined", "destroyed"}
         /\ absMode \in {"run", "stopped"} <=> Running
         /\ absMode \in {"run", "pausing", "paused", "stopped"}
BY DEF IInv, StageInv, TypeOK, ControlLocs, absMode, Running, Gathering, Held

\* Before any worker is registered, the group counts as running.
LEMMA InitPromise == Init => Promise!Init
<1> SUFFICES ASSUME Init PROVE Promise!Init
  OBVIOUS
<1>1. \A w \in Workers : pc[w] = "new" /\ w \notin arrived
  BY WorkersAssumption DEF Init, Threads
<1>2. absAt = [w \in Workers |-> "working"]
  BY <1>1 DEF absAt
<1>3. absMode = "run"
  BY DEF Init, absMode, Threads
<1> QED
  BY <1>2, <1>3 DEF Promise!Init

\* The control thread's own steps.
LEMMA ControlPromise ==
  ASSUME IInv, IInv', HAVE_PTHREAD_BARRIERS,
         \/ CallPause \/ CallResume \/ CallStop \/ QueueWriter \/ SpawnDone
         \/ PauseWorkers \/ ResumeWorkers \/ StopWorkers \/ JoinThreads
         \/ Initialize \/ Destroy
  PROVE  [Promise!Next]_(Promise!vars)
<1> USE WorkersAssumption DEF CallPause, CallResume, CallStop, Call,
        QueueWriter, SpawnDone, PauseWorkers, ResumeWorkers, StopWorkers,
        SetStatus, JoinThreads, Initialize, Destroy, Goto
<1>0. /\ Control \in Threads
      /\ \A w \in Workers : w \in Threads /\ w # Control
  BY DEF Threads
<1>1. (\A w \in Workers : pc'[w] = pc[w]) /\ UNCHANGED arrived
  BY <1>0 DEF IInv, TypeOK
<1>2. absAt' = absAt
  BY <1>1, SamePlaces
<1>3. \/ absMode' = absMode
      \/ absMode = "run" /\ absMode' \in {"pausing", "stopped"}
  BY <1>0 DEF IInv, StageInv, TypeOK, absMode
<1>4. CASE absMode' = absMode
  BY <1>2, <1>4 DEF Promise!vars
<1>5. CASE absMode = "run" /\ absMode' \in {"pausing", "stopped"}
  BY <1>2, <1>5 DEF Promise!Next, Promise!RequestPause, Promise!Stop
<1> QED
  BY <1>3, <1>4, <1>5

\* A worker in its own code, leaving included.
LEMMA WorkerPromise ==
  ASSUME IInv, IInv', HAVE_PTHREAD_BARRIERS, NEW w \in Workers,
         \/ AddWorkers(w) \/ SpawnThread(w) \/ CallContinueRunning(w)
         \/ LeaveEarly(w) \/ ContinueRunningNoPause(w) \/ ContinueRunning(w)
         \/ RemoveSelf(w)
  PROVE  [Promise!Next]_(Promise!vars)
<1>0. /\ Control \in Threads
      /\ \A v \in Workers : v \in Threads /\ v # Control
  BY WorkersAssumption DEF Threads
<1>1. /\ UNCHANGED <<arrived, status_>>
      /\ \A t \in Threads : t # w => pc'[t] = pc[t]
      /\ pc[w] \notin {"b1", "b2", "rb1", "rb2"} /\ pc'[w] \notin {"b2", "rb2"}
      /\ pc'[w] \in {"rm_unlock", "done"}
           <=> (pc[w] \in {"rm_unlock", "done"} \/ DecrementWorkers(w))
  BY <1>0 DEF AddWorkers, SpawnThread, CallContinueRunning, LeaveEarly,
     ContinueRunningNoPause, ContinueRunning, RemoveSelf, RemoveSelfCheck,
     AcquireNumWorkersLock, BarrierDestroy, BarrierInit, DecrementWorkers,
     ReleaseStatusLock, Goto, IInv, TypeOK
<1>2. absMode' = absMode
  BY <1>0, <1>1 DEF absMode
<1>3. CASE ~DecrementWorkers(w)
  <2>1. absAt' = absAt
    BY <1>0, <1>1, <1>3, SamePlaces
  <2> QED
    BY <1>2, <2>1 DEF Promise!vars
<1>4. CASE DecrementWorkers(w)
  <2>1. pc[w] = "rm_dec" /\ pc'[w] \in {"rm_unlock", "done"}
    BY <1>1, <1>4 DEF DecrementWorkers
  <2>2. Running
    BY <2>1 DEF IInv, StageInv, TypeOK, ControlLocs, PhaseInv, GatheringInv,
       HeldInv, Running, Gathering, Held
  <2>3. absMode \in {"run", "stopped"}
    BY <2>2, Mode
  <2>4. absAt[w] = "working" /\ absAt'[w] = "gone"
    BY <2>1, Places DEF absAt
  <2>5. \A v \in Workers : v # w => absAt'[v] = absAt[v]
    BY <1>0, <1>1 DEF absAt
  <2>6. absAt' = [absAt EXCEPT ![w] = "gone"]
    BY <2>4, <2>5 DEF absAt
  <2>7. Promise!Leave(w)
    BY <1>2, <2>3, <2>4, <2>6 DEF Promise!Leave
  <2> QED
    BY <2>7 DEF Promise!Next
<1> QED
  BY <1>3, <1>4

\* The barrier: a worker's first wait parks it, and the arrival that completes
\* the barrier starts or ends the pause for all.
LEMMA BarrierPromise ==
  ASSUME IInv, IInv', HAVE_PTHREAD_BARRIERS, NEW t \in Threads,
         WaitOnPauseBarrier(t)
  PROVE  [Promise!Next]_(Promise!vars)
<1>0. /\ Control \in Threads
      /\ \A v \in Workers : v \in Threads /\ v # Control
      /\ t \in Workers \/ t = Control
      /\ UNCHANGED status_
      /\ t \notin arrived
  BY WorkersAssumption DEF Threads, WaitOnPauseBarrier
<1>1. CASE UNCHANGED pc /\ arrived' = arrived \cup {t}
  <2>1. absMode' = absMode
    BY <1>0, <1>1 DEF absMode
  <2>2. CASE t \in Workers /\ Gathering
    <3>1. pc[t] \in {"b1", "rb1"}
      BY <2>2 DEF IInv, PhaseInv, GatheringInv, WaitOnPauseBarrier,
         BarrierLocs
    <3>2. absAt[t] = "working" /\ absAt'[t] = "parked"
      BY <1>0, <1>1, <2>2, <3>1 DEF absAt
    <3>3. \A v \in Workers : v # t => absAt'[v] = absAt[v]
      BY <1>1 DEF absAt
    <3>4. absAt' = [absAt EXCEPT ![t] = "parked"]
      BY <3>2, <3>3 DEF absAt
    <3>5. Promise!Park(t)
      BY <2>1, <2>2, <3>2, <3>4, Mode DEF Promise!Park
    <3> QED
      BY <2>2, <3>5 DEF Promise!Next
  <2>3. CASE t = Control \/ Held
    <3>1. t \in Workers => pc[t] \in {"b2", "rb2"}
      BY <1>0, <2>3 DEF IInv, PhaseInv, HeldInv, WaitOnPauseBarrier,
         BarrierLocs
    <3>2. absAt' = absAt
      BY <1>0, <1>1, <3>1, SamePlaces
    <3> QED
      BY <2>1, <3>2 DEF Promise!vars
  <2> QED
    BY <1>0, <2>2, <2>3, AtTheBarrier
<1>2. CASE /\ Cardinality(arrived \cup {t}) = barrierCount
           /\ PassBarrier(arrived \cup {t})
           /\ arrived' = {}
  <2>1. CASE Gathering
    <3>1. /\ pc'[Control] = "paused"
          /\ Control \in arrived \cup {t}
          /\ \A w \in Workers :
               /\ pc'[w] \in {"b2", "rb2", "done"}
               /\ w \in arrived \/ w = t \/ pc[w] = "done"
               /\ pc'[w] = "done" <=> pc[w] = "done"
               /\ pc[w] \in {"b1", "rb1", "done"}
      BY <1>2, <2>1, Completion
         DEF AfterWait, IInv, PhaseInv, GatheringInv
    <3>2. absMode = "pausing" /\ absMode' = "paused"
      BY <2>1, <3>1, Mode DEF absMode
    <3>3. \A w \in Workers :
            absAt'[w] = IF pc[w] = "done" THEN "gone" ELSE "parked"
      BY <1>2, <3>1 DEF absAt
    <3>4. \A w \in Workers : w # t => absAt'[w] = absAt[w]
      <4>1. \A w \in Workers : pc[w] = "done" => w \notin arrived
        BY Places
      <4> QED
        BY <3>1, <3>3, <4>1 DEF absAt
    <3>5. CASE t \in Workers
      <4>1. pc[t] \in {"b1", "rb1"}
        BY <3>1, <3>5 DEF WaitOnPauseBarrier, BarrierLocs
      <4>2. absAt[t] = "working" /\ absAt'[t] = "parked"
        BY <1>0, <3>3, <3>5, <4>1 DEF absAt
      <4>3. absAt' = [absAt EXCEPT ![t] = "parked"]
        BY <3>4, <4>2 DEF absAt
      <4>4. Promise!Park(t)
        BY <3>2, <3>3, <4>2, <4>3 DEF Promise!Park
      <4> QED
        BY <3>5, <4>4 DEF Promise!Next
    <3>6. CASE t = Control
      <4>1. absAt' = absAt
        BY <1>0, <3>4, <3>6 DEF absAt
      <4>2. Promise!Quiesce
        BY <3>2, <3>3, <4>1 DEF Promise!Quiesce
      <4> QED
        BY <4>2 DEF Promise!Next
    <3> QED
      BY <1>0, <3>5, <3>6
  <2>2. CASE Held
    <3>1. /\ \/ pc[Control] = "resume_wait" /\ pc'[Control] = "idle"
             \/ pc[Control] = "stop_wait" /\ pc'[Control] = "join"
          /\ \A w \in Workers :
               /\ pc'[w] \in {"continue", "remove", "done"}
               /\ pc'[w] = "done" <=> pc[w] = "done"
               /\ pc[w] \in {"b2", "rb2", "done"}
      BY <1>2, <2>2, Completion DEF AfterWait, IInv, PhaseInv, HeldInv
    <3>2. absMode = "paused" /\ absMode' \in {"run", "stopped"}
      BY <2>2, <3>1, Mode DEF absMode
    <3>3. \A w \in Workers :
            absAt'[w] = IF absAt[w] = "parked" THEN "working" ELSE absAt[w]
      <4>1. \A w \in Workers : pc[w] = "done" => w \notin arrived
        BY Places
      <4> QED
        BY <1>2, <3>1, <4>1 DEF absAt
    <3>4. absAt' = [w \in Workers |->
                      IF absAt[w] = "parked" THEN "working" ELSE absAt[w]]
      BY <3>3 DEF absAt
    <3>5. Promise!Release
      BY <3>2, <3>4 DEF Promise!Release
    <3> QED
      BY <3>5 DEF Promise!Next
  <2> QED
    BY <2>1, <2>2, AtTheBarrier
<1> QED
  BY <1>1, <1>2 DEF WaitOnPauseBarrier

\* Every step of WorkerStatus is a step of the promise, or hidden from it.
LEMMA NextPromise ==
  ASSUME IInv, IInv', HAVE_PTHREAD_BARRIERS, [Next]_vars
  PROVE  [Promise!Next]_(Promise!vars)
<1>1. CASE ControlCall
  BY <1>1, ControlPromise DEF ControlCall
<1>2. CASE ControlStep
  <2>1. CASE WaitOnPauseBarrier(Control)
    BY <2>1, BarrierPromise DEF Threads
  <2>2. ASSUME NEW w \in Workers, AddWorkers(w) \/ SpawnThread(w)
        PROVE  [Promise!Next]_(Promise!vars)
    BY <2>2, WorkerPromise
  <2>3. CASE \/ QueueWriter \/ SpawnDone \/ PauseWorkers \/ ResumeWorkers
             \/ StopWorkers \/ JoinThreads \/ Initialize \/ Destroy
    BY <2>3, ControlPromise
  <2> QED
    BY <1>2, <2>1, <2>2, <2>3 DEF ControlStep
<1>3. ASSUME NEW w \in Workers, WorkerStep(w)
      PROVE  [Promise!Next]_(Promise!vars)
  <2>1. CASE WaitOnPauseBarrier(w)
    BY <2>1, BarrierPromise DEF Threads
  <2>2. CASE ~WaitOnPauseBarrier(w)
    BY <1>3, <2>2, WorkerPromise DEF WorkerStep
  <2> QED
    BY <2>1, <2>2
<1>4. CASE UNCHANGED vars
  BY <1>4 DEF vars, Promise!vars, absMode, absAt
<1> QED
  BY <1>1, <1>2, <1>3, <1>4 DEF Next, Finished

\* In a build with pthread barriers WorkerStatus keeps the promise of
\* PauseService, for any number of workers: a pause holds every worker that
\* has not left until it is resumed or stopped, nobody leaves during it, and
\* all are let go at once.
THEOREM Refinement ==
  ASSUME HAVE_PTHREAD_BARRIERS
  PROVE  Spec => ImplementsPauseService
<1>1. Init => Promise!Init
  BY InitPromise
<1>2. IInv /\ IInv' /\ [Next]_vars => [Promise!Next]_(Promise!vars)
  BY NextPromise
<1> QED
  BY <1>1, <1>2, Invariance, PTL DEF Spec, ImplementsPauseService, Promise!Spec

=============================================================================
