---------------------------- MODULE WorkerStatus ----------------------------
(***************************************************************************)
(* stressapptest's WorkerStatus class (worker.h, worker.cc): one control  *)
(* thread pauses, resumes and stops a group of worker threads through a   *)
(* status word, two read/write locks, a mutex and a pthread barrier that  *)
(* a departing worker destroys and builds anew.                           *)
(*                                                                         *)
(* One step of the model is one access to shared state.  A thread that    *)
(* waits on the barrier stays at its program counter and is a member of   *)
(* arrived; the arrival that completes the barrier moves all of them.     *)
(***************************************************************************)
EXTENDS Naturals, FiniteSets

CONSTANTS
  Workers,                \* the worker threads of the group
  Control,                \* the thread that runs Sat::Run
  HAVE_PTHREAD_BARRIERS,  \* the build flag: FALSE in the Android build
  SpawnMayFail            \* whether pthread_create is allowed to fail

ASSUME WorkersAssumption == IsFiniteSet(Workers) /\ Control \notin Workers
ASSUME FlagsAssumption ==
  HAVE_PTHREAD_BARRIERS \in BOOLEAN /\ SpawnMayFail \in BOOLEAN

VARIABLES
  pc,            \* where each thread is
  status_,       \* "RUN", "PAUSE" or "STOP"
  readers,       \* workers that hold status_rwlock_ for reading across steps
  wrQueued,      \* Control is queued for status_rwlock_, so readers wait
  numLock,       \* who holds num_workers_mutex_, or {}
  num_workers_,
  barrierCount,  \* threshold of pause_barrier_; 0 when it is not initialised
  arrived,       \* threads blocked in pthread_barrier_wait
  paused         \* the out-parameter of each worker's ContinueRunning

vars == <<pc, status_, readers, wrQueued, numLock, num_workers_,
          barrierCount, arrived, paused>>

Threads == Workers \cup {Control}

\* Program counters.  b1 / b2 are the two barrier waits of ContinueRunning,
\* rb1 / rb2 those of RemoveSelf.
ContinueLocs == {"continue", "b1", "b2"}
RemoveLocs   == {"remove", "rb1", "rb2"}
HoldLocs     == {"rm_lock", "rm_destroy", "rm_init", "rm_dec"}
WorkerLocs   == {"new", "added", "failed", "work"} \cup ContinueLocs
                \cup RemoveLocs \cup HoldLocs \cup {"rm_unlock", "done"}
ControlLocs  == {"setup", "spawn", "idle", "pause_set", "pause_wait",
                 "paused", "resume_set", "resume_wait", "stop_set",
                 "stop_wait", "join", "joined", "destroyed"}
BarrierLocs  == {"b1", "b2", "rb1", "rb2",
                 "pause_wait", "resume_wait", "stop_wait"}

Init ==
  /\ pc = [t \in Threads |-> IF t = Control THEN "setup" ELSE "new"]
  /\ status_ = "RUN"
  /\ readers = {}
  /\ wrQueued = FALSE
  /\ numLock = {}
  /\ num_workers_ = 0
  /\ barrierCount = 0
  /\ arrived = {}
  /\ paused = [w \in Workers |-> FALSE]

Goto(t, loc) == pc' = [pc EXCEPT ![t] = loc]

-----------------------------------------------------------------------------
(* The pause barrier.                                                      *)

\* Where pthread_barrier_wait returns to.
AfterWait(loc) ==
  CASE loc = "b1"          -> "b2"
    [] loc = "b2"          -> "continue"
    [] loc = "rb1"         -> "rb2"
    [] loc = "rb2"         -> "remove"
    [] loc = "pause_wait"  -> "paused"
    [] loc = "resume_wait" -> "idle"
    [] loc = "stop_wait"   -> "join"
    [] OTHER               -> loc

\* The threads in S return from the wait.  ContinueRunning reports a pause
\* after its second wait.
PassBarrier(S) ==
  /\ pc' = [t \in Threads |-> IF t \in S THEN AfterWait(pc[t]) ELSE pc[t]]
  /\ paused' = [w \in Workers |-> paused[w] \/ (w \in S /\ pc[w] = "b2")]

\* Without pthread barriers the wait is an empty function.  pause_rwlock_ is
\* only ever read-locked, so it never blocks anyone.
WaitOnPauseBarrier(t) ==
  /\ pc[t] \in BarrierLocs
  /\ t \notin arrived
  /\ \/ /\ ~HAVE_PTHREAD_BARRIERS
        /\ PassBarrier({t})
        /\ UNCHANGED arrived
     \/ /\ HAVE_PTHREAD_BARRIERS
        /\ Cardinality(arrived \cup {t}) = barrierCount
        /\ PassBarrier(arrived \cup {t})
        /\ arrived' = {}
     \/ /\ HAVE_PTHREAD_BARRIERS
        /\ Cardinality(arrived \cup {t}) # barrierCount
        /\ arrived' = arrived \cup {t}
        /\ UNCHANGED <<pc, paused>>
  /\ UNCHANGED <<status_, readers, wrQueued, numLock, num_workers_,
                 barrierCount>>

-----------------------------------------------------------------------------
(* Methods of the control thread.                                          *)

\* Wrong variant: the worker is never counted.
AddWorkersUncounted(w) ==
  /\ pc[Control] = "setup"
  /\ pc[w] = "new"
  /\ Goto(w, "added")
  /\ UNCHANGED <<status_, readers, wrQueued, numLock, num_workers_,
                 barrierCount, arrived, paused>>

\* WorkerThread::InitThread registers the worker before Initialize().
AddWorkers(w) ==
  /\ pc[Control] = "setup"
  /\ pc[w] = "new"
  /\ num_workers_' = num_workers_ + 1
  /\ Goto(w, "added")
  /\ UNCHANGED <<status_, readers, wrQueued, numLock, barrierCount, arrived,
                 paused>>

Initialize ==
  /\ pc[Control] = "setup"
  /\ \A w \in Workers : pc[w] = "added"
  /\ barrierCount' = IF HAVE_PTHREAD_BARRIERS THEN num_workers_ + 1 ELSE 0
  /\ Goto(Control, "spawn")
  /\ UNCHANGED <<status_, readers, wrQueued, numLock, num_workers_, arrived,
                 paused>>

\* Sat::SpawnThreads ignores the result of SpawnThread.
SpawnThread(w) ==
  /\ pc[Control] = "spawn"
  /\ pc[w] = "added"
  /\ \/ Goto(w, "work")
     \/ SpawnMayFail /\ Goto(w, "failed")
  /\ UNCHANGED <<status_, readers, wrQueued, numLock, num_workers_,
                 barrierCount, arrived, paused>>

SpawnDone ==
  /\ pc[Control] = "spawn"
  /\ \A w \in Workers : pc[w] # "added"
  /\ Goto(Control, "idle")
  /\ UNCHANGED <<status_, readers, wrQueued, numLock, num_workers_,
                 barrierCount, arrived, paused>>

\* Sat::Run pauses a running group, resumes a paused one, and ends by
\* stopping the group whatever its state.
Call(from, loc) ==
  /\ pc[Control] \in from
  /\ Goto(Control, loc)
  /\ UNCHANGED <<status_, readers, wrQueued, numLock, num_workers_,
                 barrierCount, arrived, paused>>

CallPause  == Call({"idle"}, "pause_set")
CallResume == Call({"paused"}, "resume_set")
CallStop   == Call({"idle", "paused"}, "stop_set")

\* The rwlock prefers writers: once Control is queued no new reader enters.
QueueWriter ==
  /\ pc[Control] \in {"pause_set", "resume_set", "stop_set"}
  /\ readers # {}
  /\ ~wrQueued
  /\ wrQueued' = TRUE
  /\ UNCHANGED <<pc, status_, readers, numLock, num_workers_, barrierCount,
                 arrived, paused>>

\* The caller waits on the barrier iff the previous status calls for it.
SetStatus(status, waitIf, waitLoc, doneLoc) ==
  /\ readers = {}
  /\ status_' = status
  /\ wrQueued' = FALSE
  /\ Goto(Control, IF waitIf THEN waitLoc ELSE doneLoc)
  /\ UNCHANGED <<readers, numLock, num_workers_, barrierCount, arrived,
                 paused>>

\* Wrong variant: PauseWorkers returns at once.
PauseWorkersNoWait ==
  /\ pc[Control] = "pause_set"
  /\ SetStatus("PAUSE", FALSE, "pause_wait", "paused")

PauseWorkers ==
  /\ pc[Control] = "pause_set"
  /\ SetStatus("PAUSE", status_ # "PAUSE", "pause_wait", "paused")

ResumeWorkers ==
  /\ pc[Control] = "resume_set"
  /\ SetStatus("RUN", status_ = "PAUSE", "resume_wait", "idle")

\* Wrong variant: stopping a paused group leaves the workers at the barrier.
StopWorkersNoWait ==
  /\ pc[Control] = "stop_set"
  /\ SetStatus("STOP", FALSE, "stop_wait", "join")

StopWorkers ==
  /\ pc[Control] = "stop_set"
  /\ SetStatus("STOP", status_ = "PAUSE", "stop_wait", "join")

\* Sat::JoinThreads; joining a thread that was never created just fails.
JoinThreads ==
  /\ pc[Control] = "join"
  /\ \A w \in Workers : pc[w] \in {"done", "failed"}
  /\ Goto(Control, "joined")
  /\ UNCHANGED <<status_, readers, wrQueued, numLock, num_workers_,
                 barrierCount, arrived, paused>>

Destroy ==
  /\ pc[Control] = "joined"
  /\ barrierCount' = 0
  /\ Goto(Control, "destroyed")
  /\ UNCHANGED <<status_, readers, wrQueued, numLock, num_workers_, arrived,
                 paused>>

-----------------------------------------------------------------------------
(* Methods of the worker threads.                                          *)

\* The worker's loop tests IsReadyToRun() ...
CallContinueRunning(w) ==
  /\ pc[w] = "work"
  /\ Goto(w, "continue")
  /\ paused' = [paused EXCEPT ![w] = FALSE]
  /\ UNCHANGED <<status_, readers, wrQueued, numLock, num_workers_,
                 barrierCount, arrived>>

\* ... or IsReadyToRunNoPause(), which only ever notices STOP ...
ContinueRunningNoPause(w) ==
  /\ pc[w] = "work"
  /\ ~wrQueued
  /\ status_ = "STOP"
  /\ Goto(w, "remove")
  /\ UNCHANGED <<status_, readers, wrQueued, numLock, num_workers_,
                 barrierCount, arrived, paused>>

\* ... or Work() returns early, on an error or because its job is done.
LeaveEarly(w) ==
  /\ pc[w] = "work"
  /\ Goto(w, "remove")
  /\ UNCHANGED <<status_, readers, wrQueued, numLock, num_workers_,
                 barrierCount, arrived, paused>>

\* One turn of the loop: GetStatus() and the branch on it.
ContinueRunning(w) ==
  /\ pc[w] = "continue"
  /\ ~wrQueued
  /\ \/ status_ = "RUN"   /\ Goto(w, "work")
     \/ status_ = "PAUSE" /\ Goto(w, "b1")
     \/ status_ = "STOP"  /\ Goto(w, "remove")
  /\ UNCHANGED <<status_, readers, wrQueued, numLock, num_workers_,
                 barrierCount, arrived, paused>>

\* Wrong variant: the read lock is not kept.
RemoveSelfCheckUnlocked(w) ==
  /\ pc[w] = "remove"
  /\ ~wrQueued
  /\ Goto(w, IF status_ # "PAUSE" THEN "rm_lock" ELSE "rb1")
  /\ UNCHANGED <<status_, readers, wrQueued, numLock, num_workers_,
                 barrierCount, arrived, paused>>

\* Wrong variant: a pause is not obeyed.
RemoveSelfCheckIgnorePause(w) ==
  /\ pc[w] = "remove"
  /\ ~wrQueued
  /\ readers' = readers \cup {w}
  /\ Goto(w, "rm_lock")
  /\ UNCHANGED <<status_, wrQueued, numLock, num_workers_, barrierCount,
                 arrived, paused>>

\* RemoveSelf keeps the read lock only when the group is not paused.
RemoveSelfCheck(w) ==
  /\ pc[w] = "remove"
  /\ ~wrQueued
  /\ \/ /\ status_ # "PAUSE"
        /\ readers' = readers \cup {w}
        /\ Goto(w, "rm_lock")
     \/ /\ status_ = "PAUSE"
        /\ Goto(w, "rb1")
        /\ UNCHANGED readers
  /\ UNCHANGED <<status_, wrQueued, numLock, num_workers_, barrierCount,
                 arrived, paused>>

AcquireNumWorkersLock(w) ==
  /\ pc[w] = "rm_lock"
  /\ numLock = {}
  /\ numLock' = {w}
  /\ Goto(w, IF HAVE_PTHREAD_BARRIERS THEN "rm_destroy" ELSE "rm_dec")
  /\ UNCHANGED <<status_, readers, wrQueued, num_workers_, barrierCount,
                 arrived, paused>>

BarrierDestroy(w) ==
  /\ pc[w] = "rm_destroy"
  /\ barrierCount' = 0
  /\ Goto(w, "rm_init")
  /\ UNCHANGED <<status_, readers, wrQueued, numLock, num_workers_, arrived,
                 paused>>

\* Wrong variants: the threshold forgets Control, or keeps the old one.
BarrierInitTooLow(w) ==
  /\ pc[w] = "rm_init"
  /\ barrierCount' = num_workers_ - 1
  /\ Goto(w, "rm_dec")
  /\ UNCHANGED <<status_, readers, wrQueued, numLock, num_workers_, arrived,
                 paused>>

BarrierInitTooHigh(w) ==
  /\ pc[w] = "rm_init"
  /\ barrierCount' = num_workers_ + 1
  /\ Goto(w, "rm_dec")
  /\ UNCHANGED <<status_, readers, wrQueued, numLock, num_workers_, arrived,
                 paused>>

\* The new threshold is the old worker count: one worker fewer, plus Control.
BarrierInit(w) ==
  /\ pc[w] = "rm_init"
  /\ barrierCount' = num_workers_
  /\ Goto(w, "rm_dec")
  /\ UNCHANGED <<status_, readers, wrQueued, numLock, num_workers_, arrived,
                 paused>>

DecrementWorkers(w) ==
  /\ pc[w] = "rm_dec"
  /\ num_workers_' = num_workers_ - 1
  /\ numLock' = {}
  /\ Goto(w, "rm_unlock")
  /\ UNCHANGED <<status_, readers, wrQueued, barrierCount, arrived, paused>>

ReleaseStatusLock(w) ==
  /\ pc[w] = "rm_unlock"
  /\ readers' = readers \ {w}
  /\ Goto(w, "done")
  /\ UNCHANGED <<status_, wrQueued, numLock, num_workers_, barrierCount,
                 arrived, paused>>

-----------------------------------------------------------------------------
\* Everything is over.
Finished ==
  /\ pc[Control] = "destroyed"
  /\ UNCHANGED vars

ControlCall == CallPause \/ CallResume \/ CallStop

ControlStep ==
  \/ Initialize \/ SpawnDone \/ QueueWriter
  \/ PauseWorkers \/ ResumeWorkers \/ StopWorkers
  \/ JoinThreads \/ Destroy
  \/ WaitOnPauseBarrier(Control)
  \/ \E w \in Workers : AddWorkers(w) \/ SpawnThread(w)

RemoveSelf(w) ==
  \/ RemoveSelfCheck(w) \/ AcquireNumWorkersLock(w)
  \/ BarrierDestroy(w) \/ BarrierInit(w)
  \/ DecrementWorkers(w) \/ ReleaseStatusLock(w)

WorkerStep(w) ==
  \/ CallContinueRunning(w) \/ ContinueRunningNoPause(w) \/ LeaveEarly(w)
  \/ ContinueRunning(w) \/ RemoveSelf(w)
  \/ WaitOnPauseBarrier(w)

Next ==
  \/ ControlCall
  \/ ControlStep
  \/ \E w \in Workers : WorkerStep(w)
  \/ Finished

Spec == Init /\ [][Next]_vars

\* Every thread gets to run.  A worker's loop body is finite, so it comes
\* back to IsReadyToRun(); Sat::Run's loop ends at its deadline, so
\* StopWorkers is called however often the group was paused before.
Fairness ==
  /\ WF_vars(ControlStep)
  /\ SF_vars(CallStop)
  /\ \A w \in Workers : WF_vars(WorkerStep(w))

FairSpec == Spec /\ Fairness

-----------------------------------------------------------------------------
(* Properties.                                                             *)

TypeOK ==
  /\ pc \in [Threads -> WorkerLocs \cup ControlLocs]
  /\ pc[Control] \in ControlLocs
  /\ \A w \in Workers : pc[w] \in WorkerLocs
  /\ status_ \in {"RUN", "PAUSE", "STOP"}
  /\ readers \in SUBSET Workers
  /\ wrQueued \in BOOLEAN
  /\ numLock \in {{}} \cup {{w} : w \in Workers}
  /\ num_workers_ \in Nat
  /\ barrierCount \in Nat
  /\ arrived \in SUBSET Threads
  /\ paused \in [Workers -> BOOLEAN]

\* Workers that the barrier counts: registered and not yet taken out again.
Counted == {w \in Workers : pc[w] \notin {"new", "rm_unlock", "done"}}

\* From the return of PauseWorkers() until ResumeWorkers() or StopWorkers()
\* publishes a new status, no worker runs its own code: each is inside
\* ContinueRunning() or RemoveSelf() or has left the group.
PauseIsQuiet ==
  (pc[Control] \in {"paused", "resume_set", "stop_set"} /\ status_ = "PAUSE")
    => \A w \in Workers : pc[w] \in {"b2", "rb2", "done"}

\* RemoveSelf() destroys and rebuilds the barrier only when no thread is
\* waiting on it (the comment in RemoveSelf claims this from status_ alone).
BarrierIdleWhenRebuilt ==
  \A w \in Workers : pc[w] \in {"rm_destroy", "rm_init"} => arrived = {}

\* No thread can reach the barrier while it is destroyed.
NoWaitOnDeadBarrier ==
  HAVE_PTHREAD_BARRIERS /\ barrierCount = 0
    => \A t \in Threads : pc[t] \notin BarrierLocs

\* Whenever somebody waits on the barrier, its threshold is the number of
\* workers still in the group plus the control thread, so that it can
\* neither trip early nor wait for someone who has left.
ThresholdMatchesGroup ==
  arrived # {} => barrierCount = Cardinality(Counted) + 1

\* PauseWorkers() returns.  (It does when every registered worker became a
\* thread; SpawnMayFail shows what happens otherwise.)
PauseReturns == (pc[Control] = "pause_wait") ~> (pc[Control] = "paused")

\* Every run ends with all workers joined and the object destroyed, however
\* often the group was paused and whichever workers left early.
RunTerminates == <>(pc[Control] = "destroyed")

-----------------------------------------------------------------------------
(* The promise that this class implements.                                 *)

absMode ==
  CASE pc[Control] = "pause_wait" -> "pausing"
    [] \/ pc[Control] \in {"paused", "resume_wait", "stop_wait"}
       \/ pc[Control] \in {"resume_set", "stop_set"} /\ status_ = "PAUSE"
                                   -> "paused"
    [] pc[Control] \in {"join", "joined", "destroyed"} -> "stopped"
    [] OTHER                       -> "run"

absAt ==
  [w \in Workers |->
     CASE pc[w] \in {"b2", "rb2"} \/ w \in arrived -> "parked"
       [] pc[w] \in {"rm_unlock", "done"}          -> "gone"
       [] OTHER                                    -> "working"]

Promise == INSTANCE PauseService WITH mode <- absMode, at <- absAt

\* Every behaviour of WorkerStatus is one of PauseService.
ImplementsPauseService == Promise!Spec
=============================================================================
