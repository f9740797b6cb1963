------------------------------- MODULE Logger -------------------------------
(***************************************************************************)
(* stressapptest's Logger (logger.cc): threads put lines into a queue, a  *)
(* dedicated thread writes them.  A thread that finds the queue full      *)
(* waits on full_queue_cond_, the logging thread waits on                 *)
(* queued_lines_cond_ when the queue is empty, and StopThread() queues a  *)
(* null line and joins the logging thread.                                *)
(*                                                                         *)
(* What happens between taking and releasing queued_lines_mutex_ is one   *)
(* step.  A line is <<thread, number>>.  The log file and stdout are one  *)
(* output; a short or failing write ends the process by LOGGER_ASSERT.    *)
(***************************************************************************)
EXTENDS Naturals, FiniteSets, Sequences

CONSTANTS
  Main,          \* the control thread
  Workers,       \* the other threads that log
  kMaxQueueSize,
  Asserts,       \* the workers that may run into a failing sat_assert()
  Faults,        \* what may go wrong: a subset of {"write", "create"}
  MaxLines,      \* bound on the lines of a thread
  MaxSpurious    \* bound on the spurious wakeups of pthread_cond_wait

ASSUME LoggerAssumption ==
  /\ IsFiniteSet(Workers) /\ Main \notin Workers /\ Asserts \subseteq Workers
  /\ kMaxQueueSize \in Nat \ {0} /\ MaxLines \in Nat /\ MaxSpurious \in Nat
  /\ Faults \subseteq {"write", "create"}

VARIABLES
  running,   \* thread_running_
  queued,    \* queued_lines_
  local,     \* local_queue of the logging thread
  writer,    \* where the logging thread is
  pc,        \* where every other thread is
  n,         \* number of lines each thread has queued or written
  out,       \* the numbers of each thread's lines in the output
  exited,    \* the process is gone
  spurious   \* spurious wakeups of blocked threads so far

vars == <<running, queued, local, writer, pc, n, out, exited, spurious>>

Threads == {Main} \cup Workers
Null    == <<>>
Lines   == Threads \X (1 .. MaxLines + 1)
Waiting    == {t \in Threads : pc[t] = "full"}
NewLine(t) == <<t, n[t] + 1>>

\* The constructor has run, main() is alone.
Init ==
  /\ running = FALSE
  /\ queued = <<>> /\ local = <<>>
  /\ writer = "none"
  /\ pc = [t \in Threads |-> IF t = Main THEN "single" ELSE "unborn"]
  /\ n = [t \in Threads |-> 0]
  /\ out = [t \in Threads |-> <<>>]
  /\ exited = FALSE
  /\ spurious = 0

-----------------------------------------------------------------------------
\* The threads that log.

\* Sat::Initialize() starts the logging thread; from then on, workers exist.
StartThread ==
  /\ pc[Main] = "single"
  /\ running' = TRUE
  /\ writer' = "lock"
  /\ pc' = [t \in Threads |-> "idle"]
  /\ UNCHANGED <<queued, local, n, out, exited, spurious>>

\* pthread_create() fails and LOGGER_ASSERT exits.
StartThreadFails ==
  /\ pc[Main] = "single"
  /\ "create" \in Faults
  /\ running' = TRUE
  /\ exited' = TRUE
  /\ UNCHANGED <<queued, local, writer, pc, n, out, spurious>>

\* A thread calls logprintf().  The one that has stopped the logging thread
\* does so once more before it ends the process.
CallsLog(t) ==
  \/ pc[t] \in {"single", "idle"} /\ n[t] < MaxLines
  \/ pc[t] = "stopped"

\* Wrong variant: the process goes on after its last line.
AfterLogGoesOn(t) == pc[t]

\* main() and sat_assert() end the process after that line.
AfterLog(t) == IF pc[t] = "stopped" THEN "exiting" ELSE pc[t]

\* The line is queued; the logging thread is told if the queue was empty.
PushLine(t) ==
  /\ queued' = Append(queued, NewLine(t))
  /\ n' = [n EXCEPT ![t] = @ + 1]
  /\ writer' = IF queued = <<>> /\ writer = "wait" THEN "lock" ELSE writer
  /\ UNCHANGED <<running, local, out, exited, spurious>>

\* Wrong variant: the size of the queue is not looked at.
QueueLogLineUnbounded(t) ==
  /\ CallsLog(t) /\ running
  /\ PushLine(t)
  /\ pc' = [pc EXCEPT ![t] = AfterLog(t)]

\* QueueLogLine() with room in the queue ...
QueueLogLine(t) ==
  /\ CallsLog(t) /\ running
  /\ Len(queued) < kMaxQueueSize
  /\ PushLine(t)
  /\ pc' = [pc EXCEPT ![t] = AfterLog(t)]

\* Wrong variant: a full queue makes the caller write its line itself.
QueueFullWrites(t) ==
  /\ CallsLog(t) /\ running
  /\ Len(queued) >= kMaxQueueSize
  /\ n' = [n EXCEPT ![t] = @ + 1]
  /\ out' = [out EXCEPT ![t] = Append(@, n[t] + 1)]
  /\ UNCHANGED <<running, queued, local, writer, pc, exited, spurious>>

\* ... and without: pthread_cond_wait(&full_queue_cond_).
QueueFull(t) ==
  /\ CallsLog(t) /\ running
  /\ Len(queued) >= kMaxQueueSize
  /\ pc' = [pc EXCEPT ![t] = "full"]
  /\ UNCHANGED <<running, queued, local, writer, n, out, exited, spurious>>

\* The wait has ended: neither the size nor thread_running_ is looked at
\* again.
QueueAfterWait(t) ==
  /\ pc[t] = "woken"
  /\ PushLine(t)
  /\ pc' = [pc EXCEPT ![t] = "idle"]

\* Without a logging thread the caller writes, or dies of it.
WriteDirectly(t) ==
  /\ CallsLog(t) /\ ~running
  /\ n' = [n EXCEPT ![t] = @ + 1]
  /\ out' = [out EXCEPT ![t] = Append(@, n[t] + 1)]
  /\ pc' = [pc EXCEPT ![t] = AfterLog(t)]
  /\ UNCHANGED <<running, queued, local, writer, exited, spurious>>
WriteDirectlyFails(t) ==
  /\ CallsLog(t) /\ ~running
  /\ "write" \in Faults
  /\ exited' = TRUE
  /\ UNCHANGED <<running, queued, local, writer, pc, n, out, spurious>>

\* A worker's Work() is over; Sat::JoinThreads() waits for that.
WorkerDone(w) ==
  /\ pc[w] = "idle"
  /\ pc' = [pc EXCEPT ![w] = "done"]
  /\ UNCHANGED <<running, queued, local, writer, n, out, exited, spurious>>

\* StopThread() is called by Sat::Cleanup(), after all workers were joined or
\* when none was started, and by sat_assert() in any thread.
StopThread(t) ==
  /\ IF t = Main
       THEN \/ pc[t] = "single"
            \/ pc[t] = "idle" /\ \A w \in Workers : pc[w] = "done"
       ELSE pc[t] = "idle" /\ t \in Asserts
  /\ running' = FALSE
  /\ pc' = [pc EXCEPT ![t] = IF running THEN "stop" ELSE "stopped"]
  /\ UNCHANGED <<queued, local, writer, n, out, exited, spurious>>

\* Wrong variant: the null line is queued, but the logging thread is never told.
StopQueuesNullSilently(t) ==
  /\ pc[t] = "stop"
  /\ queued' = Append(queued, Null)
  /\ pc' = [pc EXCEPT ![t] = "join"]
  /\ UNCHANGED <<running, local, writer, n, out, exited, spurious>>

StopQueuesNull(t) ==
  /\ pc[t] = "stop"
  /\ queued' = Append(queued, Null)
  /\ pc' = [pc EXCEPT ![t] = IF queued = <<>> THEN "signal" ELSE "join"]
  /\ UNCHANGED <<running, local, writer, n, out, exited, spurious>>

\* need_cond_signal: the signal comes after the unlock.
StopSignals(t) ==
  /\ pc[t] = "signal"
  /\ writer' = IF writer = "wait" THEN "lock" ELSE writer
  /\ pc' = [pc EXCEPT ![t] = "join"]
  /\ UNCHANGED <<running, queued, local, n, out, exited, spurious>>

\* Wrong variant: pthread_join() is left out.
StopReturns(t) ==
  /\ pc[t] = "join"
  /\ pc' = [pc EXCEPT ![t] = "stopped"]
  /\ UNCHANGED <<running, queued, local, writer, n, out, exited, spurious>>

StopJoins(t) ==
  /\ pc[t] = "join"
  /\ writer = "done"
  /\ pc' = [pc EXCEPT ![t] = "stopped"]
  /\ UNCHANGED <<running, queued, local, writer, n, out, exited, spurious>>

\* main() returns, or sat_assert() calls exit(1).
Exit(t) ==
  /\ pc[t] = "exiting"
  /\ exited' = TRUE
  /\ UNCHANGED <<running, queued, local, writer, pc, n, out, spurious>>

-----------------------------------------------------------------------------
\* ThreadMain(), the logging thread.

WriterWaits ==
  /\ writer = "lock" /\ queued = <<>>
  /\ writer' = "wait"
  /\ UNCHANGED <<running, queued, local, pc, n, out, exited, spurious>>

\* Wrong variant: nobody is woken when the queue was exactly full.
WriterSwapsOffByOne ==
  /\ writer = "lock" /\ queued # <<>>
  /\ local' = queued /\ queued' = <<>>
  /\ writer' = "write"
  /\ pc' = [t \in Threads |->
              IF t \in Waiting /\ Len(queued) > kMaxQueueSize
                THEN "woken" ELSE pc[t]]
  /\ UNCHANGED <<running, n, out, exited, spurious>>

\* The queue changes hands, and the threads that found it full are woken.
WriterSwaps ==
  /\ writer = "lock" /\ queued # <<>>
  /\ local' = queued /\ queued' = <<>>
  /\ writer' = "write"
  /\ pc' = [t \in Threads |->
              IF t \in Waiting /\ Len(queued) >= kMaxQueueSize
                THEN "woken" ELSE pc[t]]
  /\ UNCHANGED <<running, n, out, exited, spurious>>

\* WriteAndDeleteLogLine() without the lock.
WriterWrites ==
  /\ writer = "write" /\ local # <<>> /\ Head(local) # Null
  /\ out' = [out EXCEPT ![Head(local)[1]] = Append(@, Head(local)[2])]
  /\ local' = Tail(local)
  /\ writer' = IF Len(local) = 1 THEN "lock" ELSE "write"
  /\ UNCHANGED <<running, queued, pc, n, exited, spurious>>
WriterWriteFails ==
  /\ writer = "write" /\ local # <<>> /\ Head(local) # Null
  /\ "write" \in Faults
  /\ exited' = TRUE
  /\ UNCHANGED <<running, queued, local, writer, pc, n, out, spurious>>

\* The null line ends the thread, whatever follows it.
WriterReturns ==
  /\ writer = "write" /\ local # <<>> /\ Head(local) = Null
  /\ local' = Tail(local)
  /\ writer' = "done"
  /\ UNCHANGED <<running, queued, pc, n, out, exited, spurious>>

\* pthread_cond_wait may return without a signal: harmless in the logging
\* thread, which looks again.
WriterSpuriousWakeup ==
  /\ writer = "wait"
  /\ spurious < MaxSpurious
  /\ spurious' = spurious + 1
  /\ writer' = "lock"
  /\ UNCHANGED <<running, queued, local, pc, n, out, exited>>
SpuriousWakeup(t) ==
  /\ pc[t] = "full"
  /\ spurious < MaxSpurious
  /\ spurious' = spurious + 1
  /\ pc' = [pc EXCEPT ![t] = "woken"]
  /\ UNCHANGED <<running, queued, local, writer, n, out, exited>>

-----------------------------------------------------------------------------
\* The steps of thread t and of the logging thread.
Step(t) ==
  \/ QueueLogLine(t) \/ QueueFull(t) \/ QueueAfterWait(t)
  \/ WriteDirectly(t) \/ WriteDirectlyFails(t)
  \/ StopThread(t) \/ StopQueuesNull(t) \/ StopSignals(t) \/ StopJoins(t)
  \/ Exit(t)
  \/ t \in Workers /\ WorkerDone(t)
  \/ t = Main /\ (StartThread \/ StartThreadFails)

Writer ==
  \/ WriterWaits \/ WriterSwaps \/ WriterWrites \/ WriterWriteFails
  \/ WriterReturns

Next ==
  /\ ~exited
  /\ \/ \E t \in Threads : Step(t) \/ SpuriousWakeup(t)
     \/ Writer \/ WriterSpuriousWakeup

\* Threads are scheduled; nobody is obliged to wake up spuriously.
Spec ==
  /\ Init /\ [][Next]_vars
  /\ \A t \in Threads : WF_vars(~exited /\ Step(t))
  /\ WF_vars(~exited /\ Writer)

-----------------------------------------------------------------------------
TypeOK ==
  /\ running \in BOOLEAN /\ exited \in BOOLEAN
  /\ queued \in Seq(Lines \cup {Null}) /\ local \in Seq(Lines \cup {Null})
  /\ writer \in {"none", "lock", "wait", "write", "done"}
  /\ pc \in [Threads -> {"unborn", "single", "idle", "full", "woken", "done",
                         "stop", "signal", "join", "stopped", "exiting"}]
  /\ n \in [Threads -> 0 .. MaxLines + 1]
  /\ out \in [Threads -> Seq(1 .. MaxLines + 1)]
  /\ spurious \in 0 .. MaxSpurious

\* The lines on their way to the output, and the places of thread t's there.
OnTheWay  == local \o queued
Places(t) == {i \in 1 .. Len(OnTheWay) : OnTheWay[i] # Null /\ OnTheWay[i][1] = t}

\* Every line that QueueLogLine() has accepted is in the output or still on
\* its way, once, and in the order in which its thread logged it, whether it
\* was written by the logging thread or by the caller.
LinesInOrder ==
  \A t \in Threads : \E m \in 0 .. n[t] :
    /\ out[t] = [i \in 1 .. m |-> i]
    /\ {OnTheWay[i][2] : i \in Places(t)} = m + 1 .. n[t]
    /\ \A i, j \in Places(t) : i < j => OnTheWay[i][2] < OnTheWay[j][2]

\* StopThread() (logger.h:108): "Any queued lines will be logged before this
\* returns."
FlushedAtStop ==
  \A t \in Threads : pc[t] = "stopped" => \A u \in Threads : Places(u) = {}

\* How far the queue can grow beyond kMaxQueueSize, given that a woken thread
\* does not look at the size again (the `if' at logger.cc:105): by one line
\* of each thread but the one that filled it up, and of each spurious wakeup.
QueueBound ==
  Cardinality({i \in 1 .. Len(queued) : queued[i] # Null})
    <= kMaxQueueSize + Cardinality(Workers) + spurious

\* Nobody waits for ever: not for room in the queue, not for a line, not for
\* the logging thread to end.
ProcessEnds == <>exited
=============================================================================
