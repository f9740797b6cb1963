---------------------------- MODULE LoggerProofs ----------------------------
(***************************************************************************)
(* Proofs about Logger, for any finite set of workers, any limit of the    *)
(* queue and any number of lines and of spurious wakeups: how far the      *)
(* queue outgrows its limit and, if no thread runs into a failing          *)
(* sat_assert(), that no line is lost, repeated or overtaken and that      *)
(* StopThread() flushes.                                                   *)
(***************************************************************************)
EXTENDS Logger, FiniteSetTheorems, SequenceTheorems, TLAPS

-----------------------------------------------------------------------------
(* The inductive invariant.                                                *)

\* Only the thread that has stopped the logging thread logs once more.
CountInv ==
  /\ \A t \in Threads :
       /\ pc[t] # "exiting" => n[t] <= MaxLines
       /\ pc[t] \in {"full", "woken"} => n[t] < MaxLines
       /\ running => pc[t] \notin {"stop", "signal", "join", "stopped", "exiting"}
  /\ pc[Main] = "single" => \A w \in Workers : pc[w] = "unborn"

\* The lines in the queue and the threads that add one without looking.
QueuedLines(q) == {i \in 1 .. Len(q) : q[i] # Null}
Woken          == {t \in Threads : pc[t] = "woken"}
RoomInv ==
  Cardinality(QueuedLines(queued)) + Cardinality(Woken)
    <= kMaxQueueSize + Cardinality(Workers) + spurious

\* While main() is alone, while threads log, and from StopThread() on.
StageInv ==
  /\ \A t \in Threads : pc[t] \in {"idle", "full", "woken"} => running
  /\ \A w \in Workers : pc[w] \in {"unborn", "idle", "full", "woken", "done"}
  /\ pc[Main] \in {"stop", "signal", "join", "stopped", "exiting"} =>
       ~running /\ \A w \in Workers : pc[w] \in {"unborn", "done"}
  /\ pc[Main] = "single" =>
       queued = <<>> /\ local = <<>> /\ (~exited => ~running)

\* The logging thread takes the queue only when it has none, and ends with the
\* null line, which is the last.
WriterInv ==
  /\ writer # "write" => local = <<>>
  /\ writer = "done" \/ pc[Main] \in {"stopped", "exiting"} => queued = <<>> /\ local = <<>>
  /\ writer = "done" => pc[Main] \in {"signal", "join", "stopped", "exiting"}
  /\ \A i \in 1 .. Len(OnTheWay) :
       OnTheWay[i] = Null => i = Len(OnTheWay) /\ pc[Main] \in {"signal", "join"}

IInv ==
  /\ TypeOK /\ CountInv /\ RoomInv
  /\ Asserts = {} => StageInv /\ WriterInv /\ LinesInOrder


-----------------------------------------------------------------------------
(* Types.                                                                  *)

Entry == Lines \cup {Null}

\* A thread's next line is a line.
LEMMA NewLineFacts ==
  ASSUME TypeOK, NEW t \in Threads, n[t] <= MaxLines
  PROVE  /\ NewLine(t) \in Lines
         /\ n[t] + 1 \in 1 .. MaxLines + 1
         /\ NewLine(t) # Null
BY LoggerAssumption DEF TypeOK, NewLine, Lines, Null

\* The thread that logs may do so.
LEMMA CallFacts ==
  ASSUME TypeOK, CountInv, NEW t \in Threads, CallsLog(t)
  PROVE  /\ n[t] <= MaxLines
         /\ pc[t] # "stopped" => n[t] < MaxLines
         /\ pc[t] \in {"single", "idle", "stopped"}
         /\ running => pc[t] # "stopped"
BY LoggerAssumption DEF TypeOK, CountInv, CallsLog

LEMMA InitTypes ==
  ASSUME Init
  PROVE  TypeOK /\ CountInv
<1>1. <<>> \in Seq(Lines \cup {Null}) /\ <<>> \in Seq(1 .. MaxLines + 1)
  BY EmptySeq
<1>2. n \in [Threads -> 0 .. MaxLines + 1] /\ spurious \in 0 .. MaxSpurious
  BY LoggerAssumption DEF Init
<1>3. out \in [Threads -> Seq(1 .. MaxLines + 1)]
  BY <1>1 DEF Init
<1>4. TypeOK
  BY <1>1, <1>2, <1>3 DEF Init, TypeOK
<1>5. CountInv
  BY LoggerAssumption DEF Init, CountInv, Threads
<1> QED
  BY <1>4, <1>5

LEMMA PushTypes ==
  ASSUME TypeOK, CountInv, NEW t \in Threads, PushLine(t),
         \/ /\ CallsLog(t) /\ running
            /\ pc' = [pc EXCEPT ![t] = AfterLog(t)]
         \/ pc[t] = "woken" /\ pc' = [pc EXCEPT ![t] = "idle"]
  PROVE  TypeOK' /\ CountInv'
<1>1. n[t] < MaxLines /\ pc[t] # "stopped"
  BY CallFacts DEF CountInv
<1>2. NewLine(t) \in Lines /\ n[t] + 1 \in 1 .. MaxLines + 1
  BY <1>1, NewLineFacts, LoggerAssumption DEF TypeOK
<1>3. n' = [n EXCEPT ![t] = n[t] + 1]
  BY DEF PushLine
<1>4. \E l \in {"single", "idle"} :
        pc' = [pc EXCEPT ![t] = l] /\ (l = "single" => pc[t] = "single") /\ pc[t] # "unborn"
  BY <1>1, CallFacts DEF AfterLog
<1>5. queued' \in Seq(Lines \cup {Null})
  BY <1>2 DEF PushLine, TypeOK
<1>6. TypeOK'
  BY <1>2, <1>3, <1>4, <1>5 DEF PushLine, TypeOK
<1>7. CountInv'
  <2>1. UNCHANGED running /\ MaxLines \in Nat
    BY LoggerAssumption DEF PushLine
  <2>2. ASSUME NEW u \in Threads
        PROVE  /\ pc'[u] # "exiting" => n'[u] <= MaxLines
               /\ pc'[u] \in {"full", "woken"} => n'[u] < MaxLines
               /\ running' => pc'[u] \notin {"stop", "signal", "join", "stopped", "exiting"}
    BY <1>1, <1>3, <1>4, <2>1 DEF TypeOK, CountInv
  <2>3. pc'[Main] = "single" => \A w \in Workers : pc'[w] = "unborn"
    BY <1>4, LoggerAssumption DEF TypeOK, CountInv, Threads
  <2> QED
    BY <2>2, <2>3 DEF CountInv
<1> QED
  BY <1>6, <1>7

LEMMA WriteTypes ==
  ASSUME TypeOK, CountInv, NEW t \in Threads, WriteDirectly(t)
  PROVE  TypeOK' /\ CountInv'
<1>1. /\ n[t] <= MaxLines /\ (pc[t] # "stopped" => n[t] < MaxLines)
      /\ pc[t] \in {"single", "idle", "stopped"}
      /\ ~running /\ UNCHANGED running
  BY CallFacts DEF WriteDirectly
<1>2. n[t] + 1 \in 1 .. MaxLines + 1
  BY <1>1, NewLineFacts
<1>3. n' = [n EXCEPT ![t] = n[t] + 1] /\ out' = [out EXCEPT ![t] = Append(out[t], n[t] + 1)]
  BY DEF WriteDirectly
<1>4. PICK l : /\ pc' = [pc EXCEPT ![t] = l]
               /\ l = IF pc[t] = "stopped" THEN "exiting" ELSE pc[t]
  BY DEF WriteDirectly, AfterLog
<1>5. TypeOK'
  <2>1. Append(out[t], n[t] + 1) \in Seq(1 .. MaxLines + 1)
    BY <1>2 DEF TypeOK
  <2>2. out' \in [Threads -> Seq(1 .. MaxLines + 1)]
    BY <1>3, <2>1 DEF TypeOK
  <2> QED
    BY <1>1, <1>2, <1>3, <1>4, <2>2 DEF WriteDirectly, TypeOK
<1>6. CountInv'
  <2>1. MaxLines \in Nat
    BY LoggerAssumption
  <2>2. ASSUME NEW u \in Threads
        PROVE  /\ pc'[u] # "exiting" => n'[u] <= MaxLines
               /\ pc'[u] \in {"full", "woken"} => n'[u] < MaxLines
               /\ running' => pc'[u] \notin {"stop", "signal", "join", "stopped", "exiting"}
    BY <1>1, <1>3, <1>4, <2>1 DEF TypeOK, CountInv
  <2>3. pc'[Main] = "single" => \A w \in Workers : pc'[w] = "unborn"
    BY <1>1, <1>4, LoggerAssumption DEF TypeOK, CountInv, Threads
  <2> QED
    BY <2>2, <2>3 DEF CountInv
<1> QED
  BY <1>5, <1>6

\* Steps that log nothing.
LEMMA OtherTypes ==
  ASSUME TypeOK, CountInv, UNCHANGED n,
         \/ \E t \in Threads :
              \/ QueueFull(t) \/ WriteDirectlyFails(t) \/ StopThread(t)
              \/ StopSignals(t) \/ StopJoins(t) \/ Exit(t) \/ SpuriousWakeup(t)
              \/ StopQueuesNull(t)
              \/ t \in Workers /\ WorkerDone(t)
         \/ StartThread \/ StartThreadFails
         \/ Writer \/ WriterSpuriousWakeup
         \/ UNCHANGED vars
  PROVE  TypeOK' /\ CountInv'
<1> USE LoggerAssumption
<1>1. CASE \E t \in Threads : QueueFull(t)
  <2>1. PICK t \in Threads : QueueFull(t)
    BY <1>1
  <2>2. n[t] < MaxLines
    BY <2>1, CallFacts DEF QueueFull
  <2>3. pc[t] # "unborn"
    BY <2>1, CallFacts DEF QueueFull
  <2>4. TypeOK'
    BY <2>1 DEF QueueFull, TypeOK
  <2>5. CountInv'
    BY <2>1, <2>2, <2>3 DEF QueueFull, TypeOK, CountInv, Threads
  <2> QED
    BY <2>4, <2>5
<1>2. CASE \E t \in Threads : WriteDirectlyFails(t) \/ Exit(t)
  <2>1. /\ UNCHANGED <<running, queued, local, writer, pc, n, out, spurious>>
        /\ exited' = TRUE
    BY <1>2 DEF WriteDirectlyFails, Exit
  <2>2. TypeOK'
    BY <2>1 DEF TypeOK
  <2>3. CountInv'
    BY <2>1 DEF CountInv
  <2> QED
    BY <2>2, <2>3
<1>3. CASE \E t \in Threads : StopThread(t)
  BY <1>3 DEF StopThread, TypeOK, CountInv, Threads
<1>4. CASE \E t \in Threads : StopSignals(t) \/ StopJoins(t)
  <2>1. PICK t \in Threads : StopSignals(t) \/ StopJoins(t)
    BY <1>4
  <2>2. PICK l \in {"join", "stopped"} :
          /\ pc' = [pc EXCEPT ![t] = l] /\ pc[t] # "unborn"
          /\ l = "stopped" => pc[t] = "join"
    BY <2>1 DEF StopSignals, StopJoins
  <2>3. TypeOK'
    BY <2>1 DEF StopSignals, StopJoins, TypeOK
  <2>4. CountInv'
    BY <2>1, <2>2 DEF StopSignals, StopJoins, TypeOK, CountInv, Threads
  <2> QED
    BY <2>3, <2>4
<1>5. CASE \E t \in Threads : SpuriousWakeup(t)
  BY <1>5 DEF SpuriousWakeup, TypeOK, CountInv, Threads
<1>6. CASE \E t \in Threads : StopQueuesNull(t)
  <2>1. PICK t \in Threads : StopQueuesNull(t)
    BY <1>6
  <2>2. queued' \in Seq(Lines \cup {Null})
    BY <2>1 DEF StopQueuesNull, TypeOK
  <2> QED
    BY <2>1, <2>2 DEF StopQueuesNull, TypeOK, CountInv, Threads
<1>7. CASE \E t \in Workers : WorkerDone(t)
  BY <1>7 DEF WorkerDone, TypeOK, CountInv, Threads
<1>8. CASE StartThread \/ StartThreadFails
  BY <1>8 DEF StartThread, StartThreadFails, TypeOK, CountInv, Threads
<1>9. CASE WriterWaits \/ WriterWriteFails \/ WriterSpuriousWakeup \/ UNCHANGED vars
  <2>1. UNCHANGED <<running, queued, local, pc, n, out>>
    BY <1>9 DEF WriterWaits, WriterWriteFails, WriterSpuriousWakeup, vars
  <2>2. exited' \in BOOLEAN
    BY <1>9, Zenon DEF WriterWaits, WriterWriteFails, WriterSpuriousWakeup,
       vars, TypeOK
  <2>4. /\ writer' \in {"none", "lock", "wait", "write", "done"}
        /\ spurious' \in 0 .. MaxSpurious
    BY <1>9 DEF WriterWaits, WriterWriteFails, WriterSpuriousWakeup, vars,
       TypeOK
  <2>5. TypeOK'
    BY <2>1, <2>2, <2>4 DEF TypeOK
  <2>3. CountInv'
    BY <2>1 DEF CountInv
  <2> QED
    BY <2>3, <2>5
<1>10. CASE WriterSwaps
  BY <1>10, EmptySeq DEF WriterSwaps, Waiting, TypeOK, CountInv, Threads
<1>11. CASE WriterWrites
  <2>1. Head(local) \in Lines /\ Tail(local) \in Seq(Lines \cup {Null})
    BY <1>11, HeadTailProperties DEF WriterWrites, TypeOK
  <2>2. PICK t \in Threads, k \in 1 .. MaxLines + 1 : Head(local)[1] = t /\ Head(local)[2] = k
    BY <2>1 DEF Lines
  <2>3. out' = [out EXCEPT ![t] = Append(out[t], k)]
    BY <1>11, <2>2 DEF WriterWrites
  <2>4. Append(out[t], k) \in Seq(1 .. MaxLines + 1)
    BY DEF TypeOK
  <2>5. out' \in [Threads -> Seq(1 .. MaxLines + 1)]
    BY <2>3, <2>4 DEF TypeOK
  <2> QED
    BY <1>11, <2>1, <2>5 DEF WriterWrites, TypeOK, CountInv
<1>12. CASE WriterReturns
  <2>1. Tail(local) \in Seq(Lines \cup {Null})
    BY <1>12, HeadTailProperties DEF WriterReturns, TypeOK
  <2> QED
    BY <1>12, <2>1 DEF WriterReturns, TypeOK, CountInv
<1> QED
  BY <1>1, <1>2, <1>3, <1>4, <1>5, <1>6, <1>7, <1>8, <1>9, <1>10, <1>11,
     <1>12, Zenon DEF Writer

-----------------------------------------------------------------------------
(* The length of the queue.                                                *)

LEMMA WokenFinite ==
  /\ IsFiniteSet(Threads) /\ Cardinality(Threads) = Cardinality(Workers) + 1
  /\ Cardinality(Workers) \in Nat
  /\ IsFiniteSet(Woken) /\ Cardinality(Woken) \in Nat
  /\ Cardinality(Woken) <= Cardinality(Threads)
<1>1. /\ IsFiniteSet(Workers \cup {Main})
      /\ Cardinality(Workers \cup {Main}) = Cardinality(Workers) + 1
      /\ Cardinality(Workers) \in Nat
  BY LoggerAssumption, FS_AddElement, FS_CardinalityType
<1>2. Threads = Workers \cup {Main}
  BY DEF Threads
<1>3. Woken \subseteq Threads
  BY DEF Woken
<1>4. IsFiniteSet(Woken) /\ Cardinality(Woken) <= Cardinality(Threads)
  BY <1>1, <1>2, <1>3, FS_Subset
<1> QED
  BY <1>1, <1>2, <1>4, FS_CardinalityType

\* The lines of a sequence are counted.
LEMMA LinesFinite ==
  ASSUME NEW q \in Seq(Entry)
  PROVE  /\ IsFiniteSet(QueuedLines(q)) /\ Cardinality(QueuedLines(q)) \in Nat
         /\ Cardinality(QueuedLines(q)) <= Len(q)
<1>1. Len(q) \in Nat
  OBVIOUS
<1>2. IsFiniteSet(1 .. Len(q)) /\ Cardinality(1 .. Len(q)) = Len(q)
  BY <1>1, FS_Interval
<1>3. QueuedLines(q) \subseteq 1 .. Len(q)
  BY DEF QueuedLines
<1> QED
  BY <1>2, <1>3, FS_Subset, FS_CardinalityType

\* A line more, or a null line.
LEMMA LinesAppend ==
  ASSUME NEW q \in Seq(Entry), NEW e \in Entry
  PROVE  Cardinality(QueuedLines(Append(q, e)))
           = Cardinality(QueuedLines(q)) + (IF e = Null THEN 0 ELSE 1)
<1>1. /\ Len(q) \in Nat /\ Len(Append(q, e)) = Len(q) + 1
      /\ \A i \in 1 .. Len(q) : Append(q, e)[i] = q[i]
      /\ Append(q, e)[Len(q) + 1] = e
  BY AppendProperties
<1>2. Len(q) + 1 \notin QueuedLines(q)
  BY <1>1 DEF QueuedLines
<1>3. CASE e = Null
  <2>1. QueuedLines(Append(q, e)) = QueuedLines(q)
    BY <1>1, <1>3 DEF QueuedLines
  <2> QED
    BY <1>3, <2>1, LinesFinite
<1>4. CASE e # Null
  <2>1. QueuedLines(Append(q, e)) = QueuedLines(q) \cup {Len(q) + 1}
    BY <1>1, <1>4 DEF QueuedLines
  <2>2. Cardinality(QueuedLines(q) \cup {Len(q) + 1}) = Cardinality(QueuedLines(q)) + 1
    BY <1>2, LinesFinite, FS_AddElement
  <2> QED
    BY <1>4, <2>1, <2>2
<1> QED
  BY <1>3, <1>4

LEMMA NoLines == QueuedLines(<<>>) = {} /\ Cardinality(QueuedLines(<<>>)) = 0
<1>1. QueuedLines(<<>>) = {}
  BY EmptySeq DEF QueuedLines
<1> QED
  BY <1>1, FS_EmptySet

\* One thread of the woken ones fewer, or one more.
LEMMA WokenStep ==
  ASSUME NEW t \in Threads, TypeOK, NEW l, pc' = [pc EXCEPT ![t] = l]
  PROVE  /\ pc[t] = "woken" /\ l # "woken" => Cardinality(Woken') = Cardinality(Woken) - 1
         /\ pc[t] # "woken" /\ l = "woken" => Cardinality(Woken') = Cardinality(Woken) + 1
         /\ pc[t] # "woken" /\ l # "woken" => Woken' = Woken
<1>1. CASE pc[t] = "woken" /\ l # "woken"
  <2>1. Woken' = Woken \ {t} /\ t \in Woken
    BY <1>1 DEF Woken, TypeOK
  <2> QED
    BY <1>1, <2>1, WokenFinite, FS_RemoveElement
<1>2. CASE pc[t] # "woken" /\ l = "woken"
  <2>1. Woken' = Woken \cup {t} /\ t \notin Woken
    BY <1>2 DEF Woken, TypeOK
  <2> QED
    BY <1>2, <2>1, WokenFinite, FS_AddElement
<1>3. CASE pc[t] # "woken" /\ l # "woken"
  BY <1>3 DEF Woken, TypeOK
<1> QED
  BY <1>1, <1>2, <1>3

LEMMA InitRoom ==
  ASSUME Init
  PROVE  RoomInv
<1>1. Woken = {}
  BY DEF Init, Woken
<1> QED
  BY <1>1, NoLines, FS_EmptySet, WokenFinite, LoggerAssumption DEF Init,
     RoomInv

LEMMA RoomStep ==
  ASSUME TypeOK, CountInv, RoomInv, [Next]_vars
  PROVE  RoomInv'
<1> DEFINE Lim == kMaxQueueSize + Cardinality(Workers)
<1>1. /\ queued \in Seq(Entry) /\ Len(queued) \in Nat /\ spurious \in Nat
      /\ kMaxQueueSize \in Nat \ {0} /\ Lim \in Nat
  BY LoggerAssumption, WokenFinite DEF TypeOK, Entry
<1>2. /\ Cardinality(QueuedLines(queued)) \in Nat /\ Cardinality(Woken) \in Nat
      /\ Cardinality(QueuedLines(queued)) <= Len(queued)
      /\ Cardinality(QueuedLines(queued)) + Cardinality(Woken) <= Lim + spurious
  BY <1>1, LinesFinite, WokenFinite DEF RoomInv
<1> DEFINE Room == Cardinality(QueuedLines(queued')) + Cardinality(Woken') <= Lim + spurious'
<1>3. SUFFICES Room
  BY DEF RoomInv, QueuedLines
<1> HIDE DEF Lim
\* Steps that leave the queue and the woken threads alone.
<1>4. CASE UNCHANGED <<queued, Woken>> /\ spurious' \in Nat /\ spurious' >= spurious
  BY <1>1, <1>2, <1>4
<1>5. ASSUME NEW t \in Threads, QueueLogLine(t) PROVE Room
  <2>1. /\ n[t] <= MaxLines /\ pc[t] \in {"single", "idle"} /\ AfterLog(t) # "woken"
        /\ Len(queued) < kMaxQueueSize /\ spurious' = spurious
        /\ \E l : pc' = [pc EXCEPT ![t] = l] /\ l # "woken"
    BY <1>5, CallFacts DEF QueueLogLine, PushLine, AfterLog
  <2>2. NewLine(t) \in Entry /\ NewLine(t) # Null
    BY <2>1, NewLineFacts DEF Entry
  <2>3. Cardinality(QueuedLines(queued')) = Cardinality(QueuedLines(queued)) + 1
    BY <1>1, <1>5, <2>2, LinesAppend DEF QueueLogLine, PushLine
  <2>4. Woken' = Woken
    BY <2>1, WokenStep
  <2>5. Cardinality(Woken) <= Cardinality(Workers)
    <3>1. Woken \subseteq Threads \ {t}
      BY <2>1 DEF Woken
    <3>2. IsFiniteSet(Threads \ {t}) /\ Cardinality(Threads \ {t}) = Cardinality(Threads) - 1
      BY WokenFinite, FS_RemoveElement
    <3>3. Cardinality(Woken) <= Cardinality(Threads \ {t})
      BY <3>1, <3>2, FS_Subset
    <3> QED
      BY <3>2, <3>3, WokenFinite
  <2> QED
    BY <1>1, <1>2, <1>3, <2>1, <2>3, <2>4, <2>5, WokenFinite DEF Lim
<1>6. ASSUME NEW t \in Threads, QueueAfterWait(t) PROVE Room
  <2>1. n[t] <= MaxLines /\ pc[t] = "woken" /\ spurious' = spurious
    BY <1>6, LoggerAssumption DEF QueueAfterWait, PushLine, CountInv
  <2>2. NewLine(t) \in Entry /\ NewLine(t) # Null
    BY <2>1, NewLineFacts DEF Entry
  <2>3. Cardinality(QueuedLines(queued')) = Cardinality(QueuedLines(queued)) + 1
    BY <1>1, <1>6, <2>2, LinesAppend DEF QueueAfterWait, PushLine
  <2>4. Cardinality(Woken') = Cardinality(Woken) - 1
    <3>1. \E l : pc' = [pc EXCEPT ![t] = l] /\ pc[t] = "woken" /\ l # "woken"
      BY <1>6 DEF QueueAfterWait
    <3> QED
      BY <3>1, WokenStep
  <2> QED
    BY <1>1, <1>2, <1>3, <2>1, <2>3, <2>4
<1>7. ASSUME NEW t \in Threads, StopQueuesNull(t) PROVE Room
  <2>1. Cardinality(QueuedLines(queued')) = Cardinality(QueuedLines(queued)) + 0
    BY <1>1, <1>7, LinesAppend DEF StopQueuesNull, Entry
  <2>2. Woken' = Woken /\ spurious' = spurious
    <3>1. \E l : pc' = [pc EXCEPT ![t] = l] /\ pc[t] # "woken" /\ l # "woken"
      BY <1>7 DEF StopQueuesNull
    <3> QED
      BY <1>7, <3>1, WokenStep DEF StopQueuesNull
  <2> QED
    BY <1>1, <1>2, <1>3, <2>1, <2>2
<1>8. ASSUME NEW t \in Threads, SpuriousWakeup(t) PROVE Room
  <2>1. Cardinality(Woken') = Cardinality(Woken) + 1
    <3>1. pc' = [pc EXCEPT ![t] = "woken"] /\ pc[t] # "woken"
      BY <1>8 DEF SpuriousWakeup
    <3> QED
      BY <3>1, WokenStep
  <2> QED
    BY <1>1, <1>2, <1>3, <1>8, <2>1 DEF SpuriousWakeup
<1>9. CASE WriterSwaps
  <2>1. Cardinality(Woken') \in Nat /\ Cardinality(Woken') <= Cardinality(Workers) + 1
    <3>1. IsFiniteSet(Woken') /\ Cardinality(Woken') <= Cardinality(Threads)
      <4>1. Woken' \subseteq Threads
        BY DEF Woken
      <4> QED
        BY <4>1, WokenFinite, FS_Subset
    <3> QED
      BY <3>1, WokenFinite, FS_CardinalityType
  <2>2. Cardinality(QueuedLines(queued')) = 0 /\ spurious' = spurious
    BY <1>9, NoLines DEF WriterSwaps
  <2> QED
    BY <1>1, <1>3, <2>1, <2>2, WokenFinite DEF Lim
<1>10. ASSUME NEW t \in Threads, QueueFull(t) \/ WriteDirectly(t) \/ WriteDirectlyFails(t) \/ StopThread(t)
                                   \/ StopSignals(t) \/ StopJoins(t) \/ Exit(t) \/ WorkerDone(t)
       PROVE  Room
  <2>1. UNCHANGED <<queued, spurious>>
    BY <1>10 DEF QueueFull, WriteDirectly, WriteDirectlyFails, StopThread,
       StopSignals, StopJoins, Exit, WorkerDone
  <2>2. \E l : pc' = [pc EXCEPT ![t] = l] /\ pc[t] # "woken" /\ l # "woken"
    BY <1>10, CallFacts DEF QueueFull, WriteDirectly, WriteDirectlyFails,
       StopThread, StopSignals, StopJoins, Exit, WorkerDone, AfterLog, TypeOK
  <2>3. Woken' = Woken
    BY <2>2, WokenStep
  <2> QED
    BY <1>1, <1>3, <1>4, <2>1, <2>3
<1>11. CASE StartThread
  <2>1. Woken' = {} /\ UNCHANGED <<queued, spurious>>
    BY <1>11 DEF StartThread, Woken
  <2> QED
    BY <1>1, <1>2, <2>1, FS_EmptySet
<1>12. CASE \/ StartThreadFails \/ WriterWaits \/ WriterWrites \/ WriterWriteFails \/ WriterReturns
            \/ WriterSpuriousWakeup \/ UNCHANGED vars
  <2>1. UNCHANGED <<queued, pc>> /\ spurious' \in Nat /\ spurious' >= spurious
    BY <1>1, <1>12 DEF StartThreadFails, WriterWaits, WriterWrites,
       WriterWriteFails, WriterReturns, WriterSpuriousWakeup, vars
  <2> QED
    BY <1>4, <2>1 DEF Woken
<1> HIDE DEF Room
<1> QED
  BY <1>5, <1>6, <1>7, <1>8, <1>9, <1>10, <1>11, <1>12, Zenon DEF Next, Step,
     Writer

-----------------------------------------------------------------------------
(* The order of a thread's lines: o is what of them is in the output, w    *)
(* what is on its way, k how many there are.                               *)

PlacesIn(t, w) == {i \in 1 .. Len(w) : w[i] # Null /\ w[i][1] = t}

UpTo(t, o, w, k, m) ==
  /\ o = [i \in 1 .. m |-> i]
  /\ \A i \in PlacesIn(t, w) : w[i][2] \in m + 1 .. k
  /\ \A x \in m + 1 .. k : \E i \in PlacesIn(t, w) : w[i][2] = x
  /\ \A i, j \in PlacesIn(t, w) : i < j => w[i][2] < w[j][2]

InOrder(t, o, w, k) == \E m \in 0 .. k : UpTo(t, o, w, k, m)

LEMMA UpToDef ==
  ASSUME NEW t, NEW o, NEW w, NEW k, NEW m
  PROVE  UpTo(t, o, w, k, m)
           <=> /\ o = [i \in 1 .. m |-> i]
               /\ {w[i][2] : i \in PlacesIn(t, w)} = m + 1 .. k
               /\ \A i, j \in PlacesIn(t, w) : i < j => w[i][2] < w[j][2]
<1> DEFINE P == PlacesIn(t, w)
<1> HIDE DEF P
<1>1. {w[i][2] : i \in P} = m + 1 .. k
        <=> /\ \A i \in P : w[i][2] \in m + 1 .. k
            /\ \A x \in m + 1 .. k : \E i \in P : w[i][2] = x
  OBVIOUS
<1> QED
  BY <1>1 DEF UpTo, P

\* LinesInOrder, before and after a step.
LEMMA LinesInOrderDef ==
  /\ LinesInOrder <=> \A t \in Threads : InOrder(t, out[t], OnTheWay, n[t])
  /\ LinesInOrder' <=> \A t \in Threads : InOrder(t, out'[t], OnTheWay', n'[t])
<1>1. /\ \A t \in Threads : Places(t) = PlacesIn(t, OnTheWay)
      /\ \A t \in Threads : Places(t)' = PlacesIn(t, OnTheWay')
  BY DEF Places, PlacesIn
<1> HIDE DEF Places, PlacesIn
<1>2. \A t \in Threads : InOrder(t, out[t], OnTheWay, n[t]) <=>
        \E m \in 0 .. n[t] :
          /\ out[t] = [i \in 1 .. m |-> i]
          /\ {OnTheWay[i][2] : i \in Places(t)} = m + 1 .. n[t]
          /\ \A i, j \in Places(t) : i < j => OnTheWay[i][2] < OnTheWay[j][2]
  BY <1>1, UpToDef DEF InOrder
<1>3. \A t \in Threads : InOrder(t, out'[t], OnTheWay', n'[t]) <=>
        \E m \in 0 .. n'[t] :
          /\ out'[t] = [i \in 1 .. m |-> i]
          /\ {OnTheWay'[i][2] : i \in Places(t)'} = m + 1 .. n'[t]
          /\ \A i, j \in Places(t)' : i < j => OnTheWay'[i][2] < OnTheWay'[j][2]
  BY <1>1, UpToDef DEF InOrder
<1> QED
  BY <1>2, <1>3, Zenon DEF LinesInOrder

\* Other threads' lines, and the null line, come ...
LEMMA OthersAppend ==
  ASSUME NEW t \in Threads, NEW o, NEW w \in Seq(Entry), NEW k \in Nat, NEW e \in Entry,
         InOrder(t, o, w, k), e = Null \/ e[1] # t
  PROVE  InOrder(t, o, Append(w, e), k)
<1>1. PICK v : v = Append(w, e)
  OBVIOUS
<1>2. /\ Len(w) \in Nat /\ Len(v) = Len(w) + 1
      /\ \A i \in 1 .. Len(w) : v[i] = w[i]
      /\ v[Len(w) + 1] = e
  BY <1>1, AppendProperties
<1>3. PlacesIn(t, v) = PlacesIn(t, w) /\ \A i \in PlacesIn(t, w) : v[i] = w[i]
  BY <1>2 DEF PlacesIn
<1>4. PICK m \in 0 .. k : UpTo(t, o, w, k, m)
  BY DEF InOrder
<1>5. UpTo(t, o, v, k, m)
  BY <1>3, <1>4, Zenon DEF UpTo
<1> QED
  BY <1>1, <1>5 DEF InOrder

\* ... and go.
LEMMA OthersTail ==
  ASSUME NEW t \in Threads, NEW o, NEW w \in Seq(Entry), NEW k \in Nat,
         InOrder(t, o, w, k), w # <<>>, w[1] = Null \/ w[1][1] # t
  PROVE  InOrder(t, o, Tail(w), k)
<1>1. PICK v : v = Tail(w)
  OBVIOUS
<1>2. /\ Len(w) \in Nat \ {0} /\ Len(v) = Len(w) - 1
      /\ \A i \in 1 .. Len(v) : v[i] = w[i + 1]
  BY <1>1, HeadTailProperties, EmptySeq
<1> DEFINE P == PlacesIn(t, w)
           R == PlacesIn(t, v)
<1>3. \A i \in R : i \in Nat /\ i + 1 \in P /\ v[i] = w[i + 1]
  BY <1>2 DEF PlacesIn
<1>4. \A i \in P : i \in Nat /\ i - 1 \in R /\ v[i - 1] = w[i]
  BY <1>2 DEF PlacesIn
<1>5. PICK m \in 0 .. k : UpTo(t, o, w, k, m)
  BY DEF InOrder
<1>6. /\ o = [i \in 1 .. m |-> i]
      /\ \A i \in P : w[i][2] \in m + 1 .. k
      /\ \A x \in m + 1 .. k : \E i \in P : w[i][2] = x
      /\ \A i, j \in P : i < j => w[i][2] < w[j][2]
  BY <1>5 DEF UpTo
<1> HIDE DEF P, R
<1>7. \A i \in R : v[i][2] \in m + 1 .. k
  BY <1>3, <1>6
<1>8. ASSUME NEW x \in m + 1 .. k PROVE \E i \in R : v[i][2] = x
  <2>1. PICK j \in P : w[j][2] = x
    BY <1>6
  <2> QED
    BY <1>4, <2>1
<1>9. ASSUME NEW i \in R, NEW j \in R, i < j PROVE v[i][2] < v[j][2]
  <2>1. i + 1 < j + 1 /\ i + 1 \in P /\ j + 1 \in P
    BY <1>3, <1>9
  <2> QED
    BY <1>3, <1>6, <2>1
<1>10. UpTo(t, o, v, k, m)
  BY <1>6, <1>7, <1>8, <1>9 DEF UpTo, R
<1> QED
  BY <1>1, <1>10 DEF InOrder

\* A line of the thread's own is queued ...
LEMMA OwnAppend ==
  ASSUME NEW t \in Threads, NEW o, NEW w \in Seq(Entry), NEW k \in Nat, NEW e \in Lines,
         InOrder(t, o, w, k), e[1] = t, e[2] = k + 1, e # Null
  PROVE  InOrder(t, o, Append(w, e), k + 1)
<1>1. PICK v : v = Append(w, e)
  OBVIOUS
<1>2. /\ Len(w) \in Nat /\ Len(v) = Len(w) + 1
      /\ \A i \in 1 .. Len(w) : v[i] = w[i]
      /\ v[Len(w) + 1] = e
  BY <1>1, AppendProperties DEF Entry
<1> DEFINE P == PlacesIn(t, w)
           R == PlacesIn(t, v)
<1>3. PICK last \in Nat : last = Len(w) + 1
  BY <1>2
<1>4. R = P \cup {last} /\ v[last][2] = k + 1
  BY <1>2, <1>3 DEF PlacesIn
<1>5. \A i \in P : i \in Nat /\ i < last /\ v[i] = w[i]
  BY <1>2, <1>3 DEF PlacesIn
<1>6. PICK m \in 0 .. k : UpTo(t, o, w, k, m)
  BY DEF InOrder
<1>7. /\ o = [i \in 1 .. m |-> i]
      /\ \A i \in P : w[i][2] \in m + 1 .. k
      /\ \A x \in m + 1 .. k : \E i \in P : w[i][2] = x
      /\ \A i, j \in P : i < j => w[i][2] < w[j][2]
  BY <1>6 DEF UpTo
<1> HIDE DEF P, R
<1>8. \A i \in R : v[i][2] \in m + 1 .. k + 1
  BY <1>4, <1>5, <1>7
<1>9. ASSUME NEW x \in m + 1 .. k + 1 PROVE \E i \in R : v[i][2] = x
  <2>1. x = k + 1 \/ x \in m + 1 .. k
    OBVIOUS
  <2> QED
    BY <1>4, <1>5, <1>7, <2>1
<1>10. ASSUME NEW i \in R, NEW j \in R, i < j PROVE v[i][2] < v[j][2]
  <2>1. i \in P
    BY <1>4, <1>5, <1>10
  <2>2. v[i] = w[i] /\ w[i][2] \in m + 1 .. k
    BY <1>5, <1>7, <2>1
  <2>3. CASE j = last
    BY <1>4, <2>2, <2>3
  <2>4. CASE j \in P
    BY <1>5, <1>7, <1>10, <2>1, <2>4
  <2> QED
    BY <1>4, <2>3, <2>4
<1>11. UpTo(t, o, v, k + 1, m) /\ m \in 0 .. k + 1
  BY <1>7, <1>8, <1>9, <1>10 DEF UpTo, R
<1> QED
  BY <1>1, <1>11 DEF InOrder

\* ... and written.
LEMMA OwnTail ==
  ASSUME NEW t \in Threads, NEW o \in Seq(Nat), NEW w \in Seq(Entry), NEW k \in Nat,
         InOrder(t, o, w, k), w # <<>>, w[1] # Null, w[1][1] = t
  PROVE  InOrder(t, Append(o, w[1][2]), Tail(w), k)
<1>1. PICK v : v = Tail(w)
  OBVIOUS
<1>2. /\ Len(w) \in Nat \ {0} /\ Len(v) = Len(w) - 1
      /\ \A i \in 1 .. Len(v) : v[i] = w[i + 1]
  BY <1>1, HeadTailProperties, EmptySeq
<1> DEFINE P == PlacesIn(t, w)
           R == PlacesIn(t, v)
<1>3. \A i \in R : i \in Nat \ {0} /\ i + 1 \in P /\ v[i] = w[i + 1]
  BY <1>2 DEF PlacesIn
<1>4. 1 \in P /\ \A i \in P : i \in Nat \ {0} /\ (i # 1 => i - 1 \in R /\ v[i - 1] = w[i])
  BY <1>2 DEF PlacesIn
<1>5. PICK m \in 0 .. k : UpTo(t, o, w, k, m)
  BY DEF InOrder
<1>6. /\ o = [i \in 1 .. m |-> i]
      /\ \A i \in P : w[i][2] \in m + 1 .. k
      /\ \A x \in m + 1 .. k : \E i \in P : w[i][2] = x
      /\ \A i, j \in P : i < j => w[i][2] < w[j][2]
  BY <1>5 DEF UpTo
<1> HIDE DEF P, R
<1>7. \A i \in P : i # 1 => w[1][2] < w[i][2]
  BY <1>4, <1>6
<1>8. w[1][2] = m + 1 /\ m + 1 \in 0 .. k
  <2>1. m + 1 \in m + 1 .. k /\ w[1][2] \in m + 1 .. k
    BY <1>4, <1>6
  <2>2. PICK i \in P : w[i][2] = m + 1
    BY <1>6, <2>1
  <2> QED
    BY <1>7, <2>1, <2>2
<1>9. Append(o, m + 1) = [i \in 1 .. m + 1 |-> i]
  <2>1. Len(o) = m
    BY <1>6
  <2> QED
    BY <1>6, <2>1
<1>10. ASSUME NEW i \in R PROVE v[i][2] \in (m + 1) + 1 .. k
  <2>1. PICK j \in P : j # 1 /\ v[i] = w[j]
    BY <1>3
  <2>2. w[j][2] \in m + 1 .. k /\ m + 1 < w[j][2]
    BY <1>6, <1>7, <1>8, <2>1
  <2> QED
    BY <2>1, <2>2
<1>11. ASSUME NEW x \in (m + 1) + 1 .. k PROVE \E i \in R : v[i][2] = x
  <2>1. PICK j \in P : w[j][2] = x
    BY <1>6
  <2>2. j # 1
    BY <1>8, <2>1
  <2> QED
    BY <1>4, <2>1, <2>2
<1>12. ASSUME NEW i \in R, NEW j \in R, i < j PROVE v[i][2] < v[j][2]
  <2>1. i + 1 < j + 1 /\ i + 1 \in P /\ j + 1 \in P
    BY <1>3, <1>12
  <2> QED
    BY <1>3, <1>6, <2>1
<1>13. UpTo(t, Append(o, m + 1), v, k, m + 1)
  BY <1>9, <1>10, <1>11, <1>12 DEF UpTo, R
<1> QED
  BY <1>1, <1>8, <1>13 DEF InOrder

\* A thread writes a line itself when none is on its way.
LEMMA OwnDirect ==
  ASSUME NEW t \in Threads, NEW o \in Seq(Nat), NEW k \in Nat, InOrder(t, o, <<>>, k)
  PROVE  InOrder(t, Append(o, k + 1), <<>>, k + 1)
<1>1. PlacesIn(t, <<>>) = {}
  BY EmptySeq DEF PlacesIn
<1>2. PICK m \in 0 .. k : UpTo(t, o, <<>>, k, m)
  BY DEF InOrder
<1>3. m = k
  <2>1. \A x \in m + 1 .. k : FALSE
    BY <1>1, <1>2 DEF UpTo
  <2>2. m < k => m + 1 \in m + 1 .. k
    OBVIOUS
  <2> QED
    BY <2>1, <2>2
<1>4. Append(o, k + 1) = [i \in 1 .. k + 1 |-> i]
  <2>1. o = [i \in 1 .. k |-> i] /\ Len(o) = k
    BY <1>2, <1>3 DEF UpTo
  <2> QED
    BY <2>1
<1>5. \A x \in (k + 1) + 1 .. k + 1 : FALSE
  OBVIOUS
<1>6. UpTo(t, Append(o, k + 1), <<>>, k + 1, k + 1)
  BY <1>1, <1>4, <1>5 DEF UpTo
<1> QED
  BY <1>6 DEF InOrder

-----------------------------------------------------------------------------
(* The lines on their way.                                                 *)

LEMMA WayFacts ==
  ASSUME TypeOK
  PROVE  /\ OnTheWay \in Seq(Entry) /\ Len(OnTheWay) \in Nat
         /\ local \in Seq(Entry) /\ queued \in Seq(Entry)
         /\ Len(OnTheWay) = Len(local) + Len(queued)
         /\ OnTheWay = <<>> <=> local = <<>> /\ queued = <<>>
<1>1. local \in Seq(Entry) /\ queued \in Seq(Entry)
  BY DEF TypeOK, Entry
<1>2. OnTheWay \in Seq(Entry) /\ Len(OnTheWay) = Len(local) + Len(queued)
  BY <1>1, ConcatProperties DEF OnTheWay
<1>3. OnTheWay = <<>> <=> local = <<>> /\ queued = <<>>
  BY <1>1, ConcatEqualIffEmpty DEF OnTheWay
<1> QED
  BY <1>1, <1>2, <1>3, LenProperties

\* A line is put at the end of the queue ...
LEMMA WayAppend ==
  ASSUME NEW s \in Seq(Entry), NEW q \in Seq(Entry), NEW e \in Entry
  PROVE  s \o Append(q, e) = Append(s \o q, e)
<1>1. Append(q, e) = q \o <<e>> /\ Append(s \o q, e) = (s \o q) \o <<e>> /\ <<e>> \in Seq(Entry)
  BY AppendIsConcat, ConcatProperties
<1> QED
  BY <1>1, ConcatAssociative

\* ... and taken from the front of the local queue.
LEMMA WayTail ==
  ASSUME NEW s \in Seq(Entry), NEW q \in Seq(Entry), s # <<>>
  PROVE  /\ Tail(s) \o q = Tail(s \o q)
         /\ s \o q # <<>> /\ (s \o q)[1] = Head(s)
<1>1. PICK v : v = s \o q
  OBVIOUS
<1>2. /\ v \in Seq(Entry) /\ Len(v) = Len(s) + Len(q)
      /\ \A i \in 1 .. Len(s) + Len(q) : v[i] = IF i <= Len(s) THEN s[i] ELSE q[i - Len(s)]
  BY <1>1, ConcatProperties
<1>3. Len(s) \in Nat \ {0} /\ Len(q) \in Nat
  BY EmptySeq
<1>4. v # <<>> /\ v[1] = s[1]
  BY <1>2, <1>3, EmptySeq
<1>5. PICK r : r = Tail(s)
  OBVIOUS
<1>6. /\ r \in Seq(Entry) /\ Len(r) = Len(s) - 1
      /\ \A i \in 1 .. Len(r) : r[i] = s[i + 1]
  BY <1>5, HeadTailProperties
<1>7. PICK u : u = r \o q
  OBVIOUS
<1>8. /\ u \in Seq(Entry) /\ Len(u) = Len(r) + Len(q)
      /\ \A i \in 1 .. Len(r) + Len(q) : u[i] = IF i <= Len(r) THEN r[i] ELSE q[i - Len(r)]
  BY <1>6, <1>7, ConcatProperties
<1>9. PICK z : z = Tail(v)
  OBVIOUS
<1>10. /\ z \in Seq(Entry) /\ Len(z) = Len(v) - 1
       /\ \A i \in 1 .. Len(z) : z[i] = v[i + 1]
  BY <1>2, <1>4, <1>9, HeadTailProperties
<1>11. Len(u) = Len(z)
  BY <1>2, <1>3, <1>6, <1>8, <1>10
<1>12. ASSUME NEW i \in 1 .. Len(u) PROVE u[i] = z[i]
  <2>1. i \in Nat \ {0} /\ i + 1 \in 1 .. Len(s) + Len(q) /\ i \in 1 .. Len(r) + Len(q)
    BY <1>2, <1>3, <1>6, <1>8, <1>10
  <2>2. z[i] = v[i + 1]
    BY <1>10, <1>11
  <2>3. CASE i <= Len(r)
    BY <1>2, <1>3, <1>6, <1>8, <2>1, <2>2, <2>3
  <2>4. CASE i > Len(r)
    <3>1. i - Len(r) = (i + 1) - Len(s) /\ ~(i + 1 <= Len(s))
      BY <1>3, <1>6, <2>1, <2>4
    <3>2. u[i] = q[i - Len(r)]
      BY <1>3, <1>6, <1>8, <2>1, <2>4
    <3>3. v[i + 1] = q[(i + 1) - Len(s)]
      BY <1>2, <2>1, <3>1
    <3> QED
      BY <2>2, <3>1, <3>2, <3>3
  <2> QED
    BY <1>3, <1>6, <2>1, <2>3, <2>4
<1>13. u = z
  BY <1>8, <1>10, <1>11, <1>12, SeqEqual
<1>14. Head(s) = s[1]
  BY <1>3
<1> QED
  BY <1>1, <1>4, <1>5, <1>7, <1>9, <1>13, <1>14

\* What a step does to the lines on their way and to the output.
Kept == UNCHANGED <<OnTheWay, n, out>>
Logged(t) ==
  /\ OnTheWay' = Append(OnTheWay, NewLine(t)) /\ n' = [n EXCEPT ![t] = n[t] + 1]
  /\ UNCHANGED out
Ended == OnTheWay' = Append(OnTheWay, Null) /\ UNCHANGED <<n, out>>
Written(t) ==
  /\ OnTheWay # <<>> /\ OnTheWay[1] # Null /\ OnTheWay[1][1] = t
  /\ OnTheWay' = Tail(OnTheWay)
  /\ out' = [out EXCEPT ![t] = Append(out[t], OnTheWay[1][2])] /\ UNCHANGED n
Returned ==
  /\ OnTheWay # <<>> /\ OnTheWay[1] = Null
  /\ OnTheWay' = Tail(OnTheWay) /\ UNCHANGED <<n, out>>
Direct(t) ==
  /\ OnTheWay = <<>> /\ UNCHANGED OnTheWay
  /\ n' = [n EXCEPT ![t] = n[t] + 1] /\ out' = [out EXCEPT ![t] = Append(out[t], n[t] + 1)]

\* Each of them keeps the lines in order.
LEMMA OrderStep ==
  ASSUME TypeOK, CountInv, LinesInOrder,
         \/ Kept \/ Ended \/ Returned
         \/ \E t \in Threads : Written(t) \/ Direct(t) \/ (Logged(t) /\ n[t] <= MaxLines)
  PROVE  LinesInOrder'
<1>1. PICK w : w = OnTheWay
  OBVIOUS
<1>2. w \in Seq(Entry)
  BY <1>1, WayFacts
<1>3. \A u \in Threads : /\ n[u] \in Nat /\ out[u] \in Seq(Nat)
                         /\ InOrder(u, out[u], w, n[u])
  <2>1. ASSUME NEW u \in Threads PROVE n[u] \in Nat /\ out[u] \in Seq(Nat)
    <3>1. out[u] \in Seq(1 .. MaxLines + 1)
      BY DEF TypeOK
    <3>2. 1 .. MaxLines + 1 \subseteq Nat
      BY LoggerAssumption
    <3>3. out[u] \in Seq(Nat)
      BY <3>1, <3>2, SeqMonotonic
    <3> QED
      BY <3>3, LoggerAssumption DEF TypeOK
  <2> QED
    BY <1>1, <2>1, LinesInOrderDef
<1>4. SUFFICES ASSUME NEW u \in Threads PROVE InOrder(u, out'[u], OnTheWay', n'[u])
  BY LinesInOrderDef
<1>5. CASE Kept
  BY <1>1, <1>3, <1>5 DEF Kept
<1>6. CASE Ended
  <2>1. InOrder(u, out[u], Append(w, Null), n[u])
    BY <1>2, <1>3, OthersAppend DEF Entry
  <2> QED
    BY <1>1, <1>6, <2>1 DEF Ended
<1>7. CASE Returned
  <2>1. InOrder(u, out[u], Tail(w), n[u])
    BY <1>1, <1>2, <1>3, <1>7, OthersTail DEF Returned
  <2> QED
    BY <1>1, <1>7, <2>1 DEF Returned
<1>8. ASSUME NEW t \in Threads, Written(t) PROVE InOrder(u, out'[u], OnTheWay', n'[u])
  <2>1. /\ w # <<>> /\ w[1] # Null /\ w[1][1] = t
        /\ OnTheWay' = Tail(w) /\ n' = n
        /\ out' = [out EXCEPT ![t] = Append(out[t], w[1][2])]
    BY <1>1, <1>8 DEF Written
  <2>2. CASE u = t
    <3>1. InOrder(t, Append(out[t], w[1][2]), Tail(w), n[t])
      BY <1>2, <1>3, <2>1, OwnTail
    <3> QED
      BY <2>1, <2>2, <3>1 DEF TypeOK
  <2>3. CASE u # t
    <3>1. InOrder(u, out[u], Tail(w), n[u])
      BY <1>2, <1>3, <2>1, <2>3, OthersTail
    <3> QED
      BY <2>1, <2>3, <3>1 DEF TypeOK
  <2> QED
    BY <2>2, <2>3
<1>9. ASSUME NEW t \in Threads, Direct(t) PROVE InOrder(u, out'[u], OnTheWay', n'[u])
  <2>1. /\ w = <<>> /\ OnTheWay' = <<>>
        /\ n' = [n EXCEPT ![t] = n[t] + 1] /\ out' = [out EXCEPT ![t] = Append(out[t], n[t] + 1)]
    BY <1>1, <1>9 DEF Direct
  <2>2. CASE u = t
    <3>1. InOrder(t, Append(out[t], n[t] + 1), <<>>, n[t] + 1)
      BY <1>3, <2>1, OwnDirect
    <3> QED
      BY <2>1, <2>2, <3>1 DEF TypeOK
  <2>3. CASE u # t
    BY <1>3, <2>1, <2>3 DEF TypeOK
  <2> QED
    BY <2>2, <2>3
<1>10. ASSUME NEW t \in Threads, Logged(t), n[t] <= MaxLines
       PROVE  InOrder(u, out'[u], OnTheWay', n'[u])
  <2>1. PICK e \in Lines : e = NewLine(t) /\ e # Null
    BY <1>10, NewLineFacts
  <2>2. e[1] = t /\ e[2] = n[t] + 1
    BY <2>1 DEF NewLine
  <2>3. OnTheWay' = Append(w, e) /\ n' = [n EXCEPT ![t] = n[t] + 1] /\ out' = out
    BY <1>1, <1>10, <2>1 DEF Logged
  <2>4. CASE u = t
    <3>1. InOrder(t, out[t], Append(w, e), n[t] + 1)
      BY <1>2, <1>3, <2>1, <2>2, OwnAppend
    <3> QED
      BY <2>3, <2>4, <3>1 DEF TypeOK
  <2>5. CASE u # t
    <3>1. InOrder(u, out[u], Append(w, e), n[u])
      BY <1>2, <1>3, <2>1, <2>2, <2>5, OthersAppend DEF Entry
    <3> QED
      BY <2>3, <2>5, <3>1 DEF TypeOK
  <2> QED
    BY <2>4, <2>5
<1> QED
  BY <1>5, <1>6, <1>7, <1>8, <1>9, <1>10

-----------------------------------------------------------------------------
(* The stages of the process, and the null line.                           *)

\* Who pushes a line, and who writes one itself.
LEMMA PushFacts ==
  ASSUME IInv, Asserts = {}, NEW t \in Threads, QueueLogLine(t) \/ QueueAfterWait(t), ~exited
  PROVE  /\ running /\ n[t] <= MaxLines
         /\ pc[t] \in {"idle", "woken"} /\ pc' = [pc EXCEPT ![t] = "idle"]
         /\ pc[Main] \notin {"single", "stop", "signal", "join", "stopped", "exiting"}
         /\ writer # "done" /\ UNCHANGED <<running, exited, local>>
         /\ writer' \in {writer, "lock"} /\ (writer' # writer => writer = "wait")
<1>1. running
  BY DEF IInv, StageInv, QueueLogLine, QueueAfterWait
<1>2. pc[Main] \notin {"single", "stop", "signal", "join", "stopped", "exiting"}
  BY <1>1 DEF IInv, StageInv
<1>3. n[t] <= MaxLines /\ pc[t] \in {"single", "idle", "woken"}
  BY <1>1, CallFacts DEF IInv, CountInv, QueueLogLine, QueueAfterWait
<1>4. pc[t] # "single"
  BY <1>2 DEF IInv, StageInv, Threads
<1>5. pc' = [pc EXCEPT ![t] = "idle"]
  <2>1. CASE QueueLogLine(t)
    <3>1. pc[t] = "idle"
      BY <1>4, <2>1, <1>1, CallFacts DEF IInv, QueueLogLine
    <3>2. AfterLog(t) = "idle"
      BY <3>1 DEF AfterLog
    <3> QED
      BY <2>1, <3>2 DEF QueueLogLine
  <2> QED
    BY <2>1 DEF QueueAfterWait
<1>6. /\ UNCHANGED <<running, exited, local>>
      /\ writer' \in {writer, "lock"} /\ (writer' # writer => writer = "wait")
  BY DEF QueueLogLine, QueueAfterWait, PushLine
<1>7. writer # "done"
  BY <1>2 DEF IInv, WriterInv
<1> QED
  BY <1>1, <1>2, <1>3, <1>4, <1>5, <1>6, <1>7

LEMMA DirectFacts ==
  ASSUME IInv, Asserts = {}, NEW t \in Threads, WriteDirectly(t)
  PROVE  /\ t = Main /\ pc[Main] \in {"single", "stopped"}
         /\ pc' = [pc EXCEPT ![Main] = IF pc[Main] = "stopped" THEN "exiting" ELSE "single"]
         /\ OnTheWay = <<>>
<1>1. ~running /\ pc[t] \in {"single", "idle", "stopped"}
  BY CallFacts DEF IInv, WriteDirectly
<1>2. t = Main /\ pc[Main] \in {"single", "stopped"}
  BY <1>1 DEF IInv, StageInv, Threads
<1>3. local = <<>> /\ queued = <<>>
  BY <1>2 DEF IInv, StageInv, WriterInv
<1>4. OnTheWay = <<>>
  BY <1>3, WayFacts DEF IInv
<1> QED
  BY <1>2, <1>4 DEF WriteDirectly, AfterLog

\* StopThread() is main()'s business.
LEMMA StopFacts ==
  ASSUME IInv, Asserts = {}, NEW t \in Threads,
         StopThread(t) \/ StopQueuesNull(t) \/ StopSignals(t) \/ StopJoins(t) \/ Exit(t)
  PROVE  t = Main
BY DEF IInv, StageInv, Threads, StopThread, StopQueuesNull, StopSignals,
   StopJoins, Exit

LEMMA StageStep ==
  ASSUME IInv, Asserts = {}, [Next]_vars
  PROVE  StageInv'
<1> USE LoggerAssumption
<1>0. /\ StageInv /\ TypeOK /\ Main \in Threads
      /\ \A w \in Workers : w \in Threads /\ w # Main
  BY DEF IInv, Threads
<1>1. ASSUME NEW t \in Threads, QueueLogLine(t) \/ QueueAfterWait(t), ~exited PROVE StageInv'
  <2>1. /\ running' /\ pc' = [pc EXCEPT ![t] = "idle"]
        /\ pc[Main] \notin {"single", "stop", "signal", "join", "stopped", "exiting"}
    BY <1>1, PushFacts
  <2> QED
    BY <1>0, <2>1 DEF StageInv, TypeOK
<1>2. ASSUME NEW t \in Threads, QueueFull(t), ~exited PROVE StageInv'
  <2>1. running /\ UNCHANGED running /\ pc' = [pc EXCEPT ![t] = "full"]
    BY <1>2 DEF QueueFull
  <2>2. pc[Main] \notin {"single", "stop", "signal", "join", "stopped", "exiting"}
    BY <1>0, <1>2, <2>1 DEF StageInv
  <2> QED
    BY <1>0, <2>1, <2>2 DEF StageInv, TypeOK
<1>3. ASSUME NEW t \in Threads, WriteDirectly(t) PROVE StageInv'
  <2>1. /\ pc[Main] \in {"single", "stopped"}
        /\ pc' = [pc EXCEPT ![Main] = IF pc[Main] = "stopped" THEN "exiting" ELSE "single"]
        /\ UNCHANGED <<running, exited, local, queued>>
    BY <1>3, DirectFacts DEF WriteDirectly
  <2> QED
    BY <1>0, <2>1 DEF StageInv, TypeOK
<1>4. ASSUME NEW t \in Threads, SpuriousWakeup(t) PROVE StageInv'
  BY <1>0, <1>4 DEF StageInv, TypeOK, SpuriousWakeup
<1>5. ASSUME NEW t \in Threads, StopThread(t), ~exited PROVE StageInv'
  <2>1. t = Main
    BY <1>5, StopFacts
  <2>2. /\ pc[Main] = "single" \/ \A w \in Workers : pc[w] = "done"
        /\ running' = FALSE /\ \E l \in {"stop", "stopped"} : pc' = [pc EXCEPT ![Main] = l]
    BY <1>5, <2>1 DEF StopThread
  <2>3. \A w \in Workers : pc[w] \in {"unborn", "done"}
    BY <2>2 DEF IInv, CountInv
  <2> QED
    BY <1>0, <2>2, <2>3 DEF StageInv, TypeOK, Threads
<1>6. ASSUME NEW t \in Threads, StopQueuesNull(t) \/ StopSignals(t) \/ StopJoins(t) PROVE StageInv'
  <2>1. t = Main
    BY <1>6, StopFacts
  <2>2. /\ pc[Main] \in {"stop", "signal", "join"} /\ UNCHANGED running
        /\ \E l \in {"signal", "join", "stopped"} : pc' = [pc EXCEPT ![Main] = l]
    BY <1>6, <2>1 DEF StopQueuesNull, StopSignals, StopJoins
  <2> QED
    BY <1>0, <2>2 DEF StageInv, TypeOK
<1>7. ASSUME NEW w \in Workers, WorkerDone(w) PROVE StageInv'
  BY <1>0, <1>7 DEF StageInv, TypeOK, WorkerDone
<1>8. CASE StartThread
  BY <1>0, <1>8 DEF StageInv, StartThread, Threads
<1>9. CASE WriterSwaps
  <2>1. pc[Main] # "single"
    BY <1>0, <1>9 DEF StageInv, WriterSwaps
  <2>2. /\ UNCHANGED <<running, exited>>
        /\ \A t \in Threads : pc'[t] = pc[t] \/ (pc[t] = "full" /\ pc'[t] = "woken")
    BY <1>9 DEF WriterSwaps, Waiting
  <2> QED
    BY <1>0, <2>1, <2>2 DEF StageInv
<1>10. CASE WriterWrites \/ WriterReturns
  <2>1. pc[Main] # "single"
    BY <1>0, <1>10 DEF StageInv, WriterWrites, WriterReturns
  <2>2. UNCHANGED <<running, pc>>
    BY <1>10 DEF WriterWrites, WriterReturns
  <2> QED
    BY <1>0, <2>1, <2>2 DEF StageInv
<1>11. CASE \/ \E t \in Threads : WriteDirectlyFails(t) \/ Exit(t)
            \/ WriterWaits \/ WriterWriteFails \/ WriterSpuriousWakeup \/ UNCHANGED vars
  <2>1. UNCHANGED <<running, pc, local, queued>> /\ (exited' = exited \/ exited' = TRUE)
    BY <1>11 DEF WriteDirectlyFails, Exit, WriterWaits, WriterWriteFails,
       WriterSpuriousWakeup, vars
  <2> QED
    BY <1>0, <2>1 DEF StageInv
<1>12. CASE StartThreadFails
  <2>1. pc[Main] = "single" /\ UNCHANGED <<pc, local, queued>> /\ exited' = TRUE /\ running' = TRUE
    BY <1>12 DEF StartThreadFails
  <2> QED
    BY <1>0, <2>1 DEF StageInv
<1> QED
  BY <1>1, <1>2, <1>3, <1>4, <1>5, <1>6, <1>7, <1>8, <1>9, <1>10, <1>11,
     <1>12, Zenon DEF Next, Step, Writer

\* Every step is of one of the six kinds.
LEMMA Effect ==
  ASSUME IInv, Asserts = {}, [Next]_vars
  PROVE  \/ Kept \/ Ended \/ Returned
         \/ \E t \in Threads : Written(t) \/ Direct(t) \/ (Logged(t) /\ n[t] <= MaxLines)
<1> DEFINE Goal == \/ Kept \/ Ended \/ Returned
                   \/ \E t \in Threads : Written(t) \/ Direct(t) \/ (Logged(t) /\ n[t] <= MaxLines)
<1> SUFFICES Goal
  OBVIOUS
<1>0. TypeOK /\ local \in Seq(Entry) /\ queued \in Seq(Entry)
  BY WayFacts DEF IInv
<1>1. ASSUME NEW t \in Threads, QueueLogLine(t) \/ QueueAfterWait(t), ~exited PROVE Goal
  <2>1. n[t] <= MaxLines
    BY <1>1, PushFacts
  <2>2. NewLine(t) \in Entry
    BY <1>0, <2>1, NewLineFacts DEF Entry
  <2>3. local' = local /\ queued' = Append(queued, NewLine(t)) /\ UNCHANGED out
        /\ n' = [n EXCEPT ![t] = n[t] + 1]
    BY <1>1 DEF QueueLogLine, QueueAfterWait, PushLine
  <2>4. local \o Append(queued, NewLine(t)) = Append(local \o queued, NewLine(t))
    BY <1>0, <2>2, WayAppend
  <2>5. OnTheWay' = Append(OnTheWay, NewLine(t))
    BY <2>3, <2>4 DEF OnTheWay
  <2> QED
    BY <2>1, <2>3, <2>5 DEF Logged
<1>2. ASSUME NEW t \in Threads, WriteDirectly(t) PROVE Goal
  <2>1. OnTheWay = <<>>
    BY <1>2, DirectFacts
  <2> QED
    BY <1>2, <2>1 DEF WriteDirectly, Direct, OnTheWay
<1>3. ASSUME NEW t \in Threads, StopQueuesNull(t) PROVE Goal
  <2>1. local' = local /\ queued' = Append(queued, Null) /\ UNCHANGED <<n, out>>
    BY <1>3 DEF StopQueuesNull
  <2>2. local \o Append(queued, Null) = Append(local \o queued, Null)
    BY <1>0, WayAppend DEF Entry
  <2> QED
    BY <2>1, <2>2 DEF OnTheWay, Ended
<1>4. CASE WriterSwaps
  <2>1. local = <<>> /\ local' = queued /\ queued' = <<>> /\ UNCHANGED <<n, out>>
    BY <1>4 DEF IInv, WriterInv, WriterSwaps
  <2>2. <<>> \o queued = queued \o <<>>
    BY <1>0, ConcatEmptySeq
  <2> QED
    BY <2>1, <2>2 DEF OnTheWay, Kept
<1>5. CASE WriterWrites
  <2>1. local # <<>> /\ Head(local) # Null /\ local' = Tail(local) /\ UNCHANGED <<n, queued>>
    BY <1>5 DEF WriterWrites
  <2>2. OnTheWay # <<>> /\ OnTheWay[1] = Head(local) /\ OnTheWay' = Tail(OnTheWay)
    BY <1>0, <2>1, WayTail DEF OnTheWay
  <2>3. Head(local) \in Lines
    BY <1>0, <2>1, HeadTailProperties DEF Entry
  <2>4. PICK t \in Threads : Head(local)[1] = t
    BY <2>3 DEF Lines
  <2>5. out' = [out EXCEPT ![t] = Append(out[t], OnTheWay[1][2])]
    BY <1>5, <2>2, <2>4 DEF WriterWrites
  <2>6. Written(t)
    BY <2>1, <2>2, <2>4, <2>5 DEF Written
  <2> QED
    BY <2>6
<1>6. CASE WriterReturns
  <2>1. local # <<>> /\ Head(local) = Null /\ local' = Tail(local) /\ UNCHANGED <<n, out, queued>>
    BY <1>6 DEF WriterReturns
  <2>2. OnTheWay # <<>> /\ OnTheWay[1] = Head(local) /\ OnTheWay' = Tail(OnTheWay)
    BY <1>0, <2>1, WayTail DEF OnTheWay
  <2> QED
    BY <2>1, <2>2 DEF Returned
<1>7. ASSUME NEW t \in Threads,
             \/ QueueFull(t) \/ WriteDirectlyFails(t) \/ StopThread(t) \/ StopSignals(t) \/ StopJoins(t)
             \/ Exit(t) \/ WorkerDone(t) \/ SpuriousWakeup(t)
      PROVE  Goal
  BY <1>7 DEF QueueFull, WriteDirectlyFails, StopThread, StopSignals,
     StopJoins, Exit, WorkerDone, SpuriousWakeup, Kept, OnTheWay
<1>8. CASE \/ StartThread \/ StartThreadFails \/ WriterWaits \/ WriterWriteFails
           \/ WriterSpuriousWakeup \/ UNCHANGED vars
  BY <1>8 DEF StartThread, StartThreadFails, WriterWaits, WriterWriteFails,
     WriterSpuriousWakeup, vars, Kept, OnTheWay
<1> HIDE DEF Goal
<1> QED
  BY <1>1, <1>2, <1>3, <1>4, <1>5, <1>6, <1>7, <1>8, Zenon DEF Next, Step,
     Writer

\* Where the null line may be.
NullLast == \A i \in 1 .. Len(OnTheWay) :
              OnTheWay[i] = Null => i = Len(OnTheWay) /\ pc[Main] \in {"signal", "join"}

\* While main() does not move, the null line stays the last.
LEMMA NullStep ==
  ASSUME TypeOK, NullLast,
         \/ UNCHANGED OnTheWay
         \/ OnTheWay # <<>> /\ OnTheWay' = Tail(OnTheWay)
         \/ /\ pc[Main] \notin {"signal", "join"}
            /\ \E e \in Entry : OnTheWay' = Append(OnTheWay, e)
                                  /\ (e = Null => pc'[Main] \in {"signal", "join"}),
         \/ pc[Main] \in {"signal", "join"} => pc'[Main] \in {"signal", "join"}
         \/ OnTheWay = <<>>
  PROVE  NullLast'
<1>1. PICK w, v : w = OnTheWay /\ v = OnTheWay'
  OBVIOUS
<1>2. w \in Seq(Entry) /\ Len(w) \in Nat
  BY <1>1, WayFacts
<1>3. \A i \in 1 .. Len(w) : w[i] = Null => i = Len(w) /\ pc[Main] \in {"signal", "join"}
  BY <1>1 DEF NullLast
<1>4. SUFFICES \A i \in 1 .. Len(v) : v[i] = Null => i = Len(v) /\ pc'[Main] \in {"signal", "join"}
  BY <1>1 DEF NullLast
<1>5. CASE w = <<>> /\ v = w
  BY <1>5, EmptySeq
<1>6. CASE v = w /\ w # <<>>
  BY <1>1, <1>3, <1>6
<1>7. CASE w # <<>> /\ v = Tail(w)
  <2>1. /\ Len(v) = Len(w) - 1 /\ \A i \in 1 .. Len(v) : v[i] = w[i + 1]
        /\ pc[Main] \in {"signal", "join"} => pc'[Main] \in {"signal", "join"}
    BY <1>1, <1>2, <1>7, HeadTailProperties
  <2>2. \A i \in 1 .. Len(v) : i + 1 \in 1 .. Len(w) /\ (i + 1 = Len(w) => i = Len(v))
    BY <1>2, <2>1
  <2> QED
    BY <1>3, <2>1, <2>2
<1>8. ASSUME pc[Main] \notin {"signal", "join"}, NEW e \in Entry, v = Append(w, e),
             e = Null => pc'[Main] \in {"signal", "join"}
      PROVE  \A i \in 1 .. Len(v) : v[i] = Null => i = Len(v) /\ pc'[Main] \in {"signal", "join"}
  <2>1. /\ Len(v) = Len(w) + 1 /\ \A i \in 1 .. Len(w) : v[i] = w[i]
        /\ v[Len(w) + 1] = e
    BY <1>2, <1>8, AppendProperties
  <2>2. \A i \in 1 .. Len(v) : i \in 1 .. Len(w) \/ i = Len(w) + 1
    BY <1>2, <2>1
  <2> QED
    BY <1>3, <1>8, <2>1, <2>2
<1> QED
  BY <1>1, <1>5, <1>6, <1>7, <1>8

LEMMA WriterStep ==
  ASSUME IInv, Asserts = {}, [Next]_vars
  PROVE  WriterInv'
<1> DEFINE A == writer # "write" => local = <<>>
           B == writer = "done" \/ pc[Main] \in {"stopped", "exiting"} => queued = <<>> /\ local = <<>>
           C == writer = "done" => pc[Main] \in {"signal", "join", "stopped", "exiting"}
<1>0. /\ TypeOK /\ StageInv /\ A /\ B /\ C /\ NullLast /\ Main \in Threads
      /\ \A w \in Workers : w \in Threads /\ w # Main
  BY LoggerAssumption DEF IInv, WriterInv, NullLast, Threads
<1> DEFINE Goal == A' /\ B' /\ C' /\ NullLast'
<1>1. SUFFICES Goal
  BY DEF WriterInv, NullLast
<1>2. ASSUME NEW t \in Threads, QueueLogLine(t) \/ QueueAfterWait(t), ~exited PROVE Goal
  <2>1. /\ pc' = [pc EXCEPT ![t] = "idle"]
        /\ pc[Main] \notin {"single", "stop", "signal", "join", "stopped", "exiting"}
        /\ writer # "done" /\ local' = local /\ n[t] <= MaxLines
        /\ writer' \in {writer, "lock"} /\ (writer' # writer => writer = "wait")
    BY <1>2, PushFacts
  <2>2. pc'[Main] \notin {"signal", "join", "stopped", "exiting"}
    BY <1>0, <2>1 DEF TypeOK
  <2>3. A' /\ B' /\ C'
    BY <1>0, <2>1, <2>2
  <2>4. NewLine(t) \in Entry /\ NewLine(t) # Null
    BY <1>0, <2>1, NewLineFacts DEF Entry
  <2>5. OnTheWay' = Append(OnTheWay, NewLine(t))
    <3>1. local \o Append(queued, NewLine(t)) = Append(local \o queued, NewLine(t))
      BY <1>0, <2>4, WayAppend, WayFacts
    <3> QED
      BY <1>2, <2>1, <3>1 DEF OnTheWay, QueueLogLine, QueueAfterWait, PushLine
  <2>6. NullLast'
    BY <1>0, <2>1, <2>4, <2>5, NullStep
  <2> QED
    BY <2>3, <2>6
<1>3. ASSUME NEW t \in Threads,
             QueueFull(t) \/ SpuriousWakeup(t) \/ (t \in Workers /\ WorkerDone(t))
      PROVE  Goal
  <2>1. /\ UNCHANGED <<local, queued, writer>>
        /\ \E l \in {"full", "woken", "done"} : pc' = [pc EXCEPT ![t] = l]
        /\ t = Main => pc[t] \in {"single", "idle", "full"}
    <3>1. QueueFull(t) => pc[t] \in {"single", "idle"}
      BY CallFacts DEF QueueFull, IInv
    <3> QED
      BY <1>0, <1>3, <3>1 DEF QueueFull, SpuriousWakeup, WorkerDone
  <2>2. OnTheWay' = OnTheWay
    BY <2>1 DEF OnTheWay
  <2>3. /\ pc[Main] \in {"signal", "join", "stopped", "exiting"} => pc'[Main] = pc[Main]
        /\ pc'[Main] \in {"stopped", "exiting"} => pc'[Main] = pc[Main]
    BY <1>0, <2>1 DEF TypeOK
  <2>4. A' /\ B' /\ C'
    BY <1>0, <2>1, <2>3
  <2>5. NullLast'
    BY <1>0, <2>2, <2>3, NullStep
  <2> QED
    BY <2>4, <2>5
<1>4. ASSUME NEW t \in Threads, WriteDirectly(t) PROVE Goal
  <2>1. /\ pc[Main] \in {"single", "stopped"} /\ OnTheWay = <<>>
        /\ pc' = [pc EXCEPT ![Main] = IF pc[Main] = "stopped" THEN "exiting" ELSE "single"]
        /\ UNCHANGED <<local, queued, writer>>
    BY <1>4, DirectFacts DEF WriteDirectly
  <2>2. OnTheWay' = OnTheWay /\ local = <<>> /\ queued = <<>>
    BY <1>0, <2>1, WayFacts DEF OnTheWay
  <2>3. A' /\ B' /\ C'
    BY <1>0, <2>1, <2>2 DEF TypeOK
  <2>4. NullLast'
    BY <1>0, <2>1, <2>2, NullStep
  <2> QED
    BY <2>3, <2>4
<1>5. ASSUME NEW t \in Threads, StopThread(t), ~exited PROVE Goal
  <2>1. t = Main
    BY <1>5, StopFacts
  <2>2. /\ pc[Main] \in {"single", "idle"} /\ UNCHANGED <<local, queued, writer>>
        /\ pc' = [pc EXCEPT ![Main] = IF running THEN "stop" ELSE "stopped"]
    BY <1>5, <2>1 DEF StopThread
  <2>3. pc'[Main] = "stop" \/ (pc'[Main] = "stopped" /\ queued = <<>> /\ local = <<>>)
    BY <1>0, <2>2 DEF StageInv, TypeOK
  <2>4. A' /\ B' /\ C'
    BY <1>0, <2>2, <2>3
  <2>5. NullLast'
    BY <1>0, <2>2, NullStep DEF OnTheWay
  <2> QED
    BY <2>4, <2>5
<1>6. ASSUME NEW t \in Threads, StopQueuesNull(t) PROVE Goal
  <2>1. t = Main
    BY <1>6, StopFacts
  <2>2. /\ pc[Main] = "stop" /\ UNCHANGED <<local, writer>> /\ queued' = Append(queued, Null)
        /\ \E l \in {"signal", "join"} : pc' = [pc EXCEPT ![Main] = l]
    BY <1>6, <2>1 DEF StopQueuesNull
  <2>3. pc'[Main] \in {"signal", "join"}
    BY <1>0, <2>2 DEF TypeOK
  <2>4. A' /\ B' /\ C'
    BY <1>0, <2>2, <2>3
  <2>5. OnTheWay' = Append(OnTheWay, Null) /\ Null \in Entry
    <3>1. local \o Append(queued, Null) = Append(local \o queued, Null)
      BY <1>0, WayAppend, WayFacts DEF Entry
    <3> QED
      BY <2>2, <3>1 DEF OnTheWay, Entry
  <2>6. NullLast'
    BY <1>0, <2>2, <2>3, <2>5, NullStep
  <2> QED
    BY <2>4, <2>6
<1>7. ASSUME NEW t \in Threads, StopSignals(t) PROVE Goal
  <2>1. t = Main
    BY <1>7, StopFacts
  <2>2. /\ pc[Main] = "signal" /\ UNCHANGED <<local, queued>> /\ pc' = [pc EXCEPT ![Main] = "join"]
        /\ writer' = IF writer = "wait" THEN "lock" ELSE writer
    BY <1>7, <2>1 DEF StopSignals
  <2>3. pc'[Main] = "join"
    BY <1>0, <2>2 DEF TypeOK
  <2>4. A' /\ B' /\ C'
    BY <1>0, <2>2, <2>3
  <2>5. NullLast'
    BY <1>0, <2>2, <2>3, NullStep DEF OnTheWay
  <2> QED
    BY <2>4, <2>5
<1>8. ASSUME NEW t \in Threads, StopJoins(t) PROVE Goal
  <2>1. t = Main
    BY <1>8, StopFacts
  <2>2. /\ pc[Main] = "join" /\ writer = "done" /\ pc' = [pc EXCEPT ![Main] = "stopped"]
        /\ UNCHANGED <<local, queued, writer>>
    BY <1>8, <2>1 DEF StopJoins
  <2>3. pc'[Main] = "stopped" /\ queued = <<>> /\ local = <<>>
    BY <1>0, <2>2 DEF TypeOK
  <2>4. A' /\ B' /\ C'
    BY <2>2, <2>3
  <2>5. OnTheWay = <<>> /\ OnTheWay' = OnTheWay
    BY <1>0, <2>2, <2>3, WayFacts DEF OnTheWay
  <2>6. NullLast'
    BY <1>0, <2>5, NullStep
  <2> QED
    BY <2>4, <2>6
<1>9. CASE StartThread
  <2>1. /\ pc[Main] = "single" /\ UNCHANGED <<local, queued>> /\ writer' = "lock"
        /\ pc'[Main] = "idle" /\ local = <<>>
    BY <1>0, <1>9 DEF StartThread, StageInv
  <2>2. A' /\ B' /\ C'
    BY <2>1
  <2>3. NullLast'
    BY <1>0, <2>1, NullStep DEF OnTheWay
  <2> QED
    BY <2>2, <2>3
<1>10. CASE WriterSwaps
  <2>1. /\ local = <<>> /\ local' = queued /\ queued' = <<>> /\ writer' = "write" /\ queued # <<>>
        /\ pc'[Main] = pc[Main] \/ (pc[Main] = "full" /\ pc'[Main] = "woken")
    BY <1>0, <1>10 DEF WriterSwaps, Waiting
  <2>2. A' /\ B' /\ C'
    BY <1>0, <2>1
  <2>3. <<>> \o queued = queued \o <<>>
    BY <1>0, WayFacts, ConcatEmptySeq
  <2>4. OnTheWay' = OnTheWay
    BY <2>1, <2>3 DEF OnTheWay
  <2>5. NullLast'
    BY <1>0, <2>1, <2>4, NullStep
  <2> QED
    BY <2>2, <2>5
<1>11. CASE WriterWrites
  <2>1. /\ writer = "write" /\ local # <<>> /\ local' = Tail(local) /\ UNCHANGED <<queued, pc>>
        /\ writer' = IF Len(local) = 1 THEN "lock" ELSE "write"
    BY <1>11 DEF WriterWrites
  <2>2. Len(local) = 1 => Tail(local) = <<>>
    <3>1. Tail(local) \in Seq(Entry) /\ Len(Tail(local)) = Len(local) - 1
      BY <1>0, <2>1, WayFacts, HeadTailProperties
    <3> QED
      BY <3>1, EmptySeq
  <2>3. A' /\ B' /\ C'
    BY <1>0, <2>1, <2>2
  <2>4. OnTheWay # <<>> /\ OnTheWay' = Tail(OnTheWay)
    BY <1>0, <2>1, WayFacts, WayTail DEF OnTheWay
  <2>5. NullLast'
    BY <1>0, <2>1, <2>4, NullStep
  <2> QED
    BY <2>3, <2>5
<1>12. CASE WriterReturns
  <2>1. /\ writer' = "done" /\ local # <<>> /\ Head(local) = Null /\ local' = Tail(local)
        /\ UNCHANGED <<queued, pc>>
    BY <1>12 DEF WriterReturns
  <2>2. /\ OnTheWay # <<>> /\ OnTheWay' = Tail(OnTheWay) /\ OnTheWay[1] = Null
        /\ OnTheWay \in Seq(Entry) /\ Len(OnTheWay) \in Nat \ {0}
    BY <1>0, <2>1, WayFacts, WayTail, EmptySeq DEF OnTheWay
  <2>3. Len(OnTheWay) = 1 /\ pc[Main] \in {"signal", "join"}
    <3>1. 1 \in 1 .. Len(OnTheWay)
      BY <2>2
    <3> QED
      BY <1>0, <2>2, <3>1, Zenon DEF NullLast
  <2>4. /\ local \in Seq(Entry) /\ queued \in Seq(Entry)
        /\ Len(local) + Len(queued) = 1 /\ Len(local) \in Nat \ {0} /\ Len(queued) \in Nat
    BY <1>0, <2>1, <2>3, WayFacts, EmptySeq
  <2>5. queued = <<>> /\ Tail(local) = <<>>
    <3>1. Tail(local) \in Seq(Entry) /\ Len(Tail(local)) = Len(local) - 1
      BY <2>1, <2>4, HeadTailProperties
    <3>2. Len(queued) = 0 /\ Len(Tail(local)) = 0
      BY <2>4, <3>1
    <3> QED
      BY <2>4, <3>1, <3>2, EmptySeq
  <2>6. A' /\ B' /\ C'
    BY <2>1, <2>3, <2>5
  <2>7. NullLast'
    BY <1>0, <2>1, <2>2, NullStep
  <2> QED
    BY <2>6, <2>7
<1>13. CASE \/ \E t \in Threads : WriteDirectlyFails(t) \/ Exit(t)
            \/ StartThreadFails \/ WriterWaits \/ WriterWriteFails \/ WriterSpuriousWakeup
            \/ UNCHANGED vars
  <2>1. /\ UNCHANGED <<pc, local, queued>>
        /\ writer' = writer \/ (writer \in {"lock", "wait"} /\ writer' \in {"lock", "wait"})
    BY <1>13 DEF WriteDirectlyFails, Exit, StartThreadFails, WriterWaits,
       WriterWriteFails, WriterSpuriousWakeup, vars
  <2>2. A' /\ B' /\ C'
    BY <1>0, <2>1
  <2>3. NullLast'
    BY <1>0, <2>1, NullStep DEF OnTheWay
  <2> QED
    BY <2>2, <2>3
<1> HIDE DEF Goal, A, B, C
<1>14. ASSUME NEW t \in Threads, Step(t) \/ SpuriousWakeup(t), ~exited PROVE Goal
  <2>1. CASE QueueLogLine(t) \/ QueueAfterWait(t)
    BY <1>2, <1>14, <2>1
  <2>2. CASE QueueFull(t) \/ SpuriousWakeup(t) \/ (t \in Workers /\ WorkerDone(t))
    BY <1>3, <2>2
  <2>3. CASE WriteDirectlyFails(t) \/ Exit(t) \/ StartThreadFails
    BY <1>13, <2>3
  <2> QED
    BY <1>4, <1>5, <1>6, <1>7, <1>8, <1>9, <1>14, <2>1, <2>2, <2>3, Zenon DEF
       Step
<1> QED
  BY <1>10, <1>11, <1>12, <1>13, <1>14, Zenon DEF Next, Writer

-----------------------------------------------------------------------------
(* The theorems.                                                           *)

LEMMA InitInv == Init => IInv
<1> SUFFICES ASSUME Init PROVE IInv
  OBVIOUS
<1>1. TypeOK /\ CountInv /\ RoomInv
  BY InitTypes, InitRoom
<1>2. OnTheWay = <<>> /\ Len(OnTheWay) = 0
  BY <1>1, WayFacts, EmptySeq DEF Init
<1>3. StageInv
  BY LoggerAssumption DEF Init, StageInv, Threads
<1>4. WriterInv
  BY <1>2, LoggerAssumption DEF Init, WriterInv, Threads
<1>5. LinesInOrder
  <2>1. ASSUME NEW t \in Threads PROVE InOrder(t, out[t], OnTheWay, n[t])
    <3>1. PlacesIn(t, OnTheWay) = {}
      BY <1>2 DEF PlacesIn
    <3>2. n[t] = 0 /\ out[t] = <<>>
      BY DEF Init
    <3>3. <<>> = [i \in 1 .. 0 |-> i] /\ \A x \in 0 + 1 .. 0 : FALSE
      OBVIOUS
    <3>4. UpTo(t, out[t], OnTheWay, n[t], 0)
      BY <3>1, <3>2, <3>3 DEF UpTo
    <3> QED
      BY <3>2, <3>4 DEF InOrder
  <2> QED
    BY <2>1, LinesInOrderDef
<1> QED
  BY <1>1, <1>3, <1>4, <1>5 DEF IInv

LEMMA StepInv == IInv /\ [Next]_vars => IInv'
<1> SUFFICES ASSUME IInv, [Next]_vars PROVE IInv'
  OBVIOUS
<1>1. TypeOK /\ CountInv /\ RoomInv
  BY DEF IInv
<1>2. TypeOK' /\ CountInv'
  <2>1. ASSUME NEW t \in Threads, QueueLogLine(t) \/ QueueAfterWait(t) PROVE TypeOK' /\ CountInv'
    BY <1>1, <2>1, PushTypes DEF QueueLogLine, QueueAfterWait
  <2>2. ASSUME NEW t \in Threads, WriteDirectly(t) PROVE TypeOK' /\ CountInv'
    BY <1>1, <2>2, WriteTypes
  <2>3. CASE \/ \E t \in Threads :
                  \/ QueueFull(t) \/ WriteDirectlyFails(t) \/ StopThread(t)
                  \/ StopSignals(t) \/ StopJoins(t) \/ Exit(t) \/ SpuriousWakeup(t)
                  \/ StopQueuesNull(t)
                  \/ t \in Workers /\ WorkerDone(t)
             \/ StartThread \/ StartThreadFails
             \/ Writer \/ WriterSpuriousWakeup
             \/ UNCHANGED vars
    <3>1. UNCHANGED n
      BY <2>3 DEF QueueFull, WriteDirectlyFails, StopThread, StopSignals,
         StopJoins, Exit, SpuriousWakeup, StopQueuesNull, WorkerDone,
         StartThread, StartThreadFails, Writer, WriterWaits, WriterSwaps,
         WriterWrites, WriterWriteFails, WriterReturns, WriterSpuriousWakeup,
         vars
    <3> QED
      BY <1>1, <2>3, <3>1, OtherTypes
  <2> QED
    BY <2>1, <2>2, <2>3, Zenon DEF Next, Step
<1>3. RoomInv'
  BY <1>1, RoomStep
<1>4. Asserts = {} => StageInv' /\ WriterInv' /\ LinesInOrder'
  <2>1. SUFFICES ASSUME Asserts = {} PROVE StageInv' /\ WriterInv' /\ LinesInOrder'
    OBVIOUS
  <2>2. StageInv' /\ WriterInv'
    BY <2>1, StageStep, WriterStep
  <2>3. LinesInOrder'
    BY <1>1, <2>1, Effect, OrderStep DEF IInv
  <2> QED
    BY <2>2, <2>3
<1> QED
  BY <1>2, <1>3, <1>4 DEF IInv

LEMMA Invariance == Spec => []IInv
BY InitInv, StepInv, PTL DEF Spec

\* Types of the variables, whoever stops the logging thread and when.
THEOREM TypeCorrect == Spec => []TypeOK
<1>1. IInv => TypeOK
  BY DEF IInv
<1> QED
  BY <1>1, Invariance, PTL

\* QueueLogLine() looks at the size once and waits with an `if': the queue
\* exceeds kMaxQueueSize by no more than one line of each other thread and of
\* each spurious wakeup, for any number of threads and any limit.
THEOREM BoundedQueue == Spec => []QueueBound
<1>1. ASSUME IInv PROVE QueueBound
  <2>1. queued \in Seq(Entry)
    BY <1>1, WayFacts DEF IInv
  <2>2. Cardinality(QueuedLines(queued)) \in Nat /\ Cardinality(Woken) \in Nat
    BY <2>1, LinesFinite, WokenFinite
  <2>3. Cardinality(QueuedLines(queued)) + Cardinality(Woken)
          <= kMaxQueueSize + Cardinality(Workers) + spurious
    BY <1>1 DEF IInv, RoomInv
  <2>4. kMaxQueueSize + Cardinality(Workers) + spurious \in Nat
    BY <1>1, LoggerAssumption, WokenFinite DEF IInv, TypeOK
  <2>5. Cardinality(QueuedLines(queued)) <= kMaxQueueSize + Cardinality(Workers) + spurious
    BY <2>2, <2>3, <2>4
  <2> QED
    BY <2>5 DEF QueueBound, QueuedLines
<1> QED
  BY <1>1, Invariance, PTL

\* No line is lost, repeated or overtaken between logprintf() and the output,
\* as long as no sat_assert() fails.
THEOREM OrderKept == Spec => [](Asserts = {} => LinesInOrder)
<1>1. IInv => (Asserts = {} => LinesInOrder)
  BY DEF IInv
<1> QED
  BY <1>1, Invariance, PTL

\* When StopThread() has returned no line is left in either queue, as long as
\* no sat_assert() fails.
THEOREM StopFlushes == Spec => [](Asserts = {} => FlushedAtStop)
<1>1. ASSUME IInv PROVE Asserts = {} => FlushedAtStop
  <2>1. SUFFICES ASSUME Asserts = {}, NEW t \in Threads, pc[t] = "stopped", NEW u \in Threads
                 PROVE  Places(u) = {}
    BY DEF FlushedAtStop
  <2>2. t = Main
    BY <1>1, <2>1 DEF IInv, StageInv, Threads
  <2>3. queued = <<>> /\ local = <<>>
    BY <1>1, <2>1, <2>2 DEF IInv, WriterInv
  <2>4. OnTheWay = <<>> /\ Len(OnTheWay) = 0
    BY <1>1, <2>3, WayFacts, EmptySeq DEF IInv
  <2> QED
    BY <2>4 DEF Places
<1> QED
  BY <1>1, Invariance, PTL

=============================================================================
