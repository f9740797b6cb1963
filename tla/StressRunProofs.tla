-------------------------- MODULE StressRunProofs ---------------------------
(***************************************************************************)
(* Proofs about StressRun, for any number of runs and instances, any       *)
(* command lines, faults and signals: the instances of one stressor only   *)
(* are alive at a time, all are reaped before the report, and the exit     *)
(* status is what became of them.                                          *)
(***************************************************************************)
EXTENDS StressRun, TLAPS

\* A process that is gone, or not yet there, has no pending signals.
SigInv == \A p \in Procs : ~Live(p) => sig[p] = {}

\* Whoever lives, or waits to be reaped, is recorded in ss->pids, except for
\* the instance that was forked a moment ago.
RecordedInv ==
  parent.pc # "killed" =>
    \A c \in Children : child[c].pc \notin {"none", "reaped"} =>
      c \in pids \/ (parent.pc = "record" /\ c = Current)

\* ss->pids is about the current run, and nothing of it precedes the instance
\* that stress_wait_stressors waits for.  The instance that was just forked
\* is still to be recorded.
PidsInv ==
  /\ \A c \in pids : c[1] = parent.run /\ child[c].pc # "none"
  /\ parent.pc \in {"poll", "wait"} => \A c \in pids : c[2] >= parent.inst
  /\ parent.pc \in {"next", "report", "exited"} => pids = {}
  /\ parent.pc = "record" => child[Current].pc \notin {"none", "reaped"}

\* The instances to come.
FutureInv ==
  \A c \in Children :
    \/ c[1] > parent.run
    \/ c[1] = parent.run /\ parent.pc \in {"loop", "again"} /\ c[2] >= parent.inst
    \/ c[1] = parent.run /\ parent.pc = "record" /\ c[2] > parent.inst
    => child[c].pc = "none"

\* The exit status of main() in terms of what became of the instances
Verdict ==
  CASE Ended(Failed) \/ ~MetricsOk -> "NOT_SUCCESS"
    [] Ended({"NO_RESOURCE"}) /\ ~Ended(Failed) /\ MetricsOk -> "NO_RESOURCE"
    [] Ended({"UNTRUSTWORTHY"}) /\ MetricsOk
         /\ ~Ended(Failed \cup {"NO_RESOURCE"}) -> "METRICS_UNTRUSTWORTHY"
    [] OTHER -> "SUCCESS"

\* The result so far is that of the instances reaped so far, unless the
\* polling loop of --aggressive takes some.
ResultInv ==
  "aggressive" \notin opts =>
    /\ parent.pc # "poll"
    /\ \A c \in pids : child[c].pc # "reaped"
    /\ parent.pc # "exited" =>
         /\ result.success  <=> ~Ended(Failed)
         /\ result.resource <=> ~Ended({"NO_RESOURCE"})
         /\ result.metrics  <=> ~Ended({"UNTRUSTWORTHY"})
    /\ parent.pc = "exited" => result.exit = Verdict

IInv == TypeOK /\ SigInv /\ RecordedInv /\ PidsInv /\ FutureInv /\ ResultInv

-----------------------------------------------------------------------------
(* Types and signals.                                                      *)

Signals   == {"ALRM", "INT", "TERM", "KILL"}
ParentRec == [pc : ParentLocs, run : 1 .. NumRuns, inst : 1 .. PerRun,
              keep : BOOLEAN, wait : BOOLEAN, handlers : BOOLEAN,
              eintr : BOOLEAN, timer : BOOLEAN, kills : 0 .. MaxSoftKills + 1]
ChildRec  == [pc : ChildLocs, keep : BOOLEAN, handlers : BOOLEAN,
              kills : 0 .. MaxSoftKills + 1, term : BOOLEAN, rc : Statuses,
              failed : BOOLEAN, dirty : BOOLEAN]
ResultRec == [success : BOOLEAN, resource : BOOLEAN, metrics : BOOLEAN,
              exit : ExitCodes]

\* The type invariant in terms of the records above.
LEMMA TypeParts ==
  TypeOK <=> /\ opts \in OptionSets
             /\ parent \in ParentRec
             /\ child \in [Children -> ChildRec]
             /\ pids \in SUBSET Children
             /\ sig \in [Procs -> SUBSET Signals]
             /\ result \in ResultRec
             /\ sent \in 0 .. MaxSignals
BY DEF TypeOK, ParentRec, ChildRec, ResultRec, Signals

\* The parent is not one of the instances.
LEMMA ProcsFacts ==
  /\ Parent \in Procs /\ Parent \notin Children /\ Children \subseteq Procs
  /\ \A c \in Children : c[1] \in 1 .. NumRuns /\ c[2] \in 1 .. PerRun /\ c = <<c[1], c[2]>>
BY SizeAssumption DEF Procs, Parent, Children

\* The instance at hand is an instance.
LEMMA CurrentFacts ==
  ASSUME parent \in ParentRec
  PROVE  /\ parent.run \in 1 .. NumRuns /\ parent.inst \in 1 .. PerRun
         /\ Current \in Children /\ Current[1] = parent.run /\ Current[2] = parent.inst
<1>1. parent.run \in 1 .. NumRuns /\ parent.inst \in 1 .. PerRun
  BY DEF ParentRec
<1>2. <<parent.run, parent.inst>> \in Children
  BY <1>1 DEF Children
<1> QED
  BY <1>1, <1>2 DEF Current

\* killpg() and stress_kill_stressors() signal living processes only.
LEMMA KillFacts ==
  ASSUME NEW base \in [Procs -> SUBSET Signals], NEW R, NEW k
  PROVE  /\ KillGroup(base) \in [Procs -> SUBSET Signals]
         /\ KillStressors(base, R, k) \in [Procs -> SUBSET Signals]
         /\ \A p \in Procs : ~Live(p) => /\ KillGroup(base)[p] = base[p]
                                         /\ KillStressors(base, R, k)[p] = base[p]
<1>1. KillGroup(base) \in [Procs -> SUBSET Signals]
  BY DEF KillGroup, Signals
<1>2. \A p \in Procs : ~Live(p) => KillGroup(base)[p] = base[p]
  BY DEF KillGroup
<1>3. KillStressors(base, R, k) \in [Procs -> SUBSET Signals]
  BY <1>1 DEF KillStressors, Signals
<1>4. \A p \in Procs : ~Live(p) => KillStressors(base, R, k)[p] = base[p]
  BY <1>2 DEF KillStressors
<1> QED
  BY <1>1, <1>2, <1>3, <1>4

\* kill() signals living processes only.
LEMMA SendFacts ==
  ASSUME TypeOK, SigInv, NEW S, NEW s \in Signals, Send(S, s)
  PROVE  /\ sig' \in [Procs -> SUBSET Signals]
         /\ \A p \in Procs : ~Live(p) => sig'[p] = {}
BY TypeParts DEF Send, SigInv

\* stress_kill_stressors() counts its calls up to MaxSoftKills + 1.
LEMMA CountKillFacts ==
  ASSUME NEW p \in ParentRec
  PROVE  /\ CountKill(p) \in ParentRec
         /\ CountKill(p).pc = p.pc /\ CountKill(p).run = p.run /\ CountKill(p).inst = p.inst
BY SizeAssumption DEF CountKill, ParentRec

-----------------------------------------------------------------------------
(* Steps that leave the parent where it is.                                *)

\* Signals, timers and the handlers of the parent move nobody.
LEMMA FlagStep ==
  ASSUME IInv, UNCHANGED <<opts, child, pids, result>>,
         parent' \in ParentRec,
         parent'.pc = parent.pc, parent'.run = parent.run, parent'.inst = parent.inst,
         sig' \in [Procs -> SUBSET Signals],
         \A p \in Procs : ~Live(p) => sig'[p] = {},
         sent' \in 0 .. MaxSignals
  PROVE  IInv'
<1>1. TypeOK'
  BY DEF IInv, TypeOK, ParentRec, ChildRec, ResultRec, Signals
<1>2. SigInv'
  BY DEF SigInv, Live
<1>3. RecordedInv' /\ PidsInv' /\ FutureInv'
  BY DEF IInv, RecordedInv, PidsInv, FutureInv, Current
<1>4. ResultInv'
  BY DEF IInv, ResultInv, Verdict, Ended, MetricsOk
<1> QED
  BY <1>1, <1>2, <1>3, <1>4 DEF IInv

\* An instance moves on, or dies.
LEMMA ChildMove ==
  ASSUME IInv, NEW c \in Children, UNCHANGED <<opts, parent, pids, result, sent>>,
         child[c].pc \in ChildLive, child'[c].pc \in ChildLive \cup {"zombie"},
         child' \in [Children -> ChildRec],
         \A d \in Children : d # c => child'[d] = child[d],
         sig' \in [Procs -> SUBSET Signals],
         \A p \in Procs : ~Live(p)' => sig'[p] = {}
  PROVE  IInv'
<1>1. TypeOK'
  BY DEF IInv, TypeOK, ParentRec, ChildRec, ResultRec, Signals
<1>2. SigInv'
  BY DEF SigInv
<1>3. child[c].pc \notin {"none", "reaped"} /\ child'[c].pc \notin {"none", "reaped"}
  BY DEF ChildLive
<1>4. RecordedInv' /\ PidsInv' /\ FutureInv'
  <2>1. Current' = Current /\ pids \subseteq Children
    BY TypeParts DEF IInv, Current
  <2>2. RecordedInv'
    BY <1>3, <2>1 DEF IInv, RecordedInv
  <2>3. PidsInv'
    <3>1. \A d \in pids : child'[d].pc # "none"
      BY <1>3, <2>1 DEF IInv, PidsInv
    <3>2. parent.pc = "record" => child'[Current].pc \notin {"none", "reaped"}
      <4>1. Current \in Children
        BY CurrentFacts, TypeParts DEF IInv
      <4> QED
        BY <1>3, <4>1 DEF IInv, PidsInv
    <3> QED
      BY <2>1, <3>1, <3>2 DEF IInv, PidsInv
  <2>4. FutureInv'
    BY <1>3 DEF IInv, FutureInv
  <2> QED
    BY <2>2, <2>3, <2>4
<1>5. parent.pc # "exited"
  BY <1>3 DEF IInv, RecordedInv, PidsInv
<1>6. \A S : Ended(S)' <=> Ended(S)
  BY <1>3 DEF Ended
<1>7. ResultInv'
  BY <1>3, <1>5, <1>6, TypeParts DEF IInv, ResultInv
<1> QED
  BY <1>1, <1>2, <1>4, <1>7 DEF IInv

\* SIGALRM at the parent: swallowed, or the end of it.
LEMMA ParentSigalrmStep ==
  ASSUME IInv, ParentSigalrm
  PROVE  IInv'
<1>1. TypeOK /\ SigInv /\ Live(Parent)
  BY ProcsFacts DEF IInv, SigInv, ParentSigalrm
<1>2. /\ parent \in ParentRec /\ sig \in [Procs -> SUBSET Signals] /\ sent \in 0 .. MaxSignals
      /\ UNCHANGED <<opts, child, pids, result, sent>>
  BY <1>1, TypeParts DEF ParentSigalrm
<1>3. CASE /\ parent' = [parent EXCEPT !.wait = FALSE, !.eintr = parent.pc = "wait"]
           /\ sig' = [sig EXCEPT ![Parent] = @ \ {"ALRM"}]
  <2>1. /\ parent' \in ParentRec
        /\ parent'.pc = parent.pc /\ parent'.run = parent.run /\ parent'.inst = parent.inst
    BY <1>2, <1>3 DEF ParentRec
  <2>2. sig' \in [Procs -> SUBSET Signals] /\ \A p \in Procs : ~Live(p) => sig'[p] = {}
    BY <1>1, <1>2, <1>3, ProcsFacts DEF SigInv
  <2> QED
    BY <1>2, <2>1, <2>2, FlagStep
<1>4. CASE /\ parent' = [parent EXCEPT !.pc = "killed"]
           /\ sig' = [p \in Procs |-> IF p = Parent THEN {}
                                      ELSE IF p \in ToldOfDeath THEN sig[p] \cup {"ALRM"}
                                      ELSE sig[p]]
  <2>1. /\ parent' \in ParentRec
        /\ parent'.pc = "killed" /\ parent'.run = parent.run /\ parent'.inst = parent.inst
    BY <1>2, <1>4 DEF ParentRec, ParentLocs, ParentGone
  <2>2. sig' \in [Procs -> SUBSET Signals]
    BY <1>2, <1>4 DEF Signals
  <2>3. \A p \in Procs : ~Live(p)' => sig'[p] = {}
    <3> SUFFICES ASSUME NEW p \in Procs, p # Parent, ~Live(p)' PROVE sig'[p] = {}
      BY <1>4
    <3>1. ~Live(p) /\ p \notin ToldOfDeath
      BY <1>2, <2>1 DEF Live, ToldOfDeath, ChildLive
    <3> QED
      BY <1>1, <1>4, <3>1 DEF SigInv
  <2>4. TypeOK'
    BY <1>1, <1>2, <2>1, <2>2 DEF TypeOK, ParentRec, Signals
  <2>5. SigInv'
    BY <2>3 DEF SigInv
  <2>6. RecordedInv' /\ PidsInv'
    BY <1>2, <2>1 DEF IInv, RecordedInv, PidsInv
  <2>7. FutureInv'
    BY <1>2, <2>1 DEF IInv, FutureInv
  <2>8. parent.pc # "exited"
    BY <1>1 DEF Live, ParentGone
  <2>9. ResultInv'
    BY <1>2, <2>1, <2>8 DEF IInv, ResultInv, Ended
  <2> QED
    BY <2>4, <2>5, <2>6, <2>7, <2>9 DEF IInv
<1> QED
  BY <1>3, <1>4 DEF ParentSigalrm

\* SIGINT or SIGTERM at the parent.
LEMMA ParentTerminateStep ==
  ASSUME IInv, NEW s \in {"INT", "TERM"}, ParentTerminate(s)
  PROVE  IInv'
<1> DEFINE after == [parent EXCEPT !.keep = FALSE, !.eintr = parent.pc = "wait"]
           rest  == [sig EXCEPT ![Parent] = @ \ {s}]
<1>1. TypeOK /\ SigInv
  BY DEF IInv
<1>2. /\ parent \in ParentRec /\ sig \in [Procs -> SUBSET Signals] /\ sent \in 0 .. MaxSignals
      /\ UNCHANGED <<opts, child, pids, result, sent>>
  BY <1>1, TypeParts DEF ParentTerminate
<1>3. /\ after \in ParentRec
      /\ after.pc = parent.pc /\ after.run = parent.run /\ after.inst = parent.inst
  BY <1>2 DEF ParentRec
<1>4. rest \in [Procs -> SUBSET Signals] /\ \A p \in Procs : ~Live(p) => rest[p] = {}
  BY <1>1, <1>2, ProcsFacts DEF SigInv
<1> HIDE DEF rest
<1>5. CASE parent' = [after EXCEPT !.wait = FALSE] /\ sig' = KillGroup(rest)
  <2>1. /\ parent' \in ParentRec
        /\ parent'.pc = parent.pc /\ parent'.run = parent.run /\ parent'.inst = parent.inst
    BY <1>2, <1>5 DEF ParentRec
  <2>2. sig' \in [Procs -> SUBSET Signals] /\ \A p \in Procs : ~Live(p) => sig'[p] = {}
    BY <1>4, <1>5, KillFacts
  <2> QED
    BY <1>2, <2>1, <2>2, FlagStep
<1> HIDE DEF after
<1>6. CASE parent' = CountKill(after) /\ sig' = KillStressors(rest, pids, parent.kills)
  <2>1. /\ parent' \in ParentRec
        /\ parent'.pc = parent.pc /\ parent'.run = parent.run /\ parent'.inst = parent.inst
    BY <1>3, <1>6, CountKillFacts
  <2>2. sig' \in [Procs -> SUBSET Signals] /\ \A p \in Procs : ~Live(p) => sig'[p] = {}
    BY <1>4, <1>6, KillFacts
  <2> QED
    BY <1>2, <2>1, <2>2, FlagStep
<1> QED
  BY <1>5, <1>6 DEF ParentTerminate, after, rest

\* The user, the OOM killer and the timers.
LEMMA EnvironmentStep ==
  ASSUME IInv,
         UserSignal \/ Timers \/ Over \/ (\E c \in Children : OomKill(c)) \/ UNCHANGED vars
  PROVE  IInv'
<1>1. /\ TypeOK /\ SigInv /\ parent \in ParentRec /\ sig \in [Procs -> SUBSET Signals]
      /\ sent \in 0 .. MaxSignals
  BY TypeParts DEF IInv
<1>2. CASE UserSignal
  <2>1. sig' \in [Procs -> SUBSET Signals] /\ \A p \in Procs : ~Live(p) => sig'[p] = {}
    BY <1>1, <1>2, SendFacts DEF UserSignal, Signals
  <2>2. sent' \in 0 .. MaxSignals
    BY <1>1, <1>2, SizeAssumption DEF UserSignal
  <2> QED
    BY <1>1, <1>2, <2>1, <2>2, FlagStep DEF UserSignal
<1>3. CASE ParentTimer
  <2>1. sig' \in [Procs -> SUBSET Signals] /\ \A p \in Procs : ~Live(p) => sig'[p] = {}
    BY <1>1, <1>3, SendFacts DEF ParentTimer, Signals
  <2>2. /\ parent' \in ParentRec
        /\ parent'.pc = parent.pc /\ parent'.run = parent.run /\ parent'.inst = parent.inst
    BY <1>1, <1>3 DEF ParentTimer, ParentRec
  <2> QED
    BY <1>1, <1>3, <2>1, <2>2, FlagStep DEF ParentTimer
<1>4. CASE \E c \in Children : ChildTimer(c) \/ OomKill(c)
  <2>1. /\ sig' \in [Procs -> SUBSET Signals] /\ \A p \in Procs : ~Live(p) => sig'[p] = {}
        /\ UNCHANGED <<opts, parent, child, pids, result, sent>>
    BY <1>1, <1>4, SendFacts DEF ChildTimer, OomKill, Signals
  <2> QED
    BY <1>1, <2>1, FlagStep
<1>5. CASE UNCHANGED vars
  BY <1>1, <1>5, FlagStep DEF vars, SigInv
<1> QED
  BY <1>2, <1>3, <1>4, <1>5 DEF Timers, Over

-----------------------------------------------------------------------------
(* The instances.                                                          *)

\* An instance dies of a signal or of exit().
LEMMA DieStep ==
  ASSUME IInv, NEW c \in Children, Live(c), NEW rc \in Statuses, Die(c, rc)
  PROVE  IInv'
<1>1. TypeOK /\ SigInv /\ c # Parent /\ c \in Procs /\ child[c].pc \in ChildLive
  BY ProcsFacts DEF IInv, Live
<1>2. PICK d \in BOOLEAN :
        child' = [child EXCEPT ![c].pc = "zombie", ![c].rc = rc, ![c].dirty = d]
  BY DEF Die
<1>3. sig' = [sig EXCEPT ![c] = {}] /\ UNCHANGED <<opts, parent, pids, result, sent>>
  BY DEF Die
<1>4. child \in [Children -> ChildRec] /\ sig \in [Procs -> SUBSET Signals]
  BY <1>1, TypeParts
<1>5. /\ child'[c] = [child[c] EXCEPT !.pc = "zombie", !.rc = rc, !.dirty = d]
      /\ \A e \in Children : e # c => child'[e] = child[e]
  BY <1>2, <1>4
<1>6. child'[c] \in ChildRec /\ child'[c].pc = "zombie"
  BY <1>4, <1>5 DEF ChildRec, ChildLocs
<1>7. child' \in [Children -> ChildRec]
  BY <1>2, <1>4, <1>5, <1>6
<1>8. sig' \in [Procs -> SUBSET Signals]
  BY <1>3, <1>4
<1>9. \A p \in Procs : ~Live(p)' => sig'[p] = {}
  BY <1>1, <1>3, <1>4, <1>5 DEF SigInv, Live, Procs
<1> QED
  BY <1>1, <1>3, <1>5, <1>6, <1>7, <1>8, <1>9, ChildMove

\* A pending signal is handled by an instance.
LEMMA ChildSignalStep ==
  ASSUME IInv, NEW c \in Children, ChildSignal(c)
  PROVE  IInv'
<1>1. TypeOK /\ SigInv /\ c # Parent /\ c \in Procs
  BY ProcsFacts DEF IInv
<1>2. sig[c] # {} /\ Live(c) /\ child[c].pc \in ChildLive
  <2>1. sig[c] # {}
    BY DEF ChildSignal, ChildSigkill, ChildSigalrm, ChildSigint
  <2> QED
    BY <1>1, <2>1 DEF SigInv, Live
<1>3. child \in [Children -> ChildRec] /\ sig \in [Procs -> SUBSET Signals]
  BY <1>1, TypeParts
<1>4. CASE \E rc \in {"SIGKILL", "SIGALRM"} : Die(c, rc)
  BY <1>2, <1>4, DieStep DEF Statuses
<1>5. CASE /\ \/ child' = child
              \/ child' = [child EXCEPT ![c].keep = FALSE]
              \/ child' = [child EXCEPT ![c].keep = FALSE, ![c].term = TRUE]
           /\ \E s : LET rest == [sig EXCEPT ![c] = @ \ {s}]
                     IN  sig' = rest \/ sig' = KillStressors(rest, Earlier(c), child[c].kills)
           /\ UNCHANGED <<opts, parent, pids, result, sent>>
  <2>1. /\ child' \in [Children -> ChildRec]
        /\ child'[c].pc = child[c].pc
        /\ \A d \in Children : d # c => child'[d] = child[d]
    <3>1. PICK k \in BOOLEAN, m \in BOOLEAN :
            child' = [child EXCEPT ![c].keep = k, ![c].term = m]
      <4>1. /\ child[c].keep \in BOOLEAN /\ child[c].term \in BOOLEAN
            /\ child[c] = [child[c] EXCEPT !.keep = child[c].keep, !.term = child[c].term]
            /\ [child[c] EXCEPT !.keep = FALSE]
                 = [child[c] EXCEPT !.keep = FALSE, !.term = child[c].term]
        BY <1>3 DEF ChildRec
      <4>2. /\ child = [child EXCEPT ![c].keep = child[c].keep, ![c].term = child[c].term]
            /\ [child EXCEPT ![c].keep = FALSE]
                 = [child EXCEPT ![c].keep = FALSE, ![c].term = child[c].term]
        BY <1>3, <4>1
      <4> QED
        BY <1>5, <4>1, <4>2
    <3>2. /\ child'[c] = [child[c] EXCEPT !.keep = k, !.term = m]
          /\ \A d \in Children : d # c => child'[d] = child[d]
      BY <1>3, <3>1
    <3>3. child'[c] \in ChildRec /\ child'[c].pc = child[c].pc
      BY <1>3, <3>2 DEF ChildRec
    <3> QED
      BY <1>3, <3>1, <3>2, <3>3
  <2>2. PICK s : \/ sig' = [sig EXCEPT ![c] = @ \ {s}]
                 \/ sig' = KillStressors([sig EXCEPT ![c] = @ \ {s}], Earlier(c), child[c].kills)
    BY <1>5
  <2> DEFINE rest == [sig EXCEPT ![c] = @ \ {s}]
  <2>3. rest \in [Procs -> SUBSET Signals] /\ \A p \in Procs : ~Live(p) => rest[p] = {}
    BY <1>1, <1>3 DEF SigInv
  <2>4. sig' \in [Procs -> SUBSET Signals] /\ \A p \in Procs : ~Live(p) => sig'[p] = {}
    <3>1. sig' = rest \/ sig' = KillStressors(rest, Earlier(c), child[c].kills)
      BY <2>2, Zenon
    <3> HIDE DEF rest
    <3> QED
      BY <2>3, <3>1, KillFacts
  <2>5. \A p \in Procs : Live(p)' <=> Live(p)
    BY <1>1, <1>5, <2>1 DEF Live, Procs
  <2> QED
    BY <1>2, <1>5, <2>1, <2>4, <2>5, ChildMove
<1> QED
  BY <1>4, <1>5 DEF ChildSignal, ChildSigkill, ChildSigalrm, ChildSigint

\* An instance takes a step of its own.
LEMMA ChildRunStep ==
  ASSUME IInv, NEW c \in Children, ChildRun(c)
  PROVE  IInv'
<1>1. TypeOK /\ SigInv /\ c # Parent /\ c \in Procs
  BY ProcsFacts DEF IInv
<1>2. /\ child \in [Children -> ChildRec] /\ sig \in [Procs -> SUBSET Signals]
      /\ child[c].pc \in ChildLive /\ sig[c] = {} /\ Live(c)
  BY <1>1, TypeParts DEF ChildRun, SetChildHandlers, SetHandlersFails,
     ParentDiedAlarm, StartStressor, StressorReturns, SysExit, ChildExit,
     ChildStep, ChildReady, Live
<1>3. CASE SysExit(c)
  BY <1>2, <1>3, DieStep DEF SysExit, Statuses
<1>4. ASSUME child' \in [Children -> ChildRec], child'[c].pc \in ChildLive \cup {"zombie"},
             \A d \in Children : d # c => child'[d] = child[d],
             sig' = sig \/ Send({Parent}, "ALRM"),
             UNCHANGED <<opts, parent, pids, result, sent>>
      PROVE  IInv'
  <2>1. sig' \in [Procs -> SUBSET Signals] /\ \A p \in Procs : ~Live(p) => sig'[p] = {}
    BY <1>1, <1>2, <1>4, SendFacts DEF SigInv, Signals
  <2>2. sig'[c] = {}
    BY <1>1, <1>2, <1>4 DEF Send
  <2>3. \A p \in Procs : p # c => (Live(p)' <=> Live(p))
    BY <1>4 DEF Live, Procs
  <2> QED
    BY <1>2, <1>4, <2>1, <2>2, <2>3, ChildMove
<1>5. child[c] \in ChildRec /\ child[c].rc \in Statuses
  BY <1>2 DEF ChildRec
<1>6. ASSUME NEW new \in ChildRec, child' = [child EXCEPT ![c] = new],
             new.pc \in ChildLive \cup {"zombie"},
             sig' = sig \/ Send({Parent}, "ALRM"),
             UNCHANGED <<opts, parent, pids, result, sent>>
      PROVE  IInv'
  BY <1>2, <1>4, <1>6
<1>7. CASE SetChildHandlers(c) \/ ParentDiedAlarm(c) \/ StartStressor(c)
  <2>1. PICK to \in ChildLive : child' = [child EXCEPT ![c].pc = to]
    BY <1>7 DEF SetChildHandlers, ParentDiedAlarm, StartStressor, ChildStep,
       ChildLive
  <2>2. sig' = sig /\ UNCHANGED <<opts, parent, pids, result, sent>>
    BY <1>7 DEF SetChildHandlers, ParentDiedAlarm, StartStressor, ChildStep
  <2>3. [child[c] EXCEPT !.pc = to] \in ChildRec /\ [child[c] EXCEPT !.pc = to].pc = to
    BY <1>5, <2>1 DEF ChildRec, ChildLocs
  <2> QED
    BY <1>6, <2>1, <2>2, <2>3
<1>8. CASE SetHandlersFails(c)
  <2> DEFINE new == [child[c] EXCEPT !.pc = "failing", !.rc = "FAILURE"]
  <2>1. child' = [child EXCEPT ![c] = new]
    BY <1>2, <1>8 DEF SetHandlersFails
  <2>2. new \in ChildRec /\ new.pc = "failing"
    BY <1>5 DEF ChildRec, ChildLocs, ChildLive, Statuses, Failures
  <2> QED
    BY <1>6, <1>8, <2>1, <2>2 DEF SetHandlersFails, ChildLive
<1>9. CASE StressorReturns(c)
  <2>1. PICK own \in {"SUCCESS"} \cup (Failures \cap Faults) :
          \E rc \in {own} \cup ({"UNTRUSTWORTHY"} \cap Faults) :
            child' = [child EXCEPT ![c].pc = "exiting", ![c].rc = rc, ![c].failed = own = "FAILURE"]
    BY <1>9 DEF StressorReturns
  <2>2. PICK rc \in Statuses :
          child' = [child EXCEPT ![c].pc = "exiting", ![c].rc = rc, ![c].failed = own = "FAILURE"]
    BY <2>1 DEF Statuses
  <2> DEFINE new == [child[c] EXCEPT !.pc = "exiting", !.rc = rc, !.failed = own = "FAILURE"]
  <2>3. child' = [child EXCEPT ![c] = new]
    BY <1>2, <2>2
  <2>4. new \in ChildRec /\ new.pc = "exiting"
    BY <1>5, <2>2 DEF ChildRec, ChildLocs, ChildLive
  <2> QED
    BY <1>6, <1>9, <2>3, <2>4 DEF StressorReturns, ChildLive
<1>10. CASE ChildExit(c)
  <2>1. PICK rc \in Statuses : child' = [child EXCEPT ![c].pc = "zombie", ![c].rc = rc]
    BY <1>5, <1>10 DEF ChildExit, Statuses
  <2>2. (sig' = sig \/ Send({Parent}, "ALRM")) /\ UNCHANGED <<opts, parent, pids, result, sent>>
    BY <1>10 DEF ChildExit
  <2> DEFINE new == [child[c] EXCEPT !.pc = "zombie", !.rc = rc]
  <2>3. child' = [child EXCEPT ![c] = new]
    BY <1>2, <2>1
  <2>4. new \in ChildRec /\ new.pc = "zombie"
    BY <1>5, <2>1 DEF ChildRec, ChildLocs
  <2> QED
    BY <1>6, <2>2, <2>3, <2>4
<1> QED
  BY <1>3, <1>7, <1>8, <1>9, <1>10 DEF ChildRun

-----------------------------------------------------------------------------
(* stress_run and stress_wait_stressors in the parent.                     *)

\* stress_wait_stressors begins with the first instance.
LEMMA StartWaitFacts ==
  ASSUME NEW p \in ParentRec
  PROVE  /\ StartWait(p) \in ParentRec
         /\ StartWait(p).pc \in {"poll", "wait"} /\ StartWait(p).run = p.run
         /\ StartWait(p).inst = 1
         /\ "aggressive" \notin opts => StartWait(p).pc = "wait"
<1>1. 1 \in 1 .. PerRun
  BY SizeAssumption
<1>2. CASE "aggressive" \in opts
  <2>1. StartWait(p) = [p EXCEPT !.pc = "poll", !.inst = 1]
    BY <1>2 DEF StartWait
  <2> QED
    BY <1>1, <1>2, <2>1 DEF ParentRec, ParentLocs
<1>3. CASE "aggressive" \notin opts
  <2>1. StartWait(p) = [p EXCEPT !.pc = "wait", !.inst = 1]
    BY <1>3 DEF StartWait
  <2> QED
    BY <1>1, <1>3, <2>1 DEF ParentRec, ParentLocs
<1> QED
  BY <1>2, <1>3

\* The parent begins to wait: the instances that exist are recorded.
LEMMA WaitBegins ==
  ASSUME IInv, UNCHANGED <<opts, child, result, sent>>, Live(Parent),
         parent' \in ParentRec, parent'.pc \in {"poll", "wait"}, parent'.run = parent.run,
         parent'.inst = 1, "aggressive" \notin opts => parent'.pc = "wait",
         sig' \in [Procs -> SUBSET Signals],
         \A p \in Procs : ~Live(p) => sig'[p] = {},
         \/ pids' = pids /\ parent.pc # "record"
         \/ pids' = pids \cup {Current} /\ Current \in Children /\ child[Current].pc \notin {"none", "reaped"}
  PROVE  IInv'
<1>1. TypeOK'
  BY DEF IInv, TypeOK, ParentRec, Signals
<1>2. parent.pc \notin {"killed", "exited"} /\ parent'.pc \notin ParentGone
  BY DEF Live, ParentGone
<1>3. SigInv'
  BY <1>2 DEF SigInv, Live
<1>4. RecordedInv'
  BY <1>2 DEF IInv, RecordedInv
<1>5. PidsInv'
  BY ProcsFacts, TypeParts, SizeAssumption DEF IInv, PidsInv, Current,
     ParentRec
<1>6. FutureInv'
  BY DEF IInv, FutureInv
<1>7. ResultInv'
  BY <1>2 DEF IInv, ResultInv, Ended, Current
<1> QED
  BY <1>1, <1>3, <1>4, <1>5, <1>6, <1>7 DEF IInv

\* The parent moves on and everything else stays.
LEMMA ParentMove ==
  ASSUME IInv, UNCHANGED <<opts, child, pids, sig, result, sent>>, Live(Parent),
         parent' \in ParentRec, parent'.pc \notin ParentGone,
         RecordedInv', PidsInv', FutureInv', "aggressive" \notin opts => parent'.pc # "poll"
  PROVE  IInv'
<1>1. TypeOK'
  BY DEF IInv, TypeOK, ParentRec
<1>2. parent.pc \notin {"killed", "exited"}
  BY DEF Live, ParentGone
<1>3. SigInv'
  BY <1>2 DEF IInv, SigInv, Live
<1>4. ResultInv'
  BY <1>2 DEF IInv, ResultInv, Ended, ParentGone
<1> QED
  BY <1>1, <1>3, <1>4 DEF IInv

\* The loop over instances, where nothing is forked.
LEMMA LoopStep ==
  ASSUME IInv, LoopTop \/ BreakLoop \/ SetParentHandlers \/ PollEnds
  PROVE  IInv'
<1>1. /\ parent \in ParentRec /\ sig \in [Procs -> SUBSET Signals] /\ Live(Parent)
      /\ \A p \in Procs : ~Live(p) => sig[p] = {}
      /\ UNCHANGED <<opts, child, pids, sig, result, sent>>
  BY TypeParts DEF IInv, LoopTop, BreakLoop, SetParentHandlers, PollEnds,
     ParentReady, SigInv
<1>2. CASE LoopTop /\ parent' = [parent EXCEPT !.pc = "again"]
  <2>1. /\ parent.pc = "loop" /\ parent' \in ParentRec /\ parent'.pc = "again"
        /\ parent'.run = parent.run /\ parent'.inst = parent.inst
    BY <1>1, <1>2 DEF LoopTop, ParentRec, ParentLocs
  <2>2. RecordedInv' /\ PidsInv' /\ FutureInv'
    BY <1>1, <2>1 DEF IInv, RecordedInv, PidsInv, FutureInv
  <2> QED
    BY <1>1, <2>1, <2>2, ParentMove DEF ParentGone
<1>3. CASE LoopTop /\ parent' = StartWait(parent)
  BY <1>1, <1>3, StartWaitFacts, WaitBegins DEF LoopTop
<1>4. CASE BreakLoop
  <2>1. /\ parent.pc = "again" /\ parent' \in ParentRec /\ parent'.pc = "handlers"
        /\ parent'.run = parent.run /\ parent'.inst = parent.inst
    BY <1>1, <1>4 DEF BreakLoop, ParentRec, ParentLocs
  <2>2. RecordedInv' /\ PidsInv' /\ FutureInv'
    BY <1>1, <2>1 DEF IInv, RecordedInv, PidsInv, FutureInv
  <2> QED
    BY <1>1, <2>1, <2>2, ParentMove DEF ParentGone
<1>5. CASE SetParentHandlers
  <2>1. parent' = [StartWait(parent) EXCEPT !.handlers = TRUE, !.timer = @ \/ "timeout" \in opts]
    BY <1>5 DEF SetParentHandlers
  <2>2. /\ parent' \in ParentRec
        /\ parent'.pc = StartWait(parent).pc /\ parent'.run = StartWait(parent).run
        /\ parent'.inst = StartWait(parent).inst
    BY <1>1, <2>1, StartWaitFacts DEF ParentRec
  <2> QED
    BY <1>1, <1>5, <2>2, StartWaitFacts, WaitBegins DEF SetParentHandlers
<1>6. CASE PollEnds
  <2>1. /\ parent.pc = "poll" /\ parent' \in ParentRec /\ parent'.pc = "wait"
        /\ parent'.run = parent.run /\ parent'.inst = parent.inst
    BY <1>1, <1>6 DEF PollEnds, ParentRec, ParentLocs
  <2>2. RecordedInv' /\ PidsInv' /\ FutureInv'
    BY <1>1, <2>1 DEF IInv, RecordedInv, PidsInv, FutureInv
  <2> QED
    BY <1>1, <2>1, <2>2, ParentMove DEF ParentGone
<1> QED
  BY <1>2, <1>3, <1>4, <1>5, <1>6 DEF LoopTop

\* fork() succeeds: the instance exists and is not recorded yet.
LEMMA ForkStep ==
  ASSUME IInv, Fork
  PROVE  IInv'
<1>1. /\ parent \in ParentRec /\ child \in [Children -> ChildRec] /\ Live(Parent)
      /\ parent.pc = "again" /\ parent' = [parent EXCEPT !.pc = "record"]
      /\ UNCHANGED <<opts, pids, sig, result, sent>>
  BY TypeParts DEF IInv, Fork, ParentReady
<1>2. PICK c \in Children : c = Current /\ c[1] = parent.run /\ c[2] = parent.inst
  BY <1>1, CurrentFacts
<1>3. /\ parent' \in ParentRec /\ parent'.pc = "record"
      /\ parent'.run = parent.run /\ parent'.inst = parent.inst
  BY <1>1 DEF ParentRec, ParentLocs
<1>4. Current' = c
  BY <1>2, <1>3 DEF Current
<1>5. child' = [child EXCEPT ![c].pc = "forked", ![c].keep = parent.keep,
                             ![c].handlers = parent.handlers, ![c].kills = parent.kills]
  BY <1>2 DEF Fork
<1>6. /\ child'[c] = [child[c] EXCEPT !.pc = "forked", !.keep = parent.keep,
                                      !.handlers = parent.handlers, !.kills = parent.kills]
      /\ \A d \in Children : d # c => child'[d] = child[d]
  BY <1>1, <1>5
<1>7. child'[c] \in ChildRec /\ child'[c].pc = "forked"
  <2>1. /\ parent.keep \in BOOLEAN /\ parent.handlers \in BOOLEAN
        /\ parent.kills \in 0 .. MaxSoftKills + 1
    BY <1>1 DEF ParentRec
  <2>2. child[c] \in ChildRec /\ "forked" \in ChildLocs
    BY <1>1 DEF ChildLocs, ChildLive
  <2> QED
    BY <1>6, <2>1, <2>2 DEF ChildRec
<1>8. child' \in [Children -> ChildRec]
  BY <1>1, <1>5, <1>6, <1>7
<1>9. child[c].pc = "none" /\ c \notin pids
  BY <1>1, <1>2, ProcsFacts DEF IInv, FutureInv, PidsInv, ParentRec
<1>10. TypeOK'
  BY <1>1, <1>3, <1>8 DEF IInv, TypeOK, ParentRec, ChildRec
<1>11. SigInv'
  BY <1>1, <1>3, <1>6, <1>7, <1>9 DEF IInv, SigInv, Live, Procs, ChildLive,
     ParentGone
<1>12. RecordedInv'
  BY <1>1, <1>3, <1>4, <1>6 DEF IInv, RecordedInv
<1>13. PidsInv'
  BY <1>1, <1>3, <1>4, <1>6, <1>7, <1>9, TypeParts DEF IInv, PidsInv
<1>14. FutureInv'
  <2> SUFFICES ASSUME NEW d \in Children,
                      \/ d[1] > parent.run
                      \/ d[1] = parent.run /\ d[2] > parent.inst
               PROVE  child'[d].pc = "none"
    BY <1>3 DEF FutureInv
  <2>1. d # c
    BY <1>1, <1>2, ProcsFacts DEF ParentRec
  <2> QED
    BY <1>1, <1>6, <2>1, ProcsFacts DEF IInv, FutureInv, ParentRec
<1>15. ResultInv'
  <2>1. \A S : Ended(S)' <=> Ended(S)
    BY <1>6, <1>7, <1>9 DEF Ended
  <2> QED
    BY <1>1, <1>3, <1>6, <1>9, <2>1, TypeParts DEF IInv, ResultInv
<1> QED
  BY <1>10, <1>11, <1>12, <1>13, <1>14, <1>15 DEF IInv

\* fork() fails for good: those that exist are told to stop, and waited for.
LEMMA ForkFailsStep ==
  ASSUME IInv, ForkFails
  PROVE  IInv'
<1>1. /\ parent \in ParentRec /\ sig \in [Procs -> SUBSET Signals] /\ Live(Parent)
      /\ parent.pc = "again" /\ SigInv
      /\ UNCHANGED <<opts, child, pids, result, sent>>
      /\ parent' = CountKill(StartWait(parent))
      /\ sig' = KillStressors(sig, pids, parent.kills)
  BY TypeParts DEF IInv, ForkFails, ParentReady
<1>2. /\ parent' \in ParentRec /\ parent'.pc \in {"poll", "wait"} /\ parent'.run = parent.run
      /\ parent'.inst = 1 /\ ("aggressive" \notin opts => parent'.pc = "wait")
  BY <1>1, StartWaitFacts, CountKillFacts
<1>3. sig' \in [Procs -> SUBSET Signals] /\ \A p \in Procs : ~Live(p) => sig'[p] = {}
  BY <1>1, KillFacts DEF SigInv
<1> QED
  BY <1>1, <1>2, <1>3, WaitBegins

\* The pid is recorded; the parent goes on or stops what it has started.
LEMMA RecordPidStep ==
  ASSUME IInv, RecordPid
  PROVE  IInv'
<1>1. /\ parent \in ParentRec /\ sig \in [Procs -> SUBSET Signals] /\ Live(Parent)
      /\ parent.pc = "record" /\ SigInv
      /\ pids' = pids \cup {Current}
      /\ UNCHANGED <<opts, child, result, sent>>
  BY TypeParts DEF IInv, RecordPid, ParentReady
<1>2. PICK c \in Children : c = Current /\ c[1] = parent.run /\ c[2] = parent.inst
  BY <1>1, CurrentFacts
<1>3. CASE parent' = NextInstance(parent) /\ UNCHANGED sig
  <2>1. /\ parent' \in ParentRec /\ parent'.run = parent.run
        /\ \/ parent'.pc = "loop" /\ parent'.inst = parent.inst + 1
           \/ parent'.pc = "handlers" /\ parent'.inst = parent.inst
    <3>1. CASE parent.inst < PerRun
      <4>1. parent.inst + 1 \in 1 .. PerRun
        BY <1>1, <3>1, CurrentFacts, SizeAssumption
      <4>2. parent' = [parent EXCEPT !.pc = "loop", !.inst = parent.inst + 1]
        BY <1>3, <3>1 DEF NextInstance
      <4> QED
        BY <1>1, <4>1, <4>2 DEF ParentRec, ParentLocs
    <3>2. CASE ~(parent.inst < PerRun)
      BY <1>1, <1>3, <3>2, SizeAssumption DEF NextInstance, ParentRec,
         ParentLocs
    <3> QED
      BY <3>1, <3>2
  <2>2. TypeOK'
    BY <1>1, <1>2, <1>3, <2>1 DEF IInv, TypeOK, ParentRec
  <2>3. SigInv'
    BY <1>1, <1>3, <2>1 DEF SigInv, Live, ParentGone
  <2>4. RecordedInv'
    BY <1>1, <2>1 DEF IInv, RecordedInv
  <2>5. child[c].pc \notin {"none", "reaped"}
    BY <1>1, <1>2 DEF IInv, PidsInv
  <2>6. PidsInv'
    BY <1>1, <1>2, <2>1, <2>5 DEF IInv, PidsInv
  <2>7. FutureInv'
    BY <1>1, <2>1, ProcsFacts DEF IInv, FutureInv, ParentRec
  <2>8. ResultInv'
    BY <1>1, <1>2, <2>1, <2>5 DEF IInv, ResultInv, Ended
  <2> QED
    BY <2>2, <2>3, <2>4, <2>6, <2>7, <2>8 DEF IInv
<1>4. CASE sig' = KillStressors(sig, pids', parent.kills) /\ parent' = CountKill(StartWait(parent))
  <2>1. /\ parent' \in ParentRec /\ parent'.pc \in {"poll", "wait"} /\ parent'.run = parent.run
        /\ parent'.inst = 1 /\ ("aggressive" \notin opts => parent'.pc = "wait")
    BY <1>1, <1>4, StartWaitFacts, CountKillFacts
  <2>2. sig' \in [Procs -> SUBSET Signals] /\ \A p \in Procs : ~Live(p) => sig'[p] = {}
    BY <1>1, <1>4, KillFacts DEF SigInv
  <2>3. Current \in Children /\ child[Current].pc \notin {"none", "reaped"}
    BY <1>1, <1>2 DEF IInv, PidsInv
  <2> QED
    BY <1>1, <2>1, <2>2, <2>3, WaitBegins
<1> QED
  BY <1>3, <1>4 DEF RecordPid

\* The polling loop of --aggressive reaps an instance and drops its status.
LEMMA PollReapsStep ==
  ASSUME IInv, NEW c \in Children, PollReaps(c)
  PROVE  IInv'
<1>1. /\ parent \in ParentRec /\ child \in [Children -> ChildRec] /\ Live(Parent)
      /\ parent.pc = "poll" /\ parent' = [parent EXCEPT !.pc = "wait"]
      /\ child[c].pc = "zombie" /\ child' = [child EXCEPT ![c].pc = "reaped"]
      /\ UNCHANGED <<opts, pids, sig, result, sent>>
  BY TypeParts DEF IInv, PollReaps, ParentReady
<1>2. /\ parent' \in ParentRec /\ parent'.pc = "wait"
      /\ parent'.run = parent.run /\ parent'.inst = parent.inst
  BY <1>1 DEF ParentRec, ParentLocs
<1>3. /\ child' \in [Children -> ChildRec] /\ child'[c].pc = "reaped"
      /\ \A d \in Children : d # c => child'[d] = child[d]
  BY <1>1 DEF ChildRec, ChildLocs
<1>4. TypeOK'
  BY <1>1, <1>2, <1>3 DEF IInv, TypeOK, ParentRec, ChildRec
<1>5. SigInv'
  BY <1>1, <1>2, <1>3 DEF IInv, SigInv, Live, Procs, ChildLive, ParentGone
<1>6. RecordedInv'
  BY <1>1, <1>2, <1>3 DEF IInv, RecordedInv
<1>7. PidsInv'
  BY <1>1, <1>2, <1>3, TypeParts DEF IInv, PidsInv
<1>8. FutureInv'
  BY <1>1, <1>2, <1>3 DEF IInv, FutureInv
<1>9. ResultInv'
  BY <1>1 DEF IInv, ResultInv
<1> QED
  BY <1>4, <1>5, <1>6, <1>7, <1>8, <1>9 DEF IInv

\* The next instance to wait for, or the end of the wait.
LEMMA NextWaitFacts ==
  ASSUME NEW p \in ParentRec, p.pc = "wait"
  PROVE  /\ NextWait(p) \in ParentRec /\ NextWait(p).run = p.run
         /\ \/ NextWait(p).pc = "wait" /\ NextWait(p).inst = p.inst + 1
            \/ NextWait(p).pc = "next" /\ p.inst = PerRun
<1>1. CASE p.inst < PerRun
  BY <1>1, SizeAssumption DEF NextWait, ParentRec
<1>2. CASE ~(p.inst < PerRun)
  BY <1>2, SizeAssumption DEF NextWait, ParentRec, ParentLocs
<1> QED
  BY <1>1, <1>2

\* The wait for Current is over and Current is not, or no longer, recorded.
LEMMA WaitMoves ==
  ASSUME IInv, Live(Parent), parent.pc = "wait", UNCHANGED <<opts, sent>>,
         parent' \in ParentRec, parent'.run = parent.run,
         \/ parent'.pc = "wait" /\ parent'.inst = parent.inst + 1
         \/ parent'.pc = "next" /\ parent.inst = PerRun,
         pids' = pids \ {Current},
         child' \in [Children -> ChildRec],
         \A d \in Children : d # Current => child'[d] = child[d],
         child'[Current].pc \in {"none", "reaped"} \/ Current \notin pids,
         child'[Current].pc = "none" <=> child[Current].pc = "none",
         Current \notin pids => child' = child,
         sig' \in [Procs -> SUBSET Signals],
         \A p \in Procs : ~Live(p)' => sig'[p] = {},
         result' \in ResultRec,
         "aggressive" \notin opts =>
           /\ result'.success  <=> ~Ended(Failed)'
           /\ result'.resource <=> ~Ended({"NO_RESOURCE"})'
           /\ result'.metrics  <=> ~Ended({"UNTRUSTWORTHY"})'
  PROVE  IInv'
<1>1. TypeOK'
  BY DEF IInv, TypeOK, ParentRec, ChildRec, ResultRec, Signals
<1>2. SigInv'
  BY DEF SigInv
<1>3. RecordedInv'
  BY DEF IInv, RecordedInv
<1>4. PidsInv'
  <2>1. \A c \in pids' : c[1] = parent'.run /\ child'[c].pc # "none"
    BY TypeParts DEF IInv, PidsInv
  <2>2. \A c \in pids' : c[2] >= parent.inst + 1
    <3> SUFFICES ASSUME NEW c \in pids' PROVE c[2] >= parent.inst + 1
      OBVIOUS
    <3>1. c \in Children /\ c \in pids /\ c # Current /\ c[1] = parent.run /\ c[2] >= parent.inst
      BY TypeParts DEF IInv, PidsInv
    <3>2. c[2] # parent.inst
      BY <3>1, ProcsFacts DEF Current
    <3>3. c[2] \in 1 .. PerRun /\ parent.inst \in 1 .. PerRun
      BY <3>1, ProcsFacts, CurrentFacts, TypeParts DEF IInv
    <3> QED
      BY <3>1, <3>2, <3>3
  <2>3. parent.inst = PerRun => pids' = {}
    <3> SUFFICES ASSUME parent.inst = PerRun, NEW c \in pids' PROVE FALSE
      OBVIOUS
    <3>1. c[2] \in 1 .. PerRun
      BY ProcsFacts, TypeParts DEF IInv
    <3> QED
      BY <2>2, <3>1, SizeAssumption
  <2> QED
    BY <2>1, <2>2, <2>3 DEF PidsInv
<1>5. FutureInv'
  BY DEF IInv, FutureInv
<1>6. ResultInv'
  BY TypeParts DEF IInv, ResultInv
<1> QED
  BY <1>1, <1>2, <1>3, <1>4, <1>5, <1>6 DEF IInv

\* An instance that was never started, or that was waited for already.
LEMMA SkipFinishedStep ==
  ASSUME IInv, SkipFinished
  PROVE  IInv'
<1>1. /\ parent \in ParentRec /\ child \in [Children -> ChildRec] /\ Live(Parent)
      /\ parent.pc = "wait" /\ Current \notin pids /\ parent' = NextWait(parent)
      /\ sig \in [Procs -> SUBSET Signals] /\ result \in ResultRec /\ SigInv
      /\ UNCHANGED <<opts, child, pids, sig, result, sent>>
  BY TypeParts DEF IInv, SkipFinished, ParentReady
<1>2. /\ parent' \in ParentRec /\ parent'.run = parent.run
      /\ \/ parent'.pc = "wait" /\ parent'.inst = parent.inst + 1
         \/ parent'.pc = "next" /\ parent.inst = PerRun
  BY <1>1, NextWaitFacts
<1>3. \A p \in Procs : ~Live(p)' => sig'[p] = {}
  BY <1>1, <1>2 DEF SigInv, Live, ParentGone
<1>4. "aggressive" \notin opts =>
        /\ result'.success  <=> ~Ended(Failed)'
        /\ result'.resource <=> ~Ended({"NO_RESOURCE"})'
        /\ result'.metrics  <=> ~Ended({"UNTRUSTWORTHY"})'
  BY <1>1 DEF IInv, ResultInv, Ended
<1>5. pids' = pids \ {Current}
  BY <1>1
<1> QED
  BY <1>1, <1>2, <1>3, <1>4, <1>5, WaitMoves

\* A signal interrupts waitpid().
LEMMA InterruptedStep ==
  ASSUME IInv, Interrupted
  PROVE  IInv'
<1>1. /\ parent \in ParentRec /\ parent' = [parent EXCEPT !.eintr = FALSE]
      /\ sig \in [Procs -> SUBSET Signals] /\ TypeOK /\ SigInv /\ sent \in 0 .. MaxSignals
      /\ sig' = sig \/ Send({Current}, "ALRM")
      /\ UNCHANGED <<opts, child, pids, result, sent>>
  BY TypeParts DEF IInv, Interrupted
<1>2. /\ parent' \in ParentRec
      /\ parent'.pc = parent.pc /\ parent'.run = parent.run /\ parent'.inst = parent.inst
  BY <1>1 DEF ParentRec
<1>3. sig' \in [Procs -> SUBSET Signals] /\ \A p \in Procs : ~Live(p) => sig'[p] = {}
  BY <1>1, SendFacts DEF SigInv, Signals
<1> QED
  BY <1>1, <1>2, <1>3, FlagStep

\* What Judge leaves is true of one more outcome.
LEMMA JudgeFacts ==
  ASSUME NEW r \in ResultRec, NEW rc
  PROVE  /\ Judge(r, rc) \in ResultRec
         /\ Judge(r, rc).success  <=> r.success  /\ rc \notin Failed
         /\ Judge(r, rc).resource <=> r.resource /\ rc # "NO_RESOURCE"
         /\ Judge(r, rc).metrics  <=> r.metrics  /\ rc # "UNTRUSTWORTHY"
BY DEF Judge, ResultRec

\* An instance is reaped and its status judged.
LEMMA ReapStep ==
  ASSUME IInv, Reap
  PROVE  IInv'
<1>1. /\ parent \in ParentRec /\ child \in [Children -> ChildRec] /\ Live(Parent)
      /\ parent.pc = "wait" /\ TypeOK /\ SigInv
      /\ sig \in [Procs -> SUBSET Signals] /\ result \in ResultRec
      /\ UNCHANGED <<opts, sent>>
  BY TypeParts DEF IInv, Reap, ParentReady
<1>2. PICK c \in Children : c = Current
  BY <1>1, CurrentFacts
<1>3. PICK rc : rc = child[c].rc
  OBVIOUS
<1>4. /\ c \in pids /\ child[c].pc = "zombie" /\ result' = Judge(result, rc)
      /\ child' = [child EXCEPT ![c].pc = "reaped"] /\ pids' = pids \ {c}
  BY <1>2, <1>3 DEF Reap
<1>5. /\ child'[c] = [child[c] EXCEPT !.pc = "reaped"]
      /\ \A d \in Children : d # c => child'[d] = child[d]
  BY <1>1, <1>4
<1>6. child'[c] \in ChildRec /\ child'[c].pc = "reaped" /\ child'[c].rc = rc
  BY <1>1, <1>3, <1>5 DEF ChildRec, ChildLocs
<1>7. child' \in [Children -> ChildRec]
  BY <1>1, <1>4, <1>5, <1>6
<1>8. /\ parent' \in ParentRec /\ parent'.run = parent.run
      /\ \/ parent'.pc = "wait" /\ parent'.inst = parent.inst + 1
         \/ parent'.pc = "next" /\ parent.inst = PerRun
  <2> DEFINE p == [parent EXCEPT !.eintr = FALSE]
  <2>1. p \in ParentRec /\ p.pc = "wait" /\ p.run = parent.run /\ p.inst = parent.inst
    BY <1>1 DEF ParentRec
  <2> HIDE DEF p
  <2>2. /\ NextWait(p) \in ParentRec /\ NextWait(p).run = p.run
        /\ \/ NextWait(p).pc = "wait" /\ NextWait(p).inst = p.inst + 1
           \/ NextWait(p).pc = "next" /\ p.inst = PerRun
    BY <2>1, NextWaitFacts
  <2> DEFINE q == [NextWait(p) EXCEPT !.keep = FALSE, !.wait = FALSE]
  <2>3. /\ q \in ParentRec /\ q.pc = NextWait(p).pc /\ q.run = NextWait(p).run
        /\ q.inst = NextWait(p).inst
    BY <2>2 DEF ParentRec
  <2>4. parent' = NextWait(p) \/ parent' = CountKill(q)
    BY DEF Reap, p
  <2> HIDE DEF q
  <2> QED
    BY <2>1, <2>2, <2>3, <2>4, CountKillFacts
<1>9. \A p \in Procs : ~Live(p)' => sig'[p] = {}
  <2>1. sig' = sig \/ sig' = KillStressors(sig, pids, parent.kills)
    BY DEF Reap
  <2>2. c # Parent /\ c \in Procs /\ ~Live(c)
    BY <1>4, ProcsFacts DEF Live, ChildLive
  <2>3. \A p \in Procs : ~Live(p) => sig'[p] = {}
    BY <1>1, <2>1, KillFacts DEF SigInv
  <2>4. \A p \in Procs : ~Live(p)' => ~Live(p)
    BY <1>1, <1>5, <1>8, <2>2 DEF Live, Procs, ParentGone
  <2> QED
    BY <2>3, <2>4
<1>10. sig' \in [Procs -> SUBSET Signals]
  BY <1>1, KillFacts DEF Reap
<1>11. \A S : Ended(S)' <=> (Ended(S) \/ rc \in S)
  BY <1>4, <1>5, <1>6 DEF Ended
<1>12. result' \in ResultRec
  BY <1>1, <1>4, JudgeFacts
<1>13. "aggressive" \notin opts =>
        /\ result'.success  <=> ~Ended(Failed)'
        /\ result'.resource <=> ~Ended({"NO_RESOURCE"})'
        /\ result'.metrics  <=> ~Ended({"UNTRUSTWORTHY"})'
  <2>1. "aggressive" \notin opts =>
          /\ result.success  <=> ~Ended(Failed)
          /\ result.resource <=> ~Ended({"NO_RESOURCE"})
          /\ result.metrics  <=> ~Ended({"UNTRUSTWORTHY"})
    BY <1>1 DEF IInv, ResultInv
  <2>2. /\ result'.success  <=> result.success  /\ rc \notin Failed
        /\ result'.resource <=> result.resource /\ rc # "NO_RESOURCE"
        /\ result'.metrics  <=> result.metrics  /\ rc # "UNTRUSTWORTHY"
    BY <1>1, <1>4, JudgeFacts
  <2> QED
    BY <1>11, <2>1, <2>2
<1> QED
  BY <1>1, <1>2, <1>4, <1>5, <1>6, <1>7, <1>8, <1>9, <1>10, <1>12, <1>13,
     WaitMoves

\* The polling loop has taken this instance.
LEMMA NoChildStep ==
  ASSUME IInv, NoChild
  PROVE  IInv'
<1>1. /\ parent \in ParentRec /\ child \in [Children -> ChildRec] /\ Live(Parent)
      /\ parent.pc = "wait" /\ child[Current].pc = "reaped" /\ pids' = pids \ {Current}
      /\ parent' = NextWait([parent EXCEPT !.eintr = FALSE])
      /\ sig \in [Procs -> SUBSET Signals] /\ result \in ResultRec /\ SigInv
      /\ UNCHANGED <<opts, child, sig, result, sent>>
  BY TypeParts DEF IInv, NoChild, ParentReady
<1>2. /\ parent' \in ParentRec /\ parent'.run = parent.run
      /\ \/ parent'.pc = "wait" /\ parent'.inst = parent.inst + 1
         \/ parent'.pc = "next" /\ parent.inst = PerRun
  <2> DEFINE p == [parent EXCEPT !.eintr = FALSE]
  <2>1. p \in ParentRec /\ p.pc = "wait" /\ p.run = parent.run /\ p.inst = parent.inst
    BY <1>1 DEF ParentRec
  <2>2. parent' = NextWait(p)
    BY <1>1
  <2> HIDE DEF p
  <2> QED
    BY <2>1, <2>2, NextWaitFacts
<1>3. \A p \in Procs : ~Live(p)' => sig'[p] = {}
  BY <1>1, <1>2 DEF SigInv, Live, ParentGone
<1>4. "aggressive" \notin opts =>
        /\ result'.success  <=> ~Ended(Failed)'
        /\ result'.resource <=> ~Ended({"NO_RESOURCE"})'
        /\ result'.metrics  <=> ~Ended({"UNTRUSTWORTHY"})'
  BY <1>1 DEF IInv, ResultInv, Ended
<1> QED
  BY <1>1, <1>2, <1>3, <1>4, WaitMoves

-----------------------------------------------------------------------------
(* stress_run_sequential and the report.                                   *)

\* The next stressor, or the end.
LEMMA NextRunStep ==
  ASSUME IInv, NextRun
  PROVE  IInv'
<1>1. /\ parent \in ParentRec /\ Live(Parent) /\ parent.pc = "next" /\ pids = {}
      /\ UNCHANGED <<opts, child, pids, sig, result, sent>>
  BY TypeParts DEF IInv, NextRun, ParentReady, PidsInv
<1>2. parent.run \in 1 .. NumRuns /\ 1 \in 1 .. PerRun
  BY <1>1, CurrentFacts, SizeAssumption
<1>3. CASE parent' = [parent EXCEPT !.pc = "report"]
  <2>1. /\ parent' \in ParentRec /\ parent'.pc = "report" /\ parent'.run = parent.run
    BY <1>1, <1>3 DEF ParentRec, ParentLocs
  <2>2. RecordedInv' /\ PidsInv' /\ FutureInv'
    BY <1>1, <2>1 DEF IInv, RecordedInv, PidsInv, FutureInv
  <2> QED
    BY <1>1, <2>1, <2>2, ParentMove DEF ParentGone
<1>4. CASE /\ parent.run < NumRuns
           /\ parent' = [parent EXCEPT !.pc = "loop", !.run = @ + 1, !.inst = 1, !.wait = TRUE]
  <2>1. parent.run + 1 \in 1 .. NumRuns
    BY <1>2, <1>4, SizeAssumption
  <2>2. /\ parent' \in ParentRec /\ parent'.pc = "loop" /\ parent'.run = parent.run + 1
        /\ parent'.inst = 1
    BY <1>1, <1>2, <1>4, <2>1 DEF ParentRec, ParentLocs
  <2>3. RecordedInv' /\ PidsInv'
    BY <1>1, <2>2 DEF IInv, RecordedInv, PidsInv
  <2>4. FutureInv'
    <3>1. \A c \in Children : c[1] >= parent.run + 1 => child[c].pc = "none"
      BY <1>2, ProcsFacts DEF IInv, FutureInv
    <3> QED
      BY <1>1, <1>2, <2>2, <3>1, ProcsFacts DEF FutureInv
  <2> QED
    BY <1>1, <2>2, <2>3, <2>4, ParentMove DEF ParentGone
<1> QED
  BY <1>3, <1>4 DEF NextRun

\* The exit status as Report computes it from the three verdicts.
LEMMA ExitFacts ==
  ASSUME NEW s \in BOOLEAN, NEW r \in BOOLEAN, NEW m \in BOOLEAN,
         s <=> ~Ended(Failed), r <=> ~Ended({"NO_RESOURCE"}), m <=> ~Ended({"UNTRUSTWORTHY"})
  PROVE  Verdict = IF ~(s /\ MetricsOk) THEN "NOT_SUCCESS"
                        ELSE IF ~r THEN "NO_RESOURCE"
                        ELSE IF ~m THEN "METRICS_UNTRUSTWORTHY"
                        ELSE "SUCCESS"
<1>1. Ended(Failed \cup {"NO_RESOURCE"}) <=> Ended(Failed) \/ Ended({"NO_RESOURCE"})
  BY DEF Ended
<1> QED
  BY <1>1 DEF Verdict

\* The parent reports and exits.
LEMMA ReportStep ==
  ASSUME IInv, Report
  PROVE  IInv'
<1>1. /\ parent \in ParentRec /\ result \in ResultRec /\ Live(Parent) /\ sig[Parent] = {}
      /\ parent.pc = "report" /\ pids = {} /\ parent' = [parent EXCEPT !.pc = "exited"]
      /\ UNCHANGED <<opts, child, pids, sig, sent>>
  BY TypeParts DEF IInv, Report, ParentReady, PidsInv
<1>2. /\ parent' \in ParentRec /\ parent'.pc = "exited" /\ parent'.run = parent.run
  BY <1>1 DEF ParentRec, ParentLocs, ParentGone
<1>3. PICK ok \in BOOLEAN : ok = (result.success /\ MetricsOk)
  BY <1>1 DEF ResultRec
<1>4. PICK e \in ExitCodes : e = IF ~ok THEN "NOT_SUCCESS"
                                 ELSE IF ~result.resource THEN "NO_RESOURCE"
                                 ELSE IF ~result.metrics THEN "METRICS_UNTRUSTWORTHY"
                                 ELSE "SUCCESS"
  BY DEF ExitCodes
<1>5. result' = [result EXCEPT !.success = ok, !.exit = e]
  BY <1>3, <1>4 DEF Report
<1>6. result' \in ResultRec /\ result'.exit = e
  BY <1>1, <1>5 DEF ResultRec
<1>7. TypeOK'
  BY <1>1, <1>2, <1>6 DEF IInv, TypeOK, ParentRec, ResultRec
<1>8. SigInv'
  BY <1>1 DEF IInv, SigInv, Live
<1>9. RecordedInv' /\ PidsInv' /\ FutureInv'
  BY <1>1, <1>2 DEF IInv, RecordedInv, PidsInv, FutureInv
<1>10. ResultInv'
  <2>1. Verdict' = Verdict
    BY <1>1 DEF Verdict, Ended, MetricsOk
  <2>2. "aggressive" \notin opts => e = Verdict
    <3> SUFFICES ASSUME "aggressive" \notin opts PROVE e = Verdict
      OBVIOUS
    <3>1. /\ result.success  <=> ~Ended(Failed)
          /\ result.resource <=> ~Ended({"NO_RESOURCE"})
          /\ result.metrics  <=> ~Ended({"UNTRUSTWORTHY"})
      BY <1>1 DEF IInv, ResultInv
    <3>2. result.success \in BOOLEAN /\ result.resource \in BOOLEAN /\ result.metrics \in BOOLEAN
      BY <1>1 DEF ResultRec
    <3> QED
      BY <1>3, <1>4, <3>1, <3>2, ExitFacts
  <2> QED
    BY <1>1, <1>2, <1>6, <2>1, <2>2 DEF ResultInv
<1> QED
  BY <1>7, <1>8, <1>9, <1>10 DEF IInv

-----------------------------------------------------------------------------
(* The invariant.                                                          *)

LEMMA InitInv == Init => IInv
<1> SUFFICES ASSUME Init PROVE IInv
  OBVIOUS
<1>1. TypeOK
  BY SizeAssumption DEF Init, TypeOK, ParentLocs, ChildLocs, Statuses,
     ExitCodes
<1>2. SigInv
  BY DEF Init, SigInv
<1>3. RecordedInv /\ PidsInv /\ FutureInv
  BY DEF Init, RecordedInv, PidsInv, FutureInv
<1>4. ResultInv
  BY DEF Init, ResultInv, Ended
<1> QED
  BY <1>1, <1>2, <1>3, <1>4 DEF IInv

LEMMA StepInv == IInv /\ [Next]_vars => IInv'
<1> SUFFICES ASSUME IInv, [Next]_vars PROVE IInv'
  OBVIOUS
<1>1. CASE ParentSignal
  BY <1>1, ParentSigalrmStep, ParentTerminateStep DEF ParentSignal
<1>2. CASE ParentStep
  BY <1>2, LoopStep, ForkStep, ForkFailsStep, RecordPidStep, PollReapsStep,
     SkipFinishedStep, InterruptedStep, ReapStep, NoChildStep, NextRunStep,
     ReportStep, Zenon DEF ParentStep
<1>3. CASE \E c \in Children : ChildSignal(c)
  BY <1>3, ChildSignalStep
<1>4. CASE \E c \in Children : ChildRun(c)
  BY <1>4, ChildRunStep
<1>5. CASE UserSignal \/ Timers \/ Over \/ (\E c \in Children : OomKill(c)) \/ UNCHANGED vars
  BY <1>5, EnvironmentStep
<1> QED
  BY <1>1, <1>2, <1>3, <1>4, <1>5, Zenon DEF Next

LEMMA Invariance == Spec => []IInv
BY InitInv, StepInv, PTL DEF Spec

-----------------------------------------------------------------------------
(* Theorems.                                                               *)

\* Every variable has its type: the parent never steps past the last
\* instance or run, and no pid is recorded that is not an instance.
THEOREM TypeCorrect == Spec => []TypeOK
<1>1. IInv => TypeOK
  BY DEF IInv
<1> QED
  BY <1>1, Invariance, PTL

\* However stress_run is left (loop done, fork failed, told to stop, run
\* overdue, --abort), when results are reported every instance that was ever
\* forked has been reaped.
THEOREM AllReaped == Spec => []ReapedBeforeReport
<1>1. IInv => ReapedBeforeReport
  BY DEF IInv, ReapedBeforeReport, RecordedInv, PidsInv
<1> QED
  BY <1>1, Invariance, PTL

\* Instances of two stressors of --sequential are never alive together
\* while the parent lives.
THEOREM OneAtATime == Spec => []OneStressorAtATime
<1>1. IInv => OneStressorAtATime
  <2> SUFFICES ASSUME IInv, NEW c \in Children, NEW d \in Children, Live(Parent), Live(c), Live(d)
               PROVE  c[1] = d[1]
    BY DEF OneStressorAtATime
  <2>1. parent.pc # "killed" /\ parent \in ParentRec
    BY TypeParts DEF IInv, Live, ParentGone
  <2>2. ASSUME NEW e \in Children, Live(e) PROVE e[1] = parent.run
    <3>1. child[e].pc \notin {"none", "reaped"}
      BY <2>2, ProcsFacts DEF Live, ChildLive
    <3>2. e \in pids \/ e = Current
      BY <2>1, <3>1 DEF IInv, RecordedInv
    <3> QED
      BY <2>1, <3>2, CurrentFacts DEF IInv, PidsInv
  <2> QED
    BY <2>2
<1> QED
  BY <1>1, Invariance, PTL

-----------------------------------------------------------------------------
(* The exit status.                                                        *)

\* Only an instance that was cut short leaves a counter that differs from its
\* checksum.
DirtyInv ==
  \A c \in Children : child[c].dirty =>
    child[c].pc \in {"zombie", "reaped"} /\ child[c].rc \in {"SIGKILL", "SIGALRM", "BY_SYS_EXIT"}

\* One instance moves, and stays clean or was already dead.
LEMMA DirtyMove ==
  ASSUME DirtyInv, NEW c \in Children,
         \A d \in Children : d # c => child'[d] = child[d],
         child'[c].dirty =>
           /\ child'[c].pc \in {"zombie", "reaped"}
           /\ child'[c].rc \in {"SIGKILL", "SIGALRM", "BY_SYS_EXIT"}
  PROVE  DirtyInv'
BY DEF DirtyInv

LEMMA DirtyDie ==
  ASSUME TypeOK, DirtyInv, NEW c \in Children,
         NEW rc \in {"SIGKILL", "SIGALRM", "BY_SYS_EXIT"}, Die(c, rc)
  PROVE  DirtyInv'
<1>1. child \in [Children -> ChildRec]
  BY TypeParts
<1>2. PICK d \in BOOLEAN :
        child' = [child EXCEPT ![c].pc = "zombie", ![c].rc = rc, ![c].dirty = d]
  BY DEF Die
<1>3. /\ child'[c] = [child[c] EXCEPT !.pc = "zombie", !.rc = rc, !.dirty = d]
      /\ \A e \in Children : e # c => child'[e] = child[e]
  BY <1>1, <1>2
<1>4. child'[c].pc = "zombie" /\ child'[c].rc = rc
  BY <1>1, <1>3 DEF ChildRec
<1> QED
  BY <1>3, <1>4, DirtyMove

LEMMA DirtyStep == IInv /\ DirtyInv /\ [Next]_vars => DirtyInv'
<1> SUFFICES ASSUME IInv, DirtyInv, [Next]_vars PROVE DirtyInv'
  OBVIOUS
<1>1. child \in [Children -> ChildRec] /\ TypeOK
  BY TypeParts DEF IInv
<1>2. CASE UNCHANGED child
  BY <1>2 DEF DirtyInv
<1>3. CASE Fork
  <2>1. /\ parent \in ParentRec /\ parent.pc = "again"
        /\ child' = [child EXCEPT ![Current].pc = "forked", ![Current].keep = parent.keep,
                                  ![Current].handlers = parent.handlers,
                                  ![Current].kills = parent.kills]
    BY <1>1, <1>3, TypeParts DEF Fork
  <2>2. PICK c \in Children : c = Current /\ c[1] = parent.run /\ c[2] = parent.inst
    BY <2>1, CurrentFacts
  <2>3. child[c].pc = "none"
    BY <2>1, <2>2, ProcsFacts DEF IInv, FutureInv, ParentRec
  <2>4. /\ child'[c].dirty = child[c].dirty
        /\ \A d \in Children : d # c => child'[d] = child[d]
    BY <1>1, <2>1, <2>2 DEF ChildRec
  <2>5. ~child[c].dirty
    BY <2>3 DEF DirtyInv
  <2> QED
    BY <2>4, <2>5, DirtyMove
<1>4. ASSUME NEW c \in Children, child[c].pc = "zombie",
             child' = [child EXCEPT ![c].pc = "reaped"]
      PROVE  DirtyInv'
  <2>1. /\ child'[c].dirty = child[c].dirty /\ child'[c].rc = child[c].rc
        /\ child'[c].pc = "reaped"
        /\ \A d \in Children : d # c => child'[d] = child[d]
    BY <1>1, <1>4 DEF ChildRec
  <2> QED
    BY <2>1, DirtyMove DEF DirtyInv
<1>5. CASE Reap
  <2>1. parent \in ParentRec
    BY <1>1, TypeParts
  <2> QED
    BY <1>4, <1>5, <2>1, CurrentFacts DEF Reap
<1>6. CASE \E c \in Children : PollReaps(c)
  BY <1>4, <1>6 DEF PollReaps
<1>7. ASSUME NEW c \in Children, ChildSignal(c) \/ ChildRun(c)
      PROVE  DirtyInv'
  <2>1. child[c].pc \in ChildLive
    <3>1. CASE ChildRun(c)
      BY <3>1 DEF ChildRun, SetChildHandlers, SetHandlersFails,
         ParentDiedAlarm, StartStressor, StressorReturns, SysExit, ChildExit,
         ChildStep, ChildReady
    <3>2. CASE ChildSignal(c)
      <4>1. sig[c] # {}
        BY <3>2 DEF ChildSignal, ChildSigkill, ChildSigalrm, ChildSigint
      <4> QED
        BY <4>1, ProcsFacts DEF IInv, SigInv, Live
    <3> QED
      BY <1>7, <3>1, <3>2
  <2>2. ~child[c].dirty
    BY <2>1 DEF DirtyInv, ChildLive
  <2>3. CASE \E rc \in {"SIGKILL", "SIGALRM", "BY_SYS_EXIT"} : Die(c, rc)
    BY <1>1, <2>3, DirtyDie
  <2>4. CASE /\ child'[c].dirty = child[c].dirty
             /\ \A d \in Children : d # c => child'[d] = child[d]
    BY <2>2, <2>4, DirtyMove
  <2>5. CASE ChildSignal(c)
    <3>1. CASE \/ child' = child
               \/ child' = [child EXCEPT ![c].keep = FALSE]
               \/ child' = [child EXCEPT ![c].keep = FALSE, ![c].term = TRUE]
      BY <1>1, <2>4, <3>1 DEF ChildRec
    <3> QED
      BY <2>3, <2>5, <3>1 DEF ChildSignal, ChildSigkill, ChildSigalrm,
         ChildSigint
  <2>6. CASE ChildRun(c)
    <3>1. CASE SysExit(c)
      BY <2>3, <3>1 DEF SysExit
    <3>2. CASE SetChildHandlers(c) \/ ParentDiedAlarm(c) \/ StartStressor(c)
      <4>1. PICK to : child' = [child EXCEPT ![c].pc = to]
        BY <3>2 DEF SetChildHandlers, ParentDiedAlarm, StartStressor, ChildStep
      <4> QED
        BY <1>1, <2>4, <4>1 DEF ChildRec
    <3>3. CASE SetHandlersFails(c)
      BY <1>1, <2>4, <3>3 DEF SetHandlersFails, ChildRec
    <3>4. CASE StressorReturns(c)
      <4>1. PICK own \in {"SUCCESS"} \cup (Failures \cap Faults) :
              \E rc \in {own} \cup ({"UNTRUSTWORTHY"} \cap Faults) :
                child' = [child EXCEPT ![c].pc = "exiting", ![c].rc = rc,
                                       ![c].failed = own = "FAILURE"]
        BY <3>4 DEF StressorReturns
      <4>2. PICK rc :
              child' = [child EXCEPT ![c].pc = "exiting", ![c].rc = rc,
                                     ![c].failed = own = "FAILURE"]
        BY <4>1
      <4> QED
        BY <1>1, <2>4, <4>2 DEF ChildRec
    <3>5. CASE ChildExit(c)
      <4>1. PICK rc : child' = [child EXCEPT ![c].pc = "zombie", ![c].rc = rc]
        BY <3>5 DEF ChildExit
      <4> QED
        BY <1>1, <2>4, <4>1 DEF ChildRec
    <3> QED
      BY <2>6, <3>1, <3>2, <3>3, <3>4, <3>5 DEF ChildRun
  <2> QED
    BY <1>7, <2>5, <2>6
<1>8. CASE ParentSignal
  BY <1>2, <1>8 DEF ParentSignal, ParentSigalrm, ParentTerminate
<1>9. CASE ParentStep
  BY <1>2, <1>3, <1>5, <1>6, <1>9 DEF ParentStep, LoopTop, BreakLoop,
     ForkFails, RecordPid, SetParentHandlers, PollEnds, SkipFinished,
     Interrupted, NoChild, NextRun, Report
<1>10. CASE UserSignal \/ Timers \/ Over \/ (\E c \in Children : OomKill(c)) \/ UNCHANGED vars
  BY <1>2, <1>10 DEF UserSignal, Timers, ParentTimer, ChildTimer, Over,
     OomKill, vars
<1> QED
  BY <1>7, <1>8, <1>9, <1>10, Zenon DEF Next

LEMMA DirtyInvariance == Spec => []DirtyInv
<1>1. Init => DirtyInv
  BY DEF Init, DirtyInv
<1> QED
  BY <1>1, DirtyStep, Invariance, PTL DEF Spec

\* Without --aggressive the exit status is honest about the wait statuses of
\* the instances, whatever order they ended in and however stress_run was
\* left: no failure is hidden, and no status is without an instance to blame.
THEOREM HonestExit == Spec => []ExitStatusIsHonest
<1>1. IInv /\ DirtyInv => ExitStatusIsHonest
  <2> SUFFICES ASSUME IInv, DirtyInv, parent.pc = "exited", "aggressive" \notin opts
               PROVE  /\ Ended({"FAILURE"}) => result.exit = "NOT_SUCCESS"
                      /\ result.exit = "NOT_SUCCESS" => Ended(Broken)
                      /\ result.exit = "NO_RESOURCE" => Ended({"NO_RESOURCE"})
                      /\ result.exit = "METRICS_UNTRUSTWORTHY" => Ended({"UNTRUSTWORTHY"})
                      /\ result.exit = "SUCCESS" =>
                           ~Ended(Failed \cup {"NO_RESOURCE", "UNTRUSTWORTHY"})
    BY DEF ExitStatusIsHonest
  <2>1. result.exit = Verdict
    BY DEF IInv, ResultInv
  <2>2. /\ Ended({"FAILURE"}) => Ended(Failed)
        /\ Ended(Failed) => Ended(Broken)
        /\ Ended(Failed \cup {"NO_RESOURCE"}) <=> Ended(Failed) \/ Ended({"NO_RESOURCE"})
        /\ Ended(Failed \cup {"NO_RESOURCE", "UNTRUSTWORTHY"})
             <=> Ended(Failed) \/ Ended({"NO_RESOURCE"}) \/ Ended({"UNTRUSTWORTHY"})
    BY DEF Ended, Failed, Broken
  <2>3. ~MetricsOk => Ended(Broken)
    <3> SUFFICES ASSUME NEW c \in Children, child[c].dirty PROVE Ended(Broken)
      BY DEF MetricsOk
    <3>1. child[c].pc \in {"zombie", "reaped"} /\ child[c].rc \in Broken
      BY DEF DirtyInv, Broken, Failed
    <3>2. child[c].pc \in {"none", "reaped"}
      BY DEF IInv, RecordedInv, PidsInv
    <3> QED
      BY <3>1, <3>2 DEF Ended
  <2> QED
    BY <2>1, <2>2, <2>3 DEF Verdict
<1> QED
  BY <1>1, Invariance, DirtyInvariance, PTL
=============================================================================
