----------------------------- MODULE StressRun ------------------------------
(***************************************************************************)
(* How stress-ng (stress-ng.c) runs its stressors: the parent forks one   *)
(* process per instance, installs its own signal handlers once all are    *)
(* forked, waits for the instances in order and turns what became of them *)
(* into an exit status.  With --sequential it does so once per stressor.  *)
(*                                                                         *)
(* A process handles a pending signal before it takes its next step; a    *)
(* signal that a process sends to itself is therefore handled at once.    *)
(* g_keep_stressing_flag is a private variable of each process.           *)
(***************************************************************************)
EXTENDS Naturals, FiniteSets

CONSTANTS
  NumRuns,       \* calls of stress_run: 1, or the stressors of --sequential
  PerRun,        \* instances that one call of stress_run starts
  OptionSets,    \* the command lines: sets of elements of Options
  Faults,        \* what may go wrong: a subset of AllFaults
  MaxSignals,    \* bound on the signals that a user sends
  MaxSoftKills   \* calls of stress_kill_stressors before SIGKILL; 5 in the code

\* "no_group": stress-ng does not lead its process group, so that killpg fails.
Options   == {"abort", "aggressive", "dry_run", "timeout", "max_ops",
              "no_group"}
Failures  == {"FAILURE", "NO_RESOURCE", "NOT_IMPLEMENTED"}
AllFaults == Failures \cup {"UNTRUSTWORTHY", "fork", "handler", "oom",
                            "sys_exit", "affinity"}

ASSUME SizeAssumption ==
  /\ NumRuns \in Nat \ {0} /\ PerRun \in Nat \ {0}
  /\ MaxSignals \in Nat /\ MaxSoftKills \in Nat
ASSUME OptionAssumption ==
  OptionSets \subseteq SUBSET Options /\ Faults \subseteq AllFaults

VARIABLES
  opts,     \* the options of this invocation; never changes
  parent,   \* the parent process
  child,    \* the instances; failed is history: the stressor itself failed
  pids,     \* instances whose entry in ss->pids is not zero
  sig,      \* pending signals of every process
  result,   \* success, resource_success, metrics_success and the exit status
  sent      \* number of signals the user has sent

vars == <<opts, parent, child, pids, sig, result, sent>>

Parent   == <<0, 0>>
Children == (1 .. NumRuns) \X (1 .. PerRun)
Procs    == Children \cup {Parent}

ChildLive   == {"forked", "handler", "init", "run", "failing", "exiting"}
ChildLocs   == {"none", "zombie", "reaped"} \cup ChildLive
ParentGone  == {"exited", "killed"}
ParentLocs  == {"loop", "again", "record", "handlers", "poll", "wait",
                "next", "report"} \cup ParentGone
Statuses    == {"SUCCESS", "SIGALRM", "SIGKILL", "SIGNALED", "BY_SYS_EXIT",
                "UNTRUSTWORTHY"} \cup Failures
Failed      == {"FAILURE", "SIGALRM", "SIGNALED"}
ExitCodes   == {"none", "SUCCESS", "NOT_SUCCESS", "NO_RESOURCE",
                "METRICS_UNTRUSTWORTHY"}

Init ==
  /\ opts \in OptionSets
  /\ parent = [pc |-> "loop", run |-> 1, inst |-> 1, keep |-> TRUE,
               wait |-> TRUE, handlers |-> FALSE, eintr |-> FALSE,
               timer |-> FALSE, kills |-> 0]
  /\ child = [c \in Children |->
                [pc |-> "none", keep |-> TRUE, handlers |-> FALSE,
                 kills |-> 0, term |-> FALSE, rc |-> "SUCCESS",
                 failed |-> FALSE, dirty |-> FALSE]]
  /\ pids = {}
  /\ sig = [p \in Procs |-> {}]
  /\ result = [success |-> TRUE, resource |-> TRUE, metrics |-> TRUE,
               exit |-> "none"]
  /\ sent = 0

Live(p) == IF p = Parent THEN parent.pc \notin ParentGone
                         ELSE child[p].pc \in ChildLive

\* kill(): the live processes in S get signal s.
Send(S, s) ==
  sig' = [p \in Procs |-> IF p \in S /\ Live(p) THEN sig[p] \cup {s}
                                                ELSE sig[p]]

Current == <<parent.run, parent.inst>>

-----------------------------------------------------------------------------
(* Signals.                                                                *)

\* killpg(g_pgrp, SIGALRM) on top of what is pending in base.
Group == IF "no_group" \in opts THEN {} ELSE Procs
KillGroup(base) ==
  [p \in Procs |-> IF p \in Group /\ Live(p) THEN base[p] \cup {"ALRM"}
                                            ELSE base[p]]

\* stress_kill_stressors(SIGALRM) after n earlier calls: the group, caller
\* included, gets SIGALRM; so do the recorded instances, or SIGKILL once the
\* calls are too many.
KillStressors(base, recorded, n) ==
  LET signum == IF n >= MaxSoftKills THEN "KILL" ELSE "ALRM"
  IN [p \in Procs |-> IF p \in recorded /\ Live(p)
                      THEN KillGroup(base)[p] \cup {signum}
                      ELSE KillGroup(base)[p]]

CountKill(p) ==
  [p EXCEPT !.kills = IF @ > MaxSoftKills THEN @ ELSE @ + 1]

\* prctl(PR_SET_PDEATHSIG): who is told that the parent has died.
ToldOfDeath == {c \in Children : child[c].pc \in {"init", "run", "exiting"}}

\* SIGALRM at the parent.  The default action, in force until
\* stress_set_handler, is to terminate; the handler ends the polling loop.
ParentSigalrm ==
  /\ "ALRM" \in sig[Parent]
  /\ \/ /\ ~parent.handlers
        /\ parent' = [parent EXCEPT !.pc = "killed"]
        /\ sig' = [p \in Procs |->
                     IF p = Parent THEN {}
                     ELSE IF p \in ToldOfDeath THEN sig[p] \cup {"ALRM"}
                     ELSE sig[p]]
     \/ /\ parent.handlers
        /\ parent' = [parent EXCEPT !.wait = FALSE,
                                    !.eintr = parent.pc = "wait"]
        /\ sig' = [sig EXCEPT ![Parent] = @ \ {"ALRM"}]
  /\ UNCHANGED <<opts, child, pids, result, sent>>

\* Wrong variant: the handler only clears the flag.
ParentTerminateFlagOnly(s) ==
  /\ s \in sig[Parent] \cap {"INT", "TERM"}
  /\ parent' = [parent EXCEPT !.keep = FALSE]
  /\ sig' = [sig EXCEPT ![Parent] = @ \ {s}]
  /\ UNCHANGED <<opts, child, pids, result, sent>>

\* SIGINT or SIGTERM at the parent: stress_sigint_handler once it is
\* installed for SIGINT, stress_handle_terminate otherwise.
ParentTerminate(s) ==
  /\ s \in sig[Parent] \cap {"INT", "TERM"}
  /\ LET after == [parent EXCEPT !.keep = FALSE,
                                 !.eintr = parent.pc = "wait"]
         rest  == [sig EXCEPT ![Parent] = @ \ {s}]
     IN \/ /\ s = "INT" /\ parent.handlers
           /\ parent' = [after EXCEPT !.wait = FALSE]
           /\ sig' = KillGroup(rest)
        \/ /\ s = "TERM" \/ ~parent.handlers
           /\ parent' = CountKill(after)
           /\ sig' = KillStressors(rest, pids, parent.kills)
  /\ UNCHANGED <<opts, child, pids, result, sent>>

\* An instance dies of a signal.  If it was stressing, its bogo-op counter may
\* differ from the checksum, which is only filled in when the stressor returns.
Die(c, rc) ==
  /\ \E d \in IF child[c].pc = "run" THEN BOOLEAN ELSE {FALSE} :
       child' = [child EXCEPT ![c].pc = "zombie", ![c].rc = rc,
                              ![c].dirty = d]
  /\ sig' = [sig EXCEPT ![c] = {}]
  /\ UNCHANGED <<opts, parent, pids, result, sent>>

ChildSigkill(c) == "KILL" \in sig[c] /\ Die(c, "SIGKILL")

\* Before an instance has installed its own handlers it has the parent's, as
\* they were at the time of the fork.
Inherits(c) == child[c].pc \in {"forked", "failing"}

\* SIGALRM at an instance: deadly, swallowed by the parent's handler, or
\* stress_handle_stop_stressing.
ChildSigalrm(c) ==
  /\ "ALRM" \in sig[c]
  /\ \/ /\ Inherits(c) /\ ~child[c].handlers
        /\ Die(c, "SIGALRM")
     \/ /\ ~Inherits(c) \/ child[c].handlers
        /\ child' = IF Inherits(c) THEN child
                                   ELSE [child EXCEPT ![c].keep = FALSE]
        /\ sig' = [sig EXCEPT ![c] = @ \ {"ALRM"}]
        /\ UNCHANGED <<opts, parent, pids, result, sent>>

\* Instances that were recorded when c was forked.
Earlier(c) == {d \in Children : d[1] = c[1] /\ d[2] < c[2]}

\* SIGINT at an instance.  An early one still has stress_handle_terminate,
\* and signals the whole group.
ChildSigint(c) ==
  /\ "INT" \in sig[c]
  /\ LET rest == [sig EXCEPT ![c] = @ \ {"INT"}]
     IN \/ /\ Inherits(c) /\ ~child[c].handlers
           /\ child' = [child EXCEPT ![c].keep = FALSE, ![c].term = TRUE]
           /\ sig' = KillStressors(rest, Earlier(c), child[c].kills)
        \/ /\ ~Inherits(c) \/ child[c].handlers
           /\ child' = [child EXCEPT ![c].keep = FALSE]
           /\ sig' = rest
  /\ UNCHANGED <<opts, parent, pids, result, sent>>

-----------------------------------------------------------------------------
(* The environment.                                                        *)

\* The user sends SIGTERM or SIGINT to the parent, or presses Ctrl-C, which
\* sends SIGINT to the whole group.
UserSignal ==
  /\ parent.pc \notin ParentGone
  /\ sent < MaxSignals
  /\ sent' = sent + 1
  /\ Send({Parent}, "TERM") \/ Send({Parent}, "INT") \/ Send(Procs, "INT")
  /\ UNCHANGED <<opts, parent, child, pids, result>>

OomKill(c) ==
  /\ "oom" \in Faults
  /\ child[c].pc \in ChildLive
  /\ Send({c}, "KILL")
  /\ UNCHANGED <<opts, parent, child, pids, result, sent>>

\* Wrong variant: the instance never arms its timer.
ChildTimerUnset(c) == FALSE /\ UNCHANGED vars

\* The timer set with alarm(g_opt_timeout).
ChildTimer(c) ==
  /\ "timeout" \in opts
  /\ child[c].pc \in {"init", "run"} /\ child[c].keep
  /\ Send({c}, "ALRM")
  /\ UNCHANGED <<opts, parent, child, pids, result, sent>>

\* The parent's timer may go off as late as in the next run.
ParentTimer ==
  /\ Live(Parent) /\ parent.timer
  /\ parent' = [parent EXCEPT !.timer = FALSE]
  /\ Send({Parent}, "ALRM")
  /\ UNCHANGED <<opts, child, pids, result, sent>>

-----------------------------------------------------------------------------
(* stress_run in the parent.                                               *)

ParentReady == Live(Parent) /\ sig[Parent] = {}

\* Wrong variant: one instance too many.
NextInstanceBeyond(p) ==
  IF p.inst <= PerRun THEN [p EXCEPT !.pc = "loop", !.inst = @ + 1]
                      ELSE [p EXCEPT !.pc = "handlers"]

\* The next instance of the loop, or what follows the loop.
NextInstance(p) ==
  IF p.inst < PerRun THEN [p EXCEPT !.pc = "loop", !.inst = @ + 1]
                     ELSE [p EXCEPT !.pc = "handlers"]

\* stress_wait_stressors begins: --aggressive polls first.
StartWait(p) ==
  [p EXCEPT !.pc = IF "aggressive" \in opts THEN "poll" ELSE "wait",
            !.inst = 1]

\* The start of an instance's turn: the whole run may be overdue.
LoopTop ==
  /\ ParentReady /\ parent.pc = "loop"
  /\ \/ parent' = [parent EXCEPT !.pc = "again"]
     \/ "timeout" \in opts /\ parent' = StartWait(parent)
  /\ UNCHANGED <<opts, child, pids, sig, result, sent>>

\* A cleared flag breaks out of the loop over instances.
BreakLoop ==
  /\ ParentReady /\ parent.pc = "again"
  /\ ~parent.keep
  /\ parent' = [parent EXCEPT !.pc = "handlers"]
  /\ UNCHANGED <<opts, child, pids, sig, result, sent>>

\* A child inherits the parent's flag and signal dispositions.  After EAGAIN
\* the parent sleeps and tries again, which changes nothing here; the fairness
\* of ParentStep assumes that fork() does not answer EAGAIN for ever.
Fork ==
  /\ ParentReady /\ parent.pc = "again"
  /\ parent.keep
  /\ parent' = [parent EXCEPT !.pc = "record"]
  /\ child' = [child EXCEPT ![Current].pc = "forked",
                            ![Current].keep = parent.keep,
                            ![Current].handlers = parent.handlers,
                            ![Current].kills = parent.kills]
  /\ UNCHANGED <<opts, pids, sig, result, sent>>

ForkFails ==
  /\ "fork" \in Faults
  /\ ParentReady /\ parent.pc = "again"
  /\ parent.keep
  /\ sig' = KillStressors(sig, pids, parent.kills)
  /\ parent' = CountKill(StartWait(parent))
  /\ UNCHANGED <<opts, child, pids, result, sent>>

\* Wrong variant: the instance that was just forked is forgotten on abort.
RecordPidUnlessAborted ==
  /\ ParentReady /\ parent.pc = "record"
  /\ \/ /\ parent.keep
        /\ pids' = pids \cup {Current}
        /\ parent' = NextInstance(parent)
        /\ UNCHANGED sig
     \/ /\ ~parent.keep
        /\ pids' = pids
        /\ sig' = KillStressors(sig, pids, parent.kills)
        /\ parent' = CountKill(StartWait(parent))
  /\ UNCHANGED <<opts, child, result, sent>>

\* The parent records the pid, and looks whether it was told to stop.
RecordPid ==
  /\ ParentReady /\ parent.pc = "record"
  /\ pids' = pids \cup {Current}
  /\ \/ /\ parent.keep
        /\ parent' = NextInstance(parent)
        /\ UNCHANGED sig
     \/ /\ ~parent.keep
        /\ sig' = KillStressors(sig, pids', parent.kills)
        /\ parent' = CountKill(StartWait(parent))
  /\ UNCHANGED <<opts, child, result, sent>>

SetParentHandlers ==
  /\ ParentReady /\ parent.pc = "handlers"
  /\ parent' = [StartWait(parent) EXCEPT !.handlers = TRUE,
                                         !.timer = @ \/ "timeout" \in opts]
  /\ UNCHANGED <<opts, child, pids, sig, result, sent>>

-----------------------------------------------------------------------------
(* stress_wait_stressors.                                                  *)

\* The polling loop of --aggressive calls waitpid(WNOHANG) on each instance.
\* If that reaps one, its status is dropped and the loop ends, since the
\* affinity of a process that is gone cannot be set.
PollReaps(c) ==
  /\ ParentReady /\ parent.pc = "poll" /\ parent.wait
  /\ c \in pids /\ child[c].pc = "zombie"
  /\ child' = [child EXCEPT ![c].pc = "reaped"]
  /\ parent' = [parent EXCEPT !.pc = "wait"]
  /\ UNCHANGED <<opts, pids, sig, result, sent>>

PollEnds ==
  /\ ParentReady /\ parent.pc = "poll"
  /\ ~parent.wait \/ pids = {} \/ "affinity" \in Faults
  /\ parent' = [parent EXCEPT !.pc = "wait"]
  /\ UNCHANGED <<opts, child, pids, sig, result, sent>>

NextWait(p) ==
  IF p.inst < PerRun THEN [p EXCEPT !.inst = @ + 1]
                     ELSE [p EXCEPT !.pc = "next"]

\* Wrong variant: an interrupted wait is taken for a finished instance.
SkipFinishedOrInterrupted ==
  /\ ParentReady /\ parent.pc = "wait"
  /\ Current \notin pids \/ parent.eintr
  /\ parent' = NextWait([parent EXCEPT !.eintr = FALSE])
  /\ UNCHANGED <<opts, child, pids, sig, result, sent>>

SkipFinished ==
  /\ ParentReady /\ parent.pc = "wait"
  /\ Current \notin pids
  /\ parent' = NextWait(parent)
  /\ UNCHANGED <<opts, child, pids, sig, result, sent>>

\* A signal interrupts waitpid: shim_waitpid waits again, and if the parent
\* was told to stop it first sends SIGALRM to the instance it waits for.
\* (Its SIGKILL after 120 consecutive interruptions is not modelled.)
Interrupted ==
  /\ ParentReady /\ parent.pc = "wait"
  /\ Current \in pids /\ parent.eintr
  /\ parent' = [parent EXCEPT !.eintr = FALSE]
  /\ IF parent.keep THEN UNCHANGED sig ELSE Send({Current}, "ALRM")
  /\ UNCHANGED <<opts, child, pids, result, sent>>

\* Wrong variants: the last instance decides; death by a signal is no failure.
JudgeLast(r, rc) ==
  [r EXCEPT !.success  = rc \notin Failed,
            !.resource = @ /\ rc # "NO_RESOURCE",
            !.metrics  = @ /\ rc # "UNTRUSTWORTHY"]

JudgeExitsOnly(r, rc) ==
  [r EXCEPT !.success  = @ /\ rc \notin {"FAILURE", "SIGNALED"},
            !.resource = @ /\ rc # "NO_RESOURCE",
            !.metrics  = @ /\ rc # "UNTRUSTWORTHY"]

\* What a wait status does to the result.  A process killed by SIGKILL is
\* taken for a victim of the OOM killer.
Judge(r, rc) ==
  [r EXCEPT !.success  = @ /\ rc \notin Failed,
            !.resource = @ /\ rc # "NO_RESOURCE",
            !.metrics  = @ /\ rc # "UNTRUSTWORTHY"]

\* Exit statuses on which --abort stops the run.
Aborting == Failures \cup {"SIGNALED", "BY_SYS_EXIT"}

Reap ==
  /\ ParentReady /\ parent.pc = "wait"
  /\ Current \in pids /\ child[Current].pc = "zombie"
  /\ LET rc == child[Current].rc
         doAbort == "abort" \in opts /\ rc \in Aborting
         next == NextWait([parent EXCEPT !.eintr = FALSE])
     IN /\ result' = Judge(result, rc)
        /\ IF doAbort
             THEN /\ sig' = KillStressors(sig, pids, parent.kills)
                  /\ parent' = CountKill([next EXCEPT !.keep = FALSE,
                                                      !.wait = FALSE])
             ELSE parent' = next /\ UNCHANGED sig
  /\ child' = [child EXCEPT ![Current].pc = "reaped"]
  /\ pids' = pids \ {Current}
  /\ UNCHANGED <<opts, sent>>

\* ECHILD: the polling loop has taken this one.
NoChild ==
  /\ ParentReady /\ parent.pc = "wait"
  /\ Current \in pids /\ child[Current].pc = "reaped"
  /\ pids' = pids \ {Current}
  /\ parent' = NextWait([parent EXCEPT !.eintr = FALSE])
  /\ UNCHANGED <<opts, child, sig, result, sent>>

-----------------------------------------------------------------------------
(* stress_run_sequential, and the end of main.                             *)

NextRun ==
  /\ ParentReady /\ parent.pc = "next"
  /\ parent' = IF parent.run < NumRuns /\ parent.keep
                 THEN [parent EXCEPT !.pc = "loop", !.run = @ + 1,
                                     !.inst = 1, !.wait = TRUE]
                 ELSE [parent EXCEPT !.pc = "report"]
  /\ UNCHANGED <<opts, child, pids, sig, result, sent>>

\* stress_metrics_check compares the counters of all instances with their
\* checksums.
MetricsOk == \A c \in Children : ~child[c].dirty

Report ==
  /\ ParentReady /\ parent.pc = "report"
  /\ LET ok == result.success /\ MetricsOk
     IN result' = [result EXCEPT
                     !.success = ok,
                     !.exit = IF ~ok THEN "NOT_SUCCESS"
                              ELSE IF ~result.resource THEN "NO_RESOURCE"
                              ELSE IF ~result.metrics
                                THEN "METRICS_UNTRUSTWORTHY"
                              ELSE "SUCCESS"]
  /\ parent' = [parent EXCEPT !.pc = "exited"]
  /\ UNCHANGED <<opts, child, pids, sig, sent>>

-----------------------------------------------------------------------------
(* stress_run in an instance.                                              *)

ChildReady(c) == child[c].pc \in ChildLive /\ sig[c] = {}

ChildStep(c, from, to) ==
  /\ ChildReady(c) /\ child[c].pc = from
  /\ child' = [child EXCEPT ![c].pc = to]
  /\ UNCHANGED <<opts, parent, pids, sig, result, sent>>

SetChildHandlers(c) == ChildStep(c, "forked", "handler")

SetHandlersFails(c) ==
  /\ "handler" \in Faults
  /\ ChildReady(c) /\ child[c].pc = "forked"
  /\ child' = [child EXCEPT ![c].pc = "failing", ![c].rc = "FAILURE"]
  /\ UNCHANGED <<opts, parent, pids, sig, result, sent>>

\* stress_parent_died_alarm and alarm(g_opt_timeout).
ParentDiedAlarm(c) == ChildStep(c, "handler", "init")

StartStressor(c) ==
  ChildStep(c, "init", IF child[c].keep /\ "dry_run" \notin opts
                       THEN "run" ELSE "exiting")

\* The stressor returns: told to stop, out of bogo-ops to do, or on an error.
\* If it left the bogo-op counter in the non-ready state, the status for that
\* takes the place of its own, that of a failure too.
StressorReturns(c) ==
  /\ ChildReady(c) /\ child[c].pc = "run"
  /\ \E own \in {"SUCCESS"} \cup (Failures \cap Faults) :
       /\ own = "SUCCESS" => ~child[c].keep \/ "max_ops" \in opts
       /\ \E rc \in {own} \cup ({"UNTRUSTWORTHY"} \cap Faults) :
            child' = [child EXCEPT ![c].pc = "exiting", ![c].rc = rc,
                                   ![c].failed = own = "FAILURE"]
  /\ UNCHANGED <<opts, parent, pids, sig, result, sent>>

\* The stressor calls exit(): stress_child_atexit.
SysExit(c) ==
  /\ "sys_exit" \in Faults
  /\ ChildReady(c) /\ child[c].pc = "run"
  /\ Die(c, "BY_SYS_EXIT")

\* child_exit: with --abort a failure is signalled to the parent.
ChildExit(c) ==
  /\ ChildReady(c) /\ child[c].pc \in {"failing", "exiting"}
  /\ child' = [child EXCEPT ![c].pc = "zombie",
                            ![c].rc = IF child[c].term THEN "SIGNALED" ELSE @]
  /\ IF child[c].rc # "SUCCESS" /\ "abort" \in opts
       THEN Send({Parent}, "ALRM") ELSE UNCHANGED sig
  /\ UNCHANGED <<opts, parent, pids, result, sent>>

-----------------------------------------------------------------------------
\* Everything is over: an instance that outlives the parent is reaped by init.
Over ==
  /\ parent.pc \in ParentGone
  /\ \A c \in Children : child[c].pc \notin ChildLive
  /\ UNCHANGED vars

ParentSignal == ParentSigalrm \/ \E s \in {"INT", "TERM"} : ParentTerminate(s)

ParentStep ==
  \/ LoopTop \/ BreakLoop \/ Fork \/ ForkFails \/ RecordPid
  \/ SetParentHandlers
  \/ PollEnds \/ \E c \in Children : PollReaps(c)
  \/ SkipFinished \/ Interrupted \/ Reap \/ NoChild
  \/ NextRun \/ Report

ChildSignal(c) == ChildSigkill(c) \/ ChildSigalrm(c) \/ ChildSigint(c)

ChildRun(c) ==
  \/ SetChildHandlers(c) \/ SetHandlersFails(c) \/ ParentDiedAlarm(c)
  \/ StartStressor(c) \/ StressorReturns(c) \/ SysExit(c) \/ ChildExit(c)

Timers == ParentTimer \/ \E c \in Children : ChildTimer(c)

Next ==
  \/ ParentSignal \/ ParentStep
  \/ \E c \in Children : ChildSignal(c) \/ ChildRun(c) \/ OomKill(c)
  \/ Timers
  \/ UserSignal
  \/ Over

Spec == Init /\ [][Next]_vars

\* Processes are scheduled, fork() does not answer EAGAIN for ever, pending
\* signals are handled and timers expire.
\* A stressor that was told to stop does stop; one that was not need not.
Fairness ==
  /\ WF_vars(ParentSignal)
  /\ WF_vars(ParentStep)
  /\ \A c \in Children :
       /\ WF_vars(ChildSignal(c))
       /\ WF_vars(SetChildHandlers(c) \/ ParentDiedAlarm(c)
                    \/ StartStressor(c) \/ ChildExit(c))
       /\ WF_vars(~child[c].keep /\ StressorReturns(c))
       /\ WF_vars(ChildTimer(c))

FairSpec == Spec /\ Fairness

-----------------------------------------------------------------------------
(* Properties.                                                             *)

TypeOK ==
  /\ opts \in OptionSets
  /\ parent \in [pc : ParentLocs, run : 1 .. NumRuns, inst : 1 .. PerRun,
                 keep : BOOLEAN, wait : BOOLEAN, handlers : BOOLEAN,
                 eintr : BOOLEAN, timer : BOOLEAN,
                 kills : 0 .. MaxSoftKills + 1]
  /\ child \in [Children ->
                  [pc : ChildLocs, keep : BOOLEAN, handlers : BOOLEAN,
                   kills : 0 .. MaxSoftKills + 1, term : BOOLEAN,
                   rc : Statuses, failed : BOOLEAN, dirty : BOOLEAN]]
  /\ pids \subseteq Children
  /\ sig \in [Procs -> SUBSET {"ALRM", "INT", "TERM", "KILL"}]
  /\ result \in [success : BOOLEAN, resource : BOOLEAN, metrics : BOOLEAN,
                 exit : ExitCodes]
  /\ sent \in 0 .. MaxSignals

\* Nothing of this invocation runs any more.
AllOver == /\ parent.pc \in ParentGone
           /\ \A c \in Children : child[c].pc \notin ChildLive

\* Results are reported only when every instance that was ever forked has been
\* reaped, whichever way stress_run was left.
ReapedBeforeReport ==
  parent.pc \in {"report", "exited"} =>
    \A c \in Children : child[c].pc \in {"none", "reaped"}

\* --sequential runs the stressors one by one: instances of two stressors are
\* never alive together while the parent lives.
OneStressorAtATime ==
  \A c, d \in Children :
    Live(Parent) /\ Live(c) /\ Live(d) => c[1] = d[1]

Ended(rcs) == \E c \in Children : child[c].pc = "reaped" /\ child[c].rc \in rcs

\* Outcomes of an instance that failed or did not come to its own end
Broken == Failed \cup {"SIGKILL", "BY_SYS_EXIT"}

\* Without --aggressive the exit status is honest about the wait statuses of
\* the instances, whatever order they ended in and however stress_run was
\* left: a failure is never hidden by what the others did, a status other than
\* success has an instance to blame, and after success nobody has failed, died
\* of a signal (SIGKILL apart), lacked resources or given up its counter.
\* Which of its statuses the manual wants is the subject of ExitIsDocumented.
ExitStatusIsHonest ==
  parent.pc = "exited" /\ "aggressive" \notin opts =>
    /\ Ended({"FAILURE"}) => result.exit = "NOT_SUCCESS"
    /\ result.exit = "NOT_SUCCESS" => Ended(Broken)
    /\ result.exit = "NO_RESOURCE" => Ended({"NO_RESOURCE"})
    /\ result.exit = "METRICS_UNTRUSTWORTHY" => Ended({"UNTRUSTWORTHY"})
    /\ result.exit = "SUCCESS" =>
         ~Ended(Failed \cup {"NO_RESOURCE", "UNTRUSTWORTHY"})

\* The exit statuses that the manual (stress-ng.1:5095-5126) gives to what
\* became of instance c: 2 failure, 3 no resources, 4 not implemented, 5 killed
\* by an unexpected signal, 6 an unexpected exit(2), 7 untrustworthy metrics
\* "such as when it has been OOM killed".  A SIGKILL that left the counter
\* good is not flagged, as stress-ng.c:1785-1789 has it.
Documented(c) ==
  LET rc == child[c].rc
  IN  {s \in {"NO_RESOURCE", "NOT_IMPLEMENTED", "BY_SYS_EXIT"} : rc = s}
        \cup {s \in {"NOT_SUCCESS"} : rc = "FAILURE" \/ child[c].failed}
        \cup {s \in {"SIGNALED"} : rc \in {"SIGALRM", "SIGNALED"}}
        \cup {s \in {"METRICS_UNTRUSTWORTHY"} :
                 rc = "UNTRUSTWORTHY" \/ child[c].dirty}

\* The exit status is one that the manual gives to what became of some
\* instance, or success if it gives no other to any.
ExitIsDocumented ==
  parent.pc = "exited" =>
    LET given == UNION {Documented(c) : c \in Children}
    IN  result.exit \in IF given = {} THEN {"SUCCESS"} ELSE given

\* "One or more stressors failed." (stress-ng.1:5103): if an instance failed,
\* the parent's exit status says so, with any options.
FailureIsReported ==
  parent.pc = "exited" /\ (Ended(Failed) \/ \E c \in Children : child[c].failed)
    => result.exit = "NOT_SUCCESS"

\* No step of stress-ng, and no signal that it handles, ends the parent
\* before it has cleaned up.
ParentCleansUp == parent.pc # "killed"

\* With a timeout everything ends, whatever failed and whoever died.
RunEnds == ("timeout" \in opts) ~> AllOver

\* Without one, a signal from the user ends a run of one stressor or of
\* parallel ones.  (--abort may kill the parent first, and in the second run
\* of --sequential an instance inherits handlers that swallow SIGALRM.  With
\* "no_group" a signal to the parent alone may not reach an instance; the run
\* has no such command line.)
SignalEndsRun == (sent > 0 /\ "abort" \notin opts) ~> AllOver

\* With --abort, the failure of one instance ends all others.
AbortStopsAll ==
  \A c \in Children :
    ( /\ "abort" \in opts /\ parent.pc = "wait"
      /\ child[c].pc = "zombie" /\ child[c].rc \in Failures )
    ~> AllOver
=============================================================================
