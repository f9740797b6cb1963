------------------------------- MODULE SatRun -------------------------------
(***************************************************************************)
(* A run of stressapptest: fill threads give every page a pattern, the     *)
(* main thread marks some pages empty, worker threads copy, invert, check, *)
(* write and send pages until they are stopped, check threads exhaust the  *)
(* valid pages, and the verdict is printed.                                *)
(*                                                                         *)
(* The threads meet in the page queue only, of which this module uses what *)
(* PagePool says; FineLockQueue shows that the queue keeps to it.  A page  *)
(* belongs to the thread that took it, so what is done to a page and the   *)
(* Put that follows are one step.                                          *)
(***************************************************************************)
EXTENDS Integers, Sequences, FiniteSets, Functions

CONSTANTS
  Threads,      \* as many fill, worker and check threads
  Page,
  Pattern,
  Crews,        \* classes of threads that work together
  DiskPages,    \* disk_pages_: pages of one pass of a FileThread
  MaxFaults,    \* bound: faults of memory and of the disk
  None

ASSUME SatAssumption ==
  /\ Crews \subseteq SUBSET {"copy", "net", "invert", "check", "file"}
  /\ DiskPages \in Nat \ {0}
  /\ MaxFaults \in Nat
ASSUME FiniteAssumption ==
  IsFiniteSet(Threads) /\ Threads # {} /\ IsFiniteSet(Page)

VARIABLES
  pool, owner, call, peek, steady,   \* the page queue: see PagePool
  phase,     \* how far Sat has come
  role,      \* the workers' classes
  pc,        \* where the Work() of a thread is
  src, dst,  \* the pages that it has taken
  remaining, \* pages that a FillThread still has to fill
  file,      \* the FileThread's file, with page_recs_, from its offset on
  result,    \* the result of its ReadPages() so far
  data,      \* what a page holds
  pattern,   \* what its entry says
  strict,    \* strict(): workers check the pages they use
  warm,      \* warm(): a CopyThread does, strict or not
  running,   \* the groups of workers whose status is not STOP
  faults,    \* bits that flipped and I/O that failed
  errors,    \* errorcount_ is not zero
  failed,    \* a thread's status_ is false
  verdict    \* what PrintResults() prints

queue   == <<pool, owner, call, peek, steady>>
content == <<data, pattern>>
pages   == <<src, dst>>
disk    == <<file, result>>
setup   == <<role, strict, warm>>
vars    == <<queue, phase, setup, pc, pages, remaining, disk, content,
             running, faults, errors, failed, verdict>>

Q == INSTANCE PagePool
       WITH PageTag <- [p \in Page |-> 0],
            Calls   <- [kind : {"empty", "valid"}, mask : {{0}}]

-----------------------------------------------------------------------------
(* Sat::InitializePages()                                                  *)

Total == Cardinality(Page)
N     == Cardinality(Threads)

freepages == (Total \div 5) * 2

\* Enough empty pages for one each, and no more than half of all.
ASSUME PagesAssumption == N <= freepages /\ freepages <= Total \div 2

\* Wrong variant: the last thread's share begins one thread too early.
SetFillPagesOneMore(t, last) ==
  IF t = last THEN Total - (Total \div N) * (N - 2) ELSE Total \div N

\* The last thread takes the pages that are left over.
SetFillPages(t, last) ==
  IF t = last THEN Total - (Total \div N) * (N - 1) ELSE Total \div N

\* All pages have been put as empty pages, and the fill threads spawned.
Init ==
  /\ pool = [p \in Page |-> "empty"]
  /\ owner = [p \in Page |-> None]
  /\ call = [t \in Threads |-> None]
  /\ peek = [t \in Threads |-> None]
  /\ steady = [t \in Threads |-> {}]
  /\ phase = "fill"
  /\ \E crew \in Crews : role \in Surjection(Threads, crew)
  /\ pc = [t \in Threads |-> "top"]
  /\ src = [t \in Threads |-> None]
  /\ dst = [t \in Threads |-> None]
  /\ \E last \in Threads :
       remaining = [t \in Threads |-> SetFillPages(t, last)]
  /\ file = [t \in Threads |-> <<>>]
  /\ result = [t \in Threads |-> TRUE]
  /\ data = [p \in Page |-> None]
  /\ pattern = [p \in Page |-> None]
  /\ strict \in BOOLEAN
  /\ warm \in BOOLEAN  \* told apart only where it makes a difference
  /\ warm => ~strict /\ \E t \in Threads : role[t] = "copy"
  /\ running = {"power_spike", "continuous"}
  /\ faults = {}
  /\ errors = FALSE
  /\ failed = FALSE
  /\ verdict = None

-----------------------------------------------------------------------------
(* Pages                                                                   *)

\* A flipped bit is in a word that a FileThread's sector tags use, or not.
Flaws == {"word", "tag_word"}

\* A flaw is none of the patterns, and None is nothing else.
ASSUME ValueAssumption ==
  /\ Pattern \cap Flaws = {}
  /\ None \notin Threads /\ None \notin Page /\ None \notin Pattern
  /\ None \notin Flaws /\ None # "PASS"
  /\ None \notin [kind : {"empty", "valid"}, mask : {{0}}]

\* As many threads fill as work and check later.  The regions that a thread's
\* tag_ asks for are left out: there is one.
Role(t) ==
  CASE phase = "fill" -> "fill"
    [] phase = "run"  -> role[t]
    [] OTHER          -> "check"

\* The status that a worker was initialised with.
Group(t) == IF role[t] \in {"copy", "file"} THEN "power_spike" ELSE "continuous"

\* IsReadyToRun(), but for the pauses: fill threads are never stopped, and
\* the last check threads are stopped before they start.
Ready(t) == phase = "fill" \/ (phase = "run" /\ Group(t) \in running)

Mismatch(p) == data[p] # pattern[p]

PutValid(t, p) == Q!Put(t, p, "valid")

\* The queue clears the pattern.  What the page holds is dead from here on,
\* so that None, which matches no pattern, stands for it.
PutEmpty(t, p) ==
  /\ Q!Put(t, p, "empty")
  /\ pattern' = [pattern EXCEPT ![p] = None]
  /\ data' = [data EXCEPT ![p] = None]

\* The thread's Work() returns; its locals go, the pages it took stay taken.
End(t) ==
  /\ pc' = [pc EXCEPT ![t] = "ended"]
  /\ src' = [src EXCEPT ![t] = None]
  /\ dst' = [dst EXCEPT ![t] = None]
  /\ file' = [file EXCEPT ![t] = <<>>]
  /\ result' = [result EXCEPT ![t] = TRUE]

GoTo(t, label) == pc' = [pc EXCEPT ![t] = label] /\ UNCHANGED disk

\* Wrong variant: the entry of the filled page is used again.
DropSource(t) ==
  /\ src' = [src EXCEPT ![t] = None]
  /\ UNCHANGED dst

\* The entries of pages that were put back are not used again.
Drop(t) ==
  /\ src' = [src EXCEPT ![t] = None]
  /\ dst' = [dst EXCEPT ![t] = None]

-----------------------------------------------------------------------------
(* The loops of the threads                                                *)

\* GetValid() or GetEmpty() is called.
Search(t, label) ==
  Q!Get(t, [kind |-> IF label = "get_src" THEN "valid" ELSE "empty",
            mask |-> {0}])

\* The loop is entered again and its first page asked for.  A CheckThread's
\* loop has no condition.
Top(t) ==
  LET first == IF Role(t) = "fill" THEN "get_dst" ELSE "get_src"
  IN  /\ pc[t] = "top"
      /\ IF Role(t) = "check" \/ (Ready(t) /\ (Role(t) = "fill" => remaining[t] > 0))
         THEN Search(t, first) /\ GoTo(t, first) /\ UNCHANGED pages
         ELSE End(t) /\ UNCHANGED queue
      /\ UNCHANGED <<phase, setup, remaining, content, running, faults, errors,
                     failed, verdict>>

\* The next page is asked for.
SearchNext(t) ==
  /\ pc[t] \in {"get_src", "get_dst"}
  /\ Search(t, pc[t])
  /\ UNCHANGED <<phase, setup, pc, pages, remaining, disk, content, running,
                 faults, errors, failed, verdict>>

\* The call searches ...
LookAt(t) ==
  /\ Q!Unpeek(t) \/ \E p \in Page : Q!Peek(t, p)
  /\ UNCHANGED <<phase, setup, pc, pages, remaining, disk, content, running,
                 faults, errors, failed, verdict>>

\* ... returns a page ...
Got(t, p) ==
  /\ Q!Take(t, p)
  /\ IF pc[t] = "get_src"
     THEN /\ src' = [src EXCEPT ![t] = p]
          /\ GoTo(t, IF Role(t) \in {"copy", "net"} THEN "get_dst" ELSE "work")
          /\ UNCHANGED dst
     ELSE /\ dst' = [dst EXCEPT ![t] = p]
          /\ GoTo(t, "work")
          /\ UNCHANGED src
  /\ UNCHANGED <<phase, setup, remaining, content, running, faults, errors,
                 failed, verdict>>

\* Wrong variant: a CopyThread that finds no page ends as if it had one.
GetFailsQuietly(t) ==
  /\ Q!Fail(t)
  /\ End(t)
  /\ failed' = (failed \/ (Role(t) \in {"fill", "invert"}))
  /\ UNCHANGED <<phase, setup, remaining, content, running, faults, errors,
                 verdict>>

\* ... or fails, and the thread bails out: with a status that a CheckThread
\* sets only while it is meant to run, and a FileThread never.
GetFails(t) ==
  /\ Q!Fail(t)
  /\ End(t)
  /\ failed' = (failed \/ CASE Role(t) = "check" -> Ready(t)
                            [] Role(t) = "file"  -> FALSE
                            [] OTHER             -> TRUE)
  /\ UNCHANGED <<phase, setup, remaining, content, running, faults, errors,
                 verdict>>

\* FillThread: a random pattern for the page and its entry.
FillPageRandom(t) ==
  /\ pc[t] = "work"
  /\ Role(t) = "fill"
  /\ \E pat \in Pattern :
       /\ data' = [data EXCEPT ![dst[t]] = pat]
       /\ pattern' = [pattern EXCEPT ![dst[t]] = pat]
  /\ PutValid(t, dst[t])
  /\ Drop(t)
  /\ remaining' = [remaining EXCEPT ![t] = @ - 1]
  /\ GoTo(t, "top")
  /\ UNCHANGED <<phase, setup, running, faults, errors, failed, verdict>>

\* Wrong variant: once stopped, pages are thrown out unchecked.
CheckPageLate(t) ==
  /\ pc[t] = "work"
  /\ Role(t) = "check"
  /\ errors' = (errors \/ (Ready(t) /\ Mismatch(src[t])))
  /\ IF Ready(t)
     THEN /\ PutValid(t, src[t])
          /\ data' = [data EXCEPT ![src[t]] = pattern[src[t]]]
          /\ UNCHANGED pattern
     ELSE PutEmpty(t, src[t])
  /\ Drop(t)
  /\ GoTo(t, "top")
  /\ UNCHANGED <<phase, setup, remaining, running, faults, failed, verdict>>

\* CheckThread: mismatches are counted and mended; the page goes back while
\* the threads run, and out once they are stopped.
CheckPage(t) ==
  /\ pc[t] = "work"
  /\ Role(t) = "check"
  /\ errors' = (errors \/ Mismatch(src[t]))
  /\ IF Ready(t)
     THEN /\ PutValid(t, src[t])
          /\ data' = [data EXCEPT ![src[t]] = pattern[src[t]]]
          /\ UNCHANGED pattern
     ELSE PutEmpty(t, src[t])
  /\ Drop(t)
  /\ GoTo(t, "top")
  /\ UNCHANGED <<phase, setup, remaining, running, faults, failed, verdict>>

\* InvertThread: four inversions leave the page as it was.
InvertPage(t) ==
  /\ pc[t] = "work"
  /\ Role(t) = "invert"
  /\ errors' = (errors \/ (strict /\ Mismatch(src[t])))
  /\ data' = [data EXCEPT ![src[t]] = IF strict THEN pattern[src[t]] ELSE @]
  /\ PutValid(t, src[t])
  /\ Drop(t)
  /\ GoTo(t, "top")
  /\ UNCHANGED <<phase, setup, remaining, pattern, running, faults, failed,
                 verdict>>

\* The source is checked while it is copied: by CrcWarmCopyPage() as well as
\* by CrcCopyPage().
Checks(t) == strict \/ (warm /\ Role(t) = "copy")

\* Wrong variant: the entry of the copy keeps no pattern.
CopyPageForgets(t) ==
  LET s == src[t]
      d == dst[t]
  IN  /\ pc[t] = "work"
      /\ Role(t) \in {"copy", "net"}
      /\ errors' = (errors \/ (Checks(t) /\ Mismatch(s)))
      /\ data' = [data EXCEPT ![d] = IF Checks(t) THEN pattern[s] ELSE data[s]]
      /\ UNCHANGED pattern
      /\ PutValid(t, d)
      /\ dst' = [dst EXCEPT ![t] = None]
      /\ GoTo(t, "put_src")
      /\ UNCHANGED <<phase, setup, src, remaining, running, faults, failed,
                     verdict>>

\* CopyThread and NetworkThread, whose peer sends back what it gets: a copy
\* that is checked is right even if the source is not, another one copies the
\* flaw.
CopyPage(t) ==
  LET s == src[t]
      d == dst[t]
  IN  /\ pc[t] = "work"
      /\ Role(t) \in {"copy", "net"}
      /\ errors' = (errors \/ (Checks(t) /\ Mismatch(s)))
      /\ data' = [data EXCEPT ![d] = IF Checks(t) THEN pattern[s] ELSE data[s]]
      /\ pattern' = [pattern EXCEPT ![d] = pattern[s]]
      /\ PutValid(t, d)
      /\ dst' = [dst EXCEPT ![t] = None]
      /\ GoTo(t, "put_src")
      /\ UNCHANGED <<phase, setup, src, remaining, running, faults, failed,
                     verdict>>

PutSource(t) ==
  /\ pc[t] = "put_src"
  /\ PutEmpty(t, src[t])
  /\ Drop(t)
  /\ GoTo(t, "top")
  /\ UNCHANGED <<phase, setup, remaining, running, faults, errors, failed,
                 verdict>>

\* A page is not sent or not received; both stay locked.
NetworkFails(t) ==
  /\ pc[t] = "work"
  /\ Role(t) = "net"
  /\ errors' = (errors \/ (strict /\ Mismatch(src[t])))
  /\ failed' = TRUE
  /\ End(t)
  /\ UNCHANGED <<queue, phase, setup, remaining, content, running, faults,
                 verdict>>

-----------------------------------------------------------------------------
(* FileThread: disk_pages() pages are written, flushed and read back.      *)

InputOutputFails == faults' = faults \cup {"io"}

\* What SectorTagPage() leaves of a flaw: none in the words it overwrites.
SectorTagged(p) ==
  IF strict \/ data[p] = "tag_word" THEN pattern[p] ELSE data[p]

WritePage(t) ==
  LET p == src[t]
  IN  /\ pc[t] = "work"
      /\ Role(t) = "file"
      /\ p # None
      /\ errors' = (errors \/ (strict /\ Mismatch(p)))
      /\ file' = [file EXCEPT ![t] =
                    Append(@, [pattern |-> pattern[p], data |-> SectorTagged(p)])]
      /\ PutEmpty(t, p)
      /\ Drop(t)
      /\ pc' = [pc EXCEPT ![t] = IF Len(file'[t]) < DiskPages
                                 THEN "get_src" ELSE "flush"]
      /\ UNCHANGED <<result, phase, setup, remaining, running, faults, failed,
                     verdict>>

\* The page is put back before the thread bails out.
WriteFails(t) ==
  /\ pc[t] = "work"
  /\ Role(t) = "file"
  /\ src[t] # None
  /\ InputOutputFails
  /\ errors' = TRUE
  /\ PutEmpty(t, src[t])
  /\ End(t)
  /\ UNCHANGED <<phase, setup, remaining, running, failed, verdict>>

\* FlushPageCache(); when it fails, the thread bails out and nobody knows.
Flush(t) ==
  /\ pc[t] = "flush"
  /\ (GoTo(t, "get_dst") /\ UNCHANGED pages) \/ End(t)
  /\ UNCHANGED <<queue, phase, setup, remaining, content, running, faults,
                 errors, failed, verdict>>

\* Sector tags are checked, then, if strict, the rest; what does not match is
\* mended.  A pass with a mismatch of the rest is the thread's last.
ReadPage(t) ==
  LET p    == dst[t]
      r    == Head(file[t])
      good == result[t] /\ ~(strict /\ r.data = "word")
      more == Len(file[t]) > 1
  IN  /\ pc[t] = "work"
      /\ Role(t) = "file"
      /\ p # None
      /\ errors' = (errors \/ r.data = "tag_word" \/ (strict /\ r.data = "word"))
      /\ data' = [data EXCEPT ![p] = IF strict \/ r.data = "tag_word"
                                     THEN r.pattern ELSE r.data]
      /\ pattern' = [pattern EXCEPT ![p] = r.pattern]
      /\ PutValid(t, p)
      /\ Drop(t)
      /\ file' = [file EXCEPT ![t] = Tail(@)]
      /\ result' = [result EXCEPT ![t] = good \/ ~more]
      /\ pc' = [pc EXCEPT ![t] = IF more THEN "get_dst"
                                 ELSE IF good THEN "top" ELSE "ended"]
      /\ UNCHANGED <<phase, setup, remaining, running, faults, failed,
                     verdict>>

\* The page that could not be read is put back as an empty one.
ReadFails(t) ==
  /\ pc[t] = "work"
  /\ Role(t) = "file"
  /\ dst[t] # None
  /\ InputOutputFails
  /\ errors' = TRUE
  /\ PutEmpty(t, dst[t])
  /\ End(t)
  /\ UNCHANGED <<phase, setup, remaining, running, failed, verdict>>

-----------------------------------------------------------------------------
(* The main thread                                                         *)

Ended == \A t \in Threads : pc[t] = "ended"

Respawn == pc' = [t \in Threads |-> "top"]

\* The fill threads are joined, freepages_ pages picked at random are marked
\* empty and the workers spawned; or the run ends here.
AllocatePages ==
  /\ phase = "fill"
  /\ Ended
  /\ \E free \in SUBSET {p \in Page : pool[p] = "valid"} :
       /\ Cardinality(free) = freepages
       /\ pool' = [p \in Page |-> IF p \in free THEN "empty" ELSE pool[p]]
       /\ pattern' = [p \in Page |-> IF p \in free THEN None ELSE pattern[p]]
       /\ data' = [p \in Page |-> IF p \in free THEN None ELSE data[p]]
  /\ phase' = IF failed THEN "done" ELSE "run"
  /\ verdict' = IF failed THEN "FAIL" ELSE None
  /\ Respawn
  /\ UNCHANGED <<owner, call, peek, steady, setup, pages, remaining, disk,
                 running, faults, errors, failed>>

\* Time is up, the user breaks in, or there are too many errors: one group is
\* stopped after the other.
StopWorkers ==
  /\ phase = "run"
  /\ running # {}
  /\ running' = IF "power_spike" \in running THEN {"continuous"} ELSE {}
  /\ UNCHANGED <<queue, phase, setup, pc, pages, remaining, disk, content,
                 faults, errors, failed, verdict>>

\* The workers are joined and the check threads spawned ...
JoinThreads ==
  /\ phase = "run"
  /\ running = {}
  /\ Ended
  /\ phase' = "reap"
  /\ Respawn
  /\ UNCHANGED <<queue, setup, pages, remaining, disk, content, running,
                 faults, errors, failed, verdict>>

\* ... and joined.
PrintResults ==
  /\ phase = "reap"
  /\ Ended
  /\ phase' = "done"
  /\ verdict' = IF failed \/ errors THEN "FAIL" ELSE "PASS"
  /\ UNCHANGED <<queue, setup, pc, pages, remaining, disk, content, running,
                 faults, errors, failed>>

Done == phase = "done" /\ UNCHANGED vars

-----------------------------------------------------------------------------
(* Hardware                                                                *)

\* A bit of a page that nobody uses flips.
FlipBit(p, flaw) ==
  /\ phase \in {"run", "reap"}
  /\ pool[p] = "valid"
  /\ data' = [data EXCEPT ![p] = flaw]
  /\ faults' = faults \cup {"memory"}
  /\ UNCHANGED <<queue, phase, setup, pc, pages, remaining, disk, pattern,
                 running, errors, failed, verdict>>

\* The disk forgets what was written.
DiskFault(t, flaw) ==
  /\ pc[t] = "get_dst"
  /\ file[t] # <<>>
  /\ file' = [file EXCEPT ![t][1].data = flaw]
  /\ faults' = faults \cup {"disk"}
  /\ UNCHANGED <<queue, phase, setup, pc, pages, remaining, result, content,
                 running, errors, failed, verdict>>

Fault ==
  /\ Cardinality(faults) < MaxFaults
  /\ \/ \E p \in Page, flaw \in Flaws : FlipBit(p, flaw)
     \/ \E t \in Threads, flaw \in Flaws : DiskFault(t, flaw)
     \/ \E t \in Threads : WriteFails(t) \/ ReadFails(t)

Next ==
  \/ \E t \in Threads :
       \/ Top(t) \/ SearchNext(t) \/ LookAt(t) \/ GetFails(t)
       \/ \E p \in Page : Got(t, p)
       \/ FillPageRandom(t) \/ CheckPage(t) \/ InvertPage(t)
       \/ CopyPage(t) \/ PutSource(t) \/ NetworkFails(t)
       \/ WritePage(t) \/ Flush(t) \/ ReadPage(t)
  \/ AllocatePages \/ StopWorkers \/ JoinThreads \/ PrintResults \/ Done
  \/ Fault

Spec == Init /\ [][Next]_vars

-----------------------------------------------------------------------------
(* Properties                                                              *)

\* Types of the variables, and that the page taken is the thread's own.
TypeOK ==
  /\ pool \in [Page -> {"empty", "valid", "taken"}]
  /\ owner \in [Page -> Threads \cup {None}]
  /\ phase \in {"fill", "run", "reap", "done"}
  /\ role \in [Threads -> UNION Crews]
  /\ pc \in [Threads -> {"top", "get_src", "get_dst", "work", "put_src",
                         "flush", "ended"}]
  /\ data \in [Page -> Pattern \cup Flaws \cup {None}]
  /\ pattern \in [Page -> Pattern \cup {None}]
  /\ remaining \in [Threads -> Nat]
  /\ \A t \in Threads :
       /\ Len(file[t]) <= DiskPages
       /\ src[t] # None => owner[src[t]] = t
       /\ dst[t] # None => owner[dst[t]] = t
  /\ verdict \in {"PASS", "FAIL", None}

\* The quotas of the fill threads add up to the pages there are: whatever
\* the order in which the threads take pages, none comes away empty-handed
\* (worker.cc: "fill_thread failed to pop pages") and none is left unfilled.
FillFillsAll ==
  phase = "fill" =>
    /\ ~failed
    /\ Ended => \A p \in Page : pool[p] = "valid" /\ data[p] = pattern[p]

\* "Found hardware incidents" is never said of good hardware: whichever way a
\* page travelled (copied, sent, written and read back, empty in between) its
\* entry has the pattern that it was filled with last.
NoFalseError == errors => faults # {}

\* After PASS no page is left that the last check threads did not get: none
\* is valid, and none stayed with a thread that gave up with it.
PassMeansChecked == verdict = "PASS" => \A p \in Page : pool[p] = "empty"

\* A bit that flips in a valid page fails the run, however often the page is
\* copied before it is checked.  The exception is a FileThread that is not
\* strict: its sector tags overwrite the flaw, or it bails out with the page
\* in the file.
CorruptionIsReported ==
  verdict = "PASS" /\ "memory" \in faults
    => ~strict /\ \E t \in Threads : role[t] = "file"

=============================================================================
