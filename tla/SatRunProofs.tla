---------------------------- MODULE SatRunProofs ----------------------------
(***************************************************************************)
(* Proofs about SatRun, for any numbers of threads, pages and patterns and *)
(* any faults: the fill threads fill all pages, good hardware is never     *)
(* blamed, PASS means that all pages were checked, and a flipped bit fails *)
(* the run.                                                                *)
(***************************************************************************)
EXTENDS SatRun, FiniteSetTheorems, SequenceTheorems, TLAPS

Requests == [kind : {"empty", "valid"}, mask : {{0}}]
PageRec  == [pattern : Pattern, data : Pattern \cup Flaws]
Labels   == {"top", "get_src", "get_dst", "work", "put_src", "flush", "ended"}

QueueTypes ==
  /\ pool \in [Page -> {"empty", "valid", "taken"}]
  /\ owner \in [Page -> Threads \cup {None}]
  /\ call \in [Threads -> Requests \cup {None}]
  /\ peek \in [Threads -> Page \cup {None}]
  /\ steady \in [Threads -> SUBSET Page]

LocalTypes ==
  /\ role \in [Threads -> UNION Crews] /\ strict \in BOOLEAN
  /\ pc \in [Threads -> Labels]
  /\ src \in [Threads -> Page \cup {None}]
  /\ dst \in [Threads -> Page \cup {None}]
  /\ remaining \in [Threads -> Nat]
  /\ file \in [Threads -> Seq(PageRec)]
  /\ result \in [Threads -> BOOLEAN]

GlobalTypes ==
  /\ phase \in {"fill", "run", "reap", "done"}
  /\ data \in [Page -> Pattern \cup Flaws \cup {None}]
  /\ pattern \in [Page -> Pattern \cup {None}]
  /\ running \in SUBSET {"power_spike", "continuous"}
  /\ errors \in BOOLEAN /\ failed \in BOOLEAN
  /\ verdict \in {"PASS", "FAIL", None}

\* The taken pages are those that have an owner.
OwnerInv == \A p \in Page : owner[p] = None <=> pool[p] # "taken"

\* A call asks for what the thread's place in its loop calls for, and looks
\* at pages of the other kind.
CallInv ==
  \A t \in Threads :
    /\ call[t] # None =>
         \/ pc[t] = "get_src" /\ call[t].kind = "valid"
         \/ pc[t] = "get_dst" /\ call[t].kind = "empty"
    /\ peek[t] # None =>
         call[t] # None /\ pool[peek[t]] # "taken" /\ pool[peek[t]] # call[t].kind

\* The pages that a thread has taken, from its place in its loop.
Local(t) ==
  /\ src[t] # None => owner[src[t]] = t /\ src[t] # dst[t]
  /\ dst[t] # None => owner[dst[t]] = t
  /\ pc[t] \in {"top", "get_src", "flush", "ended"} => src[t] = None
  /\ pc[t] \notin {"work"} => dst[t] = None
  /\ pc[t] = "get_src" => Role(t) # "fill"
  /\ pc[t] = "get_dst" =>
       /\ Role(t) \in {"fill", "copy", "net", "file"}
       /\ src[t] = None <=> Role(t) \in {"fill", "file"}
  /\ pc[t] = "work" =>
       /\ Role(t) = "fill" => src[t] = None /\ dst[t] # None
       /\ Role(t) \in {"check", "invert"} => src[t] # None /\ dst[t] = None
       /\ Role(t) \in {"copy", "net"} => src[t] # None /\ dst[t] # None
       /\ Role(t) = "file" => (src[t] = None <=> dst[t] # None)
  /\ pc[t] = "put_src" => Role(t) \in {"copy", "net"} /\ src[t] # None
  /\ pc[t] = "flush" => Role(t) = "file"
LocalInv == \A t \in Threads : Local(t)

\* The file has pages from the first WritePage() to the last ReadPage().
File(t) ==
  /\ Len(file[t]) <= DiskPages
  /\ file[t] # <<>> => Role(t) = "file" /\ pc[t] \notin {"top", "ended"}
  /\ pc[t] \in {"get_src", "work"} /\ dst[t] = None => Len(file[t]) < DiskPages
  /\ pc[t] = "flush" => file[t] # <<>>
  /\ Role(t) = "file" /\ (pc[t] = "get_dst" \/ dst[t] # None) => file[t] # <<>>
FileInv == \A t \in Threads : File(t)

\* A page is lost with a thread only if that thread's status is false.
HeldInv ==
  ~failed => \A p \in Page :
    pool[p] = "taken" => src[owner[p]] = p \/ dst[owner[p]] = p

\* The page that a thread works on.
Source(t, p) == src[t] = p /\ pc[t] # "put_src"

\* The pages whose data count.
HasData(p) == pool[p] = "valid" \/ \E t \in Threads : Source(t, p)

\* Pages with data have a pattern.
PatternInv ==
  \A p \in Page : HasData(p) =>
    pattern[p] \in Pattern /\ data[p] \in Pattern \cup Flaws

\* Without a fault there is no mismatch, neither in memory nor in a file.
CleanInv ==
  faults = {} =>
    /\ ~errors
    /\ \A p \in Page : HasData(p) => ~Mismatch(p)
    /\ \A t \in Threads : \A i \in 1 .. Len(file[t]) : file[t][i].data = file[t][i].pattern

\* The pages that fill threads have still to fill, and the threads' quotas.
Unfilled == {p \in Page : pool[p] # "valid"}
Quota    == {q \in Threads \X (1 .. Total) : q[2] <= remaining[q[1]]}

\* While the pages are filled.
FillInv ==
  phase = "fill" =>
    /\ ~failed /\ faults = {} /\ verdict = None
    /\ \A t \in Threads :
         /\ remaining[t] <= Total
         /\ pc[t] \in {"get_dst", "work"} => remaining[t] > 0
         /\ pc[t] = "ended" => remaining[t] = 0
         /\ call[t] # None => {p \in Page : pool[p] = "empty"} \subseteq steady[t]
    /\ Cardinality(Quota) = Cardinality(Unfilled)

\* While the last check threads exhaust the valid pages.
ReapInv ==
  /\ phase = "reap" =>
       \A t \in Threads :
         /\ call[t] # None => {p \in Page : pool[p] = "valid"} \subseteq steady[t]
         /\ pc[t] = "ended" => \A p \in Page : pool[p] # "valid"
  /\ phase = "reap" => running = {} /\ verdict = None
  /\ phase = "run" => verdict = None
  /\ phase = "done" => Ended
  /\ verdict = "PASS" => ~failed /\ ~errors /\ \A p \in Page : pool[p] = "empty"

\* A flaw stays in some page until it is found.
FlawInv ==
  "memory" \in faults /\ (strict \/ \A t \in Threads : role[t] # "file") =>
    \/ errors \/ failed
    \/ \E p \in Page : HasData(p) /\ Mismatch(p)

IInv ==
  /\ QueueTypes /\ LocalTypes /\ GlobalTypes
  /\ OwnerInv /\ CallInv /\ LocalInv /\ FileInv /\ HeldInv /\ PatternInv
  /\ CleanInv /\ FillInv /\ ReapInv /\ FlawInv

-----------------------------------------------------------------------------
(* What a step of thread t leaves alone.                                   *)

Step(t) ==
  \/ Top(t) \/ SearchNext(t) \/ LookAt(t) \/ GetFails(t)
  \/ \E p \in Page : Got(t, p)
  \/ FillPageRandom(t) \/ CheckPage(t) \/ InvertPage(t)
  \/ CopyPage(t) \/ PutSource(t) \/ NetworkFails(t)
  \/ WritePage(t) \/ Flush(t) \/ ReadPage(t) \/ WriteFails(t) \/ ReadFails(t)

\* A step on the queue, as PagePool has them.
QueueStep(t) ==
  \/ UNCHANGED queue
  \/ \E c \in Requests : Q!Get(t, c)
  \/ Q!Fail(t)
  \/ Q!Unpeek(t)
  \/ \E p \in Page : \/ Q!Take(t, p)
                     \/ Q!Peek(t, p)
                     \/ Q!Put(t, p, "empty")
                     \/ Q!Put(t, p, "valid")

\* Other threads' locals and pages stay as they are, and so do free pages,
\* but for the one that is taken.
Frame(t) ==
  /\ UNCHANGED <<phase, role, strict, running, verdict>>
  /\ \A u \in Threads : u # t =>
       /\ pc'[u] = pc[u] /\ src'[u] = src[u] /\ dst'[u] = dst[u] /\ file'[u] = file[u]
       /\ remaining'[u] = remaining[u]
  /\ \A p \in Page : owner[p] # t => data'[p] = data[p] /\ pattern'[p] = pattern[p]
  /\ faults \subseteq faults'
  /\ errors => errors'
  /\ failed => failed'

QueueFrame(t) ==
  /\ \A u \in Threads : u # t => call'[u] = call[u] /\ peek'[u] = peek[u]
  /\ \A p \in Page : \A u \in Threads :
       u # t => (owner'[p] = u <=> owner[p] = u)
  /\ \A p \in Page : owner[p] # t /\ owner'[p] # t => pool'[p] = pool[p] /\ owner'[p] = owner[p]

\* The pages of a working thread.
LEMMA WorkFacts ==
  ASSUME IInv, NEW t \in Threads
  PROVE  /\ src[t] # None => src[t] \in Page /\ owner[src[t]] = t
         /\ dst[t] # None => dst[t] \in Page /\ owner[dst[t]] = t
         /\ src[t] # None => src[t] # dst[t]
BY DEF IInv, LocalTypes, LocalInv, Local

\* The queue's steps keep its types and its bookkeeping.
LEMMA QueueStepFacts ==
  ASSUME QueueTypes, OwnerInv, NEW t \in Threads, QueueStep(t)
  PROVE  QueueTypes' /\ OwnerInv' /\ QueueFrame(t)
<1>1. CASE UNCHANGED queue
  BY <1>1 DEF queue, QueueTypes, OwnerInv, QueueFrame
<1>2. CASE \E c \in Requests : Q!Get(t, c)
  BY <1>2 DEF QueueTypes, OwnerInv, QueueFrame, Q!Get
<1>3. CASE Q!Fail(t)
  BY <1>3 DEF QueueTypes, OwnerInv, QueueFrame, Q!Fail
<1>4. CASE Q!Unpeek(t)
  BY <1>4 DEF QueueTypes, OwnerInv, QueueFrame, Q!Unpeek
<1>5. CASE \E p \in Page : Q!Take(t, p)
  <2>1. PICK p \in Page : Q!Take(t, p)
    BY <1>5
  <2>2. pool[p] \in {"empty", "valid"}
    BY <2>1 DEF QueueTypes, Q!Take, Q!Fits, Requests
  <2>3. QueueTypes'
    BY <2>1 DEF QueueTypes, Q!Take, Q!Unsteady
  <2>4. OwnerInv'
    BY <2>1, ValueAssumption DEF QueueTypes, OwnerInv, Q!Take
  <2>5. QueueFrame(t)
    BY <2>1, <2>2, ValueAssumption DEF QueueTypes, OwnerInv, Q!Take, QueueFrame
  <2> QED
    BY <2>3, <2>4, <2>5
<1>6. CASE \E p \in Page : Q!Peek(t, p)
  BY <1>6 DEF QueueTypes, OwnerInv, QueueFrame, Q!Peek, Q!Unsteady
<1>7. CASE \E p \in Page : Q!Put(t, p, "empty") \/ Q!Put(t, p, "valid")
  <2>1. PICK p \in Page, k \in {"empty", "valid"} : Q!Put(t, p, k)
    BY <1>7
  <2>2. QueueTypes'
    BY <2>1 DEF QueueTypes, Q!Put
  <2>3. OwnerInv'
    BY <2>1, ValueAssumption DEF QueueTypes, OwnerInv, Q!Put
  <2>4. QueueFrame(t)
    BY <2>1, ValueAssumption DEF QueueTypes, Q!Put, QueueFrame
  <2> QED
    BY <2>2, <2>3, <2>4
<1> QED
  BY <1>1, <1>2, <1>3, <1>4, <1>5, <1>6, <1>7 DEF QueueStep

\* Every step of a thread is one step on the queue.
LEMMA IsQueueStep ==
  ASSUME IInv, NEW t \in Threads, Step(t)
  PROVE  QueueStep(t)
<1>1. CASE Top(t) \/ SearchNext(t)
  <2>1. ASSUME NEW label, Search(t, label) PROVE QueueStep(t)
    BY <2>1 DEF QueueStep, Search, Requests
  <2> QED
    BY <1>1, <2>1 DEF Top, SearchNext, QueueStep
<1>2. CASE LookAt(t)
  BY <1>2 DEF LookAt, QueueStep
<1>3. CASE GetFails(t)
  BY <1>3 DEF GetFails, QueueStep
<1>4. CASE \E p \in Page : Got(t, p)
  BY <1>4 DEF Got, QueueStep
<1>5. CASE FillPageRandom(t)
  <2>1. dst[t] # None
    BY <1>5 DEF IInv, LocalInv, Local, FillPageRandom
  <2> QED
    BY <1>5, <2>1, WorkFacts DEF FillPageRandom, PutValid, QueueStep
<1>6. CASE CheckPage(t) \/ InvertPage(t)
  <2>1. src[t] # None
    BY <1>6 DEF IInv, LocalInv, Local, CheckPage, InvertPage
  <2> QED
    BY <1>6, <2>1, WorkFacts DEF CheckPage, InvertPage, PutValid, PutEmpty,
       QueueStep
<1>7. CASE CopyPage(t)
  <2>1. dst[t] # None
    BY <1>7 DEF IInv, LocalInv, Local, CopyPage
  <2> QED
    BY <1>7, <2>1, WorkFacts DEF CopyPage, PutValid, QueueStep
<1>8. CASE PutSource(t)
  <2>1. src[t] # None
    BY <1>8 DEF IInv, LocalInv, Local, PutSource
  <2> QED
    BY <1>8, <2>1, WorkFacts DEF PutSource, PutEmpty, QueueStep
<1>9. CASE NetworkFails(t) \/ Flush(t)
  BY <1>9 DEF NetworkFails, Flush, QueueStep
<1>10. CASE WritePage(t) \/ WriteFails(t)
  BY <1>10, WorkFacts DEF WritePage, WriteFails, PutEmpty, QueueStep
<1>11. CASE ReadPage(t) \/ ReadFails(t)
  BY <1>11, WorkFacts DEF ReadPage, ReadFails, PutValid, PutEmpty, QueueStep
<1> QED
  BY <1>1, <1>2, <1>3, <1>4, <1>5, <1>6, <1>7, <1>8, <1>9, <1>10, <1>11, Zenon
     DEF Step

LEMMA IsFrame ==
  ASSUME IInv, NEW t \in Threads, Step(t)
  PROVE  Frame(t)
<1> USE DEF IInv, LocalTypes, GlobalTypes, Frame, End, GoTo, Drop, disk, pages, setup, content
<1>1. CASE Top(t)
  BY <1>1 DEF Top
<1>2. CASE SearchNext(t) \/ LookAt(t)
  BY <1>2 DEF SearchNext, LookAt
<1>3. CASE GetFails(t)
  BY <1>3 DEF GetFails
<1>4. CASE \E p \in Page : Got(t, p)
  BY <1>4 DEF Got
<1>5. CASE FillPageRandom(t)
  BY <1>5 DEF FillPageRandom, LocalInv, Local
<1>6. CASE CheckPage(t)
  BY <1>6 DEF CheckPage, PutEmpty, LocalInv, Local
<1>7. CASE InvertPage(t)
  BY <1>7 DEF InvertPage, LocalInv, Local
<1>8. CASE CopyPage(t)
  BY <1>8 DEF CopyPage, LocalInv, Local
<1>9. CASE PutSource(t)
  BY <1>9 DEF PutSource, PutEmpty, LocalInv, Local
<1>10. CASE NetworkFails(t)
  BY <1>10 DEF NetworkFails
<1>11. CASE WritePage(t)
  BY <1>11 DEF WritePage, PutEmpty, LocalInv, Local
<1>12. CASE WriteFails(t)
  BY <1>12 DEF WriteFails, PutEmpty, LocalInv, Local, InputOutputFails
<1>13. CASE Flush(t)
  BY <1>13 DEF Flush
<1>14. CASE ReadPage(t)
  BY <1>14 DEF ReadPage, LocalInv, Local
<1>15. CASE ReadFails(t)
  BY <1>15 DEF ReadFails, PutEmpty, LocalInv, Local, InputOutputFails
<1> QED
  BY <1>1, <1>2, <1>3, <1>4, <1>5, <1>6, <1>7, <1>8, <1>9, <1>10, <1>11,
     <1>12, <1>13, <1>14,
     <1>15, Zenon DEF Step

-----------------------------------------------------------------------------
(* Types.                                                                  *)

\* The page that a thread works on has a pattern and data.
LEMMA SourceFacts ==
  ASSUME IInv, NEW t \in Threads, src[t] # None, pc[t] # "put_src"
  PROVE  pattern[src[t]] \in Pattern /\ data[src[t]] \in Pattern \cup Flaws
BY WorkFacts DEF IInv, PatternInv, HasData, Source

\* What a thread's class is, in each phase.
LEMMA RoleFacts ==
  ASSUME LocalTypes, GlobalTypes, NEW t \in Threads
  PROVE  /\ role[t] \in {"copy", "net", "invert", "check", "file"}
         /\ phase = "fill" <=> Role(t) = "fill"
         /\ phase = "run" => Role(t) = role[t]
         /\ phase \in {"reap", "done"} => Role(t) = "check"
<1>1. role[t] \in {"copy", "net", "invert", "check", "file"}
  <2>1. PICK crew \in Crews : role[t] \in crew
    BY DEF LocalTypes
  <2>2. crew \subseteq {"copy", "net", "invert", "check", "file"}
    BY SatAssumption
  <2> QED
    BY <2>1, <2>2
<1> QED
  BY <1>1 DEF Role, GlobalTypes

\* The locals of a thread that ends.
LEMMA EndFacts ==
  ASSUME LocalTypes, NEW t \in Threads, End(t)
  PROVE  /\ pc' \in [Threads -> Labels] /\ pc'[t] = "ended"
         /\ src' \in [Threads -> Page \cup {None}] /\ src'[t] = None
         /\ dst' \in [Threads -> Page \cup {None}] /\ dst'[t] = None
         /\ file' \in [Threads -> Seq(PageRec)] /\ file'[t] = <<>>
         /\ result' \in [Threads -> BOOLEAN]
<1>1. <<>> \in Seq(PageRec)
  OBVIOUS
<1> QED
  BY <1>1 DEF LocalTypes, End, Labels

LEMMA TypesStep ==
  ASSUME IInv, NEW t \in Threads, Step(t)
  PROVE  LocalTypes' /\ GlobalTypes'
<1>0. ASSUME End(t), UNCHANGED <<role, strict, remaining>>
      PROVE  LocalTypes'
  BY <1>0, EndFacts DEF IInv, LocalTypes
<1> USE DEF IInv, LocalTypes, GlobalTypes, GoTo, Drop, disk, pages, setup, content, Labels
<1>1. CASE Top(t)
  <2>1. GlobalTypes' /\ UNCHANGED <<role, strict, remaining>>
    BY <1>1 DEF Top
  <2>2. CASE End(t)
    BY <1>0, <2>1, <2>2
  <2>3. CASE ~End(t)
    <3>1. PICK label \in Labels : pc' = [pc EXCEPT ![t] = label]
      BY <1>1, <2>3 DEF Top
    <3>2. UNCHANGED <<src, dst, file, result>>
      BY <1>1, <2>3 DEF Top
    <3> QED
      BY <2>1, <3>1, <3>2
  <2> QED
    BY <2>2, <2>3
<1>2. CASE SearchNext(t) \/ LookAt(t)
  BY <1>2 DEF SearchNext, LookAt
<1>3. CASE GetFails(t)
  BY <1>0, <1>3 DEF GetFails, Ready
<1>4. CASE \E p \in Page : Got(t, p)
  <2>1. PICK p \in Page : Got(t, p)
    BY <1>4
  <2>2. PICK label \in Labels : pc' = [pc EXCEPT ![t] = label]
    BY <2>1 DEF Got
  <2>3. /\ UNCHANGED <<role, strict, remaining, file, result>> /\ GlobalTypes'
        /\ src' \in [Threads -> Page \cup {None}] /\ dst' \in [Threads -> Page \cup {None}]
    BY <2>1 DEF Got
  <2> QED
    BY <2>2, <2>3
<1>5. CASE FillPageRandom(t)
  <2>1. remaining[t] - 1 \in Nat
    BY <1>5, RoleFacts DEF FillPageRandom, FillInv
  <2> QED
    BY <1>5, <2>1 DEF FillPageRandom
<1>6. CASE CheckPage(t)
  <2>1. src[t] # None
    BY <1>6 DEF LocalInv, Local, CheckPage
  <2> QED
    BY <1>6, <2>1, WorkFacts, SourceFacts DEF CheckPage, PutEmpty, Mismatch
<1>7. CASE InvertPage(t)
  <2>1. src[t] # None
    BY <1>7 DEF LocalInv, Local, InvertPage
  <2> QED
    BY <1>7, <2>1, WorkFacts, SourceFacts DEF InvertPage, Mismatch
<1>8. CASE CopyPage(t)
  <2>1. src[t] # None
    BY <1>8 DEF LocalInv, Local, CopyPage
  <2> QED
    BY <1>8, <2>1, WorkFacts, SourceFacts DEF CopyPage, Mismatch
<1>9. CASE PutSource(t)
  BY <1>9 DEF PutSource, PutEmpty
<1>10. CASE NetworkFails(t)
  BY <1>0, <1>10 DEF NetworkFails, Mismatch
<1>11. CASE WritePage(t)
  <2>1. [pattern |-> pattern[src[t]], data |-> SectorTagged(src[t])] \in PageRec
    BY <1>11, SourceFacts DEF WritePage, SectorTagged, PageRec
  <2>2. file' \in [Threads -> Seq(PageRec)]
    BY <1>11, <2>1 DEF WritePage
  <2> QED
    BY <1>11, <2>2 DEF WritePage, PutEmpty, Mismatch
<1>12. CASE WriteFails(t)
  BY <1>0, <1>12 DEF WriteFails, PutEmpty
<1>13. CASE Flush(t)
  <2>1. GlobalTypes' /\ UNCHANGED <<role, strict, remaining>>
    BY <1>13 DEF Flush
  <2> QED
    BY <1>0, <1>13, <2>1 DEF Flush
<1>14. CASE ReadPage(t)
  <2>1. file[t] # <<>>
    BY <1>14 DEF ReadPage, FileInv, File
  <2>2. Head(file[t]) \in PageRec /\ Tail(file[t]) \in Seq(PageRec)
    BY <2>1
  <2>3. file' \in [Threads -> Seq(PageRec)]
    BY <1>14, <2>2 DEF ReadPage
  <2>4. /\ Head(file[t]).pattern \in Pattern
        /\ Head(file[t]).data \in Pattern \cup Flaws
    BY <2>2 DEF PageRec
  <2> QED
    BY <1>14, <2>3, <2>4 DEF ReadPage
<1>15. CASE ReadFails(t)
  BY <1>0, <1>15 DEF ReadFails, PutEmpty
<1> QED
  BY <1>1, <1>2, <1>3, <1>4, <1>5, <1>6, <1>7, <1>8, <1>9, <1>10, <1>11,
     <1>12, <1>13, <1>14,
     <1>15, Zenon DEF Step

-----------------------------------------------------------------------------
(* The locals of a thread.                                                 *)

\* Whoever is not in a call has no page under its eyes.
LEMMA CallStep ==
  ASSUME IInv, NEW t \in Threads, Step(t)
  PROVE  CallInv'
<1>1. QueueTypes' /\ LocalTypes' /\ QueueFrame(t) /\ Frame(t) /\ QueueStep(t)
  BY IsQueueStep, QueueStepFacts, TypesStep, IsFrame DEF IInv
<1>2. ASSUME NEW u \in Threads, u # t, peek'[u] # None
      PROVE  pool'[peek'[u]] = pool[peek[u]] /\ peek'[u] = peek[u] /\ call'[u] = call[u]
  <2>1. peek[u] # None /\ peek'[u] = peek[u] /\ call'[u] = call[u] /\ peek[u] \in Page
    BY <1>1, <1>2 DEF QueueFrame, IInv, QueueTypes
  <2>2. pool[peek[u]] # "taken" /\ owner[peek[u]] = None
    BY <2>1 DEF IInv, CallInv, OwnerInv
  <2>3. owner'[peek[u]] # t
    BY <1>1, <2>1, <2>2, ValueAssumption DEF QueueStep, queue, Q!Get, Q!Fail,
       Q!Unpeek, Q!Take, Q!Peek, Q!Put, Q!Free, IInv, QueueTypes
  <2> QED
    BY <1>1, <2>1, <2>2, <2>3, ValueAssumption DEF QueueFrame
<1>3. ASSUME NEW u \in Threads, u # t
      PROVE  /\ call'[u] # None =>
                \/ pc'[u] = "get_src" /\ call'[u].kind = "valid"
                \/ pc'[u] = "get_dst" /\ call'[u].kind = "empty"
             /\ peek'[u] # None =>
                  call'[u] # None /\ pool'[peek'[u]] # "taken" /\ pool'[peek'[u]] # call'[u].kind
  BY <1>1, <1>2, <1>3 DEF IInv, CallInv, QueueFrame, Frame
<1>4. call[t] = None => peek[t] = None
  BY DEF IInv, CallInv
<1>5. ASSUME NEW label \in {"get_src", "get_dst"}, Search(t, label), pc'[t] = label
      PROVE  /\ peek'[t] = None
             /\ \/ pc'[t] = "get_src" /\ call'[t].kind = "valid"
                \/ pc'[t] = "get_dst" /\ call'[t].kind = "empty"
  <2>1. /\ call[t] = None /\ peek' = peek
        /\ call'[t] = [kind |-> IF label = "get_src" THEN "valid" ELSE "empty", mask |-> {0}]
    BY <1>5 DEF Search, Q!Get, IInv, QueueTypes
  <2> QED
    BY <1>4, <1>5, <2>1
<1>6. CASE pc[t] \notin {"get_src", "get_dst"} /\ UNCHANGED queue
  <2>1. call'[t] = None /\ peek'[t] = None
    BY <1>4, <1>6 DEF IInv, CallInv, queue
  <2> QED
    BY <1>3, <2>1 DEF CallInv
<1>7. CASE \/ Q!Fail(t) \/ \E p \in Page : Q!Take(t, p)
           \/ \E p : Q!Put(t, p, "empty") \/ Q!Put(t, p, "valid")
  <2>1. call'[t] = None /\ peek'[t] = None
    BY <1>4, <1>7 DEF IInv, QueueTypes, Q!Fail, Q!Take, Q!Put
  <2> QED
    BY <1>3, <2>1 DEF CallInv
<1>8. CASE Top(t)
  <2>1. CASE UNCHANGED queue
    BY <1>6, <1>8, <2>1 DEF Top
  <2>2. CASE \E label \in {"get_src", "get_dst"} : Search(t, label) /\ pc'[t] = label
    BY <1>3, <1>5, <2>2 DEF CallInv
  <2> QED
    BY <1>8, <2>1, <2>2 DEF Top, GoTo, IInv, LocalTypes
<1>9. CASE SearchNext(t)
  BY <1>3, <1>5, <1>9 DEF SearchNext, CallInv
<1>10. CASE LookAt(t)
  <2>1. pc' = pc
    BY <1>10 DEF LookAt
  <2>2. CASE Q!Unpeek(t)
    <3>1. call' = call /\ peek'[t] = None
      BY <2>2 DEF Q!Unpeek, IInv, QueueTypes
    <3> QED
      BY <1>3, <2>1, <3>1 DEF IInv, CallInv
  <2>3. CASE \E p \in Page : Q!Peek(t, p)
    <3>1. /\ call' = call /\ pool' = pool /\ call[t] # None
          /\ pool[peek'[t]] # "taken" /\ pool[peek'[t]] # call[t].kind
      BY <2>3 DEF Q!Peek, IInv, QueueTypes
    <3> QED
      BY <1>3, <2>1, <3>1 DEF IInv, CallInv
  <2> QED
    BY <1>10, <2>2, <2>3 DEF LookAt
<1>11. CASE GetFails(t) \/ \E p \in Page : Got(t, p)
  BY <1>7, <1>11 DEF GetFails, Got
<1>12. CASE NetworkFails(t) \/ Flush(t)
  BY <1>6, <1>12 DEF NetworkFails, Flush
<1>13. CASE \/ FillPageRandom(t) \/ CheckPage(t) \/ InvertPage(t) \/ CopyPage(t) \/ PutSource(t)
            \/ WritePage(t) \/ ReadPage(t) \/ WriteFails(t) \/ ReadFails(t)
  <2>1. \E p : Q!Put(t, p, "empty") \/ Q!Put(t, p, "valid")
    BY <1>13 DEF FillPageRandom, CheckPage, InvertPage, CopyPage, PutSource,
       WritePage, ReadPage, WriteFails, ReadFails, PutValid, PutEmpty
  <2> QED
    BY <1>7, <2>1
<1> QED
  BY <1>8, <1>9, <1>10, <1>11, <1>12, <1>13, Zenon DEF Step

\* The other threads keep their pages.
LEMMA OthersLocal ==
  ASSUME IInv, NEW t \in Threads, Step(t), NEW u \in Threads, u # t
  PROVE  Local(u)' /\ File(u)' /\ Role(u)' = Role(u)
<1>1. Frame(t) /\ QueueFrame(t)
  BY IsFrame, IsQueueStep, QueueStepFacts DEF IInv
<1>2. Role(u)' = Role(u)
  BY <1>1 DEF Frame, Role
<1>3. /\ pc'[u] = pc[u] /\ src'[u] = src[u] /\ dst'[u] = dst[u] /\ file'[u] = file[u]
  BY <1>1 DEF Frame
<1>4. /\ src[u] # None => owner'[src[u]] = u
      /\ dst[u] # None => owner'[dst[u]] = u
  BY <1>1, WorkFacts DEF QueueFrame
<1>5. Local(u)'
  BY <1>2, <1>3, <1>4 DEF IInv, LocalInv, Local
<1>6. File(u)'
  BY <1>2, <1>3 DEF IInv, FileInv, File
<1> QED
  BY <1>2, <1>5, <1>6

\* A thread's own pages.
LEMMA OwnLocal ==
  ASSUME IInv, NEW t \in Threads, Step(t)
  PROVE  Local(t)' /\ File(t)' /\ Role(t)' = Role(t)
<1>1. Frame(t) /\ LocalTypes
  BY IsFrame DEF IInv
<1>2. Role(t)' = Role(t)
  BY <1>1 DEF Frame, Role
<1>3. Local(t) /\ File(t) /\ DiskPages > 0
  BY SatAssumption DEF IInv, LocalInv, FileInv
<1>4. CASE End(t)
  BY <1>1, <1>2, <1>4, EndFacts, SatAssumption DEF Local, File
<1>5. CASE Top(t)
  <2>1. CASE End(t)
    BY <1>4, <2>1
  <2>2. CASE ~End(t)
    <3>1. /\ pc'[t] = IF Role(t) = "fill" THEN "get_dst" ELSE "get_src"
          /\ UNCHANGED <<src, dst, file>>
      BY <1>1, <1>5, <2>2 DEF Top, LocalTypes, GoTo, disk, pages
    <3>2. pc[t] = "top" /\ src[t] = None /\ dst[t] = None /\ file[t] = <<>>
      BY <1>3, <1>5 DEF Top, Local, File
    <3> QED
      BY <1>2, <1>3, <3>1, <3>2 DEF Local, File
  <2> QED
    BY <2>1, <2>2
<1>6. CASE SearchNext(t) \/ LookAt(t)
  <2>1. UNCHANGED <<pc, src, dst, file, owner>>
    BY <1>6 DEF SearchNext, LookAt, Search, Q!Get, Q!Unpeek, Q!Peek, pages,
       disk
  <2> QED
    BY <1>2, <1>3, <2>1 DEF Local, File
<1>7. CASE GetFails(t) \/ NetworkFails(t) \/ WriteFails(t) \/ ReadFails(t)
  BY <1>4, <1>7 DEF GetFails, NetworkFails, WriteFails, ReadFails
<1>8. CASE \E p \in Page : Got(t, p)
  <2>1. PICK p \in Page : Got(t, p)
    BY <1>8
  <2>2. /\ owner'[p] = t /\ owner[p] = None /\ UNCHANGED file /\ call[t] # None
        /\ \A q \in Page : q # p => owner'[q] = owner[q]
    BY <2>1 DEF Got, GoTo, disk, Q!Take, Q!Fits, IInv, QueueTypes, OwnerInv,
       Requests
  <2>3. CASE pc[t] = "get_src"
    <3>1. /\ src'[t] = p /\ dst' = dst /\ dst[t] = None /\ src[t] = None
          /\ pc'[t] = IF Role(t) \in {"copy", "net"} THEN "get_dst" ELSE "work"
      BY <1>1, <1>3, <2>1, <2>3 DEF Got, GoTo, LocalTypes, Local
    <3> QED
      BY <1>1, <1>2, <1>3, <2>2, <2>3, <3>1, RoleFacts, ValueAssumption DEF
         Local, File, IInv
  <2>4. CASE pc[t] # "get_src"
    <3>1. /\ src' = src /\ dst'[t] = p /\ pc'[t] = "work" /\ pc[t] = "get_dst" /\ dst[t] = None
      BY <1>1, <1>3, <2>1, <2>2, <2>4 DEF Got, GoTo, LocalTypes, Local, IInv,
         CallInv
    <3>2. src[t] # None => src[t] # p /\ owner'[src[t]] = t
      BY <2>2, WorkFacts, ValueAssumption
    <3> QED
      BY <1>1, <1>2, <1>3, <2>2, <3>1, <3>2, RoleFacts, ValueAssumption DEF
         Local, File, IInv
  <2> QED
    BY <2>3, <2>4
<1>9. CASE FillPageRandom(t) \/ CheckPage(t) \/ InvertPage(t) \/ PutSource(t)
  <2>1. /\ pc'[t] = "top" /\ src'[t] = None /\ dst'[t] = None /\ UNCHANGED file
        /\ pc[t] \in {"work", "put_src"} /\ (pc[t] = "work" => Role(t) # "file")
    BY <1>1, <1>9 DEF FillPageRandom, CheckPage, InvertPage, PutSource, Drop,
       GoTo, disk, LocalTypes
  <2>2. file[t] = <<>>
    BY <1>3, <2>1 DEF Local, File
  <2> QED
    BY <1>2, <1>3, <2>1, <2>2 DEF Local, File
<1>10. CASE CopyPage(t)
  <2>1. /\ pc'[t] = "put_src" /\ src' = src /\ dst'[t] = None /\ UNCHANGED file
        /\ pc[t] = "work" /\ Role(t) \in {"copy", "net"} /\ Q!Put(t, dst[t], "valid")
    BY <1>1, <1>10 DEF CopyPage, PutValid, GoTo, disk, LocalTypes
  <2>2. src[t] # None /\ dst[t] # None /\ src[t] # dst[t]
    BY <1>3, <2>1 DEF Local
  <2>3. owner'[src[t]] = t
    BY <2>1, <2>2, WorkFacts DEF Q!Put, IInv, QueueTypes
  <2> QED
    BY <1>2, <1>3, <2>1, <2>2, <2>3 DEF Local, File
<1>11. CASE WritePage(t)
  <2>1. /\ src'[t] = None /\ dst'[t] = None /\ Role(t) = "file" /\ pc[t] = "work"
        /\ pc'[t] = (IF Len(file'[t]) < DiskPages THEN "get_src" ELSE "flush")
        /\ \E r : file'[t] = Append(file[t], r)
    BY <1>1, <1>11 DEF WritePage, Drop, LocalTypes
  <2>2. /\ Len(file'[t]) = Len(file[t]) + 1 /\ file'[t] # <<>>
    <3>1. PICK r : file'[t] = Append(file[t], r)
      BY <2>1
    <3>2. file[t] \in Seq(PageRec \cup {r})
      BY <1>1 DEF LocalTypes
    <3> QED
      BY <3>1, <3>2
  <2>3. dst[t] = None /\ Len(file[t]) < DiskPages /\ Len(file[t]) \in Nat
    BY <1>1, <1>3, <1>11 DEF WritePage, Local, File, LocalTypes
  <2> QED
    BY <1>2, <1>3, <2>1, <2>2, <2>3, SatAssumption DEF Local, File
<1>12. CASE Flush(t)
  <2>1. CASE End(t)
    BY <1>4, <2>1
  <2>2. CASE ~End(t)
    <3>1. pc[t] = "flush" /\ pc'[t] = "get_dst" /\ UNCHANGED <<src, dst, file>>
      BY <1>1, <1>12, <2>2 DEF Flush, GoTo, disk, pages, LocalTypes
    <3> QED
      BY <1>2, <1>3, <3>1 DEF Local, File
  <2> QED
    BY <2>1, <2>2
<1>13. CASE ReadPage(t)
  <2>1. /\ src'[t] = None /\ dst'[t] = None /\ Role(t) = "file" /\ pc[t] = "work"
        /\ dst[t] # None /\ file'[t] = Tail(file[t])
        /\ pc'[t] \in (IF Len(file[t]) > 1 THEN {"get_dst"} ELSE {"top", "ended"})
    BY <1>1, <1>13 DEF ReadPage, Drop, LocalTypes
  <2>2. file[t] # <<>>
    BY <1>3, <2>1 DEF File
  <2>3. Len(file'[t]) = Len(file[t]) - 1 /\ Len(file[t]) \in Nat /\ file[t] \in Seq(PageRec)
    BY <1>1, <2>1, <2>2 DEF LocalTypes
  <2>4. file'[t] = <<>> <=> ~(Len(file[t]) > 1)
    <3>1. Tail(file[t]) \in Seq(PageRec) /\ Len(file[t]) # 0
      BY <2>2, <2>3
    <3>2. file'[t] = <<>> <=> Len(file'[t]) = 0
      BY <2>1, <3>1, EmptySeq
    <3> QED
      BY <2>3, <3>1, <3>2
  <2> QED
    BY <1>2, <1>3, <2>1, <2>2, <2>3, <2>4, SatAssumption DEF Local, File
<1> QED
  BY <1>5, <1>6, <1>7, <1>8, <1>9, <1>10, <1>11, <1>12, <1>13, Zenon DEF Step

-----------------------------------------------------------------------------
(* The pages.                                                              *)

\* A page that is put back, and the pages that stay with the thread.
LEMMA PutFacts ==
  ASSUME IInv, NEW t \in Threads, NEW p \in Page, NEW k, Q!Put(t, p, k)
  PROVE  /\ owner[p] = t /\ owner'[p] = None /\ pool'[p] = k
         /\ \A q \in Page : q # p => owner'[q] = owner[q] /\ pool'[q] = pool[q]
BY DEF IInv, QueueTypes, Q!Put

\* What each step does to the pages of the thread.
LEMMA Puts ==
  ASSUME IInv, NEW t \in Threads
  PROVE  /\ FillPageRandom(t) =>
              /\ phase = "fill" /\ pc[t] = "work" /\ src[t] = None /\ dst[t] \in Page
              /\ Q!Put(t, dst[t], "valid") /\ src'[t] = None /\ dst'[t] = None
              /\ data'[dst[t]] \in Pattern /\ pattern'[dst[t]] = data'[dst[t]]
         /\ CheckPage(t) \/ InvertPage(t) =>
              /\ src[t] \in Page /\ dst[t] = None /\ src'[t] = None /\ dst'[t] = None
              /\ Source(t, src[t])
         /\ CheckPage(t) =>
              /\ \/ Q!Put(t, src[t], "valid") /\ Ready(t)
                 \/ Q!Put(t, src[t], "empty")
              /\ Ready(t) => pattern' = pattern /\ data'[src[t]] = pattern[src[t]]
              /\ errors' = (errors \/ Mismatch(src[t]))
         /\ InvertPage(t) =>
              /\ Q!Put(t, src[t], "valid")
              /\ pattern' = pattern
              /\ data'[src[t]] = (IF strict THEN pattern[src[t]] ELSE data[src[t]])
              /\ errors' = (errors \/ (strict /\ Mismatch(src[t])))
         /\ CopyPage(t) =>
              /\ src[t] \in Page /\ dst[t] \in Page /\ src[t] # dst[t]
              /\ src'[t] = src[t] /\ dst'[t] = None /\ pc'[t] = "put_src"
              /\ Q!Put(t, dst[t], "valid") /\ Source(t, src[t])
              /\ pattern'[dst[t]] = pattern[src[t]]
              /\ data'[dst[t]] = (IF Checks(t) THEN pattern[src[t]] ELSE data[src[t]])
              /\ errors' = (errors \/ (Checks(t) /\ Mismatch(src[t])))
         /\ PutSource(t) =>
              /\ src[t] \in Page /\ dst[t] = None /\ src'[t] = None /\ dst'[t] = None
              /\ Q!Put(t, src[t], "empty")
         /\ WritePage(t) \/ WriteFails(t) =>
              /\ src[t] \in Page /\ dst[t] = None /\ src'[t] = None /\ dst'[t] = None
              /\ Q!Put(t, src[t], "empty") /\ Source(t, src[t])
         /\ ReadPage(t) \/ ReadFails(t) =>
              /\ src[t] = None /\ dst[t] \in Page /\ src'[t] = None /\ dst'[t] = None
         /\ ReadFails(t) => Q!Put(t, dst[t], "empty")
         /\ ReadPage(t) =>
              /\ Q!Put(t, dst[t], "valid")
              /\ file[t] # <<>>
              /\ pattern'[dst[t]] = Head(file[t]).pattern
              /\ data'[dst[t]] = IF strict \/ Head(file[t]).data = "tag_word"
                                 THEN Head(file[t]).pattern ELSE Head(file[t]).data
<1>1. LocalTypes /\ GlobalTypes /\ Local(t) /\ File(t)
  BY DEF IInv, LocalInv, FileInv
<1> USE DEF Drop, GoTo, End
<1>2. FillPageRandom(t) =>
        /\ phase = "fill" /\ pc[t] = "work" /\ src[t] = None /\ dst[t] \in Page
        /\ Q!Put(t, dst[t], "valid") /\ src'[t] = None /\ dst'[t] = None
        /\ data'[dst[t]] \in Pattern /\ pattern'[dst[t]] = data'[dst[t]]
  BY <1>1, WorkFacts, RoleFacts DEF FillPageRandom, PutValid, Local,
     LocalTypes, GlobalTypes
<1>3. CheckPage(t) \/ InvertPage(t) =>
        /\ src[t] \in Page /\ dst[t] = None /\ src'[t] = None /\ dst'[t] = None
        /\ Source(t, src[t])
  BY <1>1, WorkFacts DEF CheckPage, InvertPage, Local, LocalTypes, Source
<1>4. CheckPage(t) =>
        /\ \/ Q!Put(t, src[t], "valid") /\ Ready(t)
           \/ Q!Put(t, src[t], "empty")
        /\ Ready(t) => pattern' = pattern /\ data'[src[t]] = pattern[src[t]]
        /\ errors' = (errors \/ Mismatch(src[t]))
  BY <1>1, <1>3 DEF CheckPage, PutValid, PutEmpty, GlobalTypes
<1>5. InvertPage(t) =>
        /\ Q!Put(t, src[t], "valid")
        /\ pattern' = pattern
        /\ data'[src[t]] = (IF strict THEN pattern[src[t]] ELSE data[src[t]])
        /\ errors' = (errors \/ (strict /\ Mismatch(src[t])))
  BY <1>1, <1>3 DEF InvertPage, PutValid, GlobalTypes
<1>6. CopyPage(t) =>
        /\ src[t] \in Page /\ dst[t] \in Page /\ src[t] # dst[t]
        /\ src'[t] = src[t] /\ dst'[t] = None /\ pc'[t] = "put_src"
        /\ Q!Put(t, dst[t], "valid") /\ Source(t, src[t])
        /\ pattern'[dst[t]] = pattern[src[t]]
        /\ data'[dst[t]] = (IF Checks(t) THEN pattern[src[t]] ELSE data[src[t]])
        /\ errors' = (errors \/ (Checks(t) /\ Mismatch(src[t])))
  BY <1>1, WorkFacts DEF CopyPage, PutValid, Local, LocalTypes, GlobalTypes,
     Source
<1>7. PutSource(t) =>
        /\ src[t] \in Page /\ dst[t] = None /\ src'[t] = None /\ dst'[t] = None
        /\ Q!Put(t, src[t], "empty")
  BY <1>1, WorkFacts DEF PutSource, PutEmpty, Local, LocalTypes
<1>8. WritePage(t) \/ WriteFails(t) =>
        /\ src[t] \in Page /\ dst[t] = None /\ src'[t] = None /\ dst'[t] = None
        /\ Q!Put(t, src[t], "empty") /\ Source(t, src[t])
  BY <1>1, WorkFacts DEF WritePage, WriteFails, PutEmpty, Local, LocalTypes,
     Source
<1>9. ReadPage(t) \/ ReadFails(t) =>
        /\ src[t] = None /\ dst[t] \in Page /\ src'[t] = None /\ dst'[t] = None
  BY <1>1, WorkFacts DEF ReadPage, ReadFails, Local, LocalTypes
<1>10. ReadFails(t) => Q!Put(t, dst[t], "empty")
  BY DEF ReadFails, PutEmpty
<1>11. ReadPage(t) =>
         /\ Q!Put(t, dst[t], "valid")
         /\ file[t] # <<>>
         /\ pattern'[dst[t]] = Head(file[t]).pattern
         /\ data'[dst[t]] = IF strict \/ Head(file[t]).data = "tag_word"
                            THEN Head(file[t]).pattern ELSE Head(file[t]).data
  BY <1>1, <1>9 DEF ReadPage, PutValid, File, GlobalTypes
<1> QED
  BY <1>2, <1>3, <1>4, <1>5, <1>6, <1>7, <1>8, <1>9, <1>10, <1>11, Zenon

\* A page is taken.
LEMMA GotFacts ==
  ASSUME IInv, NEW t \in Threads, NEW p \in Page, Got(t, p)
  PROVE  /\ UNCHANGED <<data, pattern, errors, failed, faults, file, remaining>>
         /\ owner[p] = None /\ owner'[p] = t /\ pool'[p] = "taken"
         /\ \A q \in Page : q # p => owner'[q] = owner[q] /\ pool'[q] = pool[q]
         /\ \/ /\ pc[t] = "get_src" /\ pool[p] = "valid" /\ src[t] = None /\ dst[t] = None
               /\ src'[t] = p /\ dst'[t] = None /\ pc'[t] \in {"get_dst", "work"}
            \/ /\ pc[t] = "get_dst" /\ pool[p] = "empty" /\ dst[t] = None
               /\ src'[t] = src[t] /\ dst'[t] = p /\ pc'[t] = "work"
<1>1. Q!Take(t, p) /\ QueueTypes /\ LocalTypes /\ Local(t)
  BY DEF Got, IInv, LocalInv
<1>2. /\ pool[p] = call[t].kind /\ call[t] # None /\ call[t].kind \in {"empty", "valid"}
      /\ owner'[p] = t /\ pool'[p] = "taken"
      /\ \A q \in Page : q # p => owner'[q] = owner[q] /\ pool'[q] = pool[q]
  BY <1>1 DEF Q!Take, Q!Fits, QueueTypes, Requests
<1>3. owner[p] = None
  BY <1>2 DEF IInv, OwnerInv
<1>4. UNCHANGED <<data, pattern, errors, failed, faults, file, remaining>>
  BY DEF Got, GoTo, disk, content
<1>5. CASE pc[t] = "get_src"
  <2>1. pool[p] = "valid" /\ src[t] = None /\ dst[t] = None
    BY <1>1, <1>2, <1>5 DEF Local, IInv, CallInv
  <2>2. src'[t] = p /\ dst'[t] = dst[t] /\ pc'[t] \in {"get_dst", "work"}
    BY <1>1, <1>5 DEF Got, GoTo, LocalTypes
  <2> QED
    BY <1>2, <1>3, <1>4, <1>5, <2>1, <2>2
<1>6. CASE pc[t] # "get_src"
  <2>1. pc[t] = "get_dst" /\ pool[p] = "empty" /\ dst[t] = None
    BY <1>1, <1>2, <1>6 DEF Local, IInv, CallInv
  <2>2. dst'[t] = p /\ src'[t] = src[t] /\ pc'[t] = "work"
    BY <1>1, <1>6 DEF Got, GoTo, LocalTypes
  <2> QED
    BY <1>2, <1>3, <1>4, <2>1, <2>2
<1> QED
  BY <1>5, <1>6

\* Neither a search nor the end of a thread moves a page.
LEMMA SearchFacts ==
  ASSUME IInv, NEW t \in Threads
  PROVE  /\ Top(t) \/ SearchNext(t) \/ LookAt(t) \/ GetFails(t) \/ NetworkFails(t) \/ Flush(t) =>
              UNCHANGED <<pool, owner, data, pattern, faults, remaining>>
         /\ Top(t) \/ SearchNext(t) \/ LookAt(t) \/ Flush(t) =>
              /\ UNCHANGED <<errors, failed>>
              /\ src'[t] = src[t] /\ dst'[t] = dst[t]
              /\ pc[t] # "put_src" => pc'[t] # "put_src"
              /\ file'[t] \in {file[t], <<>>}
         /\ SearchNext(t) \/ LookAt(t) => UNCHANGED <<pc, src, dst, file>>
         /\ GetFails(t) \/ NetworkFails(t) =>
              src'[t] = None /\ dst'[t] = None /\ file'[t] = <<>>
         /\ GetFails(t) =>
              /\ UNCHANGED errors
              /\ failed' \/ (src[t] = None /\ dst[t] = None)
         /\ NetworkFails(t) =>
              /\ failed' /\ errors' = (errors \/ (strict /\ Mismatch(src[t])))
              /\ pc[t] = "work" /\ src[t] # None
<1>1. LocalTypes /\ GlobalTypes /\ Local(t)
  BY DEF IInv, LocalInv
<1>2. Top(t) \/ SearchNext(t) \/ LookAt(t) \/ GetFails(t) \/ NetworkFails(t) \/ Flush(t) =>
        UNCHANGED <<pool, owner, data, pattern, faults, remaining>>
  BY DEF Top, SearchNext, LookAt, GetFails, NetworkFails, Flush, Search,
     Q!Get, Q!Unpeek, Q!Peek, Q!Fail, queue, content
<1>3. SearchNext(t) \/ LookAt(t) => UNCHANGED <<pc, src, dst, file>>
  BY DEF SearchNext, LookAt, pages, disk
<1>4. Top(t) \/ SearchNext(t) \/ LookAt(t) \/ Flush(t) => UNCHANGED <<errors, failed>>
  BY DEF Top, SearchNext, LookAt, Flush
<1>5. Top(t) \/ Flush(t) =>
        /\ src'[t] = src[t] /\ dst'[t] = dst[t] /\ pc'[t] # "put_src"
        /\ file'[t] \in {file[t], <<>>}
  <2> SUFFICES ASSUME Top(t) \/ Flush(t)
               PROVE  /\ src'[t] = src[t] /\ dst'[t] = dst[t] /\ pc'[t] # "put_src"
                      /\ file'[t] \in {file[t], <<>>}
    OBVIOUS
  <2>1. src[t] = None /\ dst[t] = None
    BY <1>1 DEF Top, Flush, Local
  <2>2. CASE End(t)
    BY <1>1, <2>1, <2>2, EndFacts
  <2>3. CASE ~End(t)
    BY <1>1, <2>3 DEF Top, Flush, GoTo, pages, disk, LocalTypes
  <2> QED
    BY <2>2, <2>3
<1>6. GetFails(t) \/ NetworkFails(t) => src'[t] = None /\ dst'[t] = None /\ file'[t] = <<>>
  BY <1>1, EndFacts DEF GetFails, NetworkFails
<1>7. GetFails(t) => failed' \/ (src[t] = None /\ dst[t] = None)
  <2> SUFFICES ASSUME GetFails(t), ~failed' PROVE src[t] = None /\ dst[t] = None
    OBVIOUS
  <2>1. pc[t] \in {"get_src", "get_dst"}
    BY DEF GetFails, Q!Fail, IInv, CallInv
  <2>2. Role(t) \in {"check", "file"}
    BY DEF GetFails
  <2> QED
    BY <1>1, <2>1, <2>2 DEF Local
<1>8. NetworkFails(t) =>
        /\ failed' /\ errors' = (errors \/ (strict /\ Mismatch(src[t])))
        /\ pc[t] = "work" /\ src[t] # None
  BY <1>1 DEF NetworkFails, Local
<1> QED
  BY <1>2, <1>3, <1>4, <1>5, <1>6, <1>7, <1>8 DEF GetFails

\* A thread that gives up with a page has failed.
LEMMA HeldStep ==
  ASSUME IInv, NEW t \in Threads, Step(t)
  PROVE  HeldInv'
<1>1. /\ Frame(t) /\ QueueFrame(t) /\ OwnerInv' /\ QueueTypes' /\ QueueTypes /\ LocalTypes
      /\ HeldInv /\ OwnerInv
  BY IsFrame, IsQueueStep, QueueStepFacts DEF IInv
<1>2. failed' \/ \A p \in Page : owner'[p] = t => src'[t] = p \/ dst'[t] = p
  <2> SUFFICES ASSUME ~failed', NEW p \in Page, owner'[p] = t
               PROVE  src'[t] = p \/ dst'[t] = p
    OBVIOUS
  <2>1. owner[p] = t => src[t] = p \/ dst[t] = p
    BY <1>1, ValueAssumption DEF Frame, HeldInv, OwnerInv
  <2>2. CASE Top(t) \/ SearchNext(t) \/ LookAt(t) \/ Flush(t) \/ GetFails(t) \/ NetworkFails(t)
    BY <2>1, <2>2, SearchFacts, ValueAssumption
  <2>3. CASE \E q \in Page : Got(t, q)
    BY <2>1, <2>3, GotFacts, ValueAssumption
  <2>4. CASE FillPageRandom(t)
    BY <2>1, <2>4, Puts, PutFacts, ValueAssumption
  <2>5. CASE CheckPage(t) \/ InvertPage(t)
    BY <2>1, <2>5, Puts, PutFacts, ValueAssumption
  <2>6. CASE CopyPage(t)
    BY <2>1, <2>6, Puts, PutFacts, ValueAssumption
  <2>7. CASE PutSource(t) \/ WritePage(t) \/ WriteFails(t)
    BY <2>1, <2>7, Puts, PutFacts, ValueAssumption
  <2>8. CASE ReadPage(t) \/ ReadFails(t)
    BY <2>1, <2>8, Puts, PutFacts, ValueAssumption
  <2> QED
    BY <2>2, <2>3, <2>4, <2>5, <2>6, <2>7, <2>8, Zenon DEF Step
<1>3. ASSUME ~failed', NEW p \in Page, pool'[p] = "taken", owner'[p] # t
      PROVE  src'[owner'[p]] = p \/ dst'[owner'[p]] = p
  <2>1. owner'[p] \in Threads /\ owner'[p] = owner[p]
    BY <1>1, <1>3 DEF OwnerInv, QueueTypes, QueueFrame
  <2>2. ~failed /\ pool[p] = "taken"
    BY <1>1, <1>3, <2>1, ValueAssumption DEF Frame, OwnerInv
  <2> QED
    BY <1>1, <1>3, <2>1, <2>2 DEF HeldInv, Frame
<1> QED
  BY <1>2, <1>3 DEF HeldInv

\* Where the data of a page come from.
LEMMA NewData ==
  ASSUME IInv, NEW t \in Threads, Step(t), NEW p \in Page, HasData(p)'
  PROVE  \/ HasData(p) /\ data'[p] = data[p] /\ pattern'[p] = pattern[p]
         \/ FillPageRandom(t) /\ p = dst[t]
         \/ CheckPage(t) /\ p = src[t] /\ Ready(t)
         \/ InvertPage(t) /\ p = src[t]
         \/ CopyPage(t) /\ p = dst[t]
         \/ ReadPage(t) /\ p = dst[t]
<1>1. Frame(t) /\ QueueFrame(t) /\ OwnerInv' /\ OwnerInv
  BY IsFrame, IsQueueStep, QueueStepFacts DEF IInv
<1>2. ASSUME NEW u \in Threads, u # t, Source(u, p)'
      PROVE  HasData(p) /\ data'[p] = data[p] /\ pattern'[p] = pattern[p]
  <2>1. Source(u, p) /\ owner[p] = u
    BY <1>1, <1>2, WorkFacts, ValueAssumption DEF Frame, Source
  <2> QED
    BY <1>1, <1>2, <2>1 DEF Frame, HasData
<1>3. ASSUME owner[p] # t, pool'[p] = "valid"
      PROVE  HasData(p) /\ data'[p] = data[p] /\ pattern'[p] = pattern[p]
  <2>1. owner'[p] = None
    BY <1>1, <1>3 DEF OwnerInv
  <2>2. pool'[p] = pool[p]
    BY <1>1, <1>3, <2>1, ValueAssumption DEF QueueFrame
  <2> QED
    BY <1>1, <1>3, <2>2 DEF Frame, HasData
<1>4. CASE Top(t) \/ SearchNext(t) \/ LookAt(t) \/ Flush(t)
  <2>1. pool' = pool /\ data' = data /\ pattern' = pattern /\ src'[t] = src[t]
    BY <1>4, SearchFacts
  <2>2. Source(t, p)' => Source(t, p)
    <3>1. pc[t] = "put_src" => pc'[t] = "put_src"
      BY <1>4, SearchFacts DEF Top, Flush
    <3> QED
      BY <2>1, <3>1 DEF Source
  <2> QED
    BY <1>2, <2>1, <2>2 DEF HasData
<1>5. CASE GetFails(t) \/ NetworkFails(t)
  <2>1. pool' = pool /\ data' = data /\ pattern' = pattern /\ src'[t] = None
    BY <1>5, SearchFacts
  <2>2. ~Source(t, p)'
    BY <2>1, ValueAssumption DEF Source
  <2> QED
    BY <1>2, <2>1, <2>2 DEF HasData
<1>6. CASE \E q \in Page : Got(t, q)
  <2>1. PICK q \in Page : Got(t, q)
    BY <1>6
  <2>2. data' = data /\ pattern' = pattern
    BY <2>1, GotFacts
  <2>3. Source(t, p)' => HasData(p)
    BY <2>1, GotFacts DEF Source, HasData
  <2>4. pool'[p] = "valid" => HasData(p)
    BY <2>1, GotFacts DEF HasData
  <2> QED
    BY <1>2, <2>2, <2>3, <2>4 DEF HasData
<1>7. CASE \/ FillPageRandom(t) \/ CheckPage(t) \/ InvertPage(t) \/ CopyPage(t) \/ PutSource(t)
           \/ WritePage(t) \/ ReadPage(t) \/ WriteFails(t) \/ ReadFails(t)
  <2>1. ~Source(t, p)'
    BY <1>7, Puts, ValueAssumption DEF Source
  <2>2. ASSUME owner[p] = t, pool'[p] = "valid"
        PROVE  \/ FillPageRandom(t) /\ p = dst[t]
               \/ CheckPage(t) /\ p = src[t] /\ Ready(t)
               \/ InvertPage(t) /\ p = src[t]
               \/ CopyPage(t) /\ p = dst[t]
               \/ ReadPage(t) /\ p = dst[t]
    <3>1. pool[p] # "valid"
      BY <1>1, <2>2, ValueAssumption DEF OwnerInv
    <3>2. CASE FillPageRandom(t) \/ InvertPage(t) \/ CopyPage(t) \/ ReadPage(t)
      BY <2>2, <3>1, <3>2, Puts, PutFacts
    <3>3. CASE CheckPage(t)
      BY <2>2, <3>1, <3>3, Puts, PutFacts
    <3>4. CASE PutSource(t) \/ WritePage(t) \/ WriteFails(t) \/ ReadFails(t)
      BY <2>2, <3>1, <3>4, Puts, PutFacts
    <3> QED
      BY <1>7, <3>2, <3>3, <3>4
  <2> QED
    BY <1>2, <1>3, <2>1, <2>2 DEF HasData
<1> QED
  BY <1>4, <1>5, <1>6, <1>7, Zenon DEF Step

LEMMA PatternStep ==
  ASSUME IInv, NEW t \in Threads, Step(t)
  PROVE  PatternInv'
<1> SUFFICES ASSUME NEW p \in Page, HasData(p)'
             PROVE  pattern'[p] \in Pattern /\ data'[p] \in Pattern \cup Flaws
  BY DEF PatternInv
<1>1. CASE HasData(p) /\ data'[p] = data[p] /\ pattern'[p] = pattern[p]
  BY <1>1 DEF IInv, PatternInv
<1>2. CASE FillPageRandom(t) /\ p = dst[t]
  BY <1>2, Puts
<1>3. src[t] # None /\ pc[t] # "put_src" =>
        pattern[src[t]] \in Pattern /\ data[src[t]] \in Pattern \cup Flaws
  BY SourceFacts
<1>4. CASE (CheckPage(t) /\ p = src[t] /\ Ready(t)) \/ (InvertPage(t) /\ p = src[t])
  BY <1>3, <1>4, Puts, ValueAssumption DEF Source
<1>5. CASE CopyPage(t) /\ p = dst[t]
  BY <1>3, <1>5, Puts, ValueAssumption DEF Source
<1>6. CASE ReadPage(t) /\ p = dst[t]
  <2>1. Head(file[t]) \in PageRec
    <3>1. file[t] # <<>>
      BY <1>6, Puts
    <3>2. file[t] \in Seq(PageRec)
      BY DEF IInv, LocalTypes
    <3> QED
      BY <3>1, <3>2
  <2>2. Head(file[t]).pattern \in Pattern /\ Head(file[t]).data \in Pattern \cup Flaws
    BY <2>1 DEF PageRec
  <2> QED
    BY <1>6, <2>2, Puts
<1> QED
  BY <1>1, <1>2, <1>4, <1>5, <1>6, NewData

\* Without faults no step finds, makes or writes a mismatch.
LEMMA CleanStep ==
  ASSUME IInv, NEW t \in Threads, Step(t)
  PROVE  CleanInv'
<1> SUFFICES ASSUME faults' = {}
             PROVE  /\ ~errors'
                    /\ \A p \in Page : HasData(p)' => ~Mismatch(p)'
                    /\ \A u \in Threads : \A i \in 1 .. Len(file'[u]) :
                         file'[u][i].data = file'[u][i].pattern
  BY DEF CleanInv
<1>1. Frame(t) /\ faults = {} /\ LocalTypes /\ LocalTypes'
  BY IsFrame, TypesStep DEF Frame, IInv
<1>2. /\ ~errors
      /\ \A p \in Page : HasData(p) => ~Mismatch(p)
      /\ \A u \in Threads : \A i \in 1 .. Len(file[u]) : file[u][i].data = file[u][i].pattern
  BY <1>1 DEF IInv, CleanInv
<1>3. ~WriteFails(t) /\ ~ReadFails(t)
  BY DEF WriteFails, ReadFails, InputOutputFails
<1>4. src[t] # None /\ pc[t] # "put_src" => ~Mismatch(src[t])
  BY <1>2, WorkFacts DEF HasData, Source
<1>5. ASSUME file[t] # <<>>
      PROVE  /\ Head(file[t]).data = Head(file[t]).pattern
             /\ Head(file[t]).data \notin Flaws
  <2>1. file[t] \in Seq(PageRec)
    BY <1>1 DEF LocalTypes
  <2>2. Head(file[t]) = file[t][1] /\ 1 \in 1 .. Len(file[t]) /\ Head(file[t]) \in PageRec
    BY <1>5, <2>1
  <2>3. Head(file[t]).data = Head(file[t]).pattern
    BY <1>2, <2>2
  <2>4. Head(file[t]).pattern \in Pattern
    BY <2>2 DEF PageRec
  <2> QED
    BY <2>3, <2>4, ValueAssumption
<1>6. ~errors'
  <2>1. CASE Top(t) \/ SearchNext(t) \/ LookAt(t) \/ Flush(t) \/ GetFails(t)
    BY <1>2, <2>1, SearchFacts
  <2>2. CASE NetworkFails(t)
    BY <1>2, <1>4, <2>2, SearchFacts
  <2>3. CASE \E q \in Page : Got(t, q)
    BY <1>2, <2>3, GotFacts
  <2>4. CASE CheckPage(t) \/ InvertPage(t) \/ CopyPage(t)
    BY <1>2, <1>4, <2>4, Puts, ValueAssumption DEF Source
  <2>5. CASE FillPageRandom(t) \/ PutSource(t)
    BY <1>2, <2>5 DEF FillPageRandom, PutSource
  <2>6. CASE WritePage(t)
    BY <1>2, <1>4, <2>6 DEF WritePage
  <2>7. CASE ReadPage(t)
    <3>1. file[t] # <<>>
      BY <2>7, Puts
    <3> QED
      BY <1>2, <1>5, <2>7, <3>1 DEF ReadPage, Flaws
  <2> QED
    BY <1>3, <2>1, <2>2, <2>3, <2>4, <2>5, <2>6, <2>7, Zenon DEF Step
<1>7. ASSUME NEW p \in Page, HasData(p)' PROVE data'[p] = pattern'[p]
  <2>1. CASE HasData(p) /\ data'[p] = data[p] /\ pattern'[p] = pattern[p]
    BY <1>2, <2>1 DEF Mismatch
  <2>2. CASE FillPageRandom(t) /\ p = dst[t]
    BY <2>2, Puts
  <2>3. CASE (CheckPage(t) /\ p = src[t] /\ Ready(t)) \/ (InvertPage(t) /\ p = src[t])
    BY <1>4, <2>3, Puts, ValueAssumption DEF Source, Mismatch
  <2>4. CASE CopyPage(t) /\ p = dst[t]
    BY <1>4, <2>4, Puts, ValueAssumption DEF Source, Mismatch
  <2>5. CASE ReadPage(t) /\ p = dst[t]
    BY <1>5, <2>5, Puts
  <2> QED
    BY <1>7, <2>1, <2>2, <2>3, <2>4, <2>5, NewData
<1>8. \A u \in Threads : \A i \in 1 .. Len(file'[u]) : file'[u][i].data = file'[u][i].pattern
  <2>1. ASSUME NEW u \in Threads, file'[u] \in {file[u], <<>>}, NEW i \in 1 .. Len(file'[u])
        PROVE  file'[u][i].data = file'[u][i].pattern
    BY <1>2, <2>1
  <2>2. \A u \in Threads : u # t => file'[u] = file[u]
    BY <1>1 DEF Frame
  <2>3. CASE file'[t] \in {file[t], <<>>}
    BY <2>1, <2>2, <2>3
  <2>4. CASE WritePage(t)
    <3>1. PICK r : r = [pattern |-> pattern[src[t]], data |-> SectorTagged(src[t])]
      OBVIOUS
    <3>2. file'[t] = Append(file[t], r) /\ src[t] # None /\ pc[t] = "work"
      BY <1>1, <2>4, <3>1 DEF WritePage, LocalTypes
    <3>3. r.data = r.pattern
      BY <1>4, <3>1, <3>2 DEF SectorTagged, Mismatch
    <3>4. file[t] \in Seq(PageRec \cup {r}) /\ r \in PageRec \cup {r}
      BY <1>1 DEF LocalTypes
    <3>5. \A i \in 1 .. Len(file'[t]) : file'[t][i] = r \/ (i \in 1 .. Len(file[t]) /\ file'[t][i] = file[t][i])
      BY <3>2, <3>4
    <3> QED
      BY <1>2, <2>1, <2>2, <3>3, <3>5
  <2>5. CASE ReadPage(t)
    <3>1. file[t] # <<>> /\ file'[t] = Tail(file[t]) /\ file[t] \in Seq(PageRec)
      BY <1>1, <2>5, Puts DEF ReadPage, LocalTypes
    <3>2. \A i \in 1 .. Len(file'[t]) : i + 1 \in 1 .. Len(file[t]) /\ file'[t][i] = file[t][i + 1]
      BY <3>1
    <3> QED
      BY <1>2, <2>1, <2>2, <3>2
  <2>6. CASE ~WritePage(t) /\ ~ReadPage(t)
    <3>1. CASE \/ FillPageRandom(t) \/ CheckPage(t) \/ InvertPage(t) \/ CopyPage(t) \/ PutSource(t)
      BY <2>3, <3>1 DEF FillPageRandom, CheckPage, InvertPage, CopyPage,
         PutSource, GoTo, disk
    <3>2. CASE Top(t) \/ SearchNext(t) \/ LookAt(t) \/ Flush(t) \/ GetFails(t) \/ NetworkFails(t)
      BY <2>3, <3>2, SearchFacts
    <3>3. CASE \E q \in Page : Got(t, q)
      BY <2>3, <3>3, GotFacts
    <3> QED
      BY <1>3, <2>6, <3>1, <3>2, <3>3, Zenon DEF Step
  <2> QED
    BY <2>4, <2>5, <2>6
<1> QED
  BY <1>6, <1>7, <1>8 DEF Mismatch

\* A flaw is found, copied or kept.
LEMMA FlawStep ==
  ASSUME IInv, NEW t \in Threads, Step(t)
  PROVE  FlawInv'
<1> SUFFICES ASSUME "memory" \in faults', strict \/ \A u \in Threads : role[u] # "file", ~errors', ~failed'
             PROVE  \E p \in Page : HasData(p)' /\ data'[p] # pattern'[p]
  BY IsFrame DEF FlawInv, Frame, Mismatch
<1>1. Frame(t) /\ QueueFrame(t) /\ OwnerInv
  BY IsFrame, IsQueueStep, QueueStepFacts DEF IInv
<1>2. "memory" \in faults
  <2>1. faults' = faults \/ faults' = faults \cup {"io"}
    BY SearchFacts, GotFacts DEF Step, FillPageRandom, CheckPage, InvertPage,
       CopyPage, PutSource, WritePage, ReadPage, WriteFails, ReadFails,
       InputOutputFails
  <2> QED
    BY <2>1
<1>3. ~errors /\ ~failed
  BY <1>1 DEF Frame
<1>4. PICK p \in Page : HasData(p) /\ data[p] # pattern[p]
  BY <1>2, <1>3 DEF IInv, FlawInv, Mismatch
<1>5. CASE owner[p] # t /\ owner'[p] # t
  <2>1. data'[p] = data[p] /\ pattern'[p] = pattern[p] /\ pool'[p] = pool[p]
    BY <1>1, <1>5 DEF Frame, QueueFrame
  <2>2. ASSUME NEW u \in Threads, Source(u, p) PROVE Source(u, p)'
    <3>1. u # t
      BY <1>5, <2>2, WorkFacts, ValueAssumption DEF Source
    <3> QED
      BY <1>1, <2>2, <3>1 DEF Frame, Source
  <2> QED
    BY <1>4, <2>1, <2>2 DEF HasData
<1>6. CASE owner[p] # t /\ owner'[p] = t
  <2>1. PICK q \in Page : Got(t, q)
    BY <1>6, SearchFacts, Puts, PutFacts, ValueAssumption DEF Step
  <2>2. p = q /\ pool[p] = "valid" 
    BY <1>4, <1>6, <2>1, GotFacts, WorkFacts, ValueAssumption DEF HasData,
       Source
  <2>3. src'[t] = p /\ pc'[t] # "put_src" /\ data' = data /\ pattern' = pattern
    BY <2>1, <2>2, GotFacts
  <2> QED
    BY <1>4, <2>3 DEF HasData, Source
<1>7. CASE owner[p] = t
  <2>1. src[t] = p /\ pc[t] # "put_src" /\ src[t] # None
    BY <1>1, <1>4, <1>7, WorkFacts, ValueAssumption DEF HasData, Source,
       OwnerInv
  <2>2. Mismatch(src[t])
    BY <1>4, <2>1 DEF Mismatch
  <2>3. CASE Top(t) \/ SearchNext(t) \/ LookAt(t) \/ Flush(t)
    BY <1>4, <2>1, <2>3, SearchFacts DEF HasData, Source
  <2>4. CASE GetFails(t) \/ NetworkFails(t)
    BY <2>1, <2>4, SearchFacts
  <2>5. CASE \E q \in Page : Got(t, q)
    BY <1>4, <2>1, <2>5, GotFacts, ValueAssumption DEF HasData, Source
  <2>6. CASE FillPageRandom(t) \/ PutSource(t) \/ ReadPage(t) \/ ReadFails(t)
    BY <2>1, <2>6, Puts DEF PutSource
  <2>7. CASE CheckPage(t)
    BY <2>2, <2>7, Puts
  <2>8. CASE InvertPage(t)
    <3>1. ~strict /\ pattern' = pattern /\ data'[p] = data[p]
      BY <2>1, <2>2, <2>8, Puts
    <3>2. pool'[p] = "valid"
      BY <2>1, <2>8, Puts, PutFacts
    <3> QED
      BY <1>4, <3>1, <3>2 DEF HasData
  <2>9. CASE CopyPage(t)
    <3>1. dst[t] \in Page /\ pool'[dst[t]] = "valid"
      BY <2>9, Puts, PutFacts
    <3>2. data'[dst[t]] # pattern'[dst[t]]
      BY <1>4, <2>1, <2>2, <2>9, Puts
    <3> QED
      BY <3>1, <3>2 DEF HasData
  <2>10. CASE WritePage(t)
    <3>1. Role(t) = "file"
      BY <2>10 DEF WritePage
    <3>2. role[t] = "file"
      BY <3>1, RoleFacts DEF IInv, GlobalTypes
    <3> QED
      BY <2>2, <2>10, <3>2 DEF WritePage
  <2>11. CASE WriteFails(t)
    BY <2>11 DEF WriteFails
  <2> QED
    BY <2>3, <2>4, <2>5, <2>6, <2>7, <2>8, <2>9, <2>10, <2>11, Zenon DEF Step
<1> QED
  BY <1>5, <1>6, <1>7

-----------------------------------------------------------------------------
(* Searches that cannot fail: where all calls ask for pages of one kind,   *)
(* and no new ones turn up, a search has them all before it.               *)

LEMMA SteadyStep ==
  ASSUME IInv, NEW t \in Threads, Step(t), NEW k \in {"empty", "valid"},
         \A u \in Threads : call[u] # None =>
           call[u].kind = k /\ {p \in Page : pool[p] = k} \subseteq steady[u],
         \A u \in Threads : call'[u] # None => call'[u].kind = k,
         \A p \in Page : pool'[p] = k => pool[p] = k
  PROVE  \A u \in Threads : call'[u] # None => {p \in Page : pool'[p] = k} \subseteq steady'[u]
<1> SUFFICES ASSUME NEW u \in Threads, call'[u] # None, NEW p \in Page, pool'[p] = k
             PROVE  p \in steady'[u]
  OBVIOUS
<1>1. QueueStep(t) /\ QueueTypes /\ pool[p] = k /\ CallInv
  BY IsQueueStep DEF IInv
<1>2. call[u] # None => p \in steady[u]
  BY <1>1
<1>3. CASE UNCHANGED queue
  BY <1>2, <1>3 DEF queue
<1>4. CASE \E c \in Requests : Q!Get(t, c)
  <2>1. PICK c \in Requests : Q!Get(t, c)
    BY <1>4
  <2>2. call'[t] = c /\ steady'[t] = {q \in Page : Q!Free(q) /\ Q!Fits(q, c)}
    BY <1>1, <2>1 DEF Q!Get, QueueTypes
  <2>3. c # None
    BY ValueAssumption DEF Requests
  <2>4. Q!Free(p)
    <3>1. ASSUME NEW v \in Threads, peek[v] = p PROVE FALSE
      <4>1. peek[v] # None
        BY <3>1, ValueAssumption
      <4>2. call[v] # None /\ pool[p] # call[v].kind
        BY <1>1, <3>1, <4>1 DEF CallInv
      <4> QED
        BY <1>1, <4>2
    <3> QED
      BY <3>1 DEF Q!Free
  <2>5. Q!Fits(p, c)
    BY <1>1, <2>2, <2>3 DEF Q!Fits, Requests
  <2>6. CASE u = t
    BY <2>2, <2>4, <2>5, <2>6
  <2>7. CASE u # t
    BY <1>1, <1>2, <2>1, <2>7 DEF Q!Get, QueueTypes
  <2> QED
    BY <2>6, <2>7
<1>5. CASE Q!Fail(t) \/ Q!Unpeek(t)
  BY <1>1, <1>2, <1>5 DEF Q!Fail, Q!Unpeek, QueueTypes
<1>6. CASE \E q \in Page : Q!Take(t, q)
  <2>1. PICK q \in Page : Q!Take(t, q)
    BY <1>6
  <2>2. u # t /\ p # q
    BY <1>1, <2>1 DEF Q!Take, QueueTypes
  <2> QED
    BY <1>1, <1>2, <2>1, <2>2 DEF Q!Take, Q!Unsteady, QueueTypes
<1>7. CASE \E q \in Page : Q!Peek(t, q)
  <2>1. PICK q \in Page : Q!Peek(t, q)
    BY <1>7
  <2>2. p # q
    BY <1>1, <2>1 DEF Q!Peek
  <2> QED
    BY <1>1, <1>2, <2>1, <2>2 DEF Q!Peek, Q!Unsteady, QueueTypes
<1>8. CASE \E q \in Page : Q!Put(t, q, "empty") \/ Q!Put(t, q, "valid")
  BY <1>1, <1>2, <1>8 DEF Q!Put, QueueTypes
<1> QED
  BY <1>1, <1>3, <1>4, <1>5, <1>6, <1>7, <1>8 DEF QueueStep

-----------------------------------------------------------------------------
(* Filling.                                                                *)

LEMMA FillSets ==
  ASSUME LocalTypes
  PROVE  /\ IsFiniteSet(Unfilled) /\ Cardinality(Unfilled) \in Nat
         /\ IsFiniteSet(Quota) /\ Cardinality(Quota) \in Nat
         /\ Total \in Nat
<1>1. Total \in Nat
  BY FiniteAssumption, FS_CardinalityType DEF Total
<1>2. IsFiniteSet(Unfilled) /\ Cardinality(Unfilled) \in Nat
  BY FiniteAssumption, FS_Subset, FS_CardinalityType DEF Unfilled
<1>3. IsFiniteSet(Threads \X (1 .. Total))
  <2>1. IsFiniteSet(1 .. Total)
    BY <1>1, FS_Interval
  <2> QED
    BY <2>1, FiniteAssumption, FS_Product
<1>4. IsFiniteSet(Quota)
  BY <1>3, FS_Subset DEF Quota
<1> QED
  BY <1>1, <1>2, <1>4, FS_CardinalityType

\* A fill thread finds an empty page: the others hold fewer than the quotas.
LEMMA FillFinds ==
  ASSUME IInv, phase = "fill", NEW t \in Threads, GetFails(t)
  PROVE  FALSE
<1>1. /\ LocalTypes /\ GlobalTypes /\ QueueTypes /\ OwnerInv /\ LocalInv /\ HeldInv /\ FillInv
      /\ Total \in Nat
  BY FillSets DEF IInv
<1>2. /\ ~failed /\ Cardinality(Quota) = Cardinality(Unfilled)
      /\ \A u \in Threads : Role(u) = "fill"
  BY <1>1, RoleFacts DEF FillInv
<1>3. steady[t] = {} /\ call[t] # None /\ pc[t] = "get_dst"
  BY <1>1, <1>2 DEF GetFails, Q!Fail, IInv, CallInv, LocalInv, Local
<1>4. \A p \in Page : pool[p] # "empty"
  BY <1>1, <1>3 DEF FillInv
<1>5. ASSUME NEW p \in Unfilled
      PROVE  owner[p] \in Threads /\ dst[owner[p]] = p /\ pc[owner[p]] = "work" /\ owner[p] # t
  <2>1. p \in Page /\ pool[p] = "taken" /\ p # None
    BY <1>1, <1>4, ValueAssumption DEF Unfilled, QueueTypes
  <2>2. owner[p] \in Threads
    BY <1>1, <2>1 DEF OwnerInv, QueueTypes
  <2>3. Local(owner[p]) /\ Role(owner[p]) = "fill" /\ pc[owner[p]] \in Labels
    BY <1>1, <1>2, <2>2 DEF LocalInv, LocalTypes
  <2>4. src[owner[p]] = None
    BY <2>3 DEF Local, Labels
  <2>5. dst[owner[p]] = p
    BY <1>1, <1>2, <2>1, <2>4 DEF HeldInv
  <2>6. pc[owner[p]] = "work"
    BY <2>1, <2>3, <2>5 DEF Local
  <2> QED
    BY <1>3, <2>2, <2>5, <2>6
<1>6. \A u \in Threads : pc[u] \in {"get_dst", "work"} => <<u, 1>> \in Quota
  <2> SUFFICES ASSUME NEW u \in Threads, pc[u] \in {"get_dst", "work"} PROVE <<u, 1>> \in Quota
    OBVIOUS
  <2>1. remaining[u] \in Nat /\ remaining[u] > 0 /\ remaining[u] <= Total
    BY <1>1 DEF FillInv, LocalTypes
  <2> QED
    BY <1>1, <2>1 DEF Quota
<1> DEFINE f == [p \in Unfilled |-> <<owner[p], 1>>]
<1>7. f \in [Unfilled -> Quota]
  BY <1>5, <1>6
<1>8. f \in Injection(Unfilled, Quota)
  <2>1. ASSUME NEW p \in Unfilled, NEW q \in Unfilled, f[p] = f[q] PROVE p = q
    BY <1>5, <2>1
  <2> QED
    BY <1>7, <2>1, Zenon DEF Injection, IsInjective
<1>9. f \in Surjection(Unfilled, Quota)
  BY <1>1, <1>2, <1>8, FillSets, FS_Injection
<1>10. <<t, 1>> \in Quota
  BY <1>3, <1>6
<1>11. \E p \in Unfilled : f[p] = <<t, 1>>
  BY <1>9, <1>10 DEF Surjection
<1> QED
  BY <1>5, <1>11

\* A step of a fill thread keeps the quotas and the pages in balance.
LEMMA FillStep ==
  ASSUME IInv, NEW t \in Threads, Step(t)
  PROVE  FillInv'
<1> SUFFICES ASSUME phase = "fill" PROVE FillInv'
  BY IsFrame DEF Frame, FillInv
<1>1. /\ LocalTypes /\ GlobalTypes /\ QueueTypes /\ LocalTypes' /\ Frame(t) /\ FillInv /\ CallInv'
      /\ Total \in Nat
  BY IsFrame, TypesStep, CallStep, FillSets DEF IInv
<1>2. Role(t) = "fill" /\ Local(t) /\ Local(t)' /\ Role(t)' = "fill"
  BY <1>1, RoleFacts, OwnLocal DEF IInv, LocalInv
<1>3. \/ Top(t) \/ SearchNext(t) \/ LookAt(t) \/ FillPageRandom(t)
      \/ \E p \in Page : Got(t, p)
  <2>1. ~CheckPage(t) /\ ~InvertPage(t) /\ ~CopyPage(t) /\ ~NetworkFails(t) /\ ~WritePage(t)
    BY <1>2 DEF CheckPage, InvertPage, CopyPage, NetworkFails, WritePage
  <2>2. ~ReadPage(t) /\ ~WriteFails(t) /\ ~ReadFails(t)
    BY <1>2 DEF ReadPage, WriteFails, ReadFails
  <2>3. ~PutSource(t) /\ ~Flush(t)
    BY <1>2 DEF PutSource, Flush, Local
  <2> QED
    BY <2>1, <2>2, <2>3, FillFinds, Zenon DEF Step
<1>4. UNCHANGED <<failed, faults, verdict, phase>>
  BY <1>1, <1>3, SearchFacts, GotFacts DEF FillPageRandom, Frame
<1>5. \A u \in Threads :
        /\ remaining'[u] <= Total
        /\ pc'[u] \in {"get_dst", "work"} => remaining'[u] > 0
        /\ pc'[u] = "ended" => remaining'[u] = 0
  <2>1. \A u \in Threads : u # t =>
          /\ remaining'[u] <= Total
          /\ pc'[u] \in {"get_dst", "work"} => remaining'[u] > 0
          /\ pc'[u] = "ended" => remaining'[u] = 0
    BY <1>1 DEF Frame, FillInv
  <2>2. /\ remaining[t] <= Total /\ remaining[t] \in Nat
        /\ pc[t] \in {"get_dst", "work"} => remaining[t] > 0
        /\ pc[t] = "ended" => remaining[t] = 0
    BY <1>1 DEF FillInv, LocalTypes
  <2>3. CASE Top(t)
    <3>1. remaining' = remaining
      BY <2>3, SearchFacts
    <3>2. \/ pc'[t] = "get_dst" /\ remaining[t] > 0
          \/ pc'[t] = "ended" /\ ~(remaining[t] > 0)
      <4>1. Ready(t)
        BY DEF Ready
      <4>2. CASE remaining[t] > 0
        BY <1>1, <1>2, <2>3, <4>1, <4>2 DEF Top, GoTo, LocalTypes
      <4>3. CASE ~(remaining[t] > 0)
        <5>1. End(t)
          BY <1>2, <2>3, <4>3 DEF Top
        <5> QED
          BY <1>1, <4>3, <5>1, EndFacts
      <4> QED
        BY <4>2, <4>3
    <3> QED
      BY <2>1, <2>2, <3>1, <3>2
  <2>4. CASE SearchNext(t) \/ LookAt(t)
    BY <2>1, <2>2, <2>4, SearchFacts
  <2>5. CASE FillPageRandom(t)
    <3>1. pc[t] = "work" /\ pc'[t] = "top" /\ remaining'[t] = remaining[t] - 1
      BY <1>1, <2>5 DEF FillPageRandom, GoTo, LocalTypes
    <3> QED
      BY <1>1, <2>1, <2>2, <3>1
  <2>6. CASE \E p \in Page : Got(t, p)
    <3>1. remaining' = remaining /\ pc'[t] = "work" /\ pc[t] = "get_dst"
      BY <1>2, <2>6, GotFacts DEF Local
    <3> QED
      BY <2>1, <2>2, <3>1
  <2> QED
    BY <1>3, <2>3, <2>4, <2>5, <2>6
<1>6. \A p \in Page : pool'[p] = "empty" => pool[p] = "empty"
  BY <1>3, SearchFacts, GotFacts, Puts, PutFacts
<1>7. \A u \in Threads : call'[u] # None => {p \in Page : pool'[p] = "empty"} \subseteq steady'[u]
  <2>1. \A u \in Threads : call[u] # None =>
          call[u].kind = "empty" /\ {p \in Page : pool[p] = "empty"} \subseteq steady[u]
    BY <1>1, RoleFacts DEF IInv, CallInv, LocalInv, Local, FillInv
  <2>2. \A u \in Threads : call'[u] # None => call'[u].kind = "empty"
    <3> SUFFICES ASSUME NEW u \in Threads, call'[u] # None PROVE call'[u].kind = "empty"
      OBVIOUS
    <3>1. Role(u)' = Role(u) /\ Role(u) = "fill"
      BY <1>1, RoleFacts, OthersLocal, OwnLocal
    <3>2. Local(u)'
      BY OthersLocal, OwnLocal
    <3>3. pc'[u] # "get_src"
      BY <3>1, <3>2 DEF Local
    <3> QED
      BY <1>1, <3>3 DEF CallInv
  <2> QED
    BY <1>6, <2>1, <2>2, SteadyStep
<1>8. Cardinality(Quota)' = Cardinality(Unfilled)'
  <2>1. Cardinality(Quota) = Cardinality(Unfilled)
    BY <1>1 DEF FillInv
  <2>2. CASE FillPageRandom(t)
    <3>1. remaining[t] \in Nat /\ remaining[t] > 0 /\ remaining[t] <= Total
      BY <1>1, <2>2 DEF FillPageRandom, FillInv, LocalTypes
    <3>2. remaining' = [remaining EXCEPT ![t] = remaining[t] - 1]
      BY <2>2 DEF FillPageRandom
    <3>3. Quota' = Quota \ {<<t, remaining[t]>>} /\ <<t, remaining[t]>> \in Quota
      <4>1. <<t, remaining[t]>> \in Quota
        BY <1>1, <3>1 DEF Quota
      <4>2. ASSUME NEW q \in Threads \X (1 .. Total)
            PROVE  q[2] <= remaining'[q[1]] <=> q[2] <= remaining[q[1]] /\ q # <<t, remaining[t]>>
        <5>1. q[1] \in Threads /\ q[2] \in Nat /\ q = <<q[1], q[2]>>
          BY <1>1, <4>2
        <5>2. CASE q[1] = t
          <6>1. remaining'[q[1]] = remaining[t] - 1
            BY <1>1, <3>2, <5>1, <5>2 DEF LocalTypes
          <6>2. q # <<t, remaining[t]>> <=> q[2] # remaining[t]
            BY <5>1, <5>2
          <6> QED
            BY <3>1, <5>1, <5>2, <6>1, <6>2
        <5>3. CASE q[1] # t
          BY <1>1, <3>2, <5>1, <5>3 DEF LocalTypes
        <5> QED
          BY <5>2, <5>3
      <4> QED
        BY <4>1, <4>2 DEF Quota
    <3>4. Unfilled' = Unfilled \ {dst[t]} /\ dst[t] \in Unfilled
      <4>1. dst[t] \in Page /\ pool[dst[t]] = "taken"
        BY <2>2, Puts, PutFacts, ValueAssumption DEF IInv, OwnerInv
      <4>2. pool'[dst[t]] = "valid" /\ \A q \in Page : q # dst[t] => pool'[q] = pool[q]
        BY <2>2, Puts, PutFacts
      <4> QED
        BY <4>1, <4>2 DEF Unfilled
    <3>5. Cardinality(Quota') = Cardinality(Quota) - 1
      BY <1>1, <3>3, FillSets, FS_RemoveElement
    <3>6. Cardinality(Unfilled') = Cardinality(Unfilled) - 1
      BY <1>1, <3>4, FillSets, FS_RemoveElement
    <3> QED
      BY <2>1, <3>5, <3>6
  <2>3. CASE ~FillPageRandom(t)
    <3>1. remaining' = remaining
      BY <1>3, <2>3, SearchFacts, GotFacts
    <3>2. \A p \in Page : pool'[p] = "valid" <=> pool[p] = "valid"
      BY <1>2, <1>3, <2>3, SearchFacts, GotFacts DEF Local
    <3>3. Quota' = Quota /\ Unfilled' = Unfilled
      BY <3>1, <3>2 DEF Quota, Unfilled
    <3> QED
      BY <2>1, <3>3
  <2> QED
    BY <2>2, <2>3
<1> QED
  BY <1>1, <1>4, <1>5, <1>7, <1>8 DEF FillInv

-----------------------------------------------------------------------------
(* The last check threads.                                                 *)

LEMMA ReapStep ==
  ASSUME IInv, NEW t \in Threads, Step(t)
  PROVE  ReapInv'
<1>1. /\ LocalTypes /\ GlobalTypes /\ QueueTypes /\ Frame(t) /\ ReapInv /\ CallInv' /\ Local(t)
      /\ UNCHANGED <<phase, running, verdict>>
  BY IsFrame, CallStep DEF IInv, LocalInv, Frame
<1>2. phase # "done"
  <2>1. pc[t] # "ended"
    BY DEF Step, Top, SearchNext, LookAt, GetFails, Got, FillPageRandom,
       CheckPage, InvertPage, CopyPage, PutSource, NetworkFails, WritePage,
       Flush, ReadPage, WriteFails, ReadFails, Q!Unpeek, Q!Peek, Q!Take,
       Q!Fail, IInv, CallInv
  <2> QED
    BY <1>1, <2>1 DEF ReapInv, Ended
<1>3. verdict # "PASS"
  BY <1>1, <1>2, ValueAssumption DEF ReapInv, GlobalTypes, IInv, FillInv
<1> SUFFICES ASSUME phase = "reap"
             PROVE  \A u \in Threads :
                      /\ call'[u] # None => {p \in Page : pool'[p] = "valid"} \subseteq steady'[u]
                      /\ pc'[u] = "ended" => \A p \in Page : pool'[p] # "valid"
  BY <1>1, <1>2, <1>3 DEF ReapInv
<1>4. \A u \in Threads : Role(u) = "check" /\ Role(u)' = "check" /\ Local(u)'
  BY <1>1, RoleFacts, OthersLocal, OwnLocal
<1>5. ~Ready(t)
  BY <1>1 DEF Ready
<1>6. \/ Top(t) \/ SearchNext(t) \/ LookAt(t) \/ GetFails(t) \/ CheckPage(t)
      \/ \E p \in Page : Got(t, p)
  <2>1. ~FillPageRandom(t) /\ ~InvertPage(t) /\ ~CopyPage(t) /\ ~NetworkFails(t) /\ ~WritePage(t)
    BY <1>4 DEF FillPageRandom, InvertPage, CopyPage, NetworkFails, WritePage
  <2>2. ~ReadPage(t) /\ ~WriteFails(t) /\ ~ReadFails(t)
    BY <1>4 DEF ReadPage, WriteFails, ReadFails
  <2>3. ~PutSource(t) /\ ~Flush(t)
    BY <1>1, <1>4 DEF PutSource, Flush, Local
  <2> QED
    BY <2>1, <2>2, <2>3, Zenon DEF Step
<1>7. \A p \in Page : pool'[p] = "valid" => pool[p] = "valid"
  <2>1. CASE CheckPage(t)
    BY <1>5, <2>1, Puts, PutFacts
  <2> QED
    BY <1>6, <2>1, SearchFacts, GotFacts
<1>8. \A u \in Threads : call'[u] # None => {p \in Page : pool'[p] = "valid"} \subseteq steady'[u]
  <2>1. \A u \in Threads : call[u] # None =>
          call[u].kind = "valid" /\ {p \in Page : pool[p] = "valid"} \subseteq steady[u]
    BY <1>1, <1>4 DEF IInv, CallInv, LocalInv, Local, ReapInv
  <2>2. \A u \in Threads : call'[u] # None => call'[u].kind = "valid"
    BY <1>1, <1>4 DEF CallInv, Local
  <2> QED
    BY <1>7, <2>1, <2>2, SteadyStep
<1>9. ASSUME NEW u \in Threads, pc'[u] = "ended" PROVE \A p \in Page : pool'[p] # "valid"
  <2>1. CASE u # t
    BY <1>1, <1>7, <1>9, <2>1 DEF Frame, ReapInv
  <2>2. CASE u = t
    <3>1. CASE GetFails(t)
      <4>1. steady[t] = {} /\ call[t] # None
        BY <3>1 DEF GetFails, Q!Fail
      <4> QED
        BY <1>1, <1>7, <4>1 DEF ReapInv
    <3>2. CASE Top(t)
      BY <1>1, <1>4, <1>9, <2>2, <3>2 DEF Top, GoTo, LocalTypes
    <3>3. CASE SearchNext(t) \/ LookAt(t)
      BY <1>1, <1>7, <1>9, <2>2, <3>3, SearchFacts DEF ReapInv
    <3>4. CASE CheckPage(t) \/ \E p \in Page : Got(t, p)
      BY <1>1, <1>9, <2>2, <3>4, GotFacts DEF CheckPage, GoTo, LocalTypes
    <3> QED
      BY <1>6, <3>1, <3>2, <3>3, <3>4
  <2> QED
    BY <2>1, <2>2
<1> QED
  BY <1>8, <1>9

-----------------------------------------------------------------------------
(* The main thread and the hardware.                                       *)

LEMMA ThreadStep ==
  ASSUME IInv, NEW t \in Threads, Step(t)
  PROVE  IInv'
<1>1. QueueTypes' /\ OwnerInv'
  BY IsQueueStep, QueueStepFacts DEF IInv
<1>2. LocalInv' /\ FileInv'
  BY OthersLocal, OwnLocal DEF LocalInv, FileInv
<1> QED
  BY <1>1, <1>2, TypesStep, CallStep, HeldStep, PatternStep, CleanStep,
     FillStep, ReapStep, FlawStep DEF IInv

\* When all threads have ended.
LEMMA EndedFacts ==
  ASSUME IInv, Ended
  PROVE  /\ \A t \in Threads :
              src[t] = None /\ dst[t] = None /\ file[t] = <<>> /\ call[t] = None /\ peek[t] = None
         /\ \A p \in Page : HasData(p) <=> pool[p] = "valid"
         /\ ~failed => \A p \in Page : pool[p] # "taken"
<1>1. \A t \in Threads :
        src[t] = None /\ dst[t] = None /\ file[t] = <<>> /\ call[t] = None /\ peek[t] = None
  BY DEF Ended, IInv, LocalInv, Local, FileInv, File, CallInv
<1>2. \A p \in Page : HasData(p) <=> pool[p] = "valid"
  BY <1>1, ValueAssumption DEF HasData, Source
<1>3. ~failed => \A p \in Page : pool[p] # "taken"
  <2> SUFFICES ASSUME ~failed, NEW p \in Page, pool[p] = "taken" PROVE FALSE
    OBVIOUS
  <2>1. owner[p] \in Threads
    BY DEF IInv, OwnerInv, QueueTypes
  <2> QED
    BY <1>1, <2>1, ValueAssumption DEF IInv, HeldInv
<1> QED
  BY <1>1, <1>2, <1>3

\* Sat::InitializePages() is over.
LEMMA AllocateStep ==
  ASSUME IInv, AllocatePages
  PROVE  IInv'
<1>1. /\ QueueTypes /\ LocalTypes /\ GlobalTypes /\ phase = "fill" /\ ~failed /\ faults = {}
      /\ UNCHANGED <<owner, call, peek, steady, role, strict, src, dst, remaining, file, result,
                     running, faults, errors, failed>>
      /\ pc' = [t \in Threads |-> "top"]
  BY DEF IInv, FillInv, AllocatePages, setup, pages, disk, Respawn
<1>2. phase' = "run" /\ verdict' = None
  BY <1>1 DEF AllocatePages
<1>3. PICK free \in SUBSET {p \in Page : pool[p] = "valid"} :
        /\ pool' = [p \in Page |-> IF p \in free THEN "empty" ELSE pool[p]]
        /\ pattern' = [p \in Page |-> IF p \in free THEN None ELSE pattern[p]]
        /\ data' = [p \in Page |-> IF p \in free THEN None ELSE data[p]]
  BY DEF AllocatePages
<1>4. \A t \in Threads :
        src[t] = None /\ dst[t] = None /\ file[t] = <<>> /\ call[t] = None /\ peek[t] = None
  BY EndedFacts DEF AllocatePages
<1>5. QueueTypes' /\ LocalTypes' /\ GlobalTypes'
  BY <1>1, <1>2, <1>3 DEF QueueTypes, LocalTypes, GlobalTypes, Labels
<1>6. OwnerInv' /\ CallInv'
  BY <1>1, <1>3, <1>4 DEF IInv, OwnerInv, CallInv
<1>7. LocalInv' /\ FileInv'
  BY <1>1, <1>4, SatAssumption DEF LocalInv, Local, FileInv, File
<1>8. \A p \in Page : pool'[p] # "taken"
  BY <1>1, <1>3, EndedFacts DEF AllocatePages
<1>9. HeldInv'
  BY <1>8 DEF HeldInv
<1>10. ASSUME NEW p \in Page, HasData(p)'
       PROVE  HasData(p) /\ data'[p] = data[p] /\ pattern'[p] = pattern[p]
  BY <1>1, <1>3, <1>4, <1>10, ValueAssumption DEF HasData, Source
<1>11. PatternInv'
  BY <1>10 DEF PatternInv, IInv
<1>12. CleanInv'
  BY <1>1, <1>10 DEF CleanInv, IInv, Mismatch
<1>13. FillInv' /\ ReapInv'
  BY <1>2, ValueAssumption DEF FillInv, ReapInv
<1>14. FlawInv'
  BY <1>1 DEF FlawInv
<1> QED
  BY <1>5, <1>6, <1>7, <1>9, <1>11, <1>12, <1>13, <1>14 DEF IInv

\* The check threads take over.
LEMMA JoinStep ==
  ASSUME IInv, JoinThreads
  PROVE  IInv'
<1>1. /\ QueueTypes /\ LocalTypes /\ GlobalTypes /\ phase = "run" /\ phase' = "reap" /\ running = {}
      /\ UNCHANGED <<pool, owner, call, peek, steady, role, strict, src, dst, remaining, file, result,
                     data, pattern, running, faults, errors, failed, verdict>>
      /\ pc' = [t \in Threads |-> "top"]
  BY DEF IInv, JoinThreads, queue, setup, pages, disk, content, Respawn
<1>2. \A t \in Threads :
        src[t] = None /\ dst[t] = None /\ file[t] = <<>> /\ call[t] = None /\ peek[t] = None
  BY EndedFacts DEF JoinThreads
<1>3. QueueTypes' /\ LocalTypes' /\ GlobalTypes'
  BY <1>1 DEF QueueTypes, LocalTypes, GlobalTypes, Labels
<1>4. OwnerInv' /\ CallInv'
  BY <1>1, <1>2 DEF IInv, OwnerInv, CallInv
<1>5. LocalInv' /\ FileInv'
  BY <1>1, <1>2, SatAssumption DEF LocalInv, Local, FileInv, File
<1>6. HeldInv'
  BY <1>1 DEF IInv, HeldInv
<1>7. \A p \in Page : HasData(p)' <=> HasData(p)
  BY <1>1, <1>2, ValueAssumption DEF HasData, Source
<1>8. PatternInv' /\ CleanInv'
  BY <1>1, <1>7 DEF IInv, PatternInv, CleanInv, Mismatch
<1>9. FillInv' /\ ReapInv'
  BY <1>1, <1>2, ValueAssumption DEF IInv, FillInv, ReapInv
<1>10. FlawInv'
  BY <1>1, <1>7 DEF IInv, FlawInv, Mismatch
<1> QED
  BY <1>3, <1>4, <1>5, <1>6, <1>8, <1>9, <1>10 DEF IInv

\* The verdict.
LEMMA PrintStep ==
  ASSUME IInv, PrintResults
  PROVE  IInv'
<1>1. /\ QueueTypes /\ LocalTypes /\ GlobalTypes /\ phase = "reap" /\ phase' = "done" /\ Ended
      /\ UNCHANGED <<pool, owner, call, peek, steady, role, strict, pc, src, dst, remaining, file, result,
                     data, pattern, running, faults, errors, failed>>
      /\ verdict' = IF failed \/ errors THEN "FAIL" ELSE "PASS"
  BY DEF IInv, PrintResults, queue, setup, pages, disk, content
<1>2. \A t \in Threads : Role(t)' = Role(t)
  BY <1>1 DEF Role
<1>3. QueueTypes' /\ LocalTypes' /\ GlobalTypes'
  BY <1>1 DEF QueueTypes, LocalTypes, GlobalTypes
<1>4. OwnerInv' /\ CallInv' /\ HeldInv'
  BY <1>1 DEF IInv, OwnerInv, CallInv, HeldInv
<1>5. LocalInv' /\ FileInv'
  BY <1>1, <1>2 DEF IInv, LocalInv, Local, FileInv, File
<1>6. \A p \in Page : HasData(p)' <=> HasData(p)
  BY <1>1 DEF HasData, Source
<1>7. PatternInv' /\ CleanInv'
  BY <1>1, <1>6 DEF IInv, PatternInv, CleanInv, Mismatch
<1>8. FillInv'
  BY <1>1 DEF FillInv
<1>9. ReapInv'
  <2>1. Ended'
    BY <1>1 DEF Ended
  <2>2. \A p \in Page : pool[p] # "valid"
    BY <1>1, FiniteAssumption DEF IInv, ReapInv, Ended
  <2>3. verdict' = "PASS" => ~failed /\ ~errors /\ \A p \in Page : pool[p] = "empty"
    BY <1>1, <2>2, EndedFacts DEF QueueTypes
  <2> QED
    BY <1>1, <2>1, <2>3 DEF ReapInv
<1>10. FlawInv'
  BY <1>1, <1>6 DEF IInv, FlawInv, Mismatch
<1> QED
  BY <1>3, <1>4, <1>5, <1>7, <1>8, <1>9, <1>10 DEF IInv

\* A group of workers is stopped, or nothing happens.
LEMMA StopStep ==
  ASSUME IInv, StopWorkers \/ UNCHANGED vars
  PROVE  IInv'
<1>1. /\ UNCHANGED <<pool, owner, call, peek, steady, phase, role, strict, pc, src, dst, remaining,
                     file, result, data, pattern, faults, errors, failed, verdict>>
      /\ running' \in SUBSET {"power_spike", "continuous"}
      /\ phase = "reap" => running' = running
  BY DEF IInv, GlobalTypes, StopWorkers, vars, queue, setup, pages, disk,
     content
<1>2. \A t \in Threads : Role(t)' = Role(t)
  BY <1>1 DEF Role
<1>3. QueueTypes' /\ LocalTypes' /\ GlobalTypes'
  BY <1>1 DEF IInv, QueueTypes, LocalTypes, GlobalTypes
<1>4. OwnerInv' /\ CallInv' /\ HeldInv'
  BY <1>1 DEF IInv, OwnerInv, CallInv, HeldInv
<1>5. LocalInv' /\ FileInv'
  BY <1>1, <1>2 DEF IInv, LocalInv, Local, FileInv, File
<1>6. \A p \in Page : HasData(p)' <=> HasData(p)
  BY <1>1 DEF HasData, Source
<1>7. PatternInv' /\ CleanInv'
  BY <1>1, <1>6 DEF IInv, PatternInv, CleanInv, Mismatch
<1>8. FillInv'
  BY <1>1 DEF IInv, FillInv, Quota, Unfilled
<1>9. ReapInv'
  BY <1>1 DEF IInv, ReapInv, Ended
<1>10. FlawInv'
  BY <1>1, <1>6 DEF IInv, FlawInv, Mismatch
<1> QED
  BY <1>3, <1>4, <1>5, <1>7, <1>8, <1>9, <1>10 DEF IInv

\* Memory fails.
LEMMA FlipStep ==
  ASSUME IInv, NEW p \in Page, NEW flaw \in Flaws, FlipBit(p, flaw)
  PROVE  IInv'
<1>1. /\ UNCHANGED <<pool, owner, call, peek, steady, phase, role, strict, pc, src, dst, remaining,
                     file, result, pattern, running, errors, failed, verdict>>
      /\ phase \in {"run", "reap"} /\ pool[p] = "valid" /\ faults' # {}
      /\ data' = [data EXCEPT ![p] = flaw]
  BY DEF FlipBit, queue, setup, pages, disk
<1>2. \A t \in Threads : Role(t)' = Role(t)
  BY <1>1 DEF Role
<1>3. data'[p] = flaw /\ \A q \in Page : q # p => data'[q] = data[q]
  BY <1>1 DEF IInv, GlobalTypes
<1>4. QueueTypes' /\ LocalTypes' /\ GlobalTypes'
  BY <1>1 DEF IInv, QueueTypes, LocalTypes, GlobalTypes
<1>5. OwnerInv' /\ CallInv' /\ HeldInv'
  BY <1>1 DEF IInv, OwnerInv, CallInv, HeldInv
<1>6. LocalInv' /\ FileInv'
  BY <1>1, <1>2 DEF IInv, LocalInv, Local, FileInv, File
<1>7. \A q \in Page : HasData(q)' <=> HasData(q)
  BY <1>1 DEF HasData, Source
<1>8. PatternInv'
  BY <1>1, <1>3, <1>7 DEF IInv, PatternInv
<1>9. CleanInv' /\ FillInv'
  BY <1>1 DEF CleanInv, FillInv
<1>10. ReapInv'
  BY <1>1 DEF IInv, ReapInv, Ended
<1>11. FlawInv'
  <2>1. HasData(p) /\ pattern[p] \in Pattern
    BY <1>1 DEF HasData, IInv, PatternInv
  <2>2. Mismatch(p)'
    BY <1>1, <1>3, <2>1, ValueAssumption DEF Mismatch
  <2> QED
    BY <1>7, <2>1, <2>2 DEF FlawInv
<1> QED
  BY <1>4, <1>5, <1>6, <1>8, <1>9, <1>10, <1>11 DEF IInv

\* The disk fails.
LEMMA DiskFaultStep ==
  ASSUME IInv, NEW t \in Threads, NEW flaw \in Flaws, DiskFault(t, flaw)
  PROVE  IInv'
<1>1. /\ UNCHANGED <<pool, owner, call, peek, steady, phase, role, strict, pc, src, dst, remaining,
                     result, data, pattern, running, errors, failed, verdict>>
      /\ file[t] # <<>> /\ faults' = faults \cup {"disk"}
      /\ file' = [file EXCEPT ![t][1].data = flaw]
  BY DEF DiskFault, queue, setup, pages, content
<1>2. \A u \in Threads : Role(u)' = Role(u)
  BY <1>1 DEF Role
<1>3. /\ file'[t] = [file[t] EXCEPT ![1] = [file[t][1] EXCEPT !.data = flaw]]
      /\ \A u \in Threads : u # t => file'[u] = file[u]
  BY <1>1 DEF IInv, LocalTypes
<1>4. file[t] \in Seq(PageRec) /\ 1 \in 1 .. Len(file[t]) /\ file[t][1] \in PageRec
  BY <1>1 DEF IInv, LocalTypes
<1>5. [file[t][1] EXCEPT !.data = flaw] \in PageRec
  BY <1>4 DEF PageRec
<1>6. file'[t] \in Seq(PageRec) /\ Len(file'[t]) = Len(file[t]) /\ file'[t] # <<>>
  BY <1>3, <1>4, <1>5
<1>7. file' \in [Threads -> Seq(PageRec)]
  BY <1>1, <1>3, <1>6 DEF IInv, LocalTypes
<1>8. QueueTypes' /\ LocalTypes' /\ GlobalTypes'
  BY <1>1, <1>7 DEF IInv, QueueTypes, LocalTypes, GlobalTypes
<1>9. OwnerInv' /\ CallInv' /\ HeldInv'
  BY <1>1 DEF IInv, OwnerInv, CallInv, HeldInv
<1>10. LocalInv'
  BY <1>1, <1>2 DEF IInv, LocalInv, Local
<1>11. FileInv'
  BY <1>1, <1>2, <1>3, <1>6 DEF IInv, FileInv, File
<1>12. \A p \in Page : HasData(p)' <=> HasData(p)
  BY <1>1 DEF HasData, Source
<1>13. PatternInv'
  BY <1>1, <1>12 DEF IInv, PatternInv
<1>14. phase # "fill"
  BY <1>1, RoleFacts DEF IInv, FileInv, File
<1>15. CleanInv' /\ FillInv'
  BY <1>1, <1>14 DEF CleanInv, FillInv
<1>16. ReapInv'
  BY <1>1 DEF IInv, ReapInv, Ended
<1>17. FlawInv'
  BY <1>1, <1>12 DEF IInv, FlawInv, Mismatch
<1> QED
  BY <1>8, <1>9, <1>10, <1>11, <1>13, <1>15, <1>16, <1>17 DEF IInv

-----------------------------------------------------------------------------
(* The initial state.                                                      *)

\* The shares of the fill threads, of whom one takes what is left over.
LEMMA Shares ==
  ASSUME NEW k \in Nat, NEW n \in Nat \ {0}, NEW s \in Nat, k * n <= s
  PROVE  /\ k <= s
         /\ s - k * (n - 1) \in 0 .. s
         /\ (n - 1) * k + (s - k * (n - 1)) = s
<1>1. PICK m \in Nat : m = n - 1
  OBVIOUS
<1>2. k * n = k * m + k /\ k * m \in Nat /\ m * k = k * m
  BY <1>1
<1> QED
  BY <1>1, <1>2

\* The quotas add up to the pages there are.
LEMMA InitQuota ==
  ASSUME Init
  PROVE  /\ remaining \in [Threads -> 0 .. Total]
         /\ Cardinality(Quota) = Total
<1>1. Total \in Nat /\ N \in Nat \ {0}
  BY FiniteAssumption, FS_CardinalityType, FS_EmptySet DEF Total, N
<1>2. PICK last \in Threads : remaining = [t \in Threads |-> SetFillPages(t, last)]
  BY DEF Init
<1>3. PICK k : k = Total \div N
  OBVIOUS
<1>4. k \in Nat /\ k * N <= Total
  BY <1>1, <1>3
<1>5. PICK m : m = Total - k * (N - 1)
  OBVIOUS
<1>6. k <= Total /\ m \in 0 .. Total /\ (N - 1) * k + m = Total
  BY <1>1, <1>4, <1>5, Shares
<1>7. \A t \in Threads : remaining[t] = IF t = last THEN m ELSE k
  BY <1>2, <1>3, <1>5 DEF SetFillPages
<1>8. remaining \in [Threads -> 0 .. Total]
  BY <1>1, <1>2, <1>4, <1>6, <1>7
<1> DEFINE A == (Threads \ {last}) \X (1 .. k)
           B == {last} \X (1 .. m)
<1>9. Quota = A \cup B
  <2>1. \A q \in Quota : q \in A \cup B
    BY <1>1, <1>4, <1>6, <1>7 DEF Quota
  <2>2. \A q \in A \cup B : q \in Quota
    BY <1>1, <1>4, <1>6, <1>7 DEF Quota
  <2> QED
    BY <2>1, <2>2
<1>10. IsFiniteSet(Threads \ {last}) /\ Cardinality(Threads \ {last}) = N - 1
  BY FiniteAssumption, FS_RemoveElement DEF N
<1>11. /\ IsFiniteSet(1 .. k) /\ Cardinality(1 .. k) = k
       /\ IsFiniteSet(1 .. m) /\ Cardinality(1 .. m) = m
  <2>1. ASSUME NEW i \in Nat PROVE IsFiniteSet(1 .. i) /\ Cardinality(1 .. i) = i
    BY FS_Interval
  <2> QED
    BY <2>1, <1>4, <1>6
<1>12. IsFiniteSet({last}) /\ Cardinality({last}) = 1
  BY FS_Singleton
<1>13. IsFiniteSet(A) /\ Cardinality(A) = (N - 1) * k
  <2> HIDE DEF A
  <2>1. /\ IsFiniteSet(A)
        /\ Cardinality(A) = Cardinality(Threads \ {last}) * Cardinality(1 .. k)
    BY <1>10, <1>11, FS_Product, Zenon DEF A
  <2> QED
    BY <1>10, <1>11, <2>1, Zenon
<1>14. IsFiniteSet(B) /\ Cardinality(B) = 1 * m
  <2> HIDE DEF B
  <2>1. /\ IsFiniteSet(B)
        /\ Cardinality(B) = Cardinality({last}) * Cardinality(1 .. m)
    BY <1>11, <1>12, FS_Product, Zenon DEF B
  <2> QED
    BY <1>11, <1>12, <2>1, Zenon
<1>15. A \cap B = {}
  OBVIOUS
<1>16. Cardinality(A \cup B) = Cardinality(A) + Cardinality(B) - 0
  BY <1>13, <1>14, <1>15, FS_Union, FS_EmptySet
<1>17. (N - 1) * k \in Nat
  <2>1. PICK i \in Nat : i = N - 1
    BY <1>1
  <2> QED
    BY <2>1, <1>4
<1> HIDE DEF A, B
<1>18. Cardinality(Quota) = (N - 1) * k + m
  BY <1>6, <1>9, <1>13, <1>14, <1>16, <1>17
<1> QED
  BY <1>6, <1>8, <1>18

LEMMA InitInv ==
  ASSUME Init
  PROVE  IInv
<1>1. remaining \in [Threads -> 0 .. Total] /\ Cardinality(Quota) = Total
  BY InitQuota
<1>2. Total \in Nat
  BY FiniteAssumption, FS_CardinalityType DEF Total
<1>3. role \in [Threads -> UNION Crews]
  <2>1. PICK crew \in Crews : role \in Surjection(Threads, crew)
    BY DEF Init
  <2>2. role \in [Threads -> crew]
    BY <2>1 DEF Surjection
  <2> QED
    BY <2>2
<1>4. QueueTypes /\ OwnerInv /\ GlobalTypes
  BY DEF Init, QueueTypes, OwnerInv, GlobalTypes
<1>5. LocalTypes
  BY <1>1, <1>2, <1>3 DEF Init, LocalTypes, Labels
<1>6. CallInv /\ LocalInv
  BY DEF Init, CallInv, LocalInv, Local
<1>7. FileInv
  BY SatAssumption DEF Init, FileInv, File
<1>8. \A p \in Page : ~HasData(p)
  BY ValueAssumption DEF Init, HasData, Source
<1>9. HeldInv /\ PatternInv /\ CleanInv
  BY <1>8 DEF Init, HeldInv, PatternInv, CleanInv
<1>10. FillInv
  <2>1. Unfilled = Page
    BY DEF Init, Unfilled
  <2> QED
    BY <1>1, <1>2, <2>1 DEF Init, FillInv, Total
<1>11. ReapInv /\ FlawInv
  BY ValueAssumption DEF Init, ReapInv, FlawInv
<1> QED
  BY <1>4, <1>5, <1>6, <1>7, <1>9, <1>10, <1>11 DEF IInv

-----------------------------------------------------------------------------
(* The theorems.                                                           *)

LEMMA StepInv ==
  ASSUME IInv, [Next]_vars
  PROVE  IInv'
<1>1. ASSUME NEW t \in Threads, Step(t) PROVE IInv'
  BY <1>1, ThreadStep
<1>2. CASE \E t \in Threads : Step(t)
  BY <1>1, <1>2
<1>3. CASE AllocatePages
  BY <1>3, AllocateStep
<1>4. CASE JoinThreads
  BY <1>4, JoinStep
<1>5. CASE PrintResults
  BY <1>5, PrintStep
<1>6. CASE StopWorkers \/ Done \/ UNCHANGED vars
  BY <1>6, StopStep DEF Done
<1>7. CASE Fault
  <2>1. ASSUME NEW p \in Page, NEW flaw \in Flaws, FlipBit(p, flaw) PROVE IInv'
    BY <2>1, FlipStep
  <2>2. ASSUME NEW t \in Threads, NEW flaw \in Flaws, DiskFault(t, flaw) PROVE IInv'
    BY <2>2, DiskFaultStep
  <2>3. ASSUME NEW t \in Threads, WriteFails(t) \/ ReadFails(t) PROVE IInv'
    BY <2>3, <1>1 DEF Step
  <2> QED
    BY <1>7, <2>1, <2>2, <2>3 DEF Fault
<1> QED
  BY <1>2, <1>3, <1>4, <1>5, <1>6, <1>7, Zenon DEF Next, Step

LEMMA Invariance == Spec => []IInv
<1>1. Init => IInv
  BY InitInv
<1>2. IInv /\ [Next]_vars => IInv'
  BY StepInv
<1> QED
  BY <1>1, <1>2, PTL DEF Spec

\* Types of the variables; a page that a thread has taken is that thread's own.
THEOREM TypeCorrect == Spec => []TypeOK
<1>1. IInv => TypeOK
  BY DEF IInv, QueueTypes, LocalTypes, GlobalTypes, LocalInv, Local, FileInv,
     File, TypeOK, Labels
<1> QED
  BY <1>1, Invariance, PTL

\* The fill threads of InitializePages() fill every page with its pattern,
\* whatever the numbers of threads and pages, and none fails to pop a page.
THEOREM FillsAll == Spec => []FillFillsAll
<1>1. ASSUME IInv PROVE FillFillsAll
  <2>1. SUFFICES ASSUME phase = "fill", Ended, NEW p \in Page
                 PROVE  pool[p] = "valid" /\ data[p] = pattern[p]
    BY <1>1 DEF IInv, FillInv, FillFillsAll
  <2>2. Quota = {}
    <3>1. \A t \in Threads : remaining[t] = 0
      BY <1>1, <2>1 DEF IInv, FillInv, Ended
    <3>2. \A i \in 1 .. Total : i > 0
      BY FiniteAssumption, FS_CardinalityType DEF Total
    <3>3. 1 .. Total \subseteq Int
      OBVIOUS
    <3>4. ASSUME NEW q \in Quota PROVE FALSE
      <4>1. q[1] \in Threads /\ q[2] \in 1 .. Total /\ q[2] <= remaining[q[1]]
        BY DEF Quota
      <4> QED
        BY <3>1, <3>2, <3>3, <4>1
    <3> QED
      BY <3>4
  <2>3. Cardinality(Unfilled) = 0
    BY <1>1, <2>1, <2>2, FS_EmptySet DEF IInv, FillInv
  <2>4. IsFiniteSet(Unfilled)
    BY FiniteAssumption, FS_Subset DEF Unfilled
  <2>5. Unfilled = {}
    BY <2>3, <2>4, FS_EmptySet
  <2>6. pool[p] = "valid"
    BY <2>5 DEF Unfilled
  <2>7. ~Mismatch(p)
    BY <1>1, <2>1, <2>6 DEF IInv, FillInv, CleanInv, HasData
  <2> QED
    BY <2>6, <2>7 DEF Mismatch
<1> QED
  BY <1>1, Invariance, PTL

\* errorcount_ stays zero on good hardware, whichever threads a page passes
\* through.
THEOREM NeverBlames == Spec => []NoFalseError
<1>1. IInv => NoFalseError
  BY DEF IInv, CleanInv, NoFalseError
<1> QED
  BY <1>1, Invariance, PTL

\* When PrintResults() says PASS, the last check threads have had every page.
THEOREM AllChecked == Spec => []PassMeansChecked
<1>1. IInv => PassMeansChecked
  BY DEF IInv, ReapInv, PassMeansChecked
<1> QED
  BY <1>1, Invariance, PTL

\* A bit that flips in a valid page keeps PrintResults() from saying PASS, but
\* for FileThreads of a run that is not strict.
THEOREM FlawsReported == Spec => []CorruptionIsReported
<1>1. ASSUME IInv PROVE CorruptionIsReported
  <2>1. SUFFICES ASSUME verdict = "PASS", "memory" \in faults,
                        strict \/ \A t \in Threads : role[t] # "file"
                 PROVE  FALSE
    BY DEF CorruptionIsReported
  <2>2. phase = "done"
    BY <1>1, <2>1, ValueAssumption DEF IInv, GlobalTypes, FillInv, ReapInv
  <2>3. ~failed /\ ~errors /\ \A p \in Page : pool[p] = "empty"
    BY <1>1, <2>1 DEF IInv, ReapInv
  <2>4. Ended
    BY <1>1, <2>2 DEF IInv, ReapInv
  <2>5. \A p \in Page : ~HasData(p)
    BY <1>1, <2>3, <2>4, EndedFacts
  <2> QED
    BY <1>1, <2>1, <2>3, <2>5 DEF IInv, FlawInv
<1> QED
  BY <1>1, Invariance, PTL

=============================================================================
