---------------------------- MODULE FineLockQueue ----------------------------
(***************************************************************************)
(* FineLockPEQueue of stressapptest: an array of page entries, each with a *)
(* mutex of its own.  A page is in the queue while its mutex is free; Get  *)
(* leaves it locked and Put unlocks it.                                    *)
(*                                                                         *)
(* Get looks at the entries without a lock, in the order of               *)
(* CongruentialGenerator from a random start, tries the lock of one that   *)
(* seems to fit, and looks again under the lock.                           *)
(***************************************************************************)
EXTENDS CongruentialGenerator, FiniteSets

CONSTANTS
  Threads,     \* the callers
  Main,        \* the one that created the queue
  QSize,       \* q_size_
  PageTag,     \* pages_[i].tag, set before the workers start
  Calls,       \* what callers ask for: a kind and a set of tags
  None,        \* no thread, no call
  MaxHeld,     \* bound: pages a thread holds at once
  MaxSize      \* bound: queue sizes whose walk is checked

ASSUME ThreadsAssumption == Main \in Threads /\ None \notin Threads
ASSUME CallsAssumption   == /\ \A c \in Calls : c.kind \in {"empty", "valid"}
                            /\ None \notin Calls
ASSUME NoneAssumption    == None \notin 0 .. QSize - 1
ASSUME BoundAssumption   == MaxHeld \in Nat /\ MaxSize \in Nat
ASSUME SizeAssumption    == QSize \in 1 .. MaxSize

\* "Being able to find a single available element is a design requirement"
\* (finelock_queue.cc:67): for every queue size up to MaxSize the walk stays
\* inside the queue and visits every index, from any start.
ASSUME WalkAssumption ==
  \A q \in 1 .. MaxSize :
    LET w == walk(q)
    IN  \A f \in 0 .. q - 1 :
          {indexAt(w, q, f, i) : i \in 0 .. q - 1} = 0 .. q - 1

VARIABLES
  kind,      \* pages_[i].pattern: "empty" for NULL, "valid" otherwise
  lock,      \* pagelocks_[i]: its owner, or None
  pc,        \* where a thread is inside the queue's code
  call,      \* the Get it is in: predicate and tag mask
  first,     \* first_try
  tries,     \* i
  put,       \* the page it is putting back
  held,      \* pages the thread has got and not put back
  steady     \* history: pages that were free and fitted ever since the call

vars == <<kind, lock, pc, call, first, tries, put, held, steady>>

Page  == 0 .. QSize - 1
Kinds == {"empty", "valid"}
Walk  == walk(QSize)

Index(t) == indexAt(Walk, QSize, first[t], tries[t])

Fits(p, c) == kind[p] = c.kind /\ PageTag[p] \in c.mask

\* The constructor leaves every page locked by the main thread, which puts
\* them one after the other; the entries are not initialised before.
Init ==
  /\ kind \in [Page -> Kinds]
  /\ lock = [p \in Page |-> Main]
  /\ held = [t \in Threads |-> IF t = Main THEN Page ELSE {}]
  /\ pc = [t \in Threads |-> "idle"]
  /\ call = [t \in Threads |-> None]
  /\ first = [t \in Threads |-> 0]
  /\ tries = [t \in Threads |-> 0]
  /\ put = [t \in Threads |-> None]
  /\ steady = [t \in Threads |-> {}]

-----------------------------------------------------------------------------
(* Get: GetRandomWithPredicateTag() and its four callers.                  *)

Get(t, c, f) ==
  /\ pc[t] = "idle"
  /\ Cardinality(held[t]) < MaxHeld
  /\ pc' = [pc EXCEPT ![t] = "look"]
  /\ call' = [call EXCEPT ![t] = c]
  /\ first' = [first EXCEPT ![t] = f]
  /\ tries' = [tries EXCEPT ![t] = 0]
  /\ steady' = [steady EXCEPT ![t] = {p \in Page : lock[p] = None /\ Fits(p, c)}]
  /\ UNCHANGED <<kind, lock, put, held>>

\* Wrong variant: the last iteration is left out.
LookShort(t) ==
  /\ pc[t] = "look"
  /\ tries[t] < QSize
  /\ IF Fits(Index(t), call[t]) /\ tries[t] < QSize - 1
     THEN pc' = [pc EXCEPT ![t] = "try"] /\ UNCHANGED tries
     ELSE tries' = [tries EXCEPT ![t] = @ + 1] /\ UNCHANGED pc
  /\ UNCHANGED <<kind, lock, call, first, put, held, steady>>

\* The predicate and the tag are tested without the lock.
Look(t) ==
  /\ pc[t] = "look"
  /\ tries[t] < QSize
  /\ IF Fits(Index(t), call[t])
     THEN pc' = [pc EXCEPT ![t] = "try"] /\ UNCHANGED tries
     ELSE tries' = [tries EXCEPT ![t] = @ + 1] /\ UNCHANGED pc
  /\ UNCHANGED <<kind, lock, call, first, put, held, steady>>

\* pthread_mutex_trylock() succeeds.
TryLock(t) ==
  /\ pc[t] = "try"
  /\ lock[Index(t)] = None
  /\ lock' = [lock EXCEPT ![Index(t)] = t]
  /\ pc' = [pc EXCEPT ![t] = "locked"]
  /\ steady' = [u \in Threads |-> steady[u] \ {Index(t)}]
  /\ UNCHANGED <<kind, call, first, tries, put, held>>

\* Wrong variant: the search insists on the page.
TryLockAgain(t) ==
  /\ pc[t] = "try"
  /\ lock[Index(t)] # None
  /\ pc' = [pc EXCEPT ![t] = "look"]
  /\ UNCHANGED <<kind, lock, call, first, tries, put, held, steady>>

\* Somebody has the page: the search moves on.
TryLockFails(t) ==
  /\ pc[t] = "try"
  /\ lock[Index(t)] # None
  /\ tries' = [tries EXCEPT ![t] = @ + 1]
  /\ pc' = [pc EXCEPT ![t] = "look"]
  /\ UNCHANGED <<kind, lock, call, first, put, held, steady>>

\* Get returns; its locals are gone.
Return(t) ==
  /\ pc' = [pc EXCEPT ![t] = "idle"]
  /\ call' = [call EXCEPT ![t] = None]
  /\ first' = [first EXCEPT ![t] = 0]
  /\ tries' = [tries EXCEPT ![t] = 0]
  /\ steady' = [steady EXCEPT ![t] = {}]

\* Wrong variant: the second test of the predicate is left out.
GotPageUnchecked(t) ==
  /\ pc[t] = "locked"
  /\ held' = [held EXCEPT ![t] = @ \cup {Index(t)}]
  /\ Return(t)
  /\ UNCHANGED <<kind, lock, put>>

\* Under the lock the predicate still holds: the page is the caller's.
GotPage(t) ==
  /\ pc[t] = "locked"
  /\ kind[Index(t)] = call[t].kind
  /\ held' = [held EXCEPT ![t] = @ \cup {Index(t)}]
  /\ Return(t)
  /\ UNCHANGED <<kind, lock, put>>

\* Wrong variant: the page that does not suit stays locked.
MoveOnLocked(t) ==
  /\ pc[t] = "locked"
  /\ kind[Index(t)] # call[t].kind
  /\ tries' = [tries EXCEPT ![t] = @ + 1]
  /\ pc' = [pc EXCEPT ![t] = "look"]
  /\ UNCHANGED <<kind, lock, call, first, put, held, steady>>

\* The page has changed in between: it is released and the search moves on.
MoveOn(t) ==
  /\ pc[t] = "locked"
  /\ kind[Index(t)] # call[t].kind
  /\ lock' = [lock EXCEPT ![Index(t)] = None]
  /\ tries' = [tries EXCEPT ![t] = @ + 1]
  /\ pc' = [pc EXCEPT ![t] = "look"]
  /\ UNCHANGED <<kind, call, first, put, held, steady>>

\* Every index was visited: Get returns false.
GetFails(t) ==
  /\ pc[t] = "look"
  /\ tries[t] = QSize
  /\ Return(t)
  /\ UNCHANGED <<kind, lock, put, held>>

-----------------------------------------------------------------------------
(* PutEmpty() and PutValid() of a page the caller has.                     *)

\* Wrong variant: the index is computed one too high.
StoreEntryBeyond(t, p, k) ==
  /\ pc[t] = "idle"
  /\ p \in held[t]
  /\ pc' = [pc EXCEPT ![t] = IF k = "empty" THEN "store" ELSE "unlock"]
  /\ put' = [put EXCEPT ![t] = p + 1]
  /\ UNCHANGED <<kind, lock, call, first, tries, held, steady>>

\* The entry is copied into the array.  The caller's copy has a pattern if
\* the page is to be valid, and may have one if it is to be empty.
StoreEntry(t, p, k) ==
  /\ pc[t] = "idle"
  /\ p \in held[t]
  /\ pc' = [pc EXCEPT ![t] = IF k = "empty" THEN "store" ELSE "unlock"]
  /\ put' = [put EXCEPT ![t] = p]
  /\ \E stored \in Kinds :
       /\ k = "valid" => stored = "valid"
       /\ kind' = [kind EXCEPT ![p] = stored]
  /\ UNCHANGED <<lock, call, first, tries, held, steady>>

\* PutEmpty() clears the pattern.
ClearPattern(t) ==
  /\ pc[t] = "store"
  /\ pc' = [pc EXCEPT ![t] = "unlock"]
  /\ kind' = [kind EXCEPT ![put[t]] = "empty"]
  /\ UNCHANGED <<lock, call, first, tries, put, held, steady>>

Unlock(t) ==
  /\ pc[t] = "unlock"
  /\ pc' = [pc EXCEPT ![t] = "idle"]
  /\ lock' = [lock EXCEPT ![put[t]] = None]
  /\ held' = [held EXCEPT ![t] = @ \ {put[t]}]
  /\ put' = [put EXCEPT ![t] = None]
  /\ UNCHANGED <<kind, call, first, tries, steady>>

-----------------------------------------------------------------------------
\* What a thread does once it is inside the queue's code
Step(t) ==
  \/ Look(t) \/ TryLock(t) \/ TryLockFails(t) \/ GotPage(t) \/ MoveOn(t)
  \/ GetFails(t) \/ ClearPattern(t) \/ Unlock(t)

Next ==
  \E t \in Threads :
    \/ \E c \in Calls, f \in Page : Get(t, c, f)
    \/ \E p \in Page, k \in Kinds : StoreEntry(t, p, k)
    \/ Step(t)

Spec == Init /\ [][Next]_vars

\* A thread inside the queue's code is never blocked and keeps running.
FairSpec == Spec /\ \A t \in Threads : WF_vars(Step(t))

-----------------------------------------------------------------------------
(* Properties.                                                              *)

\* Every field keeps its type (finelock_queue.h:78-112).
TypeOK ==
  /\ kind \in [Page -> Kinds]
  /\ lock \in [Page -> Threads \cup {None}]
  /\ pc \in [Threads -> {"idle", "look", "try", "locked", "store", "unlock"}]
  /\ call \in [Threads -> Calls \cup {None}]
  /\ first \in [Threads -> Page]
  /\ tries \in [Threads -> 0 .. QSize]
  /\ put \in [Threads -> Page \cup {None}]
  /\ held \in [Threads -> SUBSET Page]
  /\ steady \in [Threads -> SUBSET Page]

\* A page's mutex is exactly the ownership of the page: a thread that was
\* given a page has its lock until it puts the page back, so that no page is
\* ever given to two threads, and nobody else's lock is left behind after a
\* search that changed its mind (finelock_queue.cc:358-381).
LockIsOwnership ==
  \A p \in Page, t \in Threads :
    lock[p] = t <=> \/ p \in held[t]
                    \/ pc[t] = "locked" /\ Index(t) = p

\* Get returns false only when no page was free and fitting all through the
\* call (finelock_queue.cc:383).
FailIsJustified ==
  \A t \in Threads : pc[t] = "look" /\ tries[t] = QSize => steady[t] = {}

\* A search ends, whatever the other threads hold or do: nobody waits for a
\* page lock, although threads search while they hold pages
\* (finelock_queue.cc:358).
GetReturns == \A t \in Threads : pc[t] = "look" ~> pc[t] = "idle"

\* A search has locked a page that does not suit it; the page is still in
\* the queue.
Mistaken(t)   == pc[t] = "locked" /\ kind[Index(t)] # call[t].kind
Succeeding(t) == pc[t] = "locked" /\ kind[Index(t)] = call[t].kind

InQueue(p) == lock[p] # None => p \notin held[lock[p]] /\ Mistaken(lock[p])

\* The state of the pool that a state of the queue stands for: a page is
\* taken from the moment trylock succeeds on a page of the right kind to the
\* moment Put unlocks it.
poolBar   == [p \in Page |-> IF InQueue(p) THEN kind[p] ELSE "taken"]
ownerBar  == [p \in Page |-> IF InQueue(p) THEN None ELSE lock[p]]
callBar   == [t \in Threads |-> IF Succeeding(t) THEN None ELSE call[t]]
peekBar   == [t \in Threads |-> IF Mistaken(t) THEN Index(t) ELSE None]
steadyBar == [t \in Threads |-> IF Succeeding(t) THEN {} ELSE steady[t]]

Pool == INSTANCE PagePool WITH
  pool <- poolBar, owner <- ownerBar, call <- callBar, peek <- peekBar,
  steady <- steadyBar

\* The queue implements PagePool, with the interleavings of searches and
\* Puts on the same page (finelock_queue.cc:358, 432, 448).
ImplementsPagePool == Pool!Spec

=============================================================================
