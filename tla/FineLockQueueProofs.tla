------------------------ MODULE FineLockQueueProofs ------------------------
(***************************************************************************)
(* Proofs about FineLockQueue, for any set of threads, any tags and masks, *)
(* and every queue size whose walk covers the queue: page locks are        *)
(* ownership, a failed search is justified, and the queue implements       *)
(* PagePool.                                                               *)
(***************************************************************************)
EXTENDS FineLockQueue, TLAPS

-----------------------------------------------------------------------------
(* The walk.  Only that it covers the queue matters; Visit(f, i) is the    *)
(* page that iteration i of a search from f looks at.                      *)

Visit(f, i) == indexAt(Walk, QSize, f, i)

\* The pages that the iterations of GetRandomWithPredicateTag() look at are
\* the pages of the queue.
LEMMA WalkCovers ==
  ASSUME NEW f \in Page
  PROVE  {Visit(f, i) : i \in 0 .. QSize - 1} = Page
<1>1. \A g \in 0 .. QSize - 1 :
         {indexAt(walk(QSize), QSize, g, i) : i \in 0 .. QSize - 1} = 0 .. QSize - 1
  BY WalkAssumption, SizeAssumption, Zenon
<1> QED
  BY <1>1, Zenon DEF Visit, Walk, Page

\* Every iteration looks at a page of the queue.
LEMMA VisitInside ==
  ASSUME NEW f \in Page, NEW i \in 0 .. QSize - 1
  PROVE  Visit(f, i) \in Page
BY WalkCovers, Zenon

\* Every page is looked at in some iteration.
LEMMA VisitCovers ==
  ASSUME NEW f \in Page, NEW p \in Page
  PROVE  \E i \in 0 .. QSize - 1 : Visit(f, i) = p
BY WalkCovers, Zenon

\* Index(t) is a page as long as the loop of GetRandomWithPredicateTag() runs.
LEMMA IndexInside ==
  ASSUME TypeOK, NEW t \in Threads, tries[t] < QSize
  PROVE  Index(t) \in Page /\ Index(t) = Visit(first[t], tries[t])
<1>1. first[t] \in Page /\ tries[t] \in 0 .. QSize - 1
  BY SizeAssumption, BoundAssumption DEF TypeOK
<1> QED
  BY <1>1, VisitInside DEF Index, Visit

-----------------------------------------------------------------------------
(* The inductive invariant.                                                *)

Inside(t) == pc[t] \in {"look", "try", "locked"}

\* Which locals are meaningful where.
CallInv ==
  \A t \in Threads :
    /\ Inside(t) => call[t] \in Calls
    /\ ~ Inside(t) => call[t] = None /\ steady[t] = {}
    /\ pc[t] \in {"try", "locked"} =>
         tries[t] < QSize /\ PageTag[Index(t)] \in call[t].mask
    /\ pc[t] = "locked" => Index(t) \notin held[t]
    /\ pc[t] \in {"store", "unlock"} => put[t] \in held[t]

\* A page that has fitted ever since the call is free and has not been
\* visited yet.
SteadyInv ==
  \A t \in Threads : \A p \in steady[t] :
    /\ lock[p] = None
    /\ Fits(p, call[t])
    /\ \A i \in 0 .. QSize - 1 : i < tries[t] => Visit(first[t], i) # p

IInv == TypeOK /\ LockIsOwnership /\ CallInv /\ SteadyInv

LEMMA InitInv == Init => IInv
BY ThreadsAssumption, SizeAssumption, BoundAssumption
DEF Init, IInv, TypeOK, LockIsOwnership, CallInv, SteadyInv, Inside, Page

\* The invariant survives a Get that has just been called.
LEMMA GetStep ==
  ASSUME IInv, NEW t \in Threads, NEW c \in Calls, NEW f \in Page, Get(t, c, f)
  PROVE  IInv'
<1> USE ThreadsAssumption, SizeAssumption, BoundAssumption, CallsAssumption
<1>1. TypeOK'
  BY DEF IInv, TypeOK, CallInv, Get, Kinds
<1>2. LockIsOwnership'
  BY DEF IInv, TypeOK, LockIsOwnership, CallInv, Index, Get
<1>3. CallInv'
  BY DEF IInv, TypeOK, LockIsOwnership, CallInv, Inside, Fits, Index, Get
<1>4. SteadyInv'
  BY DEF IInv, TypeOK, LockIsOwnership, CallInv, SteadyInv, Inside, Fits,
     Visit, Get
<1> QED
  BY <1>1, <1>2, <1>3, <1>4 DEF IInv

\* The invariant survives the unlocked test of the predicate and the tag.
LEMMA LookStep ==
  ASSUME IInv, NEW t \in Threads, Look(t)
  PROVE  IInv'
<1> USE ThreadsAssumption, SizeAssumption, BoundAssumption, CallsAssumption
<1>0. tries[t] < QSize /\ Index(t) \in Page /\ Index(t) = Visit(first[t], tries[t])
  BY IndexInside DEF IInv, CallInv, Look
<1>1. TypeOK'
  BY <1>0 DEF IInv, TypeOK, CallInv, Look, Kinds
<1>2. LockIsOwnership'
  BY <1>0 DEF IInv, TypeOK, LockIsOwnership, CallInv, Index, Look
<1>3. CallInv'
  BY <1>0 DEF IInv, TypeOK, LockIsOwnership, CallInv, Inside, Fits, Index, Look
<1>4. SteadyInv'
  BY <1>0 DEF IInv, TypeOK, LockIsOwnership, CallInv, SteadyInv, Inside, Fits,
     Visit, Look
<1> QED
  BY <1>1, <1>2, <1>3, <1>4 DEF IInv

\* The invariant survives a successful trylock.
LEMMA TryLockStep ==
  ASSUME IInv, NEW t \in Threads, TryLock(t)
  PROVE  IInv'
<1> USE ThreadsAssumption, SizeAssumption, BoundAssumption, CallsAssumption
<1>0. tries[t] < QSize /\ Index(t) \in Page /\ Index(t) = Visit(first[t], tries[t])
  BY IndexInside DEF IInv, CallInv, TryLock
<1>1. TypeOK'
  BY <1>0 DEF IInv, TypeOK, CallInv, TryLock, Kinds
<1>2. LockIsOwnership'
  BY <1>0 DEF IInv, TypeOK, LockIsOwnership, CallInv, Index, TryLock
<1>3. CallInv'
  BY <1>0 DEF IInv, TypeOK, LockIsOwnership, CallInv, Inside, Fits, Index,
     TryLock
<1>4. SteadyInv'
  BY <1>0 DEF IInv, TypeOK, LockIsOwnership, CallInv, SteadyInv, Inside, Fits,
     Visit, TryLock
<1> QED
  BY <1>1, <1>2, <1>3, <1>4 DEF IInv

\* The invariant survives a failed trylock.
LEMMA TryLockFailsStep ==
  ASSUME IInv, NEW t \in Threads, TryLockFails(t)
  PROVE  IInv'
<1> USE ThreadsAssumption, SizeAssumption, BoundAssumption, CallsAssumption
<1>0. tries[t] < QSize /\ Index(t) \in Page /\ Index(t) = Visit(first[t], tries[t])
  BY IndexInside DEF IInv, CallInv, TryLockFails
<1>1. TypeOK'
  BY <1>0 DEF IInv, TypeOK, CallInv, TryLockFails, Kinds
<1>2. LockIsOwnership'
  BY <1>0 DEF IInv, TypeOK, LockIsOwnership, CallInv, Index, TryLockFails
<1>3. CallInv'
  BY <1>0 DEF IInv, TypeOK, LockIsOwnership, CallInv, Inside, Fits, Index,
     TryLockFails
<1>4. SteadyInv'
  <2> SUFFICES ASSUME NEW u \in Threads, NEW p \in steady[u]
               PROVE  /\ lock'[p] = None
                      /\ Fits(p, call[u])
                      /\ \A i \in 0 .. QSize - 1 : i < tries'[u] => Visit(first[u], i) # p
    BY DEF SteadyInv, TryLockFails, Fits, Visit
  <2>1. lock[p] = None /\ Fits(p, call[u]) /\ p \in Page
    BY DEF IInv, TypeOK, SteadyInv
  <2>2. lock'[p] = None
    BY <1>0, <2>1 DEF IInv, TypeOK, TryLockFails
  <2>3. \A i \in 0 .. QSize - 1 : i < tries[u] => Visit(first[u], i) # p
    BY DEF IInv, SteadyInv
  <2>4. lock[Index(t)] # None
    BY <1>0 DEF IInv, LockIsOwnership, TryLockFails
  <2>5. ASSUME NEW i \in 0 .. QSize - 1, i < tries'[u] PROVE Visit(first[u], i) # p
    <3>1. CASE i < tries[u]
      BY <2>3, <3>1
    <3>2. CASE ~ i < tries[u]
      <4>0. tries \in [Threads -> 0 .. QSize] /\ tries' = [tries EXCEPT ![t] = @ + 1]
        BY DEF IInv, TypeOK, TryLockFails
      <4>1. u = t /\ i = tries[t]
        BY <2>5, <3>2, <4>0
      <4> QED
        BY <1>0, <2>1, <2>4, <4>1
    <3> QED
      BY <3>1, <3>2
  <2> QED
    BY <2>1, <2>2, <2>5
<1> QED
  BY <1>1, <1>2, <1>3, <1>4 DEF IInv

\* The invariant survives the return of Get with a page.
LEMMA GotPageStep ==
  ASSUME IInv, NEW t \in Threads, GotPage(t)
  PROVE  IInv'
<1> USE ThreadsAssumption, SizeAssumption, BoundAssumption, CallsAssumption
<1>0. tries[t] < QSize /\ Index(t) \in Page /\ Index(t) = Visit(first[t], tries[t])
  BY IndexInside DEF IInv, CallInv, GotPage, Return
<1>1. TypeOK'
  BY <1>0 DEF IInv, TypeOK, CallInv, GotPage, Return, Kinds, Page
<1>2. LockIsOwnership'
  BY <1>0 DEF IInv, TypeOK, LockIsOwnership, CallInv, Index, GotPage, Return
<1>3. CallInv'
  BY <1>0 DEF IInv, TypeOK, LockIsOwnership, CallInv, Inside, Fits, Index,
     GotPage, Return
<1>4. SteadyInv'
  BY <1>0 DEF IInv, TypeOK, LockIsOwnership, CallInv, SteadyInv, Inside, Fits,
     Visit, GotPage, Return
<1> QED
  BY <1>1, <1>2, <1>3, <1>4 DEF IInv

\* The invariant survives the release of a page that does not suit.
LEMMA MoveOnStep ==
  ASSUME IInv, NEW t \in Threads, MoveOn(t)
  PROVE  IInv'
<1> USE ThreadsAssumption, SizeAssumption, BoundAssumption, CallsAssumption
<1>0. tries[t] < QSize /\ Index(t) \in Page /\ Index(t) = Visit(first[t], tries[t])
  BY IndexInside DEF IInv, CallInv, MoveOn
<1>1. TypeOK'
  BY <1>0 DEF IInv, TypeOK, CallInv, MoveOn, Kinds
<1>2. LockIsOwnership'
  BY <1>0 DEF IInv, TypeOK, LockIsOwnership, CallInv, Index, MoveOn
<1>3. CallInv'
  BY <1>0 DEF IInv, TypeOK, LockIsOwnership, CallInv, Inside, Fits, Index,
     MoveOn
<1>4. SteadyInv'
  <2> SUFFICES ASSUME NEW u \in Threads, NEW p \in steady[u]
               PROVE  /\ lock'[p] = None
                      /\ Fits(p, call[u])
                      /\ \A i \in 0 .. QSize - 1 : i < tries'[u] => Visit(first[u], i) # p
    BY DEF SteadyInv, MoveOn, Fits, Visit
  <2>1. lock[p] = None /\ Fits(p, call[u]) /\ p \in Page
    BY DEF IInv, TypeOK, SteadyInv
  <2>2. lock'[p] = None
    BY <1>0, <2>1 DEF IInv, TypeOK, MoveOn
  <2>3. \A i \in 0 .. QSize - 1 : i < tries[u] => Visit(first[u], i) # p
    BY DEF IInv, SteadyInv
  <2>4. lock[Index(t)] # None
    BY <1>0 DEF IInv, LockIsOwnership, MoveOn
  <2>5. ASSUME NEW i \in 0 .. QSize - 1, i < tries'[u] PROVE Visit(first[u], i) # p
    <3>1. CASE i < tries[u]
      BY <2>3, <3>1
    <3>2. CASE ~ i < tries[u]
      <4>0. tries \in [Threads -> 0 .. QSize] /\ tries' = [tries EXCEPT ![t] = @ + 1]
        BY DEF IInv, TypeOK, MoveOn
      <4>1. u = t /\ i = tries[t]
        BY <2>5, <3>2, <4>0
      <4> QED
        BY <1>0, <2>1, <2>4, <4>1
    <3> QED
      BY <3>1, <3>2
  <2> QED
    BY <2>1, <2>2, <2>5
<1> QED
  BY <1>1, <1>2, <1>3, <1>4 DEF IInv

\* The invariant survives the return of Get without a page.
LEMMA GetFailsStep ==
  ASSUME IInv, NEW t \in Threads, GetFails(t)
  PROVE  IInv'
<1> USE ThreadsAssumption, SizeAssumption, BoundAssumption, CallsAssumption
<1>1. TypeOK'
  BY DEF IInv, TypeOK, CallInv, GetFails, Return, Kinds, Page
<1>2. LockIsOwnership'
  BY DEF IInv, TypeOK, LockIsOwnership, CallInv, Index, GetFails, Return
<1>3. CallInv'
  BY DEF IInv, TypeOK, LockIsOwnership, CallInv, Inside, Fits, Index,
     GetFails, Return
<1>4. SteadyInv'
  BY DEF IInv, TypeOK, LockIsOwnership, CallInv, SteadyInv, Inside, Fits,
     Visit, GetFails, Return
<1> QED
  BY <1>1, <1>2, <1>3, <1>4 DEF IInv

\* The invariant survives the store of an entry by Put.
LEMMA StoreEntryStep ==
  ASSUME IInv, NEW t \in Threads, NEW p \in Page, NEW k \in Kinds, StoreEntry(t, p, k)
  PROVE  IInv'
<1> USE ThreadsAssumption, SizeAssumption, BoundAssumption, CallsAssumption
<1>1. TypeOK'
  BY DEF IInv, TypeOK, CallInv, StoreEntry, Kinds
<1>2. LockIsOwnership'
  BY DEF IInv, TypeOK, LockIsOwnership, CallInv, Index, StoreEntry
<1>3. CallInv'
  BY DEF IInv, TypeOK, LockIsOwnership, CallInv, Inside, Fits, Index,
     StoreEntry
<1>4. SteadyInv'
  BY DEF IInv, TypeOK, LockIsOwnership, CallInv, SteadyInv, Inside, Fits,
     Visit, StoreEntry
<1> QED
  BY <1>1, <1>2, <1>3, <1>4 DEF IInv

\* The invariant survives the clearing of the pattern by PutEmpty.
LEMMA ClearPatternStep ==
  ASSUME IInv, NEW t \in Threads, ClearPattern(t)
  PROVE  IInv'
<1> USE ThreadsAssumption, SizeAssumption, BoundAssumption, CallsAssumption
<1>1. TypeOK'
  BY DEF IInv, TypeOK, CallInv, ClearPattern, Kinds
<1>2. LockIsOwnership'
  BY DEF IInv, TypeOK, LockIsOwnership, CallInv, Index, ClearPattern
<1>3. CallInv'
  BY DEF IInv, TypeOK, LockIsOwnership, CallInv, Inside, Fits, Index,
     ClearPattern
<1>4. SteadyInv'
  BY DEF IInv, TypeOK, LockIsOwnership, CallInv, SteadyInv, Inside, Fits,
     Visit, ClearPattern
<1> QED
  BY <1>1, <1>2, <1>3, <1>4 DEF IInv

\* The invariant survives the unlock at the end of Put.
LEMMA UnlockStep ==
  ASSUME IInv, NEW t \in Threads, Unlock(t)
  PROVE  IInv'
<1> USE ThreadsAssumption, SizeAssumption, BoundAssumption, CallsAssumption
<1>1. TypeOK'
  BY DEF IInv, TypeOK, CallInv, Unlock, Kinds
<1>2. LockIsOwnership'
  BY DEF IInv, TypeOK, LockIsOwnership, CallInv, Index, Unlock
<1>3. CallInv'
  BY DEF IInv, TypeOK, LockIsOwnership, CallInv, Inside, Fits, Index, Unlock
<1>4. SteadyInv'
  BY DEF IInv, TypeOK, LockIsOwnership, CallInv, SteadyInv, Inside, Fits,
     Visit, Unlock
<1> QED
  BY <1>1, <1>2, <1>3, <1>4 DEF IInv

LEMMA NextInv == IInv /\ [Next]_vars => IInv'
<1> SUFFICES ASSUME IInv, [Next]_vars PROVE IInv'
  OBVIOUS
<1>1. CASE UNCHANGED vars
  BY <1>1 DEF vars, IInv, TypeOK, LockIsOwnership, CallInv, SteadyInv, Inside,
              Fits, Index, Visit
<1>2. CASE Next
  BY <1>2, GetStep, LookStep, TryLockStep, TryLockFailsStep, GotPageStep,
     MoveOnStep, GetFailsStep, StoreEntryStep, ClearPatternStep, UnlockStep
     DEF Next, Step
<1> QED
  BY <1>1, <1>2

\* The inductive invariant holds in every state.
LEMMA Inductive == Spec => []IInv
BY InitInv, NextInv, PTL DEF Spec

-----------------------------------------------------------------------------
(* The safety properties.                                                  *)

\* The fields of a FineLockPEQueue and the locals of its calls keep their
\* types, for any number of threads and pages.
THEOREM TypeCorrect == Spec => []TypeOK
<1>1. IInv => TypeOK
  BY DEF IInv
<1> QED
  BY <1>1, Inductive, PTL

\* A page's mutex is exactly the ownership of the page: no page is given to
\* two threads, and a search leaves no lock behind.
THEOREM Ownership == Spec => []LockIsOwnership
<1>1. IInv => LockIsOwnership
  BY DEF IInv
<1> QED
  BY <1>1, Inductive, PTL

LEMMA NothingMissed == IInv => FailIsJustified
<1> SUFFICES ASSUME IInv, NEW t \in Threads, tries[t] = QSize, NEW p \in steady[t]
             PROVE  FALSE
  BY DEF FailIsJustified
<1>1. first[t] \in Page /\ p \in Page
  BY DEF IInv, TypeOK
<1>2. PICK i \in 0 .. QSize - 1 : Visit(first[t], i) = p
  BY <1>1, VisitCovers
<1>3. i < tries[t]
  BY SizeAssumption, BoundAssumption
<1> QED
  BY <1>2, <1>3 DEF IInv, SteadyInv

\* Get fails only when no page was free and fitting all through the call, for
\* any interleaving of any number of threads.
THEOREM JustifiedFailure == Spec => []FailIsJustified
BY NothingMissed, Inductive, PTL

-----------------------------------------------------------------------------
(* The queue implements PagePool.                                          *)

\* A thread whose locals a step leaves alone looks the same to the pool.
LEMMA Bystander ==
  ASSUME IInv, NEW u \in Threads,
         pc'[u] = pc[u], call'[u] = call[u], first'[u] = first[u],
         tries'[u] = tries[u], pc[u] = "locked" => kind'[Index(u)] = kind[Index(u)]
  PROVE  /\ Index(u)' = Index(u)
         /\ Mistaken(u)' <=> Mistaken(u)
         /\ Succeeding(u)' <=> Succeeding(u)
BY DEF Index, Mistaken, Succeeding

\* A page whose lock a step leaves alone looks the same to the pool, if its
\* owner does.
LEMMA SamePage ==
  ASSUME IInv, NEW p \in Page, lock'[p] = lock[p],
         lock[p] # None => /\ p \in held'[lock[p]] <=> p \in held[lock[p]]
                           /\ Mistaken(lock[p])' <=> Mistaken(lock[p])
  PROVE  InQueue(p)' <=> InQueue(p)
BY DEF InQueue

\* An unlocked page is in the pool and free; a page that a mistaken search has
\* locked is in the pool and not free.
LEMMA FreePage ==
  ASSUME IInv, NEW p \in Page
  PROVE  /\ lock[p] = None => InQueue(p) /\ Pool!Free(p)
         /\ lock[p] # None /\ InQueue(p) => ~ Pool!Free(p)
<1>1. None \notin Page
  BY NoneAssumption DEF Page
<1>2. ASSUME lock[p] = None PROVE InQueue(p) /\ Pool!Free(p)
  BY <1>1, <1>2, ThreadsAssumption
     DEF Pool!Free, peekBar, InQueue, Mistaken, IInv, LockIsOwnership
<1>3. ASSUME lock[p] # None, InQueue(p) PROVE ~ Pool!Free(p)
  BY <1>3 DEF Pool!Free, peekBar, InQueue, Mistaken, IInv, TypeOK,
     LockIsOwnership
<1> QED
  BY <1>2, <1>3

LEMMA InitPool == Init => Pool!Init
BY ThreadsAssumption, SizeAssumption, BoundAssumption
DEF Init, Pool!Init, poolBar, ownerBar, callBar, peekBar, steadyBar, InQueue,
    Mistaken, Succeeding, Page

\* The call of Get is the pool's call.
LEMMA GetPool ==
  ASSUME IInv, NEW t \in Threads, NEW c \in Calls, NEW f \in Page, Get(t, c, f)
  PROVE  Pool!Get(t, c)
<1> USE ThreadsAssumption, CallsAssumption, NoneAssumption
<1>1. \A u \in Threads : u # t =>
        /\ Index(u)' = Index(u)
        /\ Mistaken(u)' <=> Mistaken(u)
        /\ Succeeding(u)' <=> Succeeding(u)
  BY Bystander DEF Get, IInv, TypeOK
<1>2. /\ ~ Mistaken(t) /\ ~ Mistaken(t)' /\ ~ Succeeding(t) /\ ~ Succeeding(t)'
  BY DEF Get, Mistaken, Succeeding, IInv, TypeOK
<1>3. \A p \in Page : InQueue(p)' <=> InQueue(p)
  BY <1>1, <1>2, SamePage DEF Get, IInv, TypeOK
<1>4. poolBar' = poolBar /\ ownerBar' = ownerBar
  BY <1>3 DEF Get, poolBar, ownerBar
<1>5. peekBar' = peekBar
  BY <1>1, <1>2 DEF peekBar
<1>6. callBar[t] = None /\ callBar' = [callBar EXCEPT ![t] = c]
  BY <1>1, <1>2 DEF Get, callBar, IInv, TypeOK, CallInv, Inside
<1>7. \A p \in Page : lock[p] = None /\ Fits(p, c) <=> Pool!Free(p) /\ Pool!Fits(p, c)
  <2> TAKE p \in Page
  <2>1. CASE lock[p] = None
    BY <2>1, FreePage DEF Pool!Fits, Fits, poolBar
  <2>2. CASE lock[p] # None /\ InQueue(p)
    BY <2>2, FreePage
  <2>3. CASE lock[p] # None /\ ~ InQueue(p)
    BY <2>3 DEF Pool!Fits, poolBar
  <2> QED
    BY <2>1, <2>2, <2>3
<1>8. steadyBar' = [steadyBar EXCEPT ![t] = {p \in Page : Pool!Free(p) /\ Pool!Fits(p, c)}]
  BY <1>1, <1>2, <1>7 DEF Get, steadyBar, IInv, TypeOK
<1> QED
  BY <1>4, <1>5, <1>6, <1>8 DEF Pool!Get

\* What the steps that the pool does not see have in common: the locks stay,
\* and thread t neither gains nor loses a page.
LEMMA PoolStutter ==
  ASSUME IInv, NEW t \in Threads, lock' = lock,
         \A u \in Threads : u # t =>
            /\ pc'[u] = pc[u] /\ call'[u] = call[u] /\ first'[u] = first[u]
            /\ tries'[u] = tries[u] /\ held'[u] = held[u] /\ steady'[u] = steady[u]
            /\ pc[u] = "locked" => kind'[Index(u)] = kind[Index(u)],
         ~ Mistaken(t), ~ Mistaken(t)',
         \A p \in Page : lock[p] # t => kind'[p] = kind[p],
         callBar'[t] = callBar[t], steadyBar'[t] = steadyBar[t]
  PROVE  UNCHANGED Pool!vars
<1> USE ThreadsAssumption
<1>1. \A u \in Threads : u # t =>
        /\ Index(u)' = Index(u)
        /\ Mistaken(u)' <=> Mistaken(u)
        /\ Succeeding(u)' <=> Succeeding(u)
  BY Bystander
<1>2. \A p \in Page : InQueue(p)' <=> InQueue(p)
  <2> TAKE p \in Page
  <2>1. CASE lock[p] = t
    BY <2>1 DEF InQueue
  <2>2. CASE lock[p] # t
    BY <1>1, <2>2 DEF InQueue, IInv, TypeOK
  <2> QED
    BY <2>1, <2>2
<1>3. \A p \in Page : InQueue(p) => kind'[p] = kind[p]
  BY DEF InQueue
<1>4. poolBar' = poolBar
  BY <1>2, <1>3 DEF poolBar
<1>5. ownerBar' = ownerBar
  BY <1>2 DEF ownerBar
<1>6. peekBar' = peekBar
  BY <1>1 DEF peekBar
<1>7. callBar' = callBar
  <2>1. \A u \in Threads : callBar'[u] = callBar[u]
    BY <1>1 DEF callBar
  <2> QED
    BY <2>1 DEF callBar
<1>8. steadyBar' = steadyBar
  <2>1. \A u \in Threads : steadyBar'[u] = steadyBar[u]
    BY <1>1 DEF steadyBar
  <2> QED
    BY <2>1 DEF steadyBar
<1> QED
  BY <1>4, <1>5, <1>6, <1>7, <1>8 DEF Pool!vars

\* Looking, failing to lock, returning with a page and the two stores of Put
\* do not show in the pool.
LEMMA HiddenSteps ==
  ASSUME IInv, NEW t \in Threads,
         \/ Look(t) \/ TryLockFails(t) \/ GotPage(t) \/ ClearPattern(t)
         \/ \E p \in Page, k \in Kinds : StoreEntry(t, p, k)
  PROVE  UNCHANGED Pool!vars
<1> USE ThreadsAssumption
<1>1. CASE Look(t)
  BY <1>1, PoolStutter
     DEF Look, IInv, TypeOK, Mistaken, Succeeding, callBar, steadyBar
<1>2. CASE TryLockFails(t)
  BY <1>2, PoolStutter
     DEF TryLockFails, IInv, TypeOK, Mistaken, Succeeding, callBar, steadyBar
<1>3. CASE GotPage(t)
  BY <1>3, PoolStutter DEF GotPage, Return, IInv, TypeOK, Mistaken,
     Succeeding, callBar, steadyBar
<1>4. CASE ClearPattern(t)
  <2>1. \A u \in Threads : u # t /\ pc[u] = "locked" => kind'[Index(u)] = kind[Index(u)]
    BY <1>4, IndexInside DEF ClearPattern, IInv, TypeOK, LockIsOwnership,
       CallInv
  <2>2. lock[put[t]] = t
    BY <1>4 DEF ClearPattern, IInv, TypeOK, LockIsOwnership, CallInv
  <2> QED
    BY <1>4, <2>1, <2>2, PoolStutter
       DEF ClearPattern, IInv, TypeOK, Mistaken, Succeeding, callBar, steadyBar
<1>5. ASSUME NEW p \in Page, NEW k \in Kinds, StoreEntry(t, p, k)
      PROVE  UNCHANGED Pool!vars
  <2>1. \A u \in Threads : u # t /\ pc[u] = "locked" => kind'[Index(u)] = kind[Index(u)]
    BY <1>5, IndexInside DEF StoreEntry, IInv, TypeOK, LockIsOwnership, CallInv
  <2>2. lock[p] = t
    BY <1>5 DEF StoreEntry, IInv, TypeOK, LockIsOwnership, CallInv
  <2> QED
    BY <1>5, <2>1, <2>2, PoolStutter
       DEF StoreEntry, IInv, TypeOK, Mistaken, Succeeding, callBar, steadyBar
<1> QED
  BY <1>1, <1>2, <1>3, <1>4, <1>5

\* Releasing a page that does not suit ends the pool's peek.
LEMMA MoveOnPool ==
  ASSUME IInv, NEW t \in Threads, MoveOn(t)
  PROVE  Pool!Unpeek(t)
<1> USE ThreadsAssumption
<1>0. Index(t) \in Page /\ lock[Index(t)] = t /\ Index(t) \notin held[t] /\ Index(t) # None
  BY IndexInside, NoneAssumption DEF MoveOn, IInv, CallInv, LockIsOwnership,
     Page
<1>1. \A u \in Threads : u # t =>
        /\ Index(u)' = Index(u)
        /\ Mistaken(u)' <=> Mistaken(u)
        /\ Succeeding(u)' <=> Succeeding(u)
  BY Bystander DEF MoveOn, IInv, TypeOK
<1>2. Mistaken(t) /\ ~ Mistaken(t)' /\ ~ Succeeding(t) /\ ~ Succeeding(t)'
  BY DEF MoveOn, Mistaken, Succeeding, IInv, TypeOK
<1>3. \A p \in Page : InQueue(p)' <=> InQueue(p)
  <2> TAKE p \in Page
  <2>1. CASE p = Index(t)
    BY <1>0, <1>2, <2>1 DEF MoveOn, InQueue, IInv, TypeOK
  <2>2. CASE p # Index(t)
    <3>1. lock'[p] = lock[p] /\ held' = held
      BY <2>2 DEF MoveOn, IInv, TypeOK
    <3>2. lock[p] = t => p \in held[t]
      BY <2>2 DEF IInv, LockIsOwnership
    <3> QED
      BY <1>1, <3>1, <3>2 DEF InQueue, IInv, TypeOK
  <2> QED
    BY <2>1, <2>2
<1>4. poolBar' = poolBar
  BY <1>3 DEF MoveOn, poolBar
<1>5. ownerBar' = ownerBar
  BY <1>3 DEF MoveOn, ownerBar, InQueue, IInv, TypeOK
<1>6. peekBar[t] # None /\ peekBar' = [peekBar EXCEPT ![t] = None]
  BY <1>0, <1>1, <1>2 DEF peekBar
<1>7. callBar' = callBar /\ steadyBar' = steadyBar
  BY <1>1, <1>2 DEF MoveOn, callBar, steadyBar
<1> QED
  BY <1>4, <1>5, <1>6, <1>7 DEF Pool!Unpeek

\* A successful trylock takes the page, or peeks at it by mistake.
LEMMA TryLockPool ==
  ASSUME IInv, NEW t \in Threads, TryLock(t)
  PROVE  \E p \in Page : Pool!Take(t, p) \/ Pool!Peek(t, p)
<1> USE ThreadsAssumption, CallsAssumption
<1>p. PICK q \in Page : q = Index(t)
  BY IndexInside DEF TryLock, IInv, CallInv
<1>0. /\ lock[q] = None /\ q \notin held[t] /\ q # None
      /\ call[t] \in Calls /\ PageTag[q] \in call[t].mask
  BY <1>p, NoneAssumption DEF TryLock, IInv, CallInv, LockIsOwnership, Page,
     Inside
<1>1. \A u \in Threads : u # t =>
        /\ Index(u)' = Index(u)
        /\ Mistaken(u)' <=> Mistaken(u)
        /\ Succeeding(u)' <=> Succeeding(u)
  BY Bystander DEF TryLock, IInv, TypeOK
<1>2. Index(t)' = q
  BY <1>p DEF TryLock, Index
<1>3. ~ Mistaken(t) /\ ~ Succeeding(t)
  BY DEF TryLock, Mistaken, Succeeding, IInv, TypeOK
<1>4. InQueue(q) /\ Pool!Free(q) /\ poolBar[q] = kind[q]
  BY <1>0, FreePage DEF poolBar
<1>5. \A p \in Page : p # q => (InQueue(p)' <=> InQueue(p))
  <2> TAKE p \in Page
  <2> HAVE p # q
  <2>1. lock'[p] = lock[p] /\ held' = held
    BY <1>p DEF TryLock, IInv, TypeOK
  <2>2. lock[p] = t => p \in held[t]
    BY <1>3 DEF IInv, LockIsOwnership, TryLock
  <2> QED
    BY <1>1, <2>1, <2>2 DEF InQueue, IInv, TypeOK
<1>6. lock'[q] = t /\ kind' = kind /\ call' = call /\ held' = held /\ pc'[t] = "locked"
  BY <1>p, <1>0 DEF TryLock, IInv, TypeOK
<1>l. \A p \in Page : p # q => lock'[p] = lock[p]
  BY <1>p DEF TryLock, IInv, TypeOK
<1>7. callBar[t] = call[t] /\ call[t] # None /\ peekBar[t] = None
  BY <1>0, <1>3 DEF callBar, peekBar
<1>8. CASE kind[q] = call[t].kind
  <2>1. Succeeding(t)' /\ ~ Mistaken(t)'
    BY <1>2, <1>6, <1>8 DEF Succeeding, Mistaken
  <2>2. ~ InQueue(q)'
    BY <1>6, <2>1 DEF InQueue
  <2>3. poolBar' = [poolBar EXCEPT ![q] = "taken"]
    BY <1>0, <1>5, <1>6, <2>2 DEF poolBar
  <2>4. ownerBar' = [ownerBar EXCEPT ![q] = t]
    BY <1>0, <1>5, <1>6, <1>l, <2>2 DEF ownerBar
  <2>5. callBar' = [callBar EXCEPT ![t] = None]
    BY <1>1, <1>6, <2>1 DEF callBar
  <2>6. peekBar' = peekBar
    BY <1>1, <1>3, <2>1 DEF peekBar
  <2>7. steadyBar' = [[u \in Threads |-> steadyBar[u] \ {q}] EXCEPT ![t] = {}]
    BY <1>p, <1>1, <2>1 DEF steadyBar, TryLock
  <2>8. Pool!Fits(q, callBar[t])
    BY <1>0, <1>4, <1>7, <1>8 DEF Pool!Fits
  <2> QED
    BY <1>0, <1>4, <1>7, <2>3, <2>4, <2>5, <2>6, <2>7, <2>8 DEF Pool!Take,
       Pool!Unsteady
<1>9. CASE kind[q] # call[t].kind
  <2>1. Mistaken(t)' /\ ~ Succeeding(t)'
    BY <1>2, <1>6, <1>9 DEF Succeeding, Mistaken
  <2>2. InQueue(q)'
    BY <1>0, <1>6, <2>1 DEF InQueue
  <2>3. poolBar' = poolBar
    BY <1>4, <1>5, <1>6, <2>2 DEF poolBar
  <2>4. ownerBar' = ownerBar
    BY <1>4, <1>5, <1>l, <2>2 DEF ownerBar
  <2>5. callBar' = callBar
    BY <1>1, <1>3, <1>6, <2>1 DEF callBar
  <2>6. peekBar' = [peekBar EXCEPT ![t] = q]
    BY <1>1, <1>2, <2>1 DEF peekBar
  <2>7. steadyBar' = [u \in Threads |-> steadyBar[u] \ {q}]
    BY <1>p, <1>1, <1>3, <2>1 DEF steadyBar, TryLock
  <2>8. poolBar[q] # "taken" /\ poolBar[q] # callBar[t].kind
    BY <1>0, <1>4, <1>7, <1>9 DEF IInv, TypeOK, Kinds
  <2> QED
    BY <1>0, <1>4, <1>7, <2>3, <2>4, <2>5, <2>6, <2>7, <2>8 DEF Pool!Peek,
       Pool!Unsteady
<1> QED
  BY <1>8, <1>9

\* Get returns false: the pool may fail the call.
LEMMA GetFailsPool ==
  ASSUME IInv, NEW t \in Threads, GetFails(t)
  PROVE  Pool!Fail(t)
<1> USE ThreadsAssumption, CallsAssumption
<1>1. \A u \in Threads : u # t =>
        /\ Index(u)' = Index(u)
        /\ Mistaken(u)' <=> Mistaken(u)
        /\ Succeeding(u)' <=> Succeeding(u)
  BY Bystander DEF GetFails, Return, IInv, TypeOK
<1>2. /\ ~ Mistaken(t) /\ ~ Mistaken(t)' /\ ~ Succeeding(t) /\ ~ Succeeding(t)'
  BY DEF GetFails, Return, Mistaken, Succeeding, IInv, TypeOK
<1>3. \A p \in Page : InQueue(p)' <=> InQueue(p)
  BY <1>1, <1>2, SamePage DEF GetFails, IInv, TypeOK
<1>4. poolBar' = poolBar /\ ownerBar' = ownerBar
  BY <1>3 DEF GetFails, poolBar, ownerBar
<1>5. peekBar' = peekBar /\ peekBar[t] = None
  BY <1>1, <1>2 DEF peekBar
<1>6. callBar[t] # None /\ callBar' = [callBar EXCEPT ![t] = None]
  BY <1>1, <1>2 DEF GetFails, Return, callBar, IInv, TypeOK, CallInv, Inside
<1>7. steady[t] = {}
  BY NothingMissed DEF FailIsJustified, GetFails
<1>8. steadyBar[t] = {} /\ steadyBar' = steadyBar
  BY <1>1, <1>2, <1>7 DEF GetFails, Return, steadyBar, IInv, TypeOK
<1> QED
  BY <1>4, <1>5, <1>6, <1>8 DEF Pool!Fail

\* The unlock at the end of Put returns the page to the pool.
LEMMA UnlockPool ==
  ASSUME IInv, NEW t \in Threads, Unlock(t)
  PROVE  \E p \in Page, k \in Kinds : Pool!Put(t, p, k)
<1> USE ThreadsAssumption, CallsAssumption
<1>p. PICK q \in Page : q = put[t]
  BY DEF Unlock, IInv, TypeOK, CallInv
<1>0. q \in held[t] /\ lock[q] = t /\ kind[q] \in Kinds
  BY <1>p DEF Unlock, IInv, TypeOK, CallInv, LockIsOwnership
<1>1. \A u \in Threads : u # t =>
        /\ Index(u)' = Index(u)
        /\ Mistaken(u)' <=> Mistaken(u)
        /\ Succeeding(u)' <=> Succeeding(u)
  BY Bystander DEF Unlock, IInv, TypeOK
<1>2. ~ Mistaken(t) /\ ~ Mistaken(t)' /\ ~ Succeeding(t) /\ ~ Succeeding(t)'
  BY DEF Unlock, Mistaken, Succeeding, IInv, TypeOK
<1>3. ~ InQueue(q) /\ InQueue(q)'
  BY <1>p, <1>0 DEF InQueue, Unlock, IInv, TypeOK
<1>4. \A p \in Page : p # q => (InQueue(p)' <=> InQueue(p)) /\ lock'[p] = lock[p]
  BY <1>p, <1>1, <1>2 DEF InQueue, Unlock, IInv, TypeOK
<1>5. poolBar' = [poolBar EXCEPT ![q] = kind[q]]
  BY <1>0, <1>3, <1>4 DEF poolBar, Unlock
<1>6. ownerBar[q] = t /\ ownerBar' = [ownerBar EXCEPT ![q] = None]
  BY <1>0, <1>3, <1>4 DEF ownerBar
<1>7. callBar[t] = None /\ callBar' = callBar
  BY <1>1, <1>2 DEF callBar, Unlock, IInv, CallInv, Inside
<1>8. peekBar' = peekBar /\ steadyBar' = steadyBar
  BY <1>1, <1>2 DEF peekBar, steadyBar, Unlock
<1> QED
  BY <1>0, <1>5, <1>6, <1>7, <1>8 DEF Pool!Put

LEMMA NextPool == IInv /\ [Next]_vars => [Pool!Next]_(Pool!vars)
<1> SUFFICES ASSUME IInv, [Next]_vars PROVE Pool!Next \/ UNCHANGED Pool!vars
  OBVIOUS
<1>1. CASE UNCHANGED vars
  BY <1>1 DEF vars, Pool!vars, poolBar, ownerBar, callBar, peekBar, steadyBar,
              InQueue, Mistaken, Succeeding, Index
<1>2. CASE Next
  <2>1. PICK t \in Threads :
          \/ \E c \in Calls, f \in Page : Get(t, c, f)
          \/ \E p \in Page, k \in Kinds : StoreEntry(t, p, k)
          \/ Step(t)
    BY <1>2 DEF Next
  <2>2. \/ \E c \in Calls : Pool!Get(t, c)
        \/ Pool!Fail(t)
        \/ Pool!Unpeek(t)
        \/ \E p \in Page : Pool!Take(t, p) \/ Pool!Peek(t, p)
        \/ \E p \in Page, k \in Kinds : Pool!Put(t, p, k)
        \/ UNCHANGED Pool!vars
    BY <2>1, GetPool, GetFailsPool, MoveOnPool, TryLockPool, UnlockPool,
       HiddenSteps DEF Step
  <2> QED
    BY <2>2 DEF Pool!Next, Pool!Kinds, Kinds
<1> QED
  BY <1>1, <1>2

\* The queue with its locks and its walk implements PagePool, for any number
\* of threads and pages: what a Get returns fits and is the caller's alone,
\* and a Get fails only for the reasons PagePool allows.
THEOREM Refinement == Spec => ImplementsPagePool
BY InitPool, NextPool, Inductive, PTL DEF Spec, ImplementsPagePool, Pool!Spec

=============================================================================
