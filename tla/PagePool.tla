------------------------------ MODULE PagePool ------------------------------
(***************************************************************************)
(* What the page queue of stressapptest promises to its threads: a page is *)
(* empty, valid or taken by one thread; Get returns a page of the kind and *)
(* tag that was asked for and takes it; Put returns it.                    *)
(*                                                                         *)
(* Get may fail, but only when no page fitted all through the call: each   *)
(* one was, at some moment since the call, taken, of the other kind or     *)
(* under the eyes of another search, which looks for the other kind.       *)
(* "steady" is the set of pages that fitted ever since.                    *)
(***************************************************************************)
CONSTANTS
  Threads,
  Page,
  PageTag,    \* the tag of each page
  Calls,      \* the kinds and sets of tags that callers ask for
  None

VARIABLES
  pool,     \* "empty", "valid", or "taken"
  owner,    \* who has taken the page
  call,     \* the Get that a thread is in: its kind and mask, or None
  peek,     \* a page that the call keeps for a moment from the others
  steady    \* pages that would have satisfied that call ever since

vars == <<pool, owner, call, peek, steady>>

Kinds == {"empty", "valid"}

Fits(p, c) == pool[p] = c.kind /\ PageTag[p] \in c.mask

Free(p) == \A t \in Threads : peek[t] # p

Init ==
  /\ \E t \in Threads : owner = [p \in Page |-> t]
  /\ pool = [p \in Page |-> "taken"]
  /\ call = [t \in Threads |-> None]
  /\ peek = [t \in Threads |-> None]
  /\ steady = [t \in Threads |-> {}]

\* No search can count on p any more.
Unsteady(p) == [t \in Threads |-> steady[t] \ {p}]

\* GetValid() or GetEmpty() is called.
Get(t, c) ==
  /\ call[t] = None
  /\ call' = [call EXCEPT ![t] = c]
  /\ steady' = [steady EXCEPT ![t] = {p \in Page : Free(p) /\ Fits(p, c)}]
  /\ UNCHANGED <<pool, owner, peek>>

\* The call takes p ...
Take(t, p) ==
  /\ call[t] # None
  /\ peek[t] = None
  /\ Free(p)
  /\ Fits(p, call[t])
  /\ pool' = [pool EXCEPT ![p] = "taken"]
  /\ owner' = [owner EXCEPT ![p] = t]
  /\ call' = [call EXCEPT ![t] = None]
  /\ steady' = [Unsteady(p) EXCEPT ![t] = {}]
  /\ UNCHANGED <<peek>>

\* ... or gives up ...
Fail(t) ==
  /\ call[t] # None
  /\ peek[t] = None
  /\ steady[t] = {}
  /\ call' = [call EXCEPT ![t] = None]
  /\ UNCHANGED <<pool, owner, peek, steady>>

\* ... or keeps the others from a page of the wrong kind, for a moment.
Peek(t, p) ==
  /\ call[t] # None
  /\ peek[t] = None
  /\ Free(p)
  /\ pool[p] # "taken"
  /\ pool[p] # call[t].kind
  /\ peek' = [peek EXCEPT ![t] = p]
  /\ steady' = Unsteady(p)
  /\ UNCHANGED <<pool, owner, call>>

Unpeek(t) ==
  /\ peek[t] # None
  /\ peek' = [peek EXCEPT ![t] = None]
  /\ UNCHANGED <<pool, owner, call, steady>>

Put(t, p, kind) ==
  /\ call[t] = None
  /\ owner[p] = t
  /\ owner' = [owner EXCEPT ![p] = None]
  /\ pool' = [pool EXCEPT ![p] = kind]
  /\ UNCHANGED <<call, peek, steady>>

Next ==
  \E t \in Threads :
    \/ \E c \in Calls : Get(t, c)
    \/ Fail(t)
    \/ Unpeek(t)
    \/ \E p \in Page :
         \/ Take(t, p)
         \/ Peek(t, p)
         \/ \E k \in Kinds : Put(t, p, k)

Spec == Init /\ [][Next]_vars

=============================================================================
