---------------------------- MODULE SwamdProofs -----------------------------
(***************************************************************************)
(* Proofs about Swamd, for any limits that ckconf() lets through, any      *)
(* names, any failures and a signal at any point: the daemon's books are   *)
(* right, and every swapoff() names a file that is swapped on.             *)
(***************************************************************************)
EXTENDS Swamd, FiniteSetTheorems, TLAPS

\* Where addswap() and delswap() are about swamfile[chunks].
InAdd == {"statfs", "mkstemp", "write", "swapon", "count"}
OnDisk == {"write", "swapon", "unlink"}
OnSwap == {"count", "swapoff"}

\* The slot at chunks exists wherever the daemon uses it.
SlotInv == pc \in InAdd \cup OnDisk \cup OnSwap => chunks < numchunks

\* The slots that count hold different files, all swapped on, whatever the
\* daemon is doing and whether or not it is shutting down.
HeldInv ==
  /\ \A i \in 0 .. chunks - 1 :
       swamfile[i] \in Files /\ file[swamfile[i]] = "swap"
  /\ \A i, j \in 0 .. chunks - 1 : swamfile[i] = swamfile[j] => i = j

\* The file that is being added or removed is none of them.
CurrentInv ==
  /\ pc \in OnDisk =>
       swamfile[chunks] \in Files /\ file[swamfile[chunks]] = "disk"
  /\ pc \in OnSwap =>
       /\ swamfile[chunks] \in Files /\ file[swamfile[chunks]] = "swap"
       /\ \A i \in 0 .. chunks - 1 : swamfile[i] # swamfile[chunks]

\* Until the daemon shuts down, every file that exists is one that counts, the
\* one that is being added or removed, or one that a failing call left behind.
KnownInv ==
  ~exiting /\ pc # "exited" =>
    \A f \in Files : file[f] # "absent" =>
      \/ f \in lost
      \/ \E i \in 0 .. chunks - 1 : f = swamfile[i]
      \/ pc \in OnDisk \cup OnSwap /\ f = swamfile[chunks]

\* cleanup() only runs once the daemon is shutting down.
ExitInv == pc = "cleanup" => exiting

IInv == TypeOK /\ SlotInv /\ HeldInv /\ CurrentInv /\ KnownInv /\ ExitInv

\* What getswap() reads is a natural number.
LEMMA FreeIsNat == TypeOK => Free \in Nat
<1> SUFFICES ASSUME TypeOK PROVE Free \in Nat
  OBVIOUS
<1>1. IsFiniteSet(Swapped)
  BY ModelAssumption, FS_Subset DEF Swapped
<1>2. Cardinality(Swapped) \in Nat
  BY <1>1, FS_CardinalityType
<1> QED
  BY <1>2, ConfAssumption, ModelAssumption DEF Free, TypeOK

\* main() enters its loop with the invariant.
LEMMA InitInv == Init => IInv
<1> SUFFICES ASSUME Init PROVE IInv
  OBVIOUS
<1> USE ConfAssumption, ModelAssumption DEF Init
<1>1. TypeOK
  <2>1. pc \in Locs /\ chunks \in 0 .. numchunks /\ swap \in Nat
    BY DEF Locs
  <2>2. swamfile \in [Slots -> Names] /\ lost \in SUBSET Files
    BY Zenon DEF Names
  <2>3. file \in [Files -> {"absent", "disk", "swap"}] /\ base \in Bases
    BY Zenon
  <2> QED
    BY <2>1, <2>2, <2>3, Zenon DEF TypeOK
<1>2. SlotInv /\ CurrentInv /\ ExitInv
  BY DEF SlotInv, CurrentInv, ExitInv, InAdd, OnDisk, OnSwap
<1>3. HeldInv
  BY DEF HeldInv
<1>4. KnownInv
  BY DEF KnownInv
<1> QED
  BY <1>1, <1>2, <1>3, <1>4 DEF IInv

\* Every system call, failed or not, every decision and the signal handler
\* preserve the invariant.
LEMMA StepInv == IInv /\ [Next]_vars => IInv'
<1> SUFFICES ASSUME IInv, [Next]_vars PROVE IInv'
  OBVIOUS
<1> USE ConfAssumption, ModelAssumption DEF IInv, InAdd, OnDisk, OnSwap
<1>1. CASE GetSwap
  <2>1. TypeOK'
    BY FreeIsNat, <1>1 DEF Goto, GetSwap, TypeOK, SlotInv, CurrentInv, Locs,
       Names, Slots
  <2>2. SlotInv' /\ ExitInv'
    BY <1>1 DEF Goto, GetSwap, TypeOK, SlotInv, ExitInv
  <2>3. HeldInv'
    BY <1>1 DEF Goto, GetSwap, TypeOK, SlotInv, HeldInv, CurrentInv, Slots
  <2>4. CurrentInv'
    BY <1>1 DEF Goto, GetSwap, TypeOK, SlotInv, HeldInv, CurrentInv, Slots
  <2>5. KnownInv'
    BY <1>1 DEF Goto, GetSwap, TypeOK, SlotInv, HeldInv, CurrentInv, KnownInv,
       ExitInv, Slots
  <2> QED
    BY <2>1, <2>2, <2>3, <2>4, <2>5
<1>2. CASE GetSwapFails
  <2>1. TypeOK'
    BY <1>2 DEF Goto, GetSwapFails, TypeOK, SlotInv, CurrentInv, Locs, Names,
       Slots
  <2>2. SlotInv' /\ ExitInv'
    BY <1>2 DEF Goto, GetSwapFails, TypeOK, SlotInv, ExitInv
  <2>3. HeldInv'
    BY <1>2 DEF Goto, GetSwapFails, TypeOK, SlotInv, HeldInv, CurrentInv, Slots
  <2>4. CurrentInv'
    BY <1>2 DEF Goto, GetSwapFails, TypeOK, SlotInv, HeldInv, CurrentInv, Slots
  <2>5. KnownInv'
    BY <1>2 DEF Goto, GetSwapFails, TypeOK, SlotInv, HeldInv, CurrentInv,
       KnownInv, ExitInv, Slots
  <2> QED
    BY <2>1, <2>2, <2>3, <2>4, <2>5
<1>3. CASE DecideAdd
  <2>1. TypeOK'
    BY <1>3 DEF WantAdd, DecideAdd, TypeOK, SlotInv, CurrentInv, Locs, Names,
       Slots
  <2>2. SlotInv' /\ ExitInv'
    BY <1>3 DEF WantAdd, DecideAdd, TypeOK, SlotInv, ExitInv
  <2>3. HeldInv'
    BY <1>3 DEF WantAdd, DecideAdd, TypeOK, SlotInv, HeldInv, CurrentInv, Slots
  <2>4. CurrentInv'
    BY <1>3 DEF WantAdd, DecideAdd, TypeOK, SlotInv, HeldInv, CurrentInv, Slots
  <2>5. KnownInv'
    BY <1>3 DEF WantAdd, DecideAdd, TypeOK, SlotInv, HeldInv, CurrentInv,
       KnownInv, ExitInv, Slots
  <2> QED
    BY <2>1, <2>2, <2>3, <2>4, <2>5
<1>4. CASE DecideDel
  <2>1. TypeOK'
    BY <1>4 DEF WantDel, DecideDel, TypeOK, SlotInv, CurrentInv, Locs, Names,
       Slots
  <2>2. SlotInv' /\ ExitInv'
    BY <1>4 DEF WantDel, DecideDel, TypeOK, SlotInv, ExitInv
  <2>3. HeldInv'
    BY <1>4 DEF WantDel, DecideDel, TypeOK, SlotInv, HeldInv, CurrentInv, Slots
  <2>4. CurrentInv'
    BY <1>4 DEF WantDel, DecideDel, TypeOK, SlotInv, HeldInv, CurrentInv, Slots
  <2>5. KnownInv'
    BY <1>4 DEF WantDel, DecideDel, TypeOK, SlotInv, HeldInv, CurrentInv,
       KnownInv, ExitInv, Slots
  <2> QED
    BY <2>1, <2>2, <2>3, <2>4, <2>5
<1>5. CASE Sleep
  <2>1. TypeOK'
    BY <1>5 DEF Goto, Sleep, TypeOK, SlotInv, CurrentInv, Locs, Names, Slots
  <2>2. SlotInv' /\ ExitInv'
    BY <1>5 DEF Goto, Sleep, TypeOK, SlotInv, ExitInv
  <2>3. HeldInv'
    BY <1>5 DEF Goto, Sleep, TypeOK, SlotInv, HeldInv, CurrentInv, Slots
  <2>4. CurrentInv'
    BY <1>5 DEF Goto, Sleep, TypeOK, SlotInv, HeldInv, CurrentInv, Slots
  <2>5. KnownInv'
    BY <1>5 DEF Goto, Sleep, TypeOK, SlotInv, HeldInv, CurrentInv, KnownInv,
       ExitInv, Slots
  <2> QED
    BY <2>1, <2>2, <2>3, <2>4, <2>5
<1>6. CASE StatfsFails
  <2>1. TypeOK'
    BY <1>6 DEF Fatal, Goto, StatfsFails, TypeOK, SlotInv, CurrentInv, Locs,
       Names, Slots
  <2>2. SlotInv' /\ ExitInv'
    BY <1>6 DEF Fatal, Goto, StatfsFails, TypeOK, SlotInv, ExitInv
  <2>3. HeldInv'
    BY <1>6 DEF Fatal, Goto, StatfsFails, TypeOK, SlotInv, HeldInv,
       CurrentInv, Slots
  <2>4. CurrentInv'
    BY <1>6 DEF Fatal, Goto, StatfsFails, TypeOK, SlotInv, HeldInv,
       CurrentInv, Slots
  <2>5. KnownInv'
    BY <1>6 DEF Fatal, Goto, StatfsFails, TypeOK, SlotInv, HeldInv,
       CurrentInv, KnownInv, ExitInv, Slots
  <2> QED
    BY <2>1, <2>2, <2>3, <2>4, <2>5
<1>7. CASE MkstempFails
  <2>1. TypeOK'
    BY <1>7 DEF Fatal, Goto, MkstempFails, TypeOK, SlotInv, CurrentInv, Locs,
       Names, Slots
  <2>2. SlotInv' /\ ExitInv'
    BY <1>7 DEF Fatal, Goto, MkstempFails, TypeOK, SlotInv, ExitInv
  <2>3. HeldInv'
    BY <1>7 DEF Fatal, Goto, MkstempFails, TypeOK, SlotInv, HeldInv,
       CurrentInv, Slots
  <2>4. CurrentInv'
    BY <1>7 DEF Fatal, Goto, MkstempFails, TypeOK, SlotInv, HeldInv,
       CurrentInv, Slots
  <2>5. KnownInv'
    BY <1>7 DEF Fatal, Goto, MkstempFails, TypeOK, SlotInv, HeldInv,
       CurrentInv, KnownInv, ExitInv, Slots
  <2> QED
    BY <2>1, <2>2, <2>3, <2>4, <2>5
<1>8. CASE Statfs
  <2>1. TypeOK'
    BY <1>8 DEF Goto, Statfs, TypeOK, SlotInv, CurrentInv, Locs, Names, Slots
  <2>2. SlotInv' /\ ExitInv'
    BY <1>8 DEF Goto, Statfs, TypeOK, SlotInv, ExitInv
  <2>3. HeldInv'
    BY <1>8 DEF Goto, Statfs, TypeOK, SlotInv, HeldInv, CurrentInv, Slots
  <2>4. CurrentInv'
    BY <1>8 DEF Goto, Statfs, TypeOK, SlotInv, HeldInv, CurrentInv, Slots
  <2>5. KnownInv'
    BY <1>8 DEF Goto, Statfs, TypeOK, SlotInv, HeldInv, CurrentInv, KnownInv,
       ExitInv, Slots
  <2> QED
    BY <2>1, <2>2, <2>3, <2>4, <2>5
<1>9. CASE NoSpace
  <2>1. TypeOK'
    BY <1>9 DEF Goto, NoSpace, TypeOK, SlotInv, CurrentInv, Locs, Names, Slots
  <2>2. SlotInv' /\ ExitInv'
    BY <1>9 DEF Goto, NoSpace, TypeOK, SlotInv, ExitInv
  <2>3. HeldInv'
    BY <1>9 DEF Goto, NoSpace, TypeOK, SlotInv, HeldInv, CurrentInv, Slots
  <2>4. CurrentInv'
    BY <1>9 DEF Goto, NoSpace, TypeOK, SlotInv, HeldInv, CurrentInv, Slots
  <2>5. KnownInv'
    BY <1>9 DEF Goto, NoSpace, TypeOK, SlotInv, HeldInv, CurrentInv, KnownInv,
       ExitInv, Slots
  <2> QED
    BY <2>1, <2>2, <2>3, <2>4, <2>5
<1>10. CASE Mkstemp
  <2>1. TypeOK'
    BY <1>10 DEF SetFile, Goto, Mkstemp, TypeOK, SlotInv, CurrentInv, Locs,
       Names, Slots
  <2>2. SlotInv' /\ ExitInv'
    BY <1>10 DEF SetFile, Goto, Mkstemp, TypeOK, SlotInv, ExitInv
  <2>3. HeldInv'
    BY <1>10 DEF SetFile, Goto, Mkstemp, TypeOK, SlotInv, HeldInv, CurrentInv,
       Slots
  <2>4. CurrentInv'
    BY <1>10 DEF SetFile, Goto, Mkstemp, TypeOK, SlotInv, HeldInv, CurrentInv,
       Slots
  <2>5. KnownInv'
    BY <1>10 DEF SetFile, Goto, Mkstemp, TypeOK, SlotInv, HeldInv, CurrentInv,
       KnownInv, ExitInv, Slots
  <2> QED
    BY <2>1, <2>2, <2>3, <2>4, <2>5
<1>11. CASE WritePages
  <2>1. TypeOK'
    BY <1>11 DEF Goto, WritePages, TypeOK, SlotInv, CurrentInv, Locs, Names,
       Slots
  <2>2. SlotInv' /\ ExitInv'
    BY <1>11 DEF Goto, WritePages, TypeOK, SlotInv, ExitInv
  <2>3. HeldInv'
    BY <1>11 DEF Goto, WritePages, TypeOK, SlotInv, HeldInv, CurrentInv, Slots
  <2>4. CurrentInv'
    BY <1>11 DEF Goto, WritePages, TypeOK, SlotInv, HeldInv, CurrentInv, Slots
  <2>5. KnownInv'
    BY <1>11 DEF Goto, WritePages, TypeOK, SlotInv, HeldInv, CurrentInv,
       KnownInv, ExitInv, Slots
  <2> QED
    BY <2>1, <2>2, <2>3, <2>4, <2>5
<1>12. CASE WriteFails
  <2>1. TypeOK'
    BY <1>12 DEF Undo, SetFile, Lose, Goto, WriteFails, TypeOK, SlotInv,
       CurrentInv, Locs, Names, Slots
  <2>2. SlotInv' /\ ExitInv'
    BY <1>12 DEF Undo, SetFile, Lose, Goto, WriteFails, TypeOK, SlotInv,
       ExitInv
  <2>3. HeldInv'
    BY <1>12 DEF Undo, SetFile, Lose, Goto, WriteFails, TypeOK, SlotInv,
       HeldInv, CurrentInv, Slots
  <2>4. CurrentInv'
    BY <1>12 DEF Undo, SetFile, Lose, Goto, WriteFails, TypeOK, SlotInv,
       HeldInv, CurrentInv, Slots
  <2>5. KnownInv'
    BY <1>12 DEF Undo, SetFile, Lose, Goto, WriteFails, TypeOK, SlotInv,
       HeldInv, CurrentInv, KnownInv, ExitInv, Slots
  <2> QED
    BY <2>1, <2>2, <2>3, <2>4, <2>5
<1>13. CASE SwapOnFails
  <2>1. TypeOK'
    BY <1>13 DEF Undo, SetFile, Lose, Goto, SwapOnFails, TypeOK, SlotInv,
       CurrentInv, Locs, Names, Slots
  <2>2. SlotInv' /\ ExitInv'
    BY <1>13 DEF Undo, SetFile, Lose, Goto, SwapOnFails, TypeOK, SlotInv,
       ExitInv
  <2>3. HeldInv'
    BY <1>13 DEF Undo, SetFile, Lose, Goto, SwapOnFails, TypeOK, SlotInv,
       HeldInv, CurrentInv, Slots
  <2>4. CurrentInv'
    BY <1>13 DEF Undo, SetFile, Lose, Goto, SwapOnFails, TypeOK, SlotInv,
       HeldInv, CurrentInv, Slots
  <2>5. KnownInv'
    BY <1>13 DEF Undo, SetFile, Lose, Goto, SwapOnFails, TypeOK, SlotInv,
       HeldInv, CurrentInv, KnownInv, ExitInv, Slots
  <2> QED
    BY <2>1, <2>2, <2>3, <2>4, <2>5
<1>14. CASE SwapOn
  <2>1. TypeOK'
    BY <1>14 DEF SetFile, Goto, SwapOn, TypeOK, SlotInv, CurrentInv, Locs,
       Names, Slots
  <2>2. SlotInv' /\ ExitInv'
    BY <1>14 DEF SetFile, Goto, SwapOn, TypeOK, SlotInv, ExitInv
  <2>3. HeldInv'
    BY <1>14 DEF SetFile, Goto, SwapOn, TypeOK, SlotInv, HeldInv, CurrentInv,
       Slots
  <2>4. CurrentInv'
    BY <1>14 DEF SetFile, Goto, SwapOn, TypeOK, SlotInv, HeldInv, CurrentInv,
       Slots
  <2>5. KnownInv'
    BY <1>14 DEF SetFile, Goto, SwapOn, TypeOK, SlotInv, HeldInv, CurrentInv,
       KnownInv, ExitInv, Slots
  <2> QED
    BY <2>1, <2>2, <2>3, <2>4, <2>5
<1>15. CASE CountChunk
  <2>1. TypeOK'
    BY <1>15 DEF Goto, CountChunk, TypeOK, SlotInv, CurrentInv, Locs, Names,
       Slots
  <2>2. SlotInv' /\ ExitInv'
    BY <1>15 DEF Goto, CountChunk, TypeOK, SlotInv, ExitInv
  <2>3. HeldInv'
    BY <1>15 DEF Goto, CountChunk, TypeOK, SlotInv, HeldInv, CurrentInv, Slots
  <2>4. CurrentInv'
    BY <1>15 DEF Goto, CountChunk, TypeOK, SlotInv, HeldInv, CurrentInv, Slots
  <2>5. KnownInv'
    BY <1>15 DEF Goto, CountChunk, TypeOK, SlotInv, HeldInv, CurrentInv,
       KnownInv, ExitInv, Slots
  <2> QED
    BY <2>1, <2>2, <2>3, <2>4, <2>5
<1>16. CASE SwapOff
  <2>1. TypeOK'
    BY <1>16 DEF SetFile, Goto, SwapOff, TypeOK, SlotInv, CurrentInv, Locs,
       Names, Slots
  <2>2. SlotInv' /\ ExitInv'
    BY <1>16 DEF SetFile, Goto, SwapOff, TypeOK, SlotInv, ExitInv
  <2>3. HeldInv'
    BY <1>16 DEF SetFile, Goto, SwapOff, TypeOK, SlotInv, HeldInv, CurrentInv,
       Slots
  <2>4. CurrentInv'
    BY <1>16 DEF SetFile, Goto, SwapOff, TypeOK, SlotInv, HeldInv, CurrentInv,
       Slots
  <2>5. KnownInv'
    BY <1>16 DEF SetFile, Goto, SwapOff, TypeOK, SlotInv, HeldInv, CurrentInv,
       KnownInv, ExitInv, Slots
  <2> QED
    BY <2>1, <2>2, <2>3, <2>4, <2>5
<1>17. CASE SwapOffFails
  <2>1. TypeOK'
    BY <1>17 DEF Lose, AfterDel, Goto, SwapOffFails, TypeOK, SlotInv,
       CurrentInv, Locs, Names, Slots
  <2>2. SlotInv' /\ ExitInv'
    BY <1>17 DEF Lose, AfterDel, Goto, SwapOffFails, TypeOK, SlotInv, ExitInv
  <2>3. HeldInv'
    BY <1>17 DEF Lose, AfterDel, Goto, SwapOffFails, TypeOK, SlotInv, HeldInv,
       CurrentInv, Slots
  <2>4. CurrentInv'
    BY <1>17 DEF Lose, AfterDel, Goto, SwapOffFails, TypeOK, SlotInv, HeldInv,
       CurrentInv, Slots
  <2>5. KnownInv'
    BY <1>17 DEF Lose, AfterDel, Goto, SwapOffFails, TypeOK, SlotInv, HeldInv,
       CurrentInv, KnownInv, ExitInv, Slots
  <2> QED
    BY <2>1, <2>2, <2>3, <2>4, <2>5
<1>18. CASE Unlink
  <2>1. TypeOK'
    BY <1>18 DEF SetFile, AfterDel, Goto, Unlink, TypeOK, SlotInv, CurrentInv,
       Locs, Names, Slots
  <2>2. SlotInv' /\ ExitInv'
    BY <1>18 DEF SetFile, AfterDel, Goto, Unlink, TypeOK, SlotInv, ExitInv
  <2>3. HeldInv'
    BY <1>18 DEF SetFile, AfterDel, Goto, Unlink, TypeOK, SlotInv, HeldInv,
       CurrentInv, Slots
  <2>4. CurrentInv'
    BY <1>18 DEF SetFile, AfterDel, Goto, Unlink, TypeOK, SlotInv, HeldInv,
       CurrentInv, Slots
  <2>5. KnownInv'
    BY <1>18 DEF SetFile, AfterDel, Goto, Unlink, TypeOK, SlotInv, HeldInv,
       CurrentInv, KnownInv, ExitInv, Slots
  <2> QED
    BY <2>1, <2>2, <2>3, <2>4, <2>5
<1>19. CASE UnlinkFails
  <2>1. TypeOK'
    BY <1>19 DEF Lose, AfterDel, Goto, UnlinkFails, TypeOK, SlotInv,
       CurrentInv, Locs, Names, Slots
  <2>2. SlotInv' /\ ExitInv'
    BY <1>19 DEF Lose, AfterDel, Goto, UnlinkFails, TypeOK, SlotInv, ExitInv
  <2>3. HeldInv'
    BY <1>19 DEF Lose, AfterDel, Goto, UnlinkFails, TypeOK, SlotInv, HeldInv,
       CurrentInv, Slots
  <2>4. CurrentInv'
    BY <1>19 DEF Lose, AfterDel, Goto, UnlinkFails, TypeOK, SlotInv, HeldInv,
       CurrentInv, Slots
  <2>5. KnownInv'
    BY <1>19 DEF Lose, AfterDel, Goto, UnlinkFails, TypeOK, SlotInv, HeldInv,
       CurrentInv, KnownInv, ExitInv, Slots
  <2> QED
    BY <2>1, <2>2, <2>3, <2>4, <2>5
<1>20. CASE Cleanup
  <2>1. TypeOK'
    BY <1>20 DEF Cleanup, TypeOK, SlotInv, CurrentInv, Locs, Names, Slots
  <2>2. SlotInv' /\ ExitInv'
    BY <1>20 DEF Cleanup, TypeOK, SlotInv, ExitInv
  <2>3. HeldInv'
    BY <1>20 DEF Cleanup, TypeOK, SlotInv, HeldInv, CurrentInv, Slots
  <2>4. CurrentInv'
    BY <1>20 DEF Cleanup, TypeOK, SlotInv, HeldInv, CurrentInv, Slots
  <2>5. KnownInv'
    BY <1>20 DEF Cleanup, TypeOK, SlotInv, HeldInv, CurrentInv, KnownInv,
       ExitInv, Slots
  <2> QED
    BY <2>1, <2>2, <2>3, <2>4, <2>5
<1>21. CASE SigHandler
  <2>1. TypeOK'
    BY <1>21 DEF SigHandler, TypeOK, SlotInv, CurrentInv, Locs, Names, Slots
  <2>2. SlotInv' /\ ExitInv'
    BY <1>21 DEF SigHandler, TypeOK, SlotInv, ExitInv
  <2>3. HeldInv'
    BY <1>21 DEF SigHandler, TypeOK, SlotInv, HeldInv, CurrentInv, Slots
  <2>4. CurrentInv'
    BY <1>21 DEF SigHandler, TypeOK, SlotInv, HeldInv, CurrentInv, Slots
  <2>5. KnownInv'
    BY <1>21 DEF SigHandler, TypeOK, SlotInv, HeldInv, CurrentInv, KnownInv,
       ExitInv, Slots
  <2> QED
    BY <2>1, <2>2, <2>3, <2>4, <2>5
<1>22. CASE OthersUseMemory
  <2>1. TypeOK'
    BY <1>22 DEF OthersUseMemory, TypeOK, SlotInv, CurrentInv, Locs, Names,
       Slots
  <2>2. SlotInv' /\ ExitInv'
    BY <1>22 DEF OthersUseMemory, TypeOK, SlotInv, ExitInv
  <2>3. HeldInv'
    BY <1>22 DEF OthersUseMemory, TypeOK, SlotInv, HeldInv, CurrentInv, Slots
  <2>4. CurrentInv'
    BY <1>22 DEF OthersUseMemory, TypeOK, SlotInv, HeldInv, CurrentInv, Slots
  <2>5. KnownInv'
    BY <1>22 DEF OthersUseMemory, TypeOK, SlotInv, HeldInv, CurrentInv,
       KnownInv, ExitInv, Slots
  <2> QED
    BY <2>1, <2>2, <2>3, <2>4, <2>5
<1>23. CASE Gone
  <2>1. TypeOK'
    BY <1>23 DEF vars, Gone, TypeOK, SlotInv, CurrentInv, Locs, Names, Slots
  <2>2. SlotInv' /\ ExitInv'
    BY <1>23 DEF vars, Gone, TypeOK, SlotInv, ExitInv
  <2>3. HeldInv'
    BY <1>23 DEF vars, Gone, TypeOK, SlotInv, HeldInv, CurrentInv, Slots
  <2>4. CurrentInv'
    BY <1>23 DEF vars, Gone, TypeOK, SlotInv, HeldInv, CurrentInv, Slots
  <2>5. KnownInv'
    BY <1>23 DEF vars, Gone, TypeOK, SlotInv, HeldInv, CurrentInv, KnownInv,
       ExitInv, Slots
  <2> QED
    BY <2>1, <2>2, <2>3, <2>4, <2>5
<1>24. CASE UNCHANGED vars
  BY <1>24 DEF vars, TypeOK, SlotInv, HeldInv, CurrentInv, KnownInv, ExitInv
<1> QED
  BY <1>1, <1>2, <1>3, <1>4, <1>5, <1>6, <1>7, <1>8, <1>9, <1>10, <1>11,
     <1>12, <1>13, <1>14, <1>15, <1>16, <1>17, <1>18, <1>19, <1>20, <1>21,
     <1>22, <1>23, <1>24 DEF Next, Succeed, Fail

\* The inductive invariant holds throughout.
LEMMA Invariance == Spec => []IInv
BY InitInv, StepInv, PTL DEF Spec

\* The variables keep their types: in particular chunks stays within the slots
\* of swamfile[] and getswap()'s reading is a natural number.
THEOREM TypeCorrect == Spec => []TypeOK
<1>1. IInv => TypeOK
  BY DEF IInv
<1> QED
  BY <1>1, Invariance, PTL

\* The loop of main() finds the books right, whatever failed before: the
\* counted slots name different files that are swapped on, and every other
\* file on disk was left behind by a failing swapoff() or unlink().
THEOREM RightBooks == Spec => []BooksAreRight
<1>1. IInv => BooksAreRight
  BY DEF IInv, TypeOK, HeldInv, KnownInv, BooksAreRight, Held, Swapped,
     OnDisk, OnSwap
<1> QED
  BY <1>1, Invariance, PTL

\* Every swapoff() names a file that is swapped on, also when a signal came in
\* the middle of addswap() or delswap() and cleanup() goes over the slots.
THEOREM ValidSwapOff == Spec => []SwapOffIsValid
<1>1. IInv => SwapOffIsValid
  BY DEF IInv, CurrentInv, SwapOffIsValid, Swapped, OnSwap
<1> QED
  BY <1>1, Invariance, PTL
=============================================================================
