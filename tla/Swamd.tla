------------------------------- MODULE Swamd --------------------------------
(***************************************************************************)
(* The adaptive swap daemon (adaptive-swapd/swamd.c): a loop that reads   *)
(* the free virtual memory, adds a swam file when it is below `lower' and *)
(* removes one when enough would remain, and a signal handler that        *)
(* removes all files and exits.  Any system call may fail.                *)
(*                                                                         *)
(* Memory is counted in abstract units; the pages that others keep in the *)
(* swam files are not told apart, so that swapoff() may fail at any time. *)
(* A signal can arrive between any two system calls or assignments.       *)
(***************************************************************************)
EXTENDS Naturals, Integers, FiniteSets

CONSTANTS
  numchunks, chunksz, lower, upper,   \* options -n, -s, -l, -u
  Files,      \* names that mkstemp can make up
  TemplateOk, \* the C library takes SUFFIX for a template of mkstemp
  Bases,      \* amounts of memory that are free apart from swam files
  IntMax,     \* the largest int
  Faults,     \* the failures that may happen: a subset of AllFaults
  MaxLost     \* bound on the files that a failing call leaves behind

AllFaults == {"meminfo", "statfs", "nospace", "mkstemp", "write", "swapon",
              "swapoff", "unlink", "signal"}

\* What the option loop of main() and ckconf() let through.
ASSUME ConfAssumption ==
  /\ numchunks \in Nat \ {0} /\ chunksz \in Nat \ {0}
  /\ lower \in Nat \ {0} /\ upper \in Nat \ {0}
  /\ lower <= upper
ASSUME ModelAssumption ==
  /\ IsFiniteSet(Files) /\ Bases \in SUBSET Nat /\ IntMax \in Nat
  /\ numchunks <= IntMax /\ chunksz <= IntMax /\ upper <= IntMax
  /\ Faults \subseteq AllFaults /\ TemplateOk \in BOOLEAN
  /\ MaxLost \in Nat /\ Cardinality(Files) >= numchunks + MaxLost

VARIABLES
  pc,        \* what the daemon does next
  chunks,    \* number of swam files it believes it has
  swamfile,  \* their names, by slot
  file,      \* what became of each name: absent, on disk, or swapped on
  swap,      \* the last reading of getswap()
  base,      \* free memory, without the swam files
  exiting,   \* cleanup() is running
  handler,   \* ... from sighandler(), with all signals blocked
  lost       \* history: files whose swapoff() or unlink() failed

vars == <<pc, chunks, swamfile, file, swap, base, exiting, handler, lost>>

Slots   == 0 .. numchunks - 1
NoFile  == "none"
Names   == Files \cup {NoFile}
Swapped == {f \in Files : file[f] = "swap"}
Free    == base + chunksz * Cardinality(Swapped)
Locs    == {"read", "add?", "statfs", "mkstemp", "write", "swapon", "count",
            "del?", "swapoff", "unlink", "sleep", "cleanup", "exited"}

Init ==
  /\ pc = "read"
  /\ chunks = 0
  /\ swamfile = [i \in Slots |-> NoFile]
  /\ file = [f \in Files |-> "absent"]
  /\ swap = 0
  /\ base \in Bases
  /\ exiting = FALSE
  /\ handler = FALSE
  /\ lost = {}

\* What the build may make of an int addition: undefined when it overflows,
\* it wraps around or is done in a wider register.
IntSums(a, b) == IF a + b <= IntMax THEN {a + b}
                                    ELSE {a + b, a + b - 2 * (IntMax + 1)}

Goto(from, to) == pc = from /\ pc' = to

-----------------------------------------------------------------------------
(* The loop of main().                                                     *)

GetSwap ==
  /\ Goto("read", "add?")
  /\ swap' = Free
  /\ UNCHANGED <<chunks, swamfile, file, base, exiting, handler, lost>>

\* getswap() exits without a cleanup.
GetSwapFails ==
  /\ "meminfo" \in Faults
  /\ Goto("read", "exited")
  /\ UNCHANGED <<chunks, swamfile, file, swap, base, exiting, handler, lost>>

\* Wrong variant: only one file is ever added.
WantAddFirst == swap < lower /\ chunks = 0

WantAdd == swap < lower /\ chunks < numchunks

DecideAdd ==
  /\ pc = "add?"
  /\ pc' = IF WantAdd THEN "statfs" ELSE "del?"
  /\ UNCHANGED <<chunks, swamfile, file, swap, base, exiting, handler, lost>>

\* Wrong variants: no look whether there is a file to remove; the size of the
\* file itself is forgotten.
WantDelAny(sum) == swap > sum
WantDelEager(sum) == swap > sum - chunksz /\ chunks > 0

\* The sum is chunksz + upper.
WantDel(sum) == swap > sum /\ chunks > 0

DecideDel ==
  /\ pc = "del?"
  /\ \E sum \in IntSums(chunksz, upper) :
       \/ /\ WantDel(sum)
          /\ pc' = "swapoff"
          /\ chunks' = chunks - 1
       \/ /\ ~WantDel(sum)
          /\ pc' = "sleep"
          /\ UNCHANGED chunks
  /\ UNCHANGED <<swamfile, file, swap, base, exiting, handler, lost>>

Sleep ==
  /\ Goto("sleep", "read")
  /\ UNCHANGED <<chunks, swamfile, file, swap, base, exiting, handler, lost>>

-----------------------------------------------------------------------------
(* addswap(chunks).                                                        *)

SetFile(f, s) == file' = [file EXCEPT ![f] = s]

\* A call fails and leaves its file behind; MaxLost bounds how often.
Lose(f) == Cardinality(lost) < MaxLost /\ lost' = lost \cup {f}

\* A failure that ends the daemon, through cleanup().
Fatal(from) ==
  /\ Goto(from, "cleanup")
  /\ exiting' = TRUE
  /\ UNCHANGED <<chunks, swamfile, file, swap, base, handler, lost>>

StatfsFails  == "statfs" \in Faults /\ Fatal("statfs")
MkstempFails == ("mkstemp" \in Faults \/ ~TemplateOk) /\ Fatal("mkstemp")

Statfs ==
  /\ Goto("statfs", "mkstemp")
  /\ UNCHANGED <<chunks, swamfile, file, swap, base, exiting, handler, lost>>

NoSpace ==
  /\ "nospace" \in Faults
  /\ Goto("statfs", "del?")
  /\ UNCHANGED <<chunks, swamfile, file, swap, base, exiting, handler, lost>>

\* mkstemp() makes up a name that is not in use; glibc wants a template with
\* six X's, SUFFIX has three.
Mkstemp ==
  /\ TemplateOk
  /\ Goto("mkstemp", "write")
  /\ \E f \in Files :
       /\ file[f] = "absent"
       /\ SetFile(f, "disk")
       /\ swamfile' = [swamfile EXCEPT ![chunks] = f]
  /\ UNCHANGED <<chunks, swap, base, exiting, handler, lost>>

\* All pages are written, synced and the file is closed ...
WritePages ==
  /\ Goto("write", "swapon")
  /\ UNCHANGED <<chunks, swamfile, file, swap, base, exiting, handler, lost>>

\* Wrong variants: addswap() reports success; the file is left on disk.
UndoCounted(fault, from) ==
  /\ fault \in Faults
  /\ Goto(from, "count")
  /\ SetFile(swamfile[chunks], "absent")
  /\ UNCHANGED <<chunks, swamfile, swap, base, exiting, handler, lost>>

UndoKeepsFile(fault, from) ==
  /\ fault \in Faults
  /\ Goto(from, "del?")
  /\ UNCHANGED <<chunks, swamfile, file, swap, base, exiting, handler, lost>>

\* ... or one of these fails, and the file is removed again, unless that
\* fails, too: the result of unlink() is ignored.
Undo(fault, from) ==
  /\ fault \in Faults
  /\ Goto(from, "del?")
  /\ \/ SetFile(swamfile[chunks], "absent") /\ UNCHANGED lost
     \/ "unlink" \in Faults /\ Lose(swamfile[chunks]) /\ UNCHANGED file
  /\ UNCHANGED <<chunks, swamfile, swap, base, exiting, handler>>

WriteFails  == Undo("write", "write")
SwapOnFails == Undo("swapon", "swapon")

SwapOn ==
  /\ Goto("swapon", "count")
  /\ SetFile(swamfile[chunks], "swap")
  /\ UNCHANGED <<chunks, swamfile, swap, base, exiting, handler, lost>>

\* Back in main(): the new file counts from here on.
CountChunk ==
  /\ Goto("count", "del?")
  /\ chunks' = chunks + 1
  /\ UNCHANGED <<swamfile, file, swap, base, exiting, handler, lost>>

-----------------------------------------------------------------------------
(* delswap(chunks), after the caller has decremented chunks.               *)

AfterDel == IF exiting THEN "cleanup" ELSE "sleep"

SwapOff ==
  /\ Goto("swapoff", "unlink")
  /\ SetFile(swamfile[chunks], "disk")
  /\ UNCHANGED <<chunks, swamfile, swap, base, exiting, handler, lost>>

SwapOffFails ==
  /\ "swapoff" \in Faults
  /\ Goto("swapoff", AfterDel)
  /\ Lose(swamfile[chunks])
  /\ UNCHANGED <<chunks, swamfile, file, swap, base, exiting, handler>>

Unlink ==
  /\ Goto("unlink", AfterDel)
  /\ SetFile(swamfile[chunks], "absent")
  /\ UNCHANGED <<chunks, swamfile, swap, base, exiting, handler, lost>>

UnlinkFails ==
  /\ "unlink" \in Faults
  /\ Goto("unlink", AfterDel)
  /\ Lose(swamfile[chunks])
  /\ UNCHANGED <<chunks, swamfile, file, swap, base, exiting, handler>>

-----------------------------------------------------------------------------
(* cleanup() and sighandler().                                             *)

Cleanup ==
  /\ pc = "cleanup"
  /\ pc' = IF chunks > 0 THEN "swapoff" ELSE "exited"
  /\ chunks' = IF chunks > 0 THEN chunks - 1 ELSE 0
  /\ UNCHANGED <<swamfile, file, swap, base, exiting, handler, lost>>

\* SIGHUP, SIGINT, SIGQUIT or SIGTERM, anywhere but in the handler itself.
SigHandler ==
  /\ "signal" \in Faults
  /\ pc # "exited" /\ ~handler
  /\ pc' = "cleanup"
  /\ exiting' = TRUE
  /\ handler' = TRUE
  /\ UNCHANGED <<chunks, swamfile, file, swap, base, lost>>

\* The rest of the system allocates and frees memory.
OthersUseMemory ==
  /\ base' \in Bases
  /\ UNCHANGED <<pc, chunks, swamfile, file, swap, exiting, handler, lost>>

Gone == pc = "exited" /\ UNCHANGED vars

-----------------------------------------------------------------------------
Succeed ==
  \/ GetSwap \/ DecideAdd \/ Statfs \/ Mkstemp \/ WritePages \/ SwapOn
  \/ CountChunk \/ DecideDel \/ SwapOff \/ Unlink \/ Sleep \/ Cleanup

Fail ==
  \/ GetSwapFails \/ StatfsFails \/ NoSpace \/ MkstempFails \/ WriteFails
  \/ SwapOnFails \/ SwapOffFails \/ UnlinkFails

Next == Succeed \/ Fail \/ SigHandler \/ OthersUseMemory \/ Gone

Spec == Init /\ [][Next]_vars

\* The daemon runs, and no call fails every time, unless it must.
Fairness ==
  /\ WF_vars(Succeed) /\ WF_vars(~TemplateOk /\ MkstempFails)
  /\ SF_vars(Statfs) /\ SF_vars(WritePages) /\ SF_vars(SwapOn)

FairSpec == Spec /\ Fairness

-----------------------------------------------------------------------------
(* Properties.                                                             *)

TypeOK ==
  /\ pc \in Locs
  /\ chunks \in 0 .. numchunks
  /\ swamfile \in [Slots -> Names]
  /\ file \in [Files -> {"absent", "disk", "swap"}]
  /\ swap \in Nat
  /\ base \in Bases
  /\ exiting \in BOOLEAN /\ handler \in BOOLEAN
  /\ lost \in SUBSET Files

Held == {swamfile[i] : i \in 0 .. chunks - 1}

\* Outside addswap() and delswap() the daemon's books are right: the slots
\* below chunks name different files, all of them swapped on, and no other
\* file of the daemon is on disk or swapped on, except those that a failing
\* swapoff() or unlink() has left behind.
BooksAreRight ==
  ~exiting /\ pc \in {"read", "add?", "del?", "sleep"} =>
    /\ \A i, j \in 0 .. chunks - 1 : swamfile[i] = swamfile[j] => i = j
    /\ Held \subseteq Swapped
    /\ \A f \in Files : file[f] # "absent" => f \in Held \cup lost

\* The daemon never gives up a file twice nor one that it does not have: a
\* swapoff() names a file that is swapped on, also when a signal has
\* interrupted delswap() and cleanup() goes over the files again.
SwapOffIsValid ==
  pc = "swapoff" => swamfile[chunks] \in Swapped

\* Memory is never short for good while the daemon could add a file: whenever
\* a shortage begins, and however the rest of the system changes meanwhile,
\* there comes a time when memory suffices, the limit of files is reached or
\* the daemon is shut down (swamd.c:282, after any failures of addswap()).
ShortageIsAnswered ==
  []<>(Free >= lower \/ chunks = numchunks \/ exiting \/ pc = "exited")

\* When the rest of the system keeps still, so does the daemon: it does not
\* add and remove a file in turn.
Settles ==
  \A b \in Bases :
    <>[](base = b) => <>[][chunks' = chunks \/ exiting']_vars

\* A shortage that the daemon has seen makes it add a swam file.
ShortageAddsFile ==
  (pc = "add?" /\ swap < lower /\ chunks = 0) ~> (chunks > 0)

\* After a signal the daemon leaves nothing behind.
CleanExit == pc = "exited" /\ handler => \A f \in Files : file[f] = "absent"
=============================================================================
