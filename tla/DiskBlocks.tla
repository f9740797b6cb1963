----------------------------- MODULE DiskBlocks -----------------------------
(***************************************************************************)
(* The disk test of stressapptest: one DiskBlockTable per disk, one        *)
(* DiskThread that writes blocks, reads them back and removes them, and    *)
(* RandomDiskThreads that read blocks of the same table in between.        *)
(*                                                                         *)
(* Blocks are heap objects with a reference count.  The table's methods    *)
(* hold data_mutex_, so that each is one step; what the threads do between *)
(* two calls interleaves.                                                  *)
(***************************************************************************)
EXTENDS Integers, Sequences, FiniteSets

CONSTANTS
  Readers,      \* the RandomDiskThreads
  Addr,         \* addresses of write blocks on the disk
  Block,        \* BlockData objects, alive or not
  Pattern,      \* patterns that a block may be filled with
  None,
  QueueSize,    \* queue_size_: blocks in flight, less one
  Marks         \* what DoWork() may do once a block is written: TRUE for
                \* set_initialized(), FALSE for the call of the getter

ASSUME BoundAssumption == QueueSize \in Nat /\ Marks \subseteq BOOLEAN
ASSUME ReadersAssumption == IsFiniteSet(Readers)
ASSUME NoneAssumption == None \notin Block \cup [block : Block, pos : Nat]

VARIABLES
  marks,            \* the choice from Marks
  non_destructive,  \* non_destructive_
  running,          \* IsReadyToRun()
  alive,            \* BlockData objects that are allocated
  data,             \* the fields of each object
  entry,            \* addr_to_block_: block and position, or None
  pos_to_addr,      \* pos_to_addr_, which never shrinks
  size,             \* size_
  disk,             \* what is on the disk
  in_flight,        \* in_flight_sectors_
  wpc, wblock,      \* the DiskThread and its current block
  rblock            \* the block that a RandomDiskThread reads, or None

table == <<entry, pos_to_addr, size>>
heap  == <<alive, data>>
setup == <<marks, non_destructive>>
vars  == <<setup, running, heap, table, disk, in_flight, wpc, wblock, rblock>>

Garbage == None
Fresh   == [address |-> None, references |-> 0, initialized |-> FALSE,
            pattern |-> None]

Init ==
  /\ marks \in Marks
  /\ non_destructive \in BOOLEAN
  /\ running = TRUE
  /\ alive = {}
  /\ data = [b \in Block |-> Fresh]
  /\ entry = [a \in Addr |-> None]
  /\ pos_to_addr = <<>>
  /\ size = 0
  /\ disk = [a \in Addr |-> Garbage]
  /\ in_flight = <<>>
  /\ wpc = "loop"
  /\ wblock = None
  /\ rblock = [r \in Readers |-> None]

-----------------------------------------------------------------------------
(* DiskBlockTable                                                          *)

\* pos_to_addr_ is overwritten at size_ or extended; positions count from 0.
InsertOnStructure(b, a) ==
  /\ pos_to_addr' = IF Len(pos_to_addr) <= size
                    THEN Append(pos_to_addr, a)
                    ELSE [pos_to_addr EXCEPT ![size + 1] = a]
  /\ entry' = [entry EXCEPT ![a] = [block |-> b, pos |-> size]]
  /\ size' = size + 1

\* Wrong variant: the address may be in use.
GetUnusedBlockAny(b, a) ==
  /\ b \in Block \ alive
  /\ alive' = alive \cup {b}
  /\ data' = [data EXCEPT ![b] = [Fresh EXCEPT !.address = a, !.references = 1]]
  /\ InsertOnStructure(b, a)

\* A new object for an address that no block of the table has.
GetUnusedBlock(b, a) ==
  /\ b \in Block \ alive
  /\ entry[a] = None
  /\ alive' = alive \cup {b}
  /\ data' = [data EXCEPT ![b] = [Fresh EXCEPT !.address = a, !.references = 1]]
  /\ InsertOnStructure(b, a)

\* The object goes with its last reference; its fields are gone with it.
Dereference(b) ==
  IF data[b].references = 1
  THEN /\ alive' = alive \ {b}
       /\ data' = [data EXCEPT ![b] = Fresh]
  ELSE /\ data' = [data EXCEPT ![b].references = @ - 1]
       /\ UNCHANGED alive

\* Wrong variant: the moved entry keeps its old position.
RemoveEntryStale(a) ==
  LET last == pos_to_addr[size]
  IN  /\ pos_to_addr' = [pos_to_addr EXCEPT ![entry[a].pos + 1] = last]
      /\ entry' = [entry EXCEPT ![a] = None]
      /\ size' = size - 1

\* The last entry takes the position of the one that is removed.
RemoveEntry(a) ==
  LET pos  == entry[a].pos
      last == pos_to_addr[size]
  IN  /\ pos_to_addr' = [pos_to_addr EXCEPT ![pos + 1] = last]
      /\ entry' = [[entry EXCEPT ![last].pos = pos] EXCEPT ![a] = None]
      /\ size' = size - 1

\* The entry is looked up by the block's address.
RemoveBlock(b) ==
  IF entry[data[b].address] = None
  THEN UNCHANGED <<heap, table>>
  ELSE RemoveEntry(data[b].address) /\ Dereference(b)

-----------------------------------------------------------------------------
(* DiskThread::DoWork()                                                    *)

\* while (IsReadyToRun())
Loop ==
  /\ wpc = "loop"
  /\ wpc' = IF running THEN "write_phase" ELSE "ended"
  /\ UNCHANGED <<setup, running, heap, table, disk, in_flight, wblock, rblock>>

\* GetUnusedBlock() finds room for one more block.
NewBlock ==
  /\ wpc = "write_phase"
  /\ running
  /\ Len(in_flight) < QueueSize + 1
  /\ \E b \in Block, a \in Addr :
       /\ GetUnusedBlock(b, a)
       /\ wblock' = b
       /\ wpc' = IF non_destructive THEN "mark" ELSE "fill"
  /\ UNCHANGED <<setup, running, disk, in_flight, rblock>>

\* kBlockRetry random addresses were all in use or out of range, or new gave
\* nothing: GetUnusedBlock() returns NULL, and the block is used without a
\* test.
NoBlock ==
  /\ wpc = "write_phase"
  /\ running
  /\ Len(in_flight) < QueueSize + 1
  /\ wpc' = "crashed"
  /\ UNCHANGED <<setup, running, heap, table, disk, in_flight, wblock, rblock>>

\* WriteBlockToDisk(): the pattern comes from a valid page or from the list.
FillBlock ==
  /\ wpc = "fill"
  /\ \E p \in Pattern : data' = [data EXCEPT ![wblock].pattern = p]
  /\ wpc' = "write"
  /\ UNCHANGED <<setup, running, alive, table, disk, in_flight, wblock, rblock>>

\* AsyncDiskIO() completes, ...
WriteBlock ==
  /\ wpc = "write"
  /\ disk' = [disk EXCEPT ![data[wblock].address] = data[wblock].pattern]
  /\ wpc' = "mark"
  /\ UNCHANGED <<setup, running, heap, table, in_flight, wblock, rblock>>

\* ... or fails, times out or is interrupted, and the thread gives up; what
\* it has in flight stays in the table.
WriteFails ==
  /\ wpc = "write"
  /\ disk' \in {[disk EXCEPT ![data[wblock].address] = d]
                  : d \in {disk[data[wblock].address], Garbage, data[wblock].pattern}}
  /\ RemoveBlock(wblock)
  /\ wpc' = "ended"
  /\ wblock' = None
  /\ UNCHANGED <<setup, running, in_flight, rblock>>

\* block->initialized() is the getter and has no effect; set_initialized() is
\* what its comment speaks of.
MarkBlock ==
  /\ wpc = "mark"
  /\ data' = [data EXCEPT ![wblock].initialized = @ \/ marks]
  /\ in_flight' = Append(in_flight, wblock)
  /\ wblock' = None
  /\ wpc' = "write_phase"
  /\ UNCHANGED <<setup, running, alive, table, disk, rblock>>

\* Enough is written, or the test is to stop: the page cache is flushed.
FlushPageCache ==
  /\ wpc = "write_phase"
  /\ ~ running \/ Len(in_flight) >= QueueSize + 1
  /\ wpc' \in {"read_phase", "ended"}
  /\ UNCHANGED <<setup, running, heap, table, disk, in_flight, wblock, rblock>>

NextInFlight ==
  /\ wpc = "read_phase"
  /\ IF running /\ in_flight # <<>>
     THEN /\ wblock' = Head(in_flight)
          /\ in_flight' = Tail(in_flight)
          /\ wpc' = "validate"
     ELSE /\ wpc' = "loop"
          /\ UNCHANGED <<wblock, in_flight>>
  /\ UNCHANGED <<setup, running, heap, table, disk, rblock>>

\* Wrong variant: the block is forgotten and stays in the table.
ValidatedForgotten ==
  /\ wpc = "validate"
  /\ wblock' = None
  /\ wpc' = "read_phase"
  /\ UNCHANGED <<setup, running, heap, table, disk, in_flight, rblock>>

\* ValidateBlockOnDisk() has read the block, and the block is removed ...
Validated ==
  /\ wpc = "validate"
  /\ RemoveBlock(wblock)
  /\ wblock' = None
  /\ wpc' = "read_phase"
  /\ UNCHANGED <<setup, running, disk, in_flight, rblock>>

\* ... or could not read it, and the thread gives up.
ReadFails ==
  /\ wpc = "validate"
  /\ wblock' = None
  /\ wpc' = "ended"
  /\ UNCHANGED <<setup, running, heap, table, disk, in_flight, rblock>>

-----------------------------------------------------------------------------
(* RandomDiskThread::DoWork()                                              *)

\* Wrong variant: the reader does not count as a reference.
GetRandomBlockUncounted(r) ==
  /\ running
  /\ wpc # "crashed"
  /\ rblock[r] = None
  /\ \E i \in 1 .. size :
       LET b == entry[pos_to_addr[i]].block
       IN  /\ data[b].initialized
           /\ rblock' = [rblock EXCEPT ![r] = b]
  /\ UNCHANGED <<setup, running, heap, table, disk, in_flight, wpc, wblock>>

\* A random entry of the table, if its block is initialised; otherwise, and
\* when the wait for an entry times out, nothing happens.
GetRandomBlock(r) ==
  /\ running
  /\ wpc # "crashed"
  /\ rblock[r] = None
  /\ \E i \in 1 .. size :
       LET b == entry[pos_to_addr[i]].block
       IN  /\ data[b].initialized
           /\ data' = [data EXCEPT ![b].references = @ + 1]
           /\ rblock' = [rblock EXCEPT ![r] = b]
  /\ UNCHANGED <<setup, running, alive, table, disk, in_flight, wpc, wblock>>

\* The block was read and compared, or could not be read.
ReleaseBlock(r) ==
  /\ wpc # "crashed"
  /\ rblock[r] # None
  /\ Dereference(rblock[r])
  /\ rblock' = [rblock EXCEPT ![r] = None]
  /\ UNCHANGED <<setup, running, table, disk, in_flight, wpc, wblock>>

\* Sat::Run() stops the workers.
StopWorkers ==
  /\ running
  /\ wpc # "crashed"
  /\ running' = FALSE
  /\ UNCHANGED <<setup, heap, table, disk, in_flight, wpc, wblock, rblock>>

-----------------------------------------------------------------------------
DiskThread ==
  \/ Loop \/ NewBlock \/ NoBlock \/ FillBlock \/ WriteBlock \/ WriteFails
  \/ MarkBlock \/ FlushPageCache \/ NextInFlight \/ Validated \/ ReadFails

Next ==
  \/ DiskThread
  \/ \E r \in Readers : GetRandomBlock(r) \/ ReleaseBlock(r)
  \/ StopWorkers

Spec == Init /\ [][Next]_vars

-----------------------------------------------------------------------------
(* Properties.                                                             *)

InTable(b) == \E a \in Addr : entry[a] # None /\ entry[a].block = b

\* Blocks that the DiskThread will still read back and compare
Pending == {in_flight[i] : i \in DOMAIN in_flight}
             \cup (IF wpc \in {"mark", "validate"} THEN {wblock} ELSE {})

\* pos_to_addr_ and addr_to_block_ describe the same table: the first size_
\* positions are the addresses in use, and each entry knows its position
\* (disk_blocks.cc:99-133, the swap with the last entry).
TableConsistent ==
  /\ \A i \in 1 .. size : LET e == entry[pos_to_addr[i]]
                          IN  e # None /\ e.pos = i - 1
  /\ \A a \in Addr : entry[a] # None =>
       /\ entry[a].pos < size
       /\ pos_to_addr[entry[a].pos + 1] = a
       /\ data[entry[a].block].address = a

\* "A reference counter is used to control when the block can be REALLY
\* erased from memory" (disk_blocks.h:91-94): the count of a living block is
\* the number of readers that have it plus one for the table, and nobody has
\* a block that was freed.
ReferencesAreHolders ==
  /\ \A b \in alive :
       /\ data[b].references > 0
       /\ data[b].references = Cardinality({r \in Readers : rblock[r] = b})
                                 + (IF InTable(b) THEN 1 ELSE 0)
  /\ \A b \in Block : InTable(b) \/ b \in Pending \/ (\E r \in Readers : rblock[r] = b)
                        => b \in alive

\* A block in flight is in the table under its own address, and what the
\* DiskThread wrote for it is still on the disk when it is read back: no
\* other block was allocated over it (worker.cc:2948-2956).  So a mismatch
\* that the DiskThread reports is the disk's.
WriterReadsItsOwn ==
  \A b \in Pending :
    /\ entry[data[b].address] # None
    /\ entry[data[b].address].block = b
    /\ ~ non_destructive => disk[data[b].address] = data[b].pattern

\* The table holds just the blocks in flight and the one in the DiskThread's
\* hand, over any number of write and read phases, cut short or not: no entry
\* is left behind that would keep its address from GetUnusedBlock() for ever.
\* So there are never more than queue_size_ + 1 entries, which is what the
\* sizing rule of the comment at worker.cc:2912-2928 counts on.
TableIsInFlight ==
  /\ size <= QueueSize + 1
  /\ wpc # "ended" => size = Len(in_flight) + (IF wblock = None THEN 0 ELSE 1)

\* "Block is either initialized by writing, or in nondestructive case,
\* initialized by being added into the datastructure for later reading"
\* (worker.cc:2938): the blocks in flight can be found by the readers.
InFlightIsInitialized ==
  \A i \in DOMAIN in_flight : data[in_flight[i]].initialized

=============================================================================
