-------------------------- MODULE DiskBlocksProofs --------------------------
(***************************************************************************)
(* Proofs about DiskBlocks, for any finite set of readers and any number   *)
(* of addresses, blocks and blocks in flight: the table is consistent, the *)
(* reference counts are right, the DiskThread finds on the disk what it    *)
(* wrote, and the table never outgrows the blocks in flight.               *)
(***************************************************************************)
EXTENDS DiskBlocks, FiniteSetTheorems, SequenceTheorems, TLAPS

Fields == [address : Addr \cup {None}, references : Nat, initialized : BOOLEAN,
           pattern : Pattern \cup {None}]
Entry  == [block : Block, pos : Nat]

Types ==
  /\ marks \in BOOLEAN /\ non_destructive \in BOOLEAN /\ running \in BOOLEAN
  /\ alive \in SUBSET Block
  /\ data \in [Block -> Fields]
  /\ entry \in [Addr -> Entry \cup {None}]
  /\ pos_to_addr \in Seq(Addr)
  /\ size \in 0 .. Len(pos_to_addr)
  /\ disk \in [Addr -> Pattern \cup {None}]
  /\ in_flight \in Seq(Block)
  /\ wblock \in Block \cup {None}
  /\ rblock \in [Readers -> Block \cup {None}]

\* Where the DiskThread has a block in hand.
Busy == {"fill", "write", "mark", "validate"}

InFlight(b) == \E i \in 1 .. Len(in_flight) : in_flight[i] = b

\* The blocks that the DiskThread has not yet removed.
Owns(b) == InFlight(b) \/ (wpc \in Busy /\ wblock = b)

Holders(b) == {r \in Readers : rblock[r] = b}

\* The entry of a block in the table is found under the block's address.
InOwnPlace(b) ==
  /\ data[b].address \in Addr
  /\ entry[data[b].address] # None
  /\ entry[data[b].address].block = b

\* The DiskThread owns a block once, and it is in the table.
WriterInv ==
  /\ wpc \in Busy => wblock \in Block /\ ~InFlight(wblock)
  /\ \A i, j \in 1 .. Len(in_flight) : in_flight[i] = in_flight[j] => i = j
  /\ \A b \in Block : Owns(b) => InOwnPlace(b)

\* Only living blocks are in the table or with a reader, and their count is
\* that of the holders.
CountInv ==
  /\ \A b \in alive :
       data[b].references = Cardinality(Holders(b)) + (IF InTable(b) THEN 1 ELSE 0)
  /\ \A b \in alive : data[b].references > 0
  /\ \A b \in Block : InTable(b) => b \in alive
  /\ \A r \in Readers : rblock[r] # None => rblock[r] \in alive

\* What is on the disk for the blocks that are still to be read back.
DiskInv ==
  ~non_destructive => \A b \in Block :
    InTable(b) /\ b \in Pending => disk[data[b].address] = data[b].pattern

IInv == Types /\ TableConsistent /\ WriterInv /\ CountInv /\ DiskInv

-----------------------------------------------------------------------------
(* The table.                                                              *)

\* The program's start.
LEMMA InitInv == Init => IInv
<1> SUFFICES ASSUME Init PROVE IInv
  OBVIOUS
<1> USE BoundAssumption, NoneAssumption DEF Init
<1>1. Types
  BY DEF Types, Fields, Entry, Fresh, Garbage
<1>2. \A b \in Block : ~InTable(b)
  BY DEF InTable
<1>3. TableConsistent
  BY DEF TableConsistent
<1>4. WriterInv
  BY DEF WriterInv, Owns, InFlight, Busy
<1>5. CountInv
  BY <1>2 DEF CountInv
<1>6. DiskInv
  BY <1>2 DEF DiskInv
<1> QED
  BY <1>1, <1>3, <1>4, <1>5, <1>6 DEF IInv

\* InsertOnStructure() adds one entry at the end of the table.
LEMMA InsertEffect ==
  ASSUME Types, TableConsistent, NEW b \in Block, NEW a \in Addr,
         entry[a] = None, InsertOnStructure(b, a)
  PROVE  /\ entry' \in [Addr -> Entry \cup {None}]
         /\ pos_to_addr' \in Seq(Addr)
         /\ size' \in 0 .. Len(pos_to_addr')
         /\ entry'[a] # None /\ entry'[a].block = b /\ entry'[a].pos = size
         /\ \A c \in Addr : c # a => entry'[c] = entry[c]
         /\ \A i \in 1 .. size : pos_to_addr'[i] = pos_to_addr[i]
         /\ pos_to_addr'[size + 1] = a
         /\ size' = size + 1
<1> USE NoneAssumption DEF Types, InsertOnStructure, Entry
<1>1. CASE Len(pos_to_addr) <= size
  <2>1. pos_to_addr' = Append(pos_to_addr, a) /\ size = Len(pos_to_addr)
    BY <1>1
  <2> QED
    BY <2>1
<1>2. CASE ~(Len(pos_to_addr) <= size)
  <2>1. pos_to_addr' = [pos_to_addr EXCEPT ![size + 1] = a] /\ size + 1 \in 1 .. Len(pos_to_addr)
    BY <1>2
  <2>2. pos_to_addr' \in Seq(Addr) /\ Len(pos_to_addr') = Len(pos_to_addr)
    BY <2>1, ExceptSeq
  <2> QED
    BY <2>1, <2>2
<1> QED
  BY <1>1, <1>2

\* RemoveEntry() takes one entry out; the last one moves to its position.
LEMMA RemoveEffect ==
  ASSUME Types, TableConsistent, NEW a \in Addr, entry[a] # None, RemoveEntry(a)
  PROVE  /\ entry' \in [Addr -> Entry \cup {None}]
         /\ pos_to_addr' \in Seq(Addr)
         /\ size' \in 0 .. Len(pos_to_addr')
         /\ entry'[a] = None
         /\ \A c \in Addr : c # a => /\ entry'[c] = None <=> entry[c] = None
                                     /\ entry[c] # None => entry'[c].block = entry[c].block
         /\ \A i \in 1 .. size' : pos_to_addr'[i] \in Addr \ {a}
                                  /\ entry'[pos_to_addr'[i]] # None
                                  /\ entry'[pos_to_addr'[i]].pos = i - 1
         /\ \A c \in Addr : entry'[c] # None =>
              entry'[c].pos < size' /\ pos_to_addr'[entry'[c].pos + 1] = c
<1> DEFINE pos  == entry[a].pos
           last == pos_to_addr[size]
<1> USE NoneAssumption DEF Entry
<1>1. entry[a] \in Entry /\ pos \in Nat /\ pos < size /\ pos_to_addr[pos + 1] = a
  BY DEF Types, TableConsistent
<1>2. size \in 1 .. Len(pos_to_addr)
  BY <1>1 DEF Types
<1>3. last \in Addr /\ entry[last] \in Entry /\ entry[last].pos = size - 1
  BY <1>2 DEF Types, TableConsistent
<1>4. /\ pos_to_addr' = [pos_to_addr EXCEPT ![pos + 1] = last]
      /\ entry' = [[entry EXCEPT ![last].pos = pos] EXCEPT ![a] = None]
      /\ size' = size - 1
  BY DEF RemoveEntry
<1>5. pos_to_addr' \in Seq(Addr) /\ Len(pos_to_addr') = Len(pos_to_addr)
  BY <1>1, <1>2, <1>3, <1>4, ExceptSeq DEF Types
<1>6. /\ entry'[a] = None
      /\ \A c \in Addr \ {a, last} : entry'[c] = entry[c]
      /\ last # a => entry'[last] = [block |-> entry[last].block, pos |-> pos]
  BY <1>1, <1>3, <1>4 DEF Types
<1>7. entry' \in [Addr -> Entry \cup {None}]
  BY <1>1, <1>3, <1>4 DEF Types
<1>8. \A c \in Addr : c # a => /\ entry'[c] = None <=> entry[c] = None
                               /\ entry[c] # None => entry'[c].block = entry[c].block
  BY <1>1, <1>3, <1>6
<1>9. ASSUME NEW i \in 1 .. size'
      PROVE  /\ pos_to_addr'[i] \in Addr \ {a}
             /\ entry'[pos_to_addr'[i]] # None
             /\ entry'[pos_to_addr'[i]].pos = i - 1
  <2>1. i \in 1 .. size - 1 /\ i \in 1 .. Len(pos_to_addr)
    BY <1>2, <1>4
  <2>2. CASE i = pos + 1
    <3>1. pos_to_addr'[i] = last /\ last # a
      BY <1>1, <1>3, <1>4, <2>1, <2>2 DEF Types
    <3> QED
      BY <1>1, <1>3, <1>6, <2>2, <3>1
  <2>3. CASE i # pos + 1
    <3>1. pos_to_addr'[i] = pos_to_addr[i] /\ pos_to_addr[i] \in Addr
      BY <1>1, <1>4, <2>1, <2>3 DEF Types
    <3>2. entry[pos_to_addr[i]] # None /\ entry[pos_to_addr[i]].pos = i - 1
      BY <2>1 DEF Types, TableConsistent
    <3>3. pos_to_addr[i] # a /\ pos_to_addr[i] # last
      BY <1>1, <1>2, <1>3, <2>1, <2>3, <3>2
    <3> QED
      BY <1>6, <3>1, <3>2, <3>3
  <2> QED
    BY <2>2, <2>3
<1>10. ASSUME NEW c \in Addr, entry'[c] # None
       PROVE  entry'[c].pos < size' /\ pos_to_addr'[entry'[c].pos + 1] = c
  <2>1. c # a
    BY <1>6, <1>10
  <2>2. CASE c = last
    <3>1. entry'[c].pos = pos /\ pos # size - 1
      BY <1>1, <1>2, <1>3, <1>6, <2>1, <2>2
    <3> QED
      BY <1>1, <1>2, <1>4, <2>2, <3>1 DEF Types
  <2>3. CASE c # last
    <3>1. entry'[c] = entry[c] /\ entry[c] \in Entry /\ entry[c].pos \in Nat
      BY <1>6, <1>10, <2>1, <2>3 DEF Types
    <3>2. entry[c].pos < size /\ pos_to_addr[entry[c].pos + 1] = c
      BY <1>10, <3>1 DEF TableConsistent
    <3>3. entry[c].pos # size - 1 /\ entry[c].pos # pos
      BY <1>1, <1>2, <2>1, <2>3, <3>2
    <3> QED
      BY <1>1, <1>2, <1>4, <3>1, <3>2, <3>3 DEF Types
  <2> QED
    BY <2>2, <2>3
<1>11. size' \in 0 .. Len(pos_to_addr')
  BY <1>2, <1>4, <1>5
<1> QED
  BY <1>5, <1>6, <1>7, <1>8, <1>9, <1>10, <1>11, Zenon

\* A block that is in the table is there under its own address only.
LEMMA InTableIsInPlace ==
  ASSUME Types, TableConsistent, NEW b \in Block
  PROVE  InTable(b) <=> InOwnPlace(b)
BY DEF TableConsistent, InTable, InOwnPlace

\* DecreaseReferences() frees the block or lowers its count.
LEMMA DereferenceEffect ==
  ASSUME Types, NEW b \in alive, data[b].references > 0, Dereference(b)
  PROVE  /\ alive' \in SUBSET Block /\ data' \in [Block -> Fields]
         /\ \A c \in Block : c # b => data'[c] = data[c] /\ (c \in alive' <=> c \in alive)
         /\ data[b].references = 1 => b \notin alive'
         /\ data[b].references # 1 =>
              /\ b \in alive'
              /\ data'[b].references = data[b].references - 1
              /\ data'[b].address = data[b].address
              /\ data'[b].pattern = data[b].pattern
<1>1. CASE data[b].references = 1
  <2>1. data' = [data EXCEPT ![b] = Fresh] /\ alive' = alive \ {b}
    BY <1>1 DEF Dereference
  <2>2. Fresh \in Fields
    BY DEF Fresh, Fields
  <2> QED
    BY <1>1, <2>1, <2>2 DEF Types
<1>2. CASE data[b].references # 1
  <2>1. data' = [data EXCEPT ![b].references = @ - 1] /\ alive' = alive
    BY <1>2 DEF Dereference
  <2>2. b \in Block /\ data[b] \in Fields
    BY DEF Types
  <2>3. data'[b] = [data[b] EXCEPT !.references = @ - 1]
    BY <2>1, <2>2 DEF Types
  <2>4. data'[b] \in Fields
    BY <2>2, <2>3 DEF Fields
  <2> QED
    BY <1>2, <2>1, <2>2, <2>3, <2>4 DEF Types, Fields
<1> QED
  BY <1>1, <1>2

\* RemoveBlock() on a block of the table: nobody but the readers has it any
\* more, and the rest of the table is as before.
LEMMA RemoveBlockEffect ==
  ASSUME IInv, NEW b \in Block, InOwnPlace(b), RemoveBlock(b), rblock' = rblock
  PROVE  /\ alive' \in SUBSET Block /\ data' \in [Block -> Fields]
         /\ entry' \in [Addr -> Entry \cup {None}]
         /\ pos_to_addr' \in Seq(Addr) /\ size' \in 0 .. Len(pos_to_addr')
         /\ TableConsistent'
         /\ CountInv'
         /\ \A c \in Block : InTable(c)' <=> InTable(c) /\ c # b
         /\ \A c \in Block : c # b => data'[c] = data[c]
         /\ \A c \in Block : c # b /\ InOwnPlace(c) => InOwnPlace(c)'
<1> DEFINE a == data[b].address
<1>1. a \in Addr /\ entry[a] # None /\ entry[a].block = b
  BY DEF InOwnPlace
<1>2. Types /\ TableConsistent /\ CountInv
  BY DEF IInv
<1>3. InTable(b) /\ b \in alive /\ data[b].references > 0
  BY <1>1, <1>2 DEF InTable, CountInv
<1>4. RemoveEntry(a) /\ Dereference(b)
  BY <1>1 DEF RemoveBlock
<1>5. /\ entry' \in [Addr -> Entry \cup {None}]
      /\ pos_to_addr' \in Seq(Addr)
      /\ size' \in 0 .. Len(pos_to_addr')
      /\ entry'[a] = None
      /\ \A c \in Addr : c # a => /\ entry'[c] = None <=> entry[c] = None
                                  /\ entry[c] # None => entry'[c].block = entry[c].block
      /\ \A i \in 1 .. size' : pos_to_addr'[i] \in Addr \ {a}
                               /\ entry'[pos_to_addr'[i]] # None
                               /\ entry'[pos_to_addr'[i]].pos = i - 1
      /\ \A c \in Addr : entry'[c] # None =>
           entry'[c].pos < size' /\ pos_to_addr'[entry'[c].pos + 1] = c
  BY <1>1, <1>2, <1>4, RemoveEffect
<1>6. /\ alive' \in SUBSET Block /\ data' \in [Block -> Fields]
      /\ \A c \in Block : c # b => data'[c] = data[c] /\ (c \in alive' <=> c \in alive)
      /\ data[b].references = 1 => b \notin alive'
      /\ data[b].references # 1 =>
           /\ b \in alive'
           /\ data'[b].references = data[b].references - 1
  BY <1>2, <1>3, <1>4, DereferenceEffect
<1>7. \A c \in Addr : entry[c] # None /\ entry[c].block = b => c = a
  BY <1>2 DEF TableConsistent
<1>8. \A c \in Block : InTable(c)' <=> InTable(c) /\ c # b
  BY <1>1, <1>5, <1>7 DEF InTable
<1>9. TableConsistent'
  <2>1. \A c \in Addr : entry'[c] # None => data'[entry'[c].block].address = c
    <3> SUFFICES ASSUME NEW c \in Addr, entry'[c] # None
                 PROVE  data'[entry'[c].block].address = c
      OBVIOUS
    <3>1. c # a /\ entry[c] # None /\ entry'[c].block = entry[c].block
      BY <1>5
    <3>2. entry[c].block # b /\ entry[c].block \in Block
      BY <1>2, <1>7, <3>1, NoneAssumption DEF Types, Entry
    <3> QED
      BY <1>2, <1>6, <3>1, <3>2 DEF TableConsistent
  <2> QED
    BY <1>5, <2>1 DEF TableConsistent
<1>10. \A c \in Block : c # b /\ InOwnPlace(c) => InOwnPlace(c)'
  BY <1>2, <1>5, <1>6, <1>7 DEF InOwnPlace
<1>11. IsFiniteSet(Holders(b)) /\ Cardinality(Holders(b)) \in Nat
  BY ReadersAssumption, FS_Subset, FS_CardinalityType DEF Holders
<1>12. data[b].references = Cardinality(Holders(b)) + 1
  BY <1>2, <1>3 DEF CountInv
<1>13. \A c : Holders(c)' = Holders(c)
  BY DEF Holders
<1>14. data[b].references = 1 => \A r \in Readers : rblock[r] # b
  <2> SUFFICES ASSUME data[b].references = 1 PROVE Holders(b) = {}
    BY DEF Holders
  <2> QED
    BY <1>11, <1>12, FS_EmptySet
<1>15. CountInv'
  <2>1. \A c \in alive' : data'[c].references = Cardinality(Holders(c)') + (IF InTable(c)' THEN 1 ELSE 0)
    <3> SUFFICES ASSUME NEW c \in alive'
                 PROVE  data'[c].references = Cardinality(Holders(c)) + (IF InTable(c)' THEN 1 ELSE 0)
      BY <1>13
    <3>1. CASE c = b
      BY <1>6, <1>8, <1>11, <1>12, <3>1
    <3>2. CASE c # b
      BY <1>2, <1>6, <1>8, <3>2 DEF CountInv
    <3> QED
      BY <3>1, <3>2
  <2>2. \A c \in alive' : data'[c].references > 0
    BY <1>2, <1>6, <1>11, <1>12 DEF CountInv
  <2>3. \A c \in Block : InTable(c)' => c \in alive'
    BY <1>2, <1>6, <1>8 DEF CountInv
  <2>4. \A r \in Readers : rblock'[r] # None => rblock'[r] \in alive'
    BY <1>2, <1>6, <1>14 DEF CountInv, Types
  <2> QED
    BY <2>1, <2>2, <2>3, <2>4 DEF CountInv
<1> QED
  BY <1>5, <1>6, <1>8, <1>9, <1>10, <1>15

-----------------------------------------------------------------------------
(* The DiskThread.                                                         *)

\* GetUnusedBlock() in the write phase.
LEMMA NewBlockStep ==
  ASSUME IInv, NewBlock
  PROVE  IInv'
<1>1. PICK b \in Block, a \in Addr :
        /\ GetUnusedBlock(b, a)
        /\ wblock' = b
        /\ wpc' = IF non_destructive THEN "mark" ELSE "fill"
  BY DEF NewBlock
<1>2. Types /\ TableConsistent /\ WriterInv /\ CountInv /\ DiskInv /\ wpc = "write_phase"
  BY DEF IInv, NewBlock
<1>3. /\ b \notin alive /\ entry[a] = None
      /\ alive' = alive \cup {b}
      /\ data' = [data EXCEPT ![b] = [Fresh EXCEPT !.address = a, !.references = 1]]
      /\ InsertOnStructure(b, a)
  BY <1>1 DEF GetUnusedBlock
<1>4. UNCHANGED <<setup, running, disk, in_flight, rblock>>
  BY DEF NewBlock
<1>5. /\ entry' \in [Addr -> Entry \cup {None}]
      /\ pos_to_addr' \in Seq(Addr)
      /\ size' \in 0 .. Len(pos_to_addr')
      /\ entry'[a] # None /\ entry'[a].block = b /\ entry'[a].pos = size
      /\ \A c \in Addr : c # a => entry'[c] = entry[c]
      /\ \A i \in 1 .. size : pos_to_addr'[i] = pos_to_addr[i]
      /\ pos_to_addr'[size + 1] = a
      /\ size' = size + 1
  BY <1>2, <1>3, InsertEffect
<1>6. /\ data'[b] = [address |-> a, references |-> 1, initialized |-> FALSE, pattern |-> None]
      /\ \A c \in Block : c # b => data'[c] = data[c]
      /\ data' \in [Block -> Fields]
  BY <1>2, <1>3 DEF Types, Fresh, Fields
<1>7. ~InTable(b) /\ (\A r \in Readers : rblock[r] # b) /\ ~Owns(b)
  <2>1. ~InTable(b) /\ (\A r \in Readers : rblock[r] # b)
    BY <1>2, <1>3, NoneAssumption DEF CountInv
  <2> QED
    BY <1>2, <2>1, InTableIsInPlace DEF WriterInv
<1>8. \A c \in Block : InTable(c)' <=> InTable(c) \/ c = b
  BY <1>3, <1>5 DEF InTable
<1>9. \A c \in Block : c # b => (Owns(c)' <=> Owns(c)) /\ (InFlight(c)' <=> InFlight(c))
  BY <1>1, <1>2, <1>4 DEF Owns, InFlight, Busy
<1>10. \A c \in Block : c # b /\ InOwnPlace(c) => InOwnPlace(c)'
  BY <1>3, <1>5, <1>6 DEF InOwnPlace
<1>11. Types'
  BY <1>1, <1>2, <1>3, <1>4, <1>5, <1>6 DEF Types, setup
<1>12. TableConsistent'
  <2>1. \A i \in 1 .. size' : LET e == entry'[pos_to_addr'[i]] IN e # None /\ e.pos = i - 1
    <3> SUFFICES ASSUME NEW i \in 1 .. size'
                 PROVE  entry'[pos_to_addr'[i]] # None /\ entry'[pos_to_addr'[i]].pos = i - 1
      OBVIOUS
    <3>1. CASE i = size + 1
      <4>1. pos_to_addr'[i] = a
        BY <1>5, <3>1
      <4>2. i - 1 = size
        BY <1>2, <3>1 DEF Types
      <4> QED
        BY <1>5, <4>1, <4>2
    <3>2. CASE i # size + 1
      <4>1. i \in 1 .. size /\ pos_to_addr[i] \in Addr
        BY <1>2, <1>5, <3>2 DEF Types
      <4> QED
        BY <1>2, <1>3, <1>5, <4>1 DEF TableConsistent
    <3> QED
      BY <3>1, <3>2
  <2>2. ASSUME NEW c \in Addr, entry'[c] # None
        PROVE  /\ entry'[c].pos < size'
               /\ pos_to_addr'[entry'[c].pos + 1] = c
               /\ data'[entry'[c].block].address = c
    <3>1. CASE c = a
      BY <1>2, <1>5, <1>6, <3>1 DEF Types
    <3>2. CASE c # a
      <4>1. entry[c] \in Entry /\ entry'[c] = entry[c]
        BY <1>2, <1>5, <2>2, <3>2 DEF Types
      <4>2. entry[c].pos < size /\ pos_to_addr[entry[c].pos + 1] = c /\ data[entry[c].block].address = c
        BY <1>2, <2>2, <4>1 DEF TableConsistent
      <4>3. entry[c].block # b
        BY <1>7, <2>2, <4>1 DEF InTable
      <4> QED
        BY <1>2, <1>5, <1>6, <4>1, <4>2, <4>3 DEF Types, Entry
    <3> QED
      BY <3>1, <3>2
  <2> QED
    BY <2>1, <2>2 DEF TableConsistent
<1>13. WriterInv'
  <2>1. InOwnPlace(b)'
    BY <1>5, <1>6 DEF InOwnPlace
  <2>2. \A c \in Block : Owns(c)' => InOwnPlace(c)'
    BY <1>2, <1>9, <1>10, <2>1 DEF WriterInv
  <2>3. wblock' \in Block /\ ~InFlight(wblock)'
    BY <1>1, <1>4, <1>7 DEF Owns, InFlight
  <2> QED
    BY <1>2, <1>4, <2>2, <2>3 DEF WriterInv, InFlight
<1>14. CountInv'
  <2>1. \A c : Holders(c)' = Holders(c)
    BY <1>4 DEF Holders
  <2>2. Holders(b) = {}
    BY <1>7 DEF Holders
  <2>3. \A c \in alive' : data'[c].references = Cardinality(Holders(c)') + (IF InTable(c)' THEN 1 ELSE 0)
    <3> SUFFICES ASSUME NEW c \in alive'
                 PROVE  data'[c].references = Cardinality(Holders(c)) + (IF InTable(c)' THEN 1 ELSE 0)
      BY <2>1
    <3>1. CASE c = b
      BY <1>6, <1>8, <2>2, <3>1, FS_EmptySet
    <3>2. CASE c # b
      BY <1>2, <1>3, <1>6, <1>8, <3>2 DEF CountInv, Types
    <3> QED
      BY <3>1, <3>2
  <2>4. \A c \in alive' : data'[c].references > 0
    BY <1>2, <1>3, <1>6 DEF CountInv, Types
  <2> QED
    BY <1>2, <1>3, <1>4, <1>8, <2>3, <2>4 DEF CountInv
<1>15. DiskInv'
  <2>3. ASSUME ~non_destructive', NEW c \in Block, InTable(c)', c \in Pending'
        PROVE  disk'[data'[c].address] = data'[c].pattern
    <3>1. c # b
      <4>1. ~InFlight(b)' /\ wpc' = "fill"
        BY <1>1, <1>4, <1>7, <2>3 DEF Owns, InFlight, setup
      <4>2. b \notin Pending'
        BY <1>2, <1>4, <4>1 DEF Pending, InFlight, Types
      <4> QED
        BY <1>6, <2>3, <4>2
    <3>2. c \in Pending' => c \in Pending
      BY <1>1, <1>4, <3>1 DEF Pending
    <3> QED
      BY <1>2, <1>4, <1>6, <1>8, <2>3, <3>1, <3>2 DEF DiskInv, setup
  <2> QED
    BY <2>3 DEF DiskInv
<1> QED
  BY <1>11, <1>12, <1>13, <1>14, <1>15 DEF IInv

\* Steps that leave the table, the addresses and the counts alone.
LEMMA FrameTable ==
  ASSUME Types, TableConsistent, CountInv, UNCHANGED <<entry, pos_to_addr, size, alive, rblock>>,
         \A c \in Block : /\ data'[c].address = data[c].address
                          /\ data'[c].references = data[c].references
  PROVE  /\ TableConsistent' /\ CountInv'
         /\ \A c \in Block : (InTable(c)' <=> InTable(c)) /\ (InOwnPlace(c)' <=> InOwnPlace(c))
<1>1. \A c : InTable(c)' <=> InTable(c)
  BY DEF InTable
<1>2. \A c : Holders(c)' = Holders(c)
  BY DEF Holders
<1>3. \A c \in Block : InOwnPlace(c)' <=> InOwnPlace(c)
  BY DEF InOwnPlace
<1>4. TableConsistent'
  <2>1. \A a \in Addr : entry[a] # None => entry[a].block \in Block
    BY NoneAssumption DEF Types, Entry
  <2> QED
    BY <2>1 DEF TableConsistent
<1>5. CountInv'
  BY <1>1, <1>2 DEF CountInv, Types
<1> QED
  BY <1>1, <1>3, <1>4, <1>5

\* Steps that only move the DiskThread and give it no block.
LEMMA MoveStep ==
  ASSUME IInv, UNCHANGED <<setup, heap, table, disk, in_flight, rblock>>, running' \in BOOLEAN,
         \/ wpc' \notin Busy /\ wblock' \in {wblock, None}
         \/ wpc' = wpc /\ wblock' = wblock
  PROVE  IInv'
<1> USE DEF setup, heap, table
<1>1. Types /\ TableConsistent /\ WriterInv /\ CountInv /\ DiskInv
  BY DEF IInv
<1>2. Types'
  BY <1>1 DEF Types
<1>3. /\ TableConsistent' /\ CountInv'
      /\ \A c \in Block : (InTable(c)' <=> InTable(c)) /\ (InOwnPlace(c)' <=> InOwnPlace(c))
  BY <1>1, FrameTable
<1>4. WriterInv'
  BY <1>1, <1>3 DEF WriterInv, Owns, InFlight
<1>5. Pending' \subseteq Pending
  BY DEF Pending, Busy
<1>6. DiskInv'
  BY <1>1, <1>3, <1>5 DEF DiskInv, Busy
<1> QED
  BY <1>2, <1>3, <1>4, <1>6 DEF IInv

\* WriteBlockToDisk() chooses the pattern.
LEMMA FillBlockStep ==
  ASSUME IInv, FillBlock
  PROVE  IInv'
<1>1. Types /\ TableConsistent /\ WriterInv /\ CountInv /\ DiskInv
  BY DEF IInv
<1>2. PICK p \in Pattern : data' = [data EXCEPT ![wblock].pattern = p]
  BY DEF FillBlock
<1>3. /\ wpc = "fill" /\ wpc' = "write" /\ wblock \in Block /\ ~InFlight(wblock)
      /\ UNCHANGED <<marks, non_destructive, running, alive, entry, pos_to_addr, size, disk,
                     in_flight, wblock, rblock>>
  BY <1>1 DEF FillBlock, WriterInv, Busy, setup, table
<1>4. /\ data' \in [Block -> Fields]
      /\ \A c \in Block : /\ data'[c].address = data[c].address
                          /\ data'[c].references = data[c].references
                          /\ c # wblock => data'[c] = data[c]
  BY <1>1, <1>2, <1>3 DEF Types, Fields
<1>5. Types'
  BY <1>1, <1>3, <1>4 DEF Types
<1>6. /\ TableConsistent' /\ CountInv'
      /\ \A c \in Block : (InTable(c)' <=> InTable(c)) /\ (InOwnPlace(c)' <=> InOwnPlace(c))
  BY <1>1, <1>3, <1>4, FrameTable
<1>7. WriterInv'
  BY <1>1, <1>3, <1>6 DEF WriterInv, Owns, InFlight, Busy
<1>8. wblock \notin Pending /\ Pending' = Pending
  BY <1>1, <1>3 DEF Pending, InFlight, Types
<1>9. DiskInv'
  BY <1>1, <1>3, <1>4, <1>6, <1>8 DEF DiskInv, Types
<1> QED
  BY <1>5, <1>6, <1>7, <1>9 DEF IInv

\* AsyncDiskIO() writes the block and nothing else.
LEMMA WriteBlockStep ==
  ASSUME IInv, WriteBlock
  PROVE  IInv'
<1>1. Types /\ TableConsistent /\ WriterInv /\ CountInv /\ DiskInv
  BY DEF IInv
<1>2. /\ wpc = "write" /\ wpc' = "mark" /\ wblock \in Block /\ ~InFlight(wblock)
      /\ disk' = [disk EXCEPT ![data[wblock].address] = data[wblock].pattern]
      /\ UNCHANGED <<marks, non_destructive, running, alive, data, entry, pos_to_addr, size,
                     in_flight, wblock, rblock>>
  BY <1>1 DEF WriteBlock, WriterInv, Busy, setup, table, heap
<1>3. InOwnPlace(wblock)
  BY <1>1, <1>2 DEF WriterInv, Owns, Busy
<1>4. Types'
  BY <1>1, <1>2, <1>3 DEF Types, Fields, InOwnPlace
<1>5. /\ TableConsistent' /\ CountInv'
      /\ \A c \in Block : (InTable(c)' <=> InTable(c)) /\ (InOwnPlace(c)' <=> InOwnPlace(c))
  BY <1>1, <1>2, FrameTable
<1>6. WriterInv'
  BY <1>1, <1>2, <1>5 DEF WriterInv, Owns, InFlight, Busy
<1>7. ASSUME ~non_destructive', NEW c \in Block, InTable(c)', c \in Pending'
      PROVE  disk'[data'[c].address] = data'[c].pattern
  <2>1. InOwnPlace(c)
    BY <1>1, <1>5, <1>7, InTableIsInPlace
  <2>2. CASE c = wblock
    BY <1>1, <1>2, <1>3, <2>2 DEF Types, InOwnPlace
  <2>3. CASE c # wblock
    <3>1. c \in Pending' => c \in Pending
      BY <1>2, <2>3 DEF Pending
    <3>2. data[c].address # data[wblock].address
      BY <1>3, <2>1, <2>3 DEF InOwnPlace
    <3> QED
      BY <1>1, <1>2, <1>5, <1>7, <2>1, <3>1, <3>2 DEF DiskInv, Types,
         InOwnPlace
  <2> QED
    BY <2>2, <2>3
<1>8. DiskInv'
  BY <1>1, <1>2, <1>7 DEF DiskInv
<1> QED
  BY <1>4, <1>5, <1>6, <1>8 DEF IInv

\* AsyncDiskIO() fails: the block leaves the table.
LEMMA WriteFailsStep ==
  ASSUME IInv, WriteFails
  PROVE  IInv'
<1>1. Types /\ TableConsistent /\ WriterInv /\ CountInv /\ DiskInv
  BY DEF IInv
<1>2. /\ wpc = "write" /\ wpc' = "ended" /\ wblock \in Block /\ ~InFlight(wblock) /\ wblock' = None
      /\ RemoveBlock(wblock)
      /\ UNCHANGED <<marks, non_destructive, running, in_flight, rblock>>
  BY <1>1 DEF WriteFails, WriterInv, Busy, setup
<1>3. PICK d \in {disk[data[wblock].address], Garbage, data[wblock].pattern} :
        disk' = [disk EXCEPT ![data[wblock].address] = d]
  BY DEF WriteFails
<1>4. InOwnPlace(wblock)
  BY <1>1, <1>2 DEF WriterInv, Owns, Busy
<1>5. /\ alive' \in SUBSET Block /\ data' \in [Block -> Fields]
      /\ entry' \in [Addr -> Entry \cup {None}]
      /\ pos_to_addr' \in Seq(Addr) /\ size' \in 0 .. Len(pos_to_addr')
      /\ TableConsistent'
      /\ CountInv'
      /\ \A c \in Block : InTable(c)' <=> InTable(c) /\ c # wblock
      /\ \A c \in Block : c # wblock => data'[c] = data[c]
      /\ \A c \in Block : c # wblock /\ InOwnPlace(c) => InOwnPlace(c)'
  BY <1>2, <1>4, RemoveBlockEffect
<1>6. Types'
  <2>1. disk' \in [Addr -> Pattern \cup {None}]
    BY <1>1, <1>2, <1>3, <1>4 DEF Types, Fields, InOwnPlace, Garbage
  <2> QED
    BY <1>1, <1>2, <1>5, <2>1 DEF Types
<1>7. \A c \in Block : Owns(c)' => Owns(c) /\ c # wblock
  BY <1>2 DEF Owns, InFlight, Busy
<1>8. WriterInv'
  BY <1>1, <1>2, <1>5, <1>7 DEF WriterInv, InFlight, Busy
<1>9. ASSUME ~non_destructive', NEW c \in Block, InTable(c)', c \in Pending'
      PROVE  disk'[data'[c].address] = data'[c].pattern
  <2>1. c # wblock /\ InTable(c) /\ InOwnPlace(c) /\ data'[c] = data[c]
    BY <1>1, <1>5, <1>9, InTableIsInPlace
  <2>2. c \in Pending' => c \in Pending
    BY <1>2 DEF Pending
  <2>3. data[c].address # data[wblock].address
    BY <1>4, <2>1 DEF InOwnPlace
  <2> QED
    BY <1>1, <1>2, <1>3, <1>9, <2>1, <2>2, <2>3 DEF DiskInv, Types, InOwnPlace
<1>10. DiskInv'
  BY <1>2, <1>9 DEF DiskInv
<1> QED
  BY <1>5, <1>6, <1>8, <1>10 DEF IInv

\* The block joins those in flight, marked or not.
LEMMA MarkBlockStep ==
  ASSUME IInv, MarkBlock
  PROVE  IInv'
<1>1. Types /\ TableConsistent /\ WriterInv /\ CountInv /\ DiskInv
  BY DEF IInv
<1>2. /\ wpc = "mark" /\ wpc' = "write_phase" /\ wblock \in Block /\ ~InFlight(wblock)
      /\ wblock' = None
      /\ data' = [data EXCEPT ![wblock].initialized = @ \/ marks]
      /\ in_flight' = Append(in_flight, wblock)
      /\ UNCHANGED <<marks, non_destructive, running, alive, entry, pos_to_addr, size, disk, rblock>>
  BY <1>1 DEF MarkBlock, WriterInv, Busy, setup, table
<1>3. /\ data' \in [Block -> Fields]
      /\ \A c \in Block : /\ data'[c].address = data[c].address
                          /\ data'[c].references = data[c].references
                          /\ data'[c].pattern = data[c].pattern
                          /\ c # wblock => data'[c] = data[c]
  BY <1>1, <1>2 DEF Types, Fields
<1>4. /\ in_flight' \in Seq(Block) /\ Len(in_flight') = Len(in_flight) + 1
      /\ \A i \in 1 .. Len(in_flight) : in_flight'[i] = in_flight[i]
      /\ in_flight'[Len(in_flight) + 1] = wblock
  BY <1>1, <1>2 DEF Types
<1>5. Types'
  BY <1>1, <1>2, <1>3, <1>4 DEF Types
<1>6. /\ TableConsistent' /\ CountInv'
      /\ \A c \in Block : (InTable(c)' <=> InTable(c)) /\ (InOwnPlace(c)' <=> InOwnPlace(c))
  BY <1>1, <1>2, <1>3, FrameTable
<1>7. \A c \in Block : Owns(c)' => Owns(c)
  <2> SUFFICES ASSUME NEW c \in Block, NEW i \in 1 .. Len(in_flight'), in_flight'[i] = c
               PROVE  Owns(c)
    BY <1>2 DEF Owns, InFlight, Busy
  <2>1. CASE i = Len(in_flight) + 1
    BY <1>2, <1>4, <2>1 DEF Owns, Busy
  <2>2. CASE i # Len(in_flight) + 1
    BY <1>1, <1>4, <2>2 DEF Owns, InFlight, Types
  <2> QED
    BY <2>1, <2>2
<1>8. \A i, j \in 1 .. Len(in_flight') : in_flight'[i] = in_flight'[j] => i = j
  BY <1>1, <1>2, <1>4 DEF WriterInv, InFlight, Types
<1>9. WriterInv'
  BY <1>1, <1>2, <1>6, <1>7, <1>8 DEF WriterInv, Busy
<1>10. Pending' = Pending
  <2>1. \A c : c \in Pending' <=> \E i \in 1 .. Len(in_flight) + 1 : in_flight'[i] = c
    BY <1>2, <1>4 DEF Pending
  <2>2. \A c : c \in Pending <=> (\E i \in 1 .. Len(in_flight) : in_flight[i] = c) \/ c = wblock
    <3>1. DOMAIN in_flight = 1 .. Len(in_flight)
      BY <1>1 DEF Types
    <3> QED
      BY <1>2, <3>1, Zenon DEF Pending
  <2>3. Len(in_flight) \in Nat
    BY <1>1 DEF Types
  <2>4. \A c : (\E i \in 1 .. Len(in_flight) + 1 : in_flight'[i] = c)
                 <=> (\E i \in 1 .. Len(in_flight) : in_flight[i] = c) \/ c = wblock
    <3> SUFFICES ASSUME NEW c
                 PROVE  (\E i \in 1 .. Len(in_flight) + 1 : in_flight'[i] = c)
                          <=> (\E i \in 1 .. Len(in_flight) : in_flight[i] = c) \/ c = wblock
      OBVIOUS
    <3>1. ASSUME NEW i \in 1 .. Len(in_flight) + 1
          PROVE  i \in 1 .. Len(in_flight) \/ i = Len(in_flight) + 1
      BY <2>3
    <3>2. \A i \in 1 .. Len(in_flight) : i \in 1 .. Len(in_flight) + 1
      BY <2>3
    <3>3. Len(in_flight) + 1 \in 1 .. Len(in_flight) + 1
      BY <2>3
    <3> QED
      BY <1>4, <3>1, <3>2, <3>3, Zenon
  <2>5. \A c : c \in Pending' <=> c \in Pending
    BY <2>1, <2>2, <2>4, Zenon
  <2> QED
    BY <2>5, Zenon
<1>11. DiskInv'
  BY <1>1, <1>2, <1>3, <1>6, <1>10 DEF DiskInv
<1> QED
  BY <1>5, <1>6, <1>9, <1>11 DEF IInv

\* The first block in flight is the next to be read back.
LEMMA NextInFlightStep ==
  ASSUME IInv, NextInFlight
  PROVE  IInv'
<1>1. Types /\ TableConsistent /\ WriterInv /\ CountInv /\ DiskInv
  BY DEF IInv
<1>2. CASE running /\ in_flight # <<>>
  <2>1. /\ wpc = "read_phase" /\ wpc' = "validate"
        /\ wblock' = Head(in_flight) /\ in_flight' = Tail(in_flight)
        /\ UNCHANGED <<marks, non_destructive, running, alive, data, entry, pos_to_addr, size,
                       disk, rblock>>
    BY <1>2 DEF NextInFlight, setup, table, heap
  <2>2. /\ Len(in_flight) \in Nat /\ Len(in_flight) > 0 /\ in_flight' \in Seq(Block)
        /\ Len(in_flight') = Len(in_flight) - 1
        /\ \A i \in 1 .. Len(in_flight') : in_flight'[i] = in_flight[i + 1]
        /\ wblock' = in_flight[1] /\ wblock' \in Block
    BY <1>1, <1>2, <2>1 DEF Types
  <2>3. Types'
    BY <1>1, <2>1, <2>2 DEF Types
  <2>4. /\ TableConsistent' /\ CountInv'
        /\ \A c \in Block : (InTable(c)' <=> InTable(c)) /\ (InOwnPlace(c)' <=> InOwnPlace(c))
    BY <1>1, <2>1, FrameTable
  <2>5. \A c \in Block : InFlight(c)' => InFlight(c) /\ c # wblock'
    <3> SUFFICES ASSUME NEW i \in 1 .. Len(in_flight')
                 PROVE  InFlight(in_flight'[i]) /\ in_flight'[i] # wblock'
      BY DEF InFlight
    <3>1. i + 1 \in 1 .. Len(in_flight) /\ 1 \in 1 .. Len(in_flight) /\ i + 1 # 1
      BY <2>2
    <3> QED
      BY <1>1, <2>2, <3>1 DEF InFlight, WriterInv
  <2>6. \A c \in Block : Owns(c)' => Owns(c)
    <3>1. InFlight(wblock')
      BY <2>2 DEF InFlight
    <3> QED
      BY <2>5, <3>1 DEF Owns
  <2>7. \A i, j \in 1 .. Len(in_flight') : in_flight'[i] = in_flight'[j] => i = j
    BY <1>1, <2>2 DEF WriterInv
  <2>8. WriterInv'
    BY <1>1, <2>2, <2>4, <2>5, <2>6, <2>7 DEF WriterInv
  <2>9. Pending' \subseteq Pending
    <3>1. \A c \in Pending' : (\E i \in 1 .. Len(in_flight') : in_flight'[i] = c) \/ c = wblock'
      BY <2>1, <2>2 DEF Pending
    <3>2. \A i \in 1 .. Len(in_flight) : in_flight[i] \in Pending
      BY <1>1 DEF Pending, Types
    <3> QED
      BY <2>2, <3>1, <3>2
  <2>10. DiskInv'
    BY <1>1, <2>1, <2>4, <2>9 DEF DiskInv
  <2> QED
    BY <2>3, <2>4, <2>8, <2>10 DEF IInv
<1>3. CASE ~(running /\ in_flight # <<>>)
  BY <1>1, <1>3, MoveStep DEF NextInFlight, Busy, Types, heap, table, setup
<1> QED
  BY <1>2, <1>3

\* The block was read back and is removed.
LEMMA ValidatedStep ==
  ASSUME IInv, Validated
  PROVE  IInv'
<1>1. Types /\ TableConsistent /\ WriterInv /\ CountInv /\ DiskInv
  BY DEF IInv
<1>2. /\ wpc = "validate" /\ wpc' = "read_phase" /\ wblock \in Block /\ ~InFlight(wblock)
      /\ wblock' = None
      /\ RemoveBlock(wblock)
      /\ UNCHANGED <<marks, non_destructive, running, disk, in_flight, rblock>>
  BY <1>1 DEF Validated, WriterInv, Busy, setup
<1>3. InOwnPlace(wblock)
  BY <1>1, <1>2 DEF WriterInv, Owns, Busy
<1>4. /\ alive' \in SUBSET Block /\ data' \in [Block -> Fields]
      /\ entry' \in [Addr -> Entry \cup {None}]
      /\ pos_to_addr' \in Seq(Addr) /\ size' \in 0 .. Len(pos_to_addr')
      /\ TableConsistent'
      /\ CountInv'
      /\ \A c \in Block : InTable(c)' <=> InTable(c) /\ c # wblock
      /\ \A c \in Block : c # wblock => data'[c] = data[c]
      /\ \A c \in Block : c # wblock /\ InOwnPlace(c) => InOwnPlace(c)'
  BY <1>2, <1>3, RemoveBlockEffect
<1>5. Types'
  BY <1>1, <1>2, <1>4 DEF Types
<1>6. \A c \in Block : Owns(c)' => Owns(c) /\ c # wblock
  BY <1>2 DEF Owns, InFlight, Busy
<1>7. WriterInv'
  BY <1>1, <1>2, <1>4, <1>6 DEF WriterInv, InFlight, Busy
<1>8. Pending' \subseteq Pending
  BY <1>2 DEF Pending
<1>9. DiskInv'
  BY <1>1, <1>2, <1>4, <1>8 DEF DiskInv
<1> QED
  BY <1>4, <1>5, <1>7, <1>9 DEF IInv

-----------------------------------------------------------------------------
(* The RandomDiskThreads.                                                  *)

\* GetRandomBlock() takes a reference.
LEMMA GetRandomBlockStep ==
  ASSUME IInv, NEW r \in Readers, GetRandomBlock(r)
  PROVE  IInv'
<1>1. Types /\ TableConsistent /\ WriterInv /\ CountInv /\ DiskInv
  BY DEF IInv
<1>2. PICK i \in 1 .. size :
        /\ data[entry[pos_to_addr[i]].block].initialized
        /\ data' = [data EXCEPT ![entry[pos_to_addr[i]].block].references = @ + 1]
        /\ rblock' = [rblock EXCEPT ![r] = entry[pos_to_addr[i]].block]
  BY DEF GetRandomBlock
<1>3. PICK b \in Block : b = entry[pos_to_addr[i]].block /\ InTable(b)
  <2>1. pos_to_addr[i] \in Addr /\ entry[pos_to_addr[i]] # None
    BY <1>1 DEF Types, TableConsistent
  <2>2. entry[pos_to_addr[i]].block \in Block
    BY <1>1, <2>1 DEF Types, Entry
  <2> QED
    BY <2>1, <2>2 DEF InTable
<1>4. b \in alive
  BY <1>1, <1>3 DEF CountInv
<1>5. /\ data[b].initialized /\ rblock[r] = None
      /\ data' = [data EXCEPT ![b].references = @ + 1]
      /\ rblock' = [rblock EXCEPT ![r] = b]
      /\ UNCHANGED <<marks, non_destructive, running, alive, entry, pos_to_addr, size, disk,
                     in_flight, wpc, wblock>>
  BY <1>2, <1>3 DEF GetRandomBlock, setup, table
<1>6. /\ data' \in [Block -> Fields]
      /\ \A c \in Block : /\ data'[c].address = data[c].address
                          /\ data'[c].pattern = data[c].pattern
                          /\ c # b => data'[c] = data[c]
      /\ data'[b].references = data[b].references + 1
  <2>1. data[b] \in Fields
    BY <1>1 DEF Types
  <2>2. data'[b] = [data[b] EXCEPT !.references = @ + 1]
    BY <1>1, <1>5 DEF Types
  <2>3. data'[b] \in Fields
    BY <2>1, <2>2 DEF Fields
  <2>4. \A c \in Block : c # b => data'[c] = data[c]
    BY <1>1, <1>5 DEF Types
  <2>5. data' \in [Block -> Fields]
    BY <1>1, <1>5, <2>3, <2>4 DEF Types
  <2> QED
    BY <2>1, <2>2, <2>4, <2>5 DEF Fields
<1>7. Types'
  BY <1>1, <1>3, <1>5, <1>6 DEF Types
<1>8. \A c \in Block : (InTable(c)' <=> InTable(c)) /\ (InOwnPlace(c)' <=> InOwnPlace(c))
  BY <1>5, <1>6 DEF InTable, InOwnPlace
<1>9. TableConsistent'
  <2>1. \A a \in Addr : entry[a] # None => entry[a].block \in Block
    BY <1>1, NoneAssumption DEF Types, Entry
  <2> QED
    BY <1>1, <1>5, <1>6, <2>1 DEF TableConsistent
<1>10. WriterInv'
  BY <1>1, <1>5, <1>8 DEF WriterInv, Owns, InFlight
<1>11. /\ Holders(b)' = Holders(b) \cup {r} /\ r \notin Holders(b)
       /\ \A c \in Block : c # b => Holders(c)' = Holders(c)
  BY <1>1, <1>3, <1>5, NoneAssumption DEF Holders, Types
<1>12. IsFiniteSet(Holders(b)) /\ Cardinality(Holders(b)) \in Nat
  BY ReadersAssumption, FS_Subset, FS_CardinalityType DEF Holders
<1>13. Cardinality(Holders(b)') = Cardinality(Holders(b)) + 1
  BY <1>11, <1>12, FS_AddElement
<1>14. CountInv'
  <2>1. \A c \in alive' : data'[c].references = Cardinality(Holders(c)') + (IF InTable(c)' THEN 1 ELSE 0)
    <3> SUFFICES ASSUME NEW c \in alive
                 PROVE  data'[c].references = Cardinality(Holders(c)') + (IF InTable(c)' THEN 1 ELSE 0)
      BY <1>5
    <3>1. CASE c = b
      <4>1. data[b].references = Cardinality(Holders(b)) + 1
        BY <1>1, <1>3, <1>4 DEF CountInv
      <4>2. InTable(b)'
        BY <1>3, <1>4, <1>8
      <4> QED
        BY <1>6, <1>12, <1>13, <3>1, <4>1, <4>2
    <3>2. CASE c # b
      BY <1>1, <1>6, <1>8, <1>11, <3>2 DEF CountInv, Types
    <3> QED
      BY <3>1, <3>2
  <2>2. \A c \in alive' : data'[c].references > 0
    <3>1. data[b].references \in Nat
      BY <1>1 DEF Types, Fields
    <3> QED
      BY <1>1, <1>5, <1>6, <3>1 DEF CountInv, Types
  <2> QED
    BY <1>1, <1>3, <1>4, <1>5, <1>8, <2>1, <2>2 DEF CountInv, Types
<1>15. DiskInv'
  <2>1. Pending' = Pending
    BY <1>5 DEF Pending
  <2> QED
    BY <1>1, <1>5, <1>6, <1>8, <2>1 DEF DiskInv
<1> QED
  BY <1>7, <1>9, <1>10, <1>14, <1>15 DEF IInv

\* ReleaseBlock() gives it back, and frees the block if it was the last.
LEMMA ReleaseBlockStep ==
  ASSUME IInv, NEW r \in Readers, ReleaseBlock(r)
  PROVE  IInv'
<1>1. Types /\ TableConsistent /\ WriterInv /\ CountInv /\ DiskInv
  BY DEF IInv
<1>2. PICK b \in alive :
        /\ b = rblock[r] /\ b \in Block /\ data[b].references > 0 /\ r \in Holders(b)
        /\ Dereference(b)
        /\ rblock' = [rblock EXCEPT ![r] = None]
        /\ UNCHANGED <<marks, non_destructive, running, entry, pos_to_addr, size, disk,
                       in_flight, wpc, wblock>>
  BY <1>1 DEF ReleaseBlock, CountInv, Types, Holders, setup, table
<1>3. /\ alive' \in SUBSET Block /\ data' \in [Block -> Fields]
      /\ \A c \in Block : c # b => data'[c] = data[c] /\ (c \in alive' <=> c \in alive)
      /\ data[b].references = 1 => b \notin alive'
      /\ data[b].references # 1 =>
           /\ b \in alive'
           /\ data'[b].references = data[b].references - 1
           /\ data'[b].address = data[b].address
           /\ data'[b].pattern = data[b].pattern
  BY <1>1, <1>2, DereferenceEffect
<1>4. /\ IsFiniteSet(Holders(b)) /\ Cardinality(Holders(b)) \in Nat
      /\ Holders(b)' = Holders(b) \ {r}
      /\ \A c \in Block : c # b => Holders(c)' = Holders(c)
  <2>1. IsFiniteSet(Holders(b)) /\ Cardinality(Holders(b)) \in Nat
    BY ReadersAssumption, FS_Subset, FS_CardinalityType DEF Holders
  <2> QED
    BY <1>1, <1>2, <2>1, NoneAssumption DEF Holders, Types
<1>5. Cardinality(Holders(b)') = Cardinality(Holders(b)) - 1 /\ Cardinality(Holders(b)') \in Nat
  <2>1. IsFiniteSet(Holders(b) \ {r})
    BY <1>4, FS_RemoveElement
  <2> QED
    BY <1>2, <1>4, <2>1, FS_RemoveElement, FS_CardinalityType
<1>6. data[b].references = Cardinality(Holders(b)) + (IF InTable(b) THEN 1 ELSE 0)
  BY <1>1, <1>2 DEF CountInv
<1>7. data[b].references = 1 => ~InTable(b) /\ Holders(b)' = {}
  <2> SUFFICES ASSUME data[b].references = 1 PROVE ~InTable(b) /\ Holders(b)' = {}
    OBVIOUS
  <2>1. Cardinality(Holders(b)') = 0 /\ ~InTable(b)
    BY <1>4, <1>5, <1>6
  <2>2. IsFiniteSet(Holders(b)')
    BY <1>4, FS_RemoveElement
  <2> QED
    BY <2>1, <2>2, FS_EmptySet
<1>8. \A c \in Block : InTable(c) => data'[c].address = data[c].address
                                     /\ data'[c].pattern = data[c].pattern
  BY <1>3, <1>7
<1>9. \A c \in Block : (InTable(c)' <=> InTable(c)) /\ (InOwnPlace(c) => InOwnPlace(c)')
  BY <1>1, <1>2, <1>8, InTableIsInPlace DEF InTable, InOwnPlace
<1>10. Types'
  BY <1>1, <1>2, <1>3 DEF Types
<1>11. TableConsistent'
  <2>1. \A a \in Addr : entry[a] # None => entry[a].block \in Block /\ InTable(entry[a].block)
    BY <1>1, NoneAssumption DEF Types, Entry, InTable
  <2> QED
    BY <1>1, <1>2, <1>8, <2>1 DEF TableConsistent
<1>12. WriterInv'
  BY <1>1, <1>2, <1>9 DEF WriterInv, Owns, InFlight
<1>13. CountInv'
  <2>1. \A c \in alive' : data'[c].references = Cardinality(Holders(c)') + (IF InTable(c)' THEN 1 ELSE 0)
    <3> SUFFICES ASSUME NEW c \in alive'
                 PROVE  data'[c].references = Cardinality(Holders(c)') + (IF InTable(c)' THEN 1 ELSE 0)
      OBVIOUS
    <3>1. CASE c = b
      <4>1. data[b].references # 1 /\ (InTable(b)' <=> InTable(b))
        BY <1>2, <1>3, <1>9, <3>1
      <4>2. data'[b].references = data[b].references - 1
        BY <1>3, <4>1
      <4>3. CASE InTable(b)
        <5>1. data[b].references = Cardinality(Holders(b)) + 1
          BY <1>6, <4>3
        <5>2. data'[b].references = Cardinality(Holders(b)') + 1
          BY <1>4, <1>5, <4>2, <5>1
        <5> QED
          BY <3>1, <4>1, <4>3, <5>2
      <4>4. CASE ~InTable(b)
        <5>1. data[b].references = Cardinality(Holders(b))
          BY <1>4, <1>6, <4>4
        <5>2. data'[b].references = Cardinality(Holders(b)')
          BY <1>5, <4>2, <5>1
        <5> QED
          BY <1>5, <3>1, <4>1, <4>4, <5>2
      <4> QED
        BY <4>3, <4>4
    <3>2. CASE c # b
      BY <1>1, <1>3, <1>4, <1>9, <3>2 DEF CountInv
    <3> QED
      BY <3>1, <3>2
  <2>2. \A c \in alive' : data'[c].references > 0
    BY <1>1, <1>2, <1>3, <1>4, <1>6 DEF CountInv
  <2>3. \A c \in Block : InTable(c)' => c \in alive'
    BY <1>1, <1>3, <1>7, <1>9 DEF CountInv
  <2>4. \A q \in Readers : rblock'[q] # None => rblock'[q] \in alive'
    <3> SUFFICES ASSUME NEW q \in Readers, rblock'[q] # None PROVE rblock'[q] \in alive'
      OBVIOUS
    <3>1. q # r /\ rblock'[q] = rblock[q] /\ rblock[q] \in Block /\ rblock[q] \in alive
      BY <1>1, <1>2 DEF Types, CountInv
    <3>2. rblock[q] = b => data[b].references # 1
      BY <1>7, <3>1 DEF Holders
    <3> QED
      BY <1>3, <3>1, <3>2
  <2> QED
    BY <2>1, <2>2, <2>3, <2>4 DEF CountInv
<1>14. DiskInv'
  <2>1. Pending' = Pending
    BY <1>2 DEF Pending
  <2> QED
    BY <1>1, <1>2, <1>8, <1>9, <2>1 DEF DiskInv
<1> QED
  BY <1>10, <1>11, <1>12, <1>13, <1>14 DEF IInv

-----------------------------------------------------------------------------
(* The theorems.                                                           *)

\* Every step of every thread preserves the invariant.
LEMMA StepInv == IInv /\ [Next]_vars => IInv'
<1> SUFFICES ASSUME IInv, [Next]_vars PROVE IInv'
  OBVIOUS
<1>0. running \in BOOLEAN
  BY DEF IInv, Types
<1>1. CASE Loop
  BY <1>0, <1>1, MoveStep DEF Loop, Busy
<1>2. CASE NoBlock
  BY <1>0, <1>2, MoveStep DEF NoBlock, Busy
<1>3. CASE FlushPageCache
  BY <1>0, <1>3, MoveStep DEF FlushPageCache, Busy
<1>4. CASE ReadFails
  BY <1>0, <1>4, MoveStep DEF ReadFails, Busy
<1>5. CASE StopWorkers
  BY <1>0, <1>5, MoveStep DEF StopWorkers
<1>6. CASE UNCHANGED vars
  BY <1>0, <1>6, MoveStep DEF vars
<1>7. CASE NewBlock \/ FillBlock \/ WriteBlock \/ WriteFails \/ MarkBlock \/ NextInFlight \/ Validated
  BY <1>7, NewBlockStep, FillBlockStep, WriteBlockStep, WriteFailsStep,
     MarkBlockStep, NextInFlightStep, ValidatedStep
<1>8. CASE \E r \in Readers : GetRandomBlock(r) \/ ReleaseBlock(r)
  BY <1>8, GetRandomBlockStep, ReleaseBlockStep
<1> QED
  BY <1>1, <1>2, <1>3, <1>4, <1>5, <1>6, <1>7, <1>8 DEF Next, DiskThread

\* The inductive invariant holds throughout.
LEMMA Invariance == Spec => []IInv
BY InitInv, StepInv, PTL DEF Spec

\* The two halves of the DiskBlockTable, the map by address and the vector by
\* position, agree after any sequence of insertions and removals.
THEOREM ConsistentTable == Spec => []TableConsistent
<1>1. IInv => TableConsistent
  BY DEF IInv
<1> QED
  BY <1>1, Invariance, PTL

\* A BlockData object lives as long as the table, the DiskThread or a reader
\* has it, and its counter counts them.
THEOREM CountsHolders == Spec => []ReferencesAreHolders
<1>1. IInv => ReferencesAreHolders
  <2> SUFFICES ASSUME IInv PROVE ReferencesAreHolders
    OBVIOUS
  <2>1. Types /\ TableConsistent /\ WriterInv /\ CountInv
    BY DEF IInv
  <2>2. ASSUME NEW b \in Block, b \in Pending PROVE InTable(b)
    <3>1. Owns(b)
      BY <2>1, <2>2 DEF Pending, Owns, InFlight, Busy, Types
    <3> QED
      BY <2>1, <3>1, InTableIsInPlace DEF WriterInv
  <2>3. \A b \in Block : (InTable(b) \/ b \in Pending \/ \E r \in Readers : rblock[r] = b) => b \in alive
    BY <2>1, <2>2, NoneAssumption DEF CountInv
  <2> QED
    BY <2>1, <2>3 DEF ReferencesAreHolders, CountInv, Holders
<1> QED
  BY <1>1, Invariance, PTL

\* What the DiskThread reads back is what it wrote for that block: nobody else
\* has written there in between.
THEOREM ReadsItsOwn == Spec => []WriterReadsItsOwn
<1>1. IInv => WriterReadsItsOwn
  <2> SUFFICES ASSUME IInv, NEW b \in Pending
               PROVE  /\ entry[data[b].address] # None
                      /\ entry[data[b].address].block = b
                      /\ ~ non_destructive => disk[data[b].address] = data[b].pattern
    BY DEF WriterReadsItsOwn
  <2>1. Types /\ TableConsistent /\ WriterInv /\ DiskInv
    BY DEF IInv
  <2>2. b \in Block /\ Owns(b)
    BY <2>1 DEF Pending, Owns, InFlight, Busy, WriterInv, Types
  <2>3. InOwnPlace(b) /\ InTable(b)
    BY <2>1, <2>2, InTableIsInPlace DEF WriterInv
  <2> QED
    BY <2>1, <2>2, <2>3 DEF InOwnPlace, DiskInv
<1> QED
  BY <1>1, Invariance, PTL

-----------------------------------------------------------------------------
(* The size of the table.                                                  *)

\* The table's size follows the DiskThread's progress.
SizeInv ==
  /\ wpc \notin Busy => wblock = None
  /\ wpc # "ended" => size = Len(in_flight) + (IF wpc \in Busy THEN 1 ELSE 0)
  /\ size <= QueueSize + 1

\* RemoveBlock() of a block that has its entry makes the table smaller.
LEMMA RemoveShrinks ==
  ASSUME NEW b \in Block, InOwnPlace(b), RemoveBlock(b)
  PROVE  size' = size - 1
BY DEF InOwnPlace, RemoveBlock, RemoveEntry

LEMMA SizeStep == IInv /\ SizeInv /\ [Next]_vars => SizeInv'
<1> SUFFICES ASSUME IInv, SizeInv, [Next]_vars PROVE SizeInv'
  OBVIOUS
<1>1. /\ Types /\ WriterInv /\ size \in Nat /\ Len(in_flight) \in Nat /\ QueueSize \in Nat
      /\ in_flight \in Seq(Block)
  BY BoundAssumption DEF IInv, Types
<1>2. wpc \in Busy => wblock \in Block /\ wblock # None /\ InOwnPlace(wblock)
  BY <1>1, NoneAssumption DEF WriterInv, Owns
<1>3. CASE UNCHANGED <<wpc, wblock, size, in_flight>>
  BY <1>3 DEF SizeInv
<1>4. CASE Loop \/ NoBlock \/ FlushPageCache
  BY <1>4 DEF Loop, NoBlock, FlushPageCache, SizeInv, Busy, table
<1>5. CASE NewBlock
  <2>1. /\ wpc = "write_phase" /\ wpc' \in {"mark", "fill"} /\ size' = size + 1
        /\ in_flight' = in_flight /\ Len(in_flight) < QueueSize + 1
    BY <1>5 DEF NewBlock, GetUnusedBlock, InsertOnStructure
  <2> QED
    BY <1>1, <2>1 DEF SizeInv, Busy
<1>6. CASE FillBlock \/ WriteBlock
  BY <1>6 DEF FillBlock, WriteBlock, SizeInv, Busy, table
<1>7. CASE WriteFails
  <2>1. /\ wpc \in Busy /\ wpc' = "ended" /\ wblock' = None /\ RemoveBlock(wblock)
    BY <1>7 DEF WriteFails, Busy
  <2>2. size' = size - 1
    BY <1>2, <2>1, RemoveShrinks
  <2> QED
    BY <1>1, <2>1, <2>2 DEF SizeInv, Busy
<1>8. CASE MarkBlock
  <2>1. /\ wpc \in Busy /\ wpc # "ended" /\ wpc' = "write_phase" /\ wblock' = None /\ size' = size
        /\ in_flight' = Append(in_flight, wblock) /\ wblock \in Block
    BY <1>2, <1>8 DEF MarkBlock, Busy, table
  <2>2. Len(in_flight') = Len(in_flight) + 1
    BY <1>1, <2>1
  <2> QED
    BY <1>1, <2>1, <2>2 DEF SizeInv, Busy
<1>9. CASE NextInFlight
  <2>1. CASE running /\ in_flight # <<>>
    <3>1. /\ wpc = "read_phase" /\ wpc' = "validate" /\ size' = size
          /\ in_flight' = Tail(in_flight)
      BY <1>9, <2>1 DEF NextInFlight, table
    <3>2. Len(in_flight') = Len(in_flight) - 1
      BY <1>1, <2>1, <3>1
    <3> QED
      BY <1>1, <3>1, <3>2 DEF SizeInv, Busy
  <2>2. CASE ~(running /\ in_flight # <<>>)
    BY <1>9, <2>2 DEF NextInFlight, SizeInv, Busy, table
  <2> QED
    BY <2>1, <2>2
<1>10. CASE Validated
  <2>1. /\ wpc = "validate" /\ wpc' = "read_phase" /\ wblock' = None /\ RemoveBlock(wblock)
        /\ in_flight' = in_flight
    BY <1>10 DEF Validated
  <2>2. size' = size - 1
    BY <1>2, <2>1, RemoveShrinks DEF Busy
  <2> QED
    BY <1>1, <2>1, <2>2 DEF SizeInv, Busy
<1>11. CASE ReadFails
  BY <1>11 DEF ReadFails, SizeInv, Busy, table
<1>12. CASE StopWorkers \/ UNCHANGED vars \/ \E r \in Readers : GetRandomBlock(r) \/ ReleaseBlock(r)
  BY <1>3, <1>12 DEF StopWorkers, GetRandomBlock, ReleaseBlock, table, vars
<1> QED
  BY <1>4, <1>5, <1>6, <1>7, <1>8, <1>9, <1>10, <1>11, <1>12 DEF Next,
     DiskThread

\* The table never holds more than the blocks in flight and the one in hand,
\* at most queue_size_ + 1: no phase of DoWork() leaves an entry behind.
THEOREM NoEntryLeft == Spec => []TableIsInFlight
<1>1. Init => SizeInv
  BY BoundAssumption DEF Init, SizeInv, Busy
<1>2. IInv /\ SizeInv => TableIsInFlight
  BY NoneAssumption DEF IInv, WriterInv, SizeInv, TableIsInFlight
<1> QED
  BY <1>1, <1>2, SizeStep, Invariance, PTL DEF Spec
=============================================================================
