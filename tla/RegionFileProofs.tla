-------------------------- MODULE RegionFileProofs --------------------------
(***************************************************************************)
(* Theorems about RegionFile, for any chunks, regions, sizes of the cache  *)
(* and sizes of data: in a region in which no failure went unnoticed,      *)
(* chunks share no sectors, a save writes over no other chunk, and a crash *)
(* takes back one save at most; and RegionFile implements ChunkStore.      *)
(***************************************************************************)
EXTENDS RegionFile, TLAPS

USE DEF fileVars, FirstSector, Saving

-----------------------------------------------------------------------------
(* Types *)

\* To be a table is to name the chunks of each region.
LEMMA IsTable ==
    ASSUME NEW f, f = [r \in Regions |-> f[r]],
           \A r \in Regions : f[r] \in [ChunksIn(r) -> Entries]
    PROVE  f \in Tables
BY DEF Tables

LEMMA TableTypes ==
    ASSUME TypeOK
    PROVE  /\ table = [r \in Regions |-> table[r]]
           /\ diskTable = [r \in Regions |-> diskTable[r]]
           /\ \A r \in Regions : /\ table[r] \in [ChunksIn(r) -> Entries]
                                 /\ diskTable[r] \in [ChunksIn(r) -> Entries]
                                 /\ TableOf(r) \in [ChunksIn(r) -> Entries]
BY DEF TypeOK, Tables, TableOf

LEMMA NoTableType ==
    ASSUME NEW r \in Regions
    PROVE  NoTable(r) \in [ChunksIn(r) -> Entries]
BY BoundsAssumption, RegionAssumption DEF NoTable, NoEntry, Entries

LEMMA Naturals ==
    /\ \A n \in Sizes : n \in Nat /\ n >= 1
    /\ MaxSaves \in Nat /\ LastSector \in Nat
<1>1. Sizes \subseteq Nat \ {0} /\ MaxSaves \in Nat /\ LastSector \in Nat
    BY BoundsAssumption
<1> QED BY <1>1

\* The save in progress, and what there is where none is.
LEMMA OpTypes ==
    ASSUME TypeOK
    PROVE  /\ op.chunk \in Chunks \cup {None} /\ op.version \in Nat /\ op.version <= saves
           /\ op.size \in Nat /\ op.at \in 0..LastSector /\ op.pos \in 0..LastSector
           /\ op.done \in Nat
<1>1. op \in [chunk : Chunks \cup {None}, version : 0..saves, size : Sizes \cup {0},
              at : 0..LastSector, pos : 0..LastSector, done : Nat]
    BY DEF TypeOK
<1>2. /\ op.chunk \in Chunks \cup {None} /\ op.version \in 0..saves
      /\ op.size \in Sizes \cup {0} /\ op.at \in 0..LastSector /\ op.pos \in 0..LastSector
      /\ op.done \in Nat
    BY <1>1
<1>3. saves \in Nat
    BY BoundsAssumption DEF TypeOK
<1> QED BY <1>2, <1>3, Naturals

\* What is put into the table is an entry of it, and nothing else in the table changes.
LEMMA WrittenType ==
    ASSUME TypeOK, Saving, op.size <= MaxLen
    PROVE  /\ OpRegion \in Regions /\ op.chunk \in ChunksIn(OpRegion)
           /\ [at |-> op.at, len |-> op.size] \in Entries
           /\ WrittenTable \in Tables
           /\ WrittenTable[OpRegion] =
                  [table[OpRegion] EXCEPT ![op.chunk] = [at |-> op.at, len |-> op.size]]
           /\ \A r \in Regions \ {OpRegion} : WrittenTable[r] = table[r]
<1>1. op.chunk \in Chunks /\ op.at \in 0..LastSector /\ op.size \in Nat
    BY OpTypes
<1>2. OpRegion \in Regions /\ op.chunk \in ChunksIn(OpRegion)
    BY <1>1, RegionAssumption DEF OpRegion, ChunksIn
<1>3. [at |-> op.at, len |-> op.size] \in Entries
    BY <1>1, RegionAssumption DEF Entries
<1>4. WrittenTable = [r \in Regions |-> WrittenTable[r]]
    BY <1>2, TableTypes DEF WrittenTable
<1>5. /\ WrittenTable[OpRegion] =
             [table[OpRegion] EXCEPT ![op.chunk] = [at |-> op.at, len |-> op.size]]
      /\ \A r \in Regions \ {OpRegion} : WrittenTable[r] = table[r]
    BY <1>2, TableTypes DEF WrittenTable
<1>6. \A r \in Regions : WrittenTable[r] \in [ChunksIn(r) -> Entries]
    BY <1>2, <1>3, <1>5, TableTypes
<1> QED BY <1>2, <1>3, <1>4, <1>5, <1>6, IsTable

\* A file is opened, or cannot be, and what is held back of others, and of it, is flushed;
\* or all are closed.
Opening(r, failed, empty) ==
    \/ /\ OpenFile(r, empty)
       /\ Flush(Dropped, failed, empty) \/ Flush(Flushed(r), failed, empty)
    \/ OpenFileFails(r, empty) /\ Flush(Dropped, failed, empty)

Closing(failed) ==
    /\ opened' = {} /\ Flush(Regions, failed, {})
    /\ table' = [q \in Regions |-> NoTable(q)]

\* In the regions in lost' anything may have happened, which includes the failures.
FilesMove ==
    \E failed, empty \in SUBSET Regions :
        /\ lost \cup failed \cup empty \subseteq lost'
        /\ (\E r \in Regions : Opening(r, failed, empty)) \/ (empty = {} /\ Closing(failed))

LEMMA LoadMoves ==
    ASSUME NEW c \in Chunks, LoadChunk(c) \/ SaveCannotOpen(c)
    PROVE  FilesMove /\ lost' \subseteq lost \cup Regions
<1>1. RegionOf[c] \in Regions
    BY RegionAssumption
<1>2. \E failed, empty \in SUBSET Regions :
          /\ Opening(RegionOf[c], failed, empty) /\ lost' = lost \cup (failed \cup empty)
    BY DEF LoadChunk, SaveCannotOpen, Opening, Lose
<1> QED BY <1>1, <1>2 DEF FilesMove

LEMMA BeginMoves ==
    ASSUME NEW c \in Chunks, NEW n, SetChunkData(c, n)
    PROVE  /\ FilesMove /\ lost' \subseteq lost \cup Regions
           /\ RegionOf[c] \in opened' /\ RegionOf[c] \notin heldBack'
           /\ \E s \in Sectors, pos \in 0..LastSector :
                  /\ FindFreeLocation(table'[RegionOf[c]], c, n, s)
                  /\ pos = s \/ RegionOf[c] \in lost'
                  /\ s + n - 1 <= LastSector /\ pos + n - 1 <= LastSector
                  /\ op' = [chunk |-> c, version |-> saves', size |-> n, at |-> s,
                            pos |-> pos, done |-> 0]
<1> DEFINE r == RegionOf[c]
<1>1. r \in Regions
    BY RegionAssumption
<1>2. PICK failed \in SUBSET Regions, empty \in SUBSET Regions :
          /\ OpenFile(r, empty) /\ Flush(Flushed(r), failed, empty)
          /\ \E s \in Sectors, pos \in 0..LastSector :
                 /\ FindFreeLocation(table'[r], c, n, s)
                 /\ pos = s \/ r \in failed \/ s > MaxSeek
                 /\ s + n - 1 <= LastSector /\ pos + n - 1 <= LastSector
                 /\ op' = [chunk |-> c, version |-> saves', size |-> n, at |-> s,
                           pos |-> pos, done |-> 0]
                 /\ Lose(failed \cup empty \cup {q \in {r} : s > MaxSeek})
    BY DEF SetChunkData
<1>3. PICK s \in Sectors, pos \in 0..LastSector :
          /\ FindFreeLocation(table'[r], c, n, s)
          /\ pos = s \/ r \in failed \/ s > MaxSeek
          /\ s + n - 1 <= LastSector /\ pos + n - 1 <= LastSector
          /\ op' = [chunk |-> c, version |-> saves', size |-> n, at |-> s,
                    pos |-> pos, done |-> 0]
          /\ lost' = lost \cup (failed \cup empty \cup {q \in {r} : s > MaxSeek})
    BY <1>2 DEF Lose
<1>4. FilesMove
    BY <1>1, <1>2, <1>3 DEF FilesMove, Opening
<1>5. r \in opened' /\ r \notin heldBack'
    BY <1>2 DEF OpenFile, Flush, Flushed
<1>6. lost' \subseteq lost \cup Regions
    BY <1>1, <1>3
<1>7. pos = s \/ r \in lost'
    BY <1>3
<1> QED BY <1>3, <1>4, <1>5, <1>6, <1>7

LEMMA StopMoves ==
    ASSUME Stop
    PROVE  FilesMove /\ lost' \subseteq lost \cup Regions
BY DEF Stop, FilesMove, Closing, Lose

LEMMA OpenTypes ==
    ASSUME TypeOK, FilesMove
    PROVE  /\ opened' \subseteq Regions /\ heldBack' \subseteq opened'
           /\ table' \in Tables /\ diskTable' \in Tables
<1>1. PICK failed \in SUBSET Regions, empty \in SUBSET Regions :
          (\E r \in Regions : Opening(r, failed, empty)) \/ (empty = {} /\ Closing(failed))
    BY DEF FilesMove
<1>2. PICK rs : Flush(rs, failed, empty)
    BY <1>1 DEF Opening, Closing
<1>3. \A q \in Regions : diskTable'[q] \in [ChunksIn(q) -> Entries]
    BY <1>2, TableTypes, NoTableType DEF Flush
<1>4. \A q \in Regions : table'[q] \in [ChunksIn(q) -> Entries]
    BY <1>1, TableTypes, NoTableType DEF Opening, Closing, OpenFile, OpenFileFails
<1>5. table' = [q \in Regions |-> table'[q]] /\ diskTable' = [q \in Regions |-> diskTable'[q]]
    BY <1>1, <1>2 DEF Opening, Closing, OpenFile, OpenFileFails, Flush
<1>6. table' \in Tables /\ diskTable' \in Tables
    BY <1>3, <1>4, <1>5, IsTable
<1>7. heldBack \subseteq opened /\ opened \subseteq Regions
    BY DEF TypeOK
<1>8. ASSUME NEW r \in Regions, Opening(r, failed, empty)
      PROVE  opened' \subseteq Regions /\ heldBack' \subseteq opened'
    <2>1. heldBack' \subseteq heldBack \ Dropped
        BY <1>8 DEF Opening, Flush, Flushed
    <2>2. /\ opened \cap Kept \subseteq opened'
          /\ opened' \subseteq opened \cup {r}
        BY <1>8 DEF Opening, OpenFile, OpenFileFails
    <2> QED BY <1>7, <2>1, <2>2 DEF Dropped
<1>9. Closing(failed) => opened' \subseteq Regions /\ heldBack' \subseteq opened'
    BY <1>7 DEF Closing, Flush
<1> QED BY <1>1, <1>6, <1>8, <1>9

LEMMA InitTypes == Init => TypeOK
<1> SUFFICES ASSUME Init PROVE TypeOK
    OBVIOUS
<1>1. table \in Tables /\ diskTable \in Tables
    BY NoTableType, IsTable DEF Init
<1>2. op \in [chunk : Chunks \cup {None}, version : 0..saves, size : Sizes \cup {0},
              at : 0..LastSector, pos : 0..LastSector, done : Nat]
    BY BoundsAssumption DEF Init, NoOp
<1>3. sector \in [Regions -> [Sectors -> Parts]]
    BY BoundsAssumption DEF Init, Garbage, Parts
<1> QED
    BY <1>1, <1>2, <1>3, BoundsAssumption DEF Init, NoOp, TypeOK

\* One sector of a file changes, or its table is written over, but no other file does.
LEMMA PutTypes ==
    ASSUME TypeOK, NEW s, NEW p \in Parts, Put(s, p)
    PROVE  /\ sector' \in [Regions -> [Sectors -> Parts]] /\ diskTable' \in Tables
           /\ \A q \in Regions \ {OpRegion} :
                  sector'[q] = sector[q] /\ diskTable'[q] = diskTable[q]
           /\ OpRegion \in Regions =>
                  sector'[OpRegion] = [q \in Sectors |-> IF q = s THEN p ELSE sector[OpRegion][q]]
<1> DEFINE g == [q \in Sectors |-> IF q = s THEN p ELSE sector[OpRegion][q]]
<1>1. sector \in [Regions -> [Sectors -> Parts]]
    BY DEF TypeOK
<1> HIDE DEF Sectors
<1>2. sector' = [sector EXCEPT ![OpRegion] = g]
    BY <1>1 DEF Put
<1>3. diskTable' \in {diskTable, [diskTable EXCEPT ![OpRegion] = NoTable(OpRegion)]}
    BY DEF Put
<1>4. CASE OpRegion \in Regions
    <2>1. g \in [Sectors -> Parts]
        BY <1>1, <1>4
    <2> HIDE DEF g
    <2>2. /\ sector' \in [Regions -> [Sectors -> Parts]] /\ sector'[OpRegion] = g
          /\ \A q \in Regions \ {OpRegion} : sector'[q] = sector[q]
        BY <1>1, <1>2, <1>4, <2>1
    <2>3. /\ diskTable' = [q \in Regions |-> diskTable'[q]]
          /\ \A q \in Regions \ {OpRegion} : diskTable'[q] = diskTable[q]
          /\ diskTable'[OpRegion] \in {diskTable[OpRegion], NoTable(OpRegion)}
        BY <1>3, <1>4, TableTypes
    <2>4. \A q \in Regions : diskTable'[q] \in [ChunksIn(q) -> Entries]
        BY <1>4, <2>3, TableTypes, NoTableType
    <2>5. diskTable' \in Tables
        BY <2>3, <2>4, IsTable
    <2> QED BY <2>2, <2>3, <2>5 DEF g
<1>5. CASE OpRegion \notin Regions
    <2> HIDE DEF g
    <2>1. sector' = sector
        BY <1>1, <1>2, <1>5
    <2>2. diskTable' = diskTable
        BY <1>3, <1>5, TableTypes
    <2> QED BY <1>1, <1>5, <2>1, <2>2 DEF TypeOK
<1> QED BY <1>4, <1>5

\* Where the file was sought well, it is the sector that was meant.
LEMMA PutSector ==
    ASSUME TypeOK, Saving, NEW s \in Sectors, NEW p \in Parts, Put(s, p)
    PROVE  sector' = [sector EXCEPT ![OpRegion][s] = p] /\ diskTable' = diskTable
<1>1. sector \in [Regions -> [Sectors -> Parts]] /\ OpRegion \in Regions
    BY OpTypes, RegionAssumption DEF TypeOK, OpRegion
<1>2. s # 0
    BY Naturals DEF Sectors
<1> HIDE DEF Sectors
<1>3. [q \in Sectors |-> IF q = s THEN p ELSE sector[OpRegion][q]] =
          [sector[OpRegion] EXCEPT ![s] = p]
    BY <1>1
<1> QED BY <1>1, <1>2, <1>3, PutTypes DEF Put

LEMMA GarbageType == Garbage \in Parts
BY BoundsAssumption DEF Garbage, Parts

LEMMA PartType ==
    ASSUME TypeOK, Saving, NEW i \in Nat
    PROVE  OpPart(i) \in Parts
<1>1. op.version \in 0..MaxSaves /\ op.size \in Nat
    BY OpTypes, BoundsAssumption DEF TypeOK
<1> QED BY <1>1 DEF OpPart, Parts

\* The sector being written, spoiled.
LEMMA SpoilTypes ==
    ASSUME TypeOK, SpoilSector
    PROVE  /\ sector' \in [Regions -> [Sectors -> Parts]] /\ diskTable' \in Tables
           /\ \A q \in Regions \ {OpRegion} :
                  sector'[q] = sector[q] /\ diskTable'[q] = diskTable[q]
<1>1. CASE UNCHANGED <<sector, diskTable>>
    BY <1>1 DEF TypeOK
<1>2. CASE Put(op.pos + op.done, Garbage)
    BY <1>2, GarbageType, PutTypes
<1> QED BY <1>1, <1>2 DEF SpoilSector

LEMMA StepTypes ==
    ASSUME TypeOK, [Next]_vars
    PROVE  TypeOK'
<1> USE BoundsAssumption
<1>1. NoOp \in [chunk : Chunks \cup {None}, version : 0..saves', size : Sizes \cup {0},
                at : 0..LastSector, pos : 0..LastSector, done : Nat]
          \/ saves' \notin Nat
    BY DEF NoOp
<1>2. ASSUME NEW c \in Chunks, LoadChunk(c) \/ SaveCannotOpen(c)
      PROVE  TypeOK'
    <2>1. /\ opened' \subseteq Regions /\ heldBack' \subseteq opened'
          /\ table' \in Tables /\ diskTable' \in Tables
          /\ lost' \subseteq Regions
        BY <1>2, LoadMoves, OpenTypes DEF TypeOK
    <2>2. ~Saving /\ UNCHANGED <<sector, op, saves>> /\ reported' \subseteq reported
        BY <1>2 DEF LoadChunk, SaveCannotOpen
    <2> QED BY <2>1, <2>2 DEF TypeOK
<1>3. ASSUME NEW c \in Chunks, NEW n \in Sizes, SetChunkData(c, n)
      PROVE  TypeOK'
    <2>1. PICK s \in Sectors, pos \in 0..LastSector :
              /\ s + n - 1 <= LastSector /\ pos + n - 1 <= LastSector
              /\ op' = [chunk |-> c, version |-> saves', size |-> n, at |-> s,
                        pos |-> pos, done |-> 0]
        BY <1>3, BeginMoves
    <2>2. saves' = saves + 1 /\ saves' \in 0..MaxSaves /\ n \in Nat \ {0} /\ s \in 0..LastSector
        <3>1. saves' = saves + 1 /\ saves < MaxSaves
            BY <1>3 DEF SetChunkData
        <3>2. saves \in 0..MaxSaves
            BY DEF TypeOK
        <3> QED BY <3>1, <3>2, Naturals DEF Sectors
    <2>3. /\ opened' \subseteq Regions /\ heldBack' \subseteq opened'
          /\ table' \in Tables /\ diskTable' \in Tables
          /\ lost' \subseteq Regions
        BY <1>3, BeginMoves, OpenTypes DEF TypeOK
    <2>4. op' \in [chunk : Chunks \cup {None}, version : 0..saves', size : Sizes \cup {0},
                   at : 0..LastSector, pos : 0..LastSector, done : Nat]
        BY <2>1, <2>2
    <2>5. OpRegion' \in opened' \ heldBack'
        BY <1>3, <2>1, BeginMoves DEF OpRegion
    <2>6. UNCHANGED sector /\ reported' \subseteq Chunks
        BY <1>3 DEF SetChunkData, TypeOK
    <2> QED BY <2>1, <2>2, <2>3, <2>4, <2>5, <2>6 DEF TypeOK, Sectors
<1>4. CASE WriteSector
    <2>1. op.done + 1 \in Nat /\ Saving /\ lost \subseteq Regions /\ OpRegion \in Regions
        BY <1>4, OpTypes, RegionAssumption DEF WriteSector, TypeOK, OpRegion
    <2>2. \E p \in Parts : Put(op.pos + op.done, p)
        BY <1>4, <2>1, PartType, GarbageType DEF WriteSector
    <2>3. sector' \in [Regions -> [Sectors -> Parts]] /\ diskTable' \in Tables
        BY <2>2, PutTypes
    <2>4. op' \in [chunk : Chunks \cup {None}, version : 0..saves, size : Sizes \cup {0},
                   at : 0..LastSector, pos : 0..LastSector, done : Nat]
        BY <1>4 DEF WriteSector, TypeOK
    <2>5. /\ op'.chunk = op.chunk /\ op'.at = op.at /\ op'.size = op.size /\ op'.pos = op.pos
          /\ op'.done = op.done + 1
        BY <1>4 DEF WriteSector, TypeOK
    <2>6. op'.done <= op'.size
        BY <1>4, <2>5, OpTypes, Naturals DEF WriteSector
    <2>7. lost' \subseteq Regions
        BY <1>4, <2>1 DEF WriteSector, Lose
    <2>8. UNCHANGED <<opened, table, heldBack, saves, reported>>
        BY <1>4 DEF WriteSector
    <2> QED BY <2>1, <2>3, <2>4, <2>5, <2>6, <2>7, <2>8 DEF TypeOK, OpRegion
<1>5. CASE DataNotSaved
    <2>1. SpoilSector /\ UNCHANGED <<opened, table, heldBack, saves, reported, lost>> /\ op' = NoOp
        BY <1>5 DEF DataNotSaved, SpoilSector
    <2>2. sector' \in [Regions -> [Sectors -> Parts]] /\ diskTable' \in Tables
        BY <2>1, SpoilTypes
    <2> QED BY <1>1, <2>1, <2>2 DEF TypeOK, NoOp
<1>6. CASE SaveTable \/ TableNotSaved
    <2>1. WrittenTable \in Tables /\ OpRegion \in Regions
        BY <1>6, WrittenType DEF SaveTable, TableNotSaved
    <2>2. table' \in Tables
        BY <1>6, <2>1 DEF SaveTable, TableNotSaved
    <2>3. \/ UNCHANGED sector
             /\ diskTable' \in {diskTable, [diskTable EXCEPT ![OpRegion] = WrittenTable[OpRegion]]}
          \/ Put(op.pos + op.size - 1, Garbage)
        BY <1>6 DEF SaveTable, TableNotSaved
    <2>4. [diskTable EXCEPT ![OpRegion] = WrittenTable[OpRegion]] \in Tables
        <3>1. \A r \in Regions : WrittenTable[r] \in [ChunksIn(r) -> Entries]
            BY <2>1 DEF Tables
        <3> QED BY <2>1, <3>1, TableTypes, IsTable
    <2>5. sector' \in [Regions -> [Sectors -> Parts]] /\ diskTable' \in Tables
        BY <2>3, <2>4, GarbageType, PutTypes DEF TypeOK
    <2>6. heldBack' \subseteq opened' /\ op'.chunk = None
        BY <1>6, <2>1 DEF SaveTable, TableNotSaved, TypeOK, NoOp
    <2>7. reported' \subseteq Chunks
        BY <1>6 DEF SaveTable, TableNotSaved, TypeOK
    <2>8. UNCHANGED <<opened, saves, lost>> /\ op' = NoOp
        BY <1>6 DEF SaveTable, TableNotSaved
    <2> QED BY <1>1, <2>2, <2>5, <2>6, <2>7, <2>8 DEF TypeOK
<1>7. CASE Stop
    <2>1. /\ opened' \subseteq Regions /\ heldBack' \subseteq opened'
          /\ table' \in Tables /\ diskTable' \in Tables /\ lost' \subseteq Regions
        BY <1>7, StopMoves, OpenTypes DEF TypeOK
    <2>2. ~Saving /\ UNCHANGED <<sector, op, saves, reported>>
        BY <1>7 DEF Stop
    <2> QED BY <2>1, <2>2 DEF TypeOK
<1>8. CASE Crash
    <2>1. table' \in Tables
        BY <1>8, NoTableType, IsTable DEF Crash
    <2>2. sector' \in [Regions -> [Sectors -> Parts]] /\ diskTable' \in Tables
        BY <1>8, SpoilTypes DEF Crash
    <2> QED BY <1>1, <1>8, <2>1, <2>2 DEF Crash, TypeOK, NoOp
<1>9. CASE UNCHANGED vars
    BY <1>9 DEF vars, TypeOK, OpRegion
<1> QED BY <1>2, <1>3, <1>4, <1>5, <1>6, <1>7, <1>8, <1>9 DEF Next

\* Types: the table in memory and the one on the disk are tables, what is held back is of an
\* open file, and a save in progress is within its file (m_Header, OpenFile, SetChunkData).
THEOREM Types == Spec => []TypeOK
BY InitTypes, StepTypes, PTL DEF Spec

-----------------------------------------------------------------------------
(* Where chunks are: one region, its table t in memory, its table k on the disk, its data *)

\* How many sectors GetChunkData looks at.
ReadLen(data, s) == IF data[s].version # 0 /\ data[s].part = 1 THEN data[s].size ELSE 1

\* n sectors from a on and m sectors from b on have none in common.
Apart(a, n, b, m) == a + n <= b \/ b + m <= a

\* An entry is empty, or covers what is read.
Entered(data, e) ==
    \/ e.at = 0 /\ e.len = 0
    \/ e.at >= FirstSector /\ e.len >= 1 /\ e.len >= ReadLen(data, e.at)

\* The disk's entry is where the chunk was before it was moved to the end, or the chunk is
\* still there and has not grown.
Behind(data, e, f) ==
    \/ e.at = 0
    \/ e.at = f.at /\ f.len <= e.len
    \/ e.at + ReadLen(data, e.at) <= f.at

\* What the disk's entry reads is not in the place of another chunk.
Clear(data, e, a, n) == e.at = 0 \/ Apart(e.at, ReadLen(data, e.at), a, n)

Fit(r, t, k, data) ==
    \A c \in ChunksIn(r) :
        /\ Entered(data, t[c]) /\ Entered(data, k[c]) /\ Behind(data, k[c], t[c])
        /\ \A d \in ChunksIn(r) \ {c} :
               /\ Apart(t[c].at, t[c].len, t[d].at, t[d].len)
               /\ Apart(k[c].at, k[c].len, k[d].at, k[d].len)
               /\ Clear(data, k[c], t[d].at, t[d].len)

\* Chunk c may be written to the n sectors from a on.
Room(r, t, k, data, c, a, n) ==
    /\ \/ a = t[c].at /\ n <= t[c].len
       \/ t[c].at + t[c].len <= a
    /\ \A d \in ChunksIn(r) \ {c} :
           Apart(a, n, t[d].at, t[d].len) /\ Clear(data, k[d], a, n)

LEMMA EntryTypes ==
    ASSUME NEW r, NEW t \in [ChunksIn(r) -> Entries], NEW c \in ChunksIn(r)
    PROVE  t[c].at \in Nat /\ t[c].len \in Nat /\ (t[c].at >= 2 => t[c].at \in Sectors)
<1>1. t[c] \in Entries
    OBVIOUS
<1> QED BY <1>1, Naturals, RegionAssumption DEF Entries, Sectors

\* Data of which something is a part take a sector at least.
Filled(data) ==
    data \in [Sectors -> Parts] /\ \A s \in Sectors : data[s].version # 0 => data[s].size >= 1

LEMMA ReadLenType ==
    ASSUME NEW data, Filled(data), NEW s \in Sectors
    PROVE  ReadLen(data, s) \in Nat /\ ReadLen(data, s) >= 1
<1>1. data[s] \in Parts /\ (data[s].version # 0 => data[s].size >= 1)
    BY DEF Filled
<1> QED BY <1>1 DEF Parts, ReadLen

\* A table that reaches the disk fits itself, and so does the disk's when it is read.
LEMMA FitBoth ==
    ASSUME NEW r, NEW t \in [ChunksIn(r) -> Entries], NEW k \in [ChunksIn(r) -> Entries],
           NEW data, Filled(data), Fit(r, t, k, data)
    PROVE  Fit(r, t, t, data) /\ Fit(r, k, k, data)
<1>1. ASSUME NEW c \in ChunksIn(r), NEW d \in ChunksIn(r) \ {c},
             NEW u \in {t, k}
      PROVE  Clear(data, u[c], u[d].at, u[d].len)
    <2>1. /\ Entered(data, u[c]) /\ Entered(data, u[d])
          /\ Apart(u[c].at, u[c].len, u[d].at, u[d].len)
        BY DEF Fit
    <2>2. /\ u[c].at \in Nat /\ u[c].len \in Nat /\ u[d].at \in Nat /\ u[d].len \in Nat
          /\ u[c].at >= 2 => ReadLen(data, u[c].at) \in Nat
        BY EntryTypes, ReadLenType
    <2> QED BY <2>1, <2>2 DEF Entered, Apart, Clear
<1>2. ASSUME NEW c \in ChunksIn(r), NEW u \in {t, k}
      PROVE  Behind(data, u[c], u[c])
    BY EntryTypes DEF Behind
<1>3. Fit(r, t, t, data)
    BY <1>1, <1>2 DEF Fit
<1>4. Fit(r, k, k, data)
    BY <1>1, <1>2 DEF Fit
<1> QED BY <1>3, <1>4

Fitting(r, t, k, data) ==
    /\ t \in [ChunksIn(r) -> Entries] /\ k \in [ChunksIn(r) -> Entries]
    /\ Fit(r, t, k, data)

HasRoom(r, t, k, data, c, a, n) ==
    c \in ChunksIn(r) /\ a \in Sectors /\ n \in Nat /\ Room(r, t, k, data, c, a, n)

\* A sector x of that place, and what may be written to it.
IsPart(p, x, a, n) ==
    /\ x \in Sectors /\ a <= x /\ x < a + n
    /\ p \in Parts /\ (p.version # 0 /\ p.part = 1 => x = a /\ p.size = n)

\* What a sector of chunk c's place is overwritten with does not change how much is read of
\* the other chunks, and of c no more than the data being written.
LEMMA FitWrite ==
    ASSUME NEW r, NEW t, NEW k, NEW data, NEW c, NEW a, NEW n, NEW x, NEW p, NEW after,
           Fitting(r, t, k, data), Filled(data), HasRoom(r, t, k, data, c, a, n),
           IsPart(p, x, a, n), after = [data EXCEPT ![x] = p], Filled(after)
    PROVE  /\ Fit(r, t, k, after) /\ Room(r, t, k, after, c, a, n)
           /\ \A d \in ChunksIn(r) \ {c} : \A u \in {t, k} :
                  u[d].at = 0 \/ (/\ u[d].at \in Sectors
                                  /\ Apart(a, n, u[d].at, ReadLen(data, u[d].at)))
<1> USE DEF HasRoom, Fitting, IsPart
<1>1. \A s \in Sectors \ {x} : ReadLen(after, s) = ReadLen(data, s)
    BY DEF Filled, ReadLen
<1>2. ReadLen(after, x) = 1 \/ (x = a /\ ReadLen(after, x) = n)
    <2>1. after[x] = p
        BY DEF Filled
    <2> QED BY <2>1 DEF ReadLen
<1>3. \A s \in Sectors : /\ ReadLen(after, s) \in Nat /\ ReadLen(after, s) >= 1
                         /\ ReadLen(data, s) \in Nat /\ ReadLen(data, s) >= 1
    BY ReadLenType
<1>4. \A d \in ChunksIn(r) : \A u \in {t, k} :
          u[d].at \in Nat /\ u[d].len \in Nat /\ (u[d].at >= 2 => u[d].at \in Sectors)
    BY EntryTypes
<1>5. a \in Nat /\ x \in Nat /\ a >= 2 /\ x >= 2 /\ n >= 1
    BY Naturals DEF Sectors
<1>6. ASSUME NEW d \in ChunksIn(r) \ {c}, NEW u \in {t, k}
      PROVE  u[d].at = 0 \/ (/\ u[d].at \in Sectors
                             /\ ReadLen(after, u[d].at) = ReadLen(data, u[d].at)
                             /\ Apart(a, n, u[d].at, ReadLen(data, u[d].at)))
    <2>1. Entered(data, u[d])
        BY DEF Fit
    <2>2. Apart(a, n, t[d].at, t[d].len) /\ Clear(data, k[d], a, n)
        BY DEF Room
    <2>3. CASE u[d].at # 0
        <3>1. /\ u[d].at \in Sectors /\ u[d].at \in Nat /\ u[d].len \in Nat
              /\ u[d].len >= ReadLen(data, u[d].at)
              /\ ReadLen(data, u[d].at) \in Nat /\ ReadLen(data, u[d].at) >= 1
            BY <1>3, <1>4, <2>1, <2>3 DEF Entered
        <3>2. Apart(a, n, u[d].at, ReadLen(data, u[d].at))
            BY <1>5, <2>2, <2>3, <3>1 DEF Apart, Clear
        <3>3. u[d].at # x
            BY <1>5, <3>1, <3>2 DEF Apart
        <3> QED BY <1>1, <3>1, <3>2, <3>3
    <2> QED BY <2>3
<1>7. /\ Entered(data, t[c]) /\ Entered(data, k[c]) /\ Behind(data, k[c], t[c])
      /\ (a = t[c].at /\ n <= t[c].len) \/ t[c].at + t[c].len <= a
    BY DEF Fit, Room
<1>8. t[c].at = x => x = a /\ a = t[c].at /\ n <= t[c].len
    BY <1>4, <1>5, <1>7 DEF Entered
<1>9. k[c].at = x => k[c].at = t[c].at /\ t[c].len <= k[c].len
    <2>1. CASE k[c].at + ReadLen(data, k[c].at) <= t[c].at /\ k[c].at = x
        BY <1>3, <1>4, <1>5, <1>7, <2>1
    <2> QED BY <1>5, <1>7, <2>1 DEF Behind
<1>10. t[c].at = x => ReadLen(after, x) <= t[c].len
    BY <1>2, <1>4, <1>5, <1>8
<1>11. Entered(after, t[c])
    BY <1>1, <1>4, <1>7, <1>10 DEF Entered
<1>12. Entered(after, k[c])
    <2>1. CASE k[c].at = x
        <3>1. ReadLen(after, x) <= t[c].len /\ t[c].len <= k[c].len
            BY <1>9, <1>10, <2>1
        <3>2. ReadLen(after, x) <= k[c].len /\ k[c].len >= 1
            <4>1. k[c].len \in Nat /\ t[c].len \in Nat
                BY <1>4
            <4>2. ReadLen(after, x) \in Nat /\ ReadLen(after, x) >= 1
                BY <1>3
            <4> QED BY <3>1, <4>1, <4>2
        <3> QED BY <1>5, <2>1, <3>2 DEF Entered
    <2>2. CASE k[c].at # x
        BY <1>1, <1>4, <1>7, <2>2 DEF Entered
    <2> QED BY <2>1, <2>2
<1>13. Behind(after, k[c], t[c])
    BY <1>1, <1>4, <1>7, <1>9 DEF Behind, Entered
<1>14. ASSUME NEW d \in ChunksIn(r) \ {c}
       PROVE  /\ Entered(after, t[d]) /\ Entered(after, k[d]) /\ Behind(after, k[d], t[d])
              /\ Clear(after, k[d], t[c].at, t[c].len) /\ Clear(after, k[d], a, n)
              /\ \A e \in ChunksIn(r) \ {d} : Clear(after, k[d], t[e].at, t[e].len)
    <2>1. /\ Entered(data, t[d]) /\ Entered(data, k[d]) /\ Behind(data, k[d], t[d])
          /\ \A e \in ChunksIn(r) \ {d} : Clear(data, k[d], t[e].at, t[e].len)
          /\ Clear(data, k[d], a, n)
        BY DEF Fit, Room
    <2>2. \A u \in {t, k} : u[d].at = 0 \/ ReadLen(after, u[d].at) = ReadLen(data, u[d].at)
        BY <1>6
    <2>3. Entered(after, t[d]) /\ Entered(after, k[d]) /\ Behind(after, k[d], t[d])
        BY <2>1, <2>2 DEF Entered, Behind
    <2>4. \A e \in ChunksIn(r) \ {d} : Clear(after, k[d], t[e].at, t[e].len)
        BY <2>1, <2>2 DEF Clear
    <2>5. Clear(after, k[d], a, n)
        BY <2>1, <2>2 DEF Clear
    <2> QED BY <2>3, <2>4, <2>5
<1>15. ASSUME NEW d \in ChunksIn(r) \ {c}
       PROVE  Clear(after, k[c], t[d].at, t[d].len)
    <2>1. Clear(data, k[c], t[d].at, t[d].len) /\ Apart(t[c].at, t[c].len, t[d].at, t[d].len)
        BY DEF Fit
    <2>2. CASE k[c].at = x
        <3>1. k[c].at = t[c].at /\ ReadLen(after, x) <= t[c].len
            BY <1>9, <1>10, <2>2
        <3>2. /\ ReadLen(after, x) \in Nat /\ t[c].at \in Nat /\ t[c].len \in Nat
              /\ t[d].at \in Nat /\ t[d].len \in Nat
            BY <1>3, <1>4
        <3>3. Apart(k[c].at, ReadLen(after, x), t[d].at, t[d].len)
            BY <2>1, <3>1, <3>2 DEF Apart
        <3> QED BY <2>2, <3>3 DEF Clear
    <2>3. CASE k[c].at # x
        BY <1>1, <1>4, <1>7, <2>1, <2>3 DEF Clear, Entered
    <2> QED BY <2>2, <2>3
<1>16. Fit(r, t, k, after)
    <2>1. ASSUME NEW d \in ChunksIn(r)
          PROVE  /\ Entered(after, t[d]) /\ Entered(after, k[d]) /\ Behind(after, k[d], t[d])
                 /\ \A e \in ChunksIn(r) \ {d} : Clear(after, k[d], t[e].at, t[e].len)
        BY <1>11, <1>12, <1>13, <1>14, <1>15
    <2> QED BY <2>1 DEF Fit
<1>17. Room(r, t, k, after, c, a, n)
    BY <1>14 DEF Room
<1> QED BY <1>6, <1>16, <1>17

\* The table in memory gets the place that was written.
LEMMA FitEnter ==
    ASSUME NEW r, NEW t, NEW k, NEW data, NEW c, NEW a, NEW n, NEW u,
           Fitting(r, t, k, data), Filled(data), HasRoom(r, t, k, data, c, a, n),
           n >= 1, ReadLen(data, a) <= n, [at |-> a, len |-> n] \in Entries,
           u = [t EXCEPT ![c] = [at |-> a, len |-> n]]
    PROVE  Fit(r, u, k, data)
<1> USE DEF Fitting, HasRoom
<1>1. u[c].at = a /\ u[c].len = n /\ \A d \in ChunksIn(r) \ {c} : u[d] = t[d]
    OBVIOUS
<1>2. \A d \in ChunksIn(r) : \A v \in {t, k} :
          v[d].at \in Nat /\ v[d].len \in Nat /\ (v[d].at >= 2 => v[d].at \in Sectors)
    BY EntryTypes
<1>3. a \in Nat /\ a >= 2
    BY Naturals DEF Sectors
<1>4. Entered(data, u[c])
    BY <1>1, <1>3 DEF Entered
<1>5. /\ Entered(data, t[c]) /\ Entered(data, k[c]) /\ Behind(data, k[c], t[c])
      /\ (a = t[c].at /\ n <= t[c].len) \/ t[c].at + t[c].len <= a
    BY DEF Fit, Room
<1>6. k[c].at >= 2 => ReadLen(data, k[c].at) \in Nat
    BY <1>2, ReadLenType
<1>7. Behind(data, k[c], u[c])
    BY <1>1, <1>2, <1>3, <1>5, <1>6 DEF Behind, Entered
<1>8. ASSUME NEW d \in ChunksIn(r) \ {c}
      PROVE  /\ Entered(data, u[d]) /\ Entered(data, k[d]) /\ Behind(data, k[d], u[d])
             /\ Apart(u[c].at, u[c].len, u[d].at, u[d].len)
             /\ Apart(u[d].at, u[d].len, u[c].at, u[c].len)
             /\ Clear(data, k[d], u[c].at, u[c].len)
             /\ Clear(data, k[c], u[d].at, u[d].len)
    <2>1. /\ Entered(data, t[d]) /\ Entered(data, k[d]) /\ Behind(data, k[d], t[d])
          /\ Clear(data, k[c], t[d].at, t[d].len)
        BY DEF Fit
    <2>2. Apart(a, n, t[d].at, t[d].len) /\ Clear(data, k[d], a, n)
        BY DEF Room
    <2> QED BY <1>1, <2>1, <2>2 DEF Apart
<1>9. ASSUME NEW d \in ChunksIn(r), NEW e \in ChunksIn(r) \ {d}
      PROVE  /\ Apart(u[d].at, u[d].len, u[e].at, u[e].len)
             /\ Apart(k[d].at, k[d].len, k[e].at, k[e].len)
             /\ Clear(data, k[d], u[e].at, u[e].len)
    <2>1. /\ Apart(t[d].at, t[d].len, t[e].at, t[e].len)
          /\ Apart(k[d].at, k[d].len, k[e].at, k[e].len)
          /\ Clear(data, k[d], t[e].at, t[e].len)
        BY DEF Fit
    <2> QED BY <1>1, <1>8, <2>1
<1>10. ASSUME NEW d \in ChunksIn(r)
       PROVE  Entered(data, u[d]) /\ Entered(data, k[d]) /\ Behind(data, k[d], u[d])
    BY <1>4, <1>5, <1>7, <1>8
<1> QED BY <1>9, <1>10 DEF Fit

\* FindFreeLocation finds room.
LEMMA FitFind ==
    ASSUME NEW r \in Regions, NEW t \in [ChunksIn(r) -> Entries],
           NEW k \in [ChunksIn(r) -> Entries],
           NEW data, Filled(data), Fit(r, t, k, data),
           NEW c \in ChunksIn(r), NEW a \in Sectors, NEW n \in Nat, n >= 1,
           FindFreeLocation(t, c, n, a)
    PROVE  Room(r, t, k, data, c, a, n)
<1>1. RegionOf[c] = r
    BY DEF ChunksIn
<1>2. \A d \in ChunksIn(r) : \A v \in {t, k} :
          v[d].at \in Nat /\ v[d].len \in Nat /\ (v[d].at >= 2 => v[d].at \in Sectors)
    BY EntryTypes
<1>3. a \in Nat /\ a >= 2
    BY Naturals DEF Sectors
<1>4. CASE n <= t[c].len /\ a = t[c].at
    <2>1. ASSUME NEW d \in ChunksIn(r) \ {c}
          PROVE  Apart(a, n, t[d].at, t[d].len) /\ Clear(data, k[d], a, n)
        <3>1. /\ Apart(t[c].at, t[c].len, t[d].at, t[d].len)
              /\ Clear(data, k[d], t[c].at, t[c].len) /\ Entered(data, k[d])
            BY DEF Fit
        <3>2. k[d].at >= 2 => ReadLen(data, k[d].at) \in Nat
            BY <1>2, ReadLenType
        <3>3. /\ t[c].at \in Nat /\ t[c].len \in Nat /\ t[d].at \in Nat /\ t[d].len \in Nat
              /\ k[d].at \in Nat
            BY <1>2
        <3>4. Apart(a, n, t[d].at, t[d].len)
            BY <1>4, <3>1, <3>3 DEF Apart
        <3>5. CASE k[d].at # 0
            <4>1. ReadLen(data, k[d].at) \in Nat
                BY <3>1, <3>2, <3>5 DEF Entered
            <4> QED BY <1>4, <3>1, <3>3, <3>5, <4>1 DEF Apart, Clear
        <3> QED BY <3>4, <3>5 DEF Clear
    <2> QED BY <1>4, <2>1 DEF Room
<1>5. CASE IsEnd(t, r, a)
    <2>1. \A d \in ChunksIn(r) : t[d].at + t[d].len <= a
        BY <1>5 DEF IsEnd
    <2>2. ASSUME NEW d \in ChunksIn(r) \ {c}
          PROVE  Apart(a, n, t[d].at, t[d].len) /\ Clear(data, k[d], a, n)
        <3>1. Entered(data, t[d]) /\ Entered(data, k[d]) /\ Behind(data, k[d], t[d])
            BY DEF Fit
        <3>2. k[d].at >= 2 => ReadLen(data, k[d].at) \in Nat
            BY <1>2, ReadLenType
        <3>3. t[d].at + t[d].len <= a
            BY <2>1
        <3>4. Apart(a, n, t[d].at, t[d].len)
            BY <3>3 DEF Apart
        <3>5. CASE k[d].at # 0
            <4>1. k[d].at >= 2 /\ k[d].at \in Nat /\ t[d].at \in Nat /\ t[d].len \in Nat
                BY <1>2, <3>1, <3>5 DEF Entered
            <4>2. k[d].at + ReadLen(data, k[d].at) <= t[d].at + t[d].len
                BY <3>1, <3>2, <4>1 DEF Entered, Behind
            <4>3. k[d].at + ReadLen(data, k[d].at) <= a
                BY <1>3, <3>2, <3>3, <4>1, <4>2
            <4> QED BY <3>4, <4>3 DEF Clear, Apart
        <3> QED BY <3>4, <3>5 DEF Clear
    <2> QED BY <2>1, <2>2 DEF Room
<1> QED BY <1>1, <1>4, <1>5 DEF FindFreeLocation

-----------------------------------------------------------------------------
(* The invariant *)

SectorsOK ==
    \A r \in Regions : \A s \in Sectors :
        /\ sector[r][s].version <= saves
        /\ sector[r][s].version # 0 => sector[r][s].size >= 1

\* The regions in which no failure went unnoticed.
Sure == Regions \ lost

Layout == \A r \in Sure : Fit(r, TableOf(r), diskTable[r], sector[r])

\* The data go where the table is to say, there is room, and as far as it got they are there.
OpStraight ==
    /\ op.pos = op.at
    /\ Room(OpRegion, TableOf(OpRegion), diskTable[OpRegion], sector[OpRegion],
            op.chunk, op.at, op.size)
    /\ \A i \in 1..op.done : sector[OpRegion][op.at + i - 1] = OpPart(i)

OpInv ==
    \/ op = NoOp
    \/ /\ Saving /\ op.version = saves /\ saves >= 1 /\ op.chunk \notin reported
       /\ OpRegion \notin lost => OpStraight

\* The table on the disk is behind for one chunk that was reported saved at most, and for
\* none unless the table is held back.
Differs(r, c) == diskTable[r][c] # TableOf(r)[c]

ReportedOnDisk ==
    \A r \in Sure : \A c \in ChunksIn(r) \cap reported : Differs(r, c) => r \in heldBack

OneBehind ==
    \A r \in Sure : \A c, d \in ChunksIn(r) \cap reported :
        Differs(r, c) /\ Differs(r, d) => c = d

RegionInv == TypeOK /\ SectorsOK /\ Layout /\ OpInv /\ ReportedOnDisk /\ OneBehind

LEMMA DataFilled ==
    ASSUME TypeOK, SectorsOK, NEW r \in Regions
    PROVE  Filled(sector[r])
<1>1. sector[r] \in [Sectors -> Parts]
    BY DEF TypeOK
<1> QED BY <1>1 DEF SectorsOK, Filled

\* The save in progress, one fact after the other.
LEMMA OpFacts ==
    ASSUME TypeOK, Saving
    PROVE  /\ OpRegion \in Regions /\ op.chunk \in ChunksIn(OpRegion) /\ op.chunk \in Chunks
           /\ op.at \in Sectors /\ op.at \in Nat /\ op.at >= 2
           /\ op.size \in Nat /\ op.size >= 1 /\ op.done \in Nat /\ op.done <= op.size
           /\ op.at + op.size - 1 <= LastSector
           /\ OpRegion \in opened \ heldBack
           /\ \A i \in 0..op.size - 1 : op.at + i \in Sectors
<1>1. op.chunk \in Chunks /\ op.size \in Nat /\ op.at \in 0..LastSector /\ op.done \in Nat
    BY OpTypes
<1>2. /\ op.at >= 2 /\ op.size >= 1 /\ op.done <= op.size
      /\ op.at + op.size - 1 <= LastSector /\ OpRegion \in opened \ heldBack
    BY DEF TypeOK
<1>3. OpRegion \in Regions /\ op.chunk \in ChunksIn(OpRegion)
    BY <1>1, RegionAssumption DEF OpRegion, ChunksIn
<1>4. \A i \in 0..op.size - 1 : op.at + i \in Sectors
    BY <1>1, <1>2, Naturals DEF Sectors
<1>5. op.at \in Sectors
    BY <1>1, <1>2, Naturals DEF Sectors
<1> QED BY <1>1, <1>2, <1>3, <1>4, <1>5

LEMMA InvFacts ==
    ASSUME RegionInv
    PROVE  /\ TypeOK /\ saves \in Nat /\ lost \subseteq Regions
           /\ \A r \in Regions : Filled(sector[r])
           /\ \A r \in Sure : r \in Regions
                              /\ Fit(r, TableOf(r), diskTable[r], sector[r])
           /\ \A r \in Regions : \A s \in Sectors : sector[r][s].version <= saves
BY DataFilled, Naturals DEF RegionInv, Layout, SectorsOK, TypeOK, Sure

LEMMA NoneSaving ==
    ASSUME RegionInv
    PROVE  Saving <=> op # NoOp
BY DEF RegionInv, OpInv, NoOp

\* Where the file was sought well, what is spoiled is the next sector of the data.
LEMMA SpoilSure ==
    ASSUME RegionInv, SpoilSector, OpRegion \in Sure
    PROVE  /\ diskTable' = diskTable
           /\ \/ UNCHANGED sector
              \/ /\ Saving /\ op.done < op.size
                 /\ sector' = [sector EXCEPT ![OpRegion][op.at + op.done] = Garbage]
<1>1. CASE op.done < op.size /\ Put(op.pos + op.done, Garbage)
    <2>1. TypeOK /\ Saving
        BY <1>1, InvFacts, NoneSaving DEF NoOp
    <2>2. op.pos = op.at
        BY <2>1 DEF RegionInv, OpInv, OpStraight, NoOp, Sure
    <2>3. op.at + op.done \in Sectors
        BY <1>1, <2>1, OpFacts
    <2> QED BY <1>1, <2>1, <2>2, <2>3, GarbageType, PutSector
<1> QED BY <1>1 DEF SpoilSector

LEMMA SpoilTable ==
    ASSUME RegionInv, SpoilSector, NEW q \in Sure
    PROVE  diskTable'[q] = diskTable[q]
BY InvFacts, SpoilSure, SpoilTypes

\* Opening, closing and crashing: a region's table in memory stays, and may reach the disk,
\* or what is on the disk is all that is left, which happens to a table that is held back
\* in a crash only.
LEMMA TablesMove ==
    ASSUME RegionInv, FilesMove \/ (Crash /\ lost \subseteq lost'), NEW q \in Regions \ lost'
    PROVE  /\ \/ TableOf(q)' = TableOf(q) /\ diskTable'[q] \in {diskTable[q], TableOf(q)}
              \/ /\ TableOf(q)' = diskTable[q] /\ diskTable'[q] = diskTable[q]
                 /\ q \in heldBack => Crash
           /\ q \in heldBack \ heldBack' => diskTable'[q] = TableOf(q)'
           /\ heldBack' \subseteq heldBack
<1>1. heldBack \subseteq opened /\ TypeOK
    BY InvFacts DEF TypeOK
<1>2. CASE FilesMove
    <2>1. PICK failed \in SUBSET Regions, empty \in SUBSET Regions :
              /\ lost \cup failed \cup empty \subseteq lost'
              /\ (\E r \in Regions : Opening(r, failed, empty)) \/ (empty = {} /\ Closing(failed))
        BY <1>2 DEF FilesMove
    <2>2. PICK rs :
              /\ Flush(rs, failed, empty)
              /\ q \in opened' =>
                     (q \in opened => table'[q] = table[q]) /\ table'[q] = TableOf(q)
              /\ q \in opened \ opened' => q \in rs
        <3>1. ASSUME NEW r \in Regions, OpenFile(r, empty)
              PROVE  /\ q \in opened' => table'[q] = TableOf(q)
                     /\ q \in opened \ opened' => q \in Dropped
            BY <2>1, <3>1 DEF OpenFile, Dropped
        <3>2. ASSUME NEW r \in Regions, OpenFileFails(r, empty)
              PROVE  /\ q \in opened' => q \in opened /\ table'[q] = table[q]
                     /\ q \in opened \ opened' => q \in Dropped
            BY <2>1, <3>2 DEF OpenFileFails, Dropped
        <3>3. CASE \E r \in Regions : Opening(r, failed, empty)
            <4>1. PICK r \in Regions : Opening(r, failed, empty)
                BY <3>3
            <4>2. q \in opened' => table'[q] = TableOf(q)
                BY <3>1, <3>2, <4>1 DEF Opening, TableOf
            <4>3. q \in opened \ opened' => q \in Dropped
                BY <3>1, <3>2, <4>1 DEF Opening
            <4>4. CASE Flush(Dropped, failed, empty)
                BY <4>2, <4>3, <4>4 DEF TableOf
            <4>5. CASE Flush(Flushed(r), failed, empty)
                BY <4>2, <4>3, <4>5 DEF TableOf, Flushed
            <4> QED BY <4>1, <4>4, <4>5 DEF Opening
        <3>4. CASE Closing(failed) /\ empty = {}
            BY <3>4 DEF Closing
        <3> QED BY <2>1, <3>3, <3>4
    <2>3. /\ diskTable'[q] = IF q \in rs \cap heldBack THEN table[q] ELSE diskTable[q]
          /\ heldBack' = heldBack \ rs
        BY <2>1, <2>2 DEF Flush
    <2>4. CASE q \in opened'
        <3>1. TableOf(q)' = TableOf(q)
            BY <2>2, <2>4 DEF TableOf
        <3> QED BY <1>1, <2>3, <2>4, <3>1 DEF TableOf
    <2>5. CASE q \notin opened'
        BY <1>1, <2>2, <2>3, <2>5 DEF TableOf
    <2> QED BY <2>4, <2>5
<1>3. CASE Crash /\ lost \subseteq lost'
    <2>1. diskTable'[q] = diskTable[q]
        BY <1>3, SpoilTable DEF Crash, Sure
    <2> QED BY <1>3, <2>1 DEF Crash, TableOf
<1> QED BY <1>2, <1>3

\* What such a step keeps.
LEMMA MoveKeeps ==
    ASSUME RegionInv, TypeOK', NEW data, \A r \in Regions : Filled(data[r]),
           \A r \in Regions \ lost' : Fit(r, TableOf(r), diskTable[r], data[r]),
           FilesMove \/ Crash, lost \subseteq lost',
           reported' \subseteq reported \/ Crash
    PROVE  /\ \A r \in Regions \ lost' : Fit(r, TableOf(r)', diskTable'[r], data[r])
           /\ ReportedOnDisk' /\ OneBehind'
<1>1. TypeOK
    BY DEF RegionInv
<1>2. ASSUME NEW r \in Regions \ lost'
      PROVE  Fit(r, TableOf(r)', diskTable'[r], data[r])
    <2>1. /\ TableOf(r) \in [ChunksIn(r) -> Entries] /\ diskTable[r] \in [ChunksIn(r) -> Entries]
          /\ Filled(data[r]) /\ Fit(r, TableOf(r), diskTable[r], data[r])
        BY <1>1, TableTypes
    <2>2. /\ Fit(r, TableOf(r), TableOf(r), data[r])
          /\ Fit(r, diskTable[r], diskTable[r], data[r])
        BY <2>1, FitBoth
    <2>3. \/ TableOf(r)' = TableOf(r) /\ diskTable'[r] \in {diskTable[r], TableOf(r)}
          \/ TableOf(r)' = diskTable[r] /\ diskTable'[r] = diskTable[r]
        BY TablesMove
    <2>4. CASE TableOf(r)' = TableOf(r) /\ diskTable'[r] = diskTable[r]
        BY <2>1, <2>4
    <2>5. CASE TableOf(r)' = TableOf(r) /\ diskTable'[r] = TableOf(r)
        BY <2>2, <2>5
    <2>6. CASE TableOf(r)' = diskTable[r] /\ diskTable'[r] = diskTable[r]
        BY <2>2, <2>6
    <2> QED BY <2>3, <2>4, <2>5, <2>6
<1>3. ASSUME NEW r \in Regions \ lost', NEW c \in ChunksIn(r), Differs(r, c)'
      PROVE  /\ c \in reported' => r \in heldBack'
             /\ Differs(r, c) /\ ~Crash
    <2>1. diskTable'[r][c] # TableOf(r)'[c]
        BY <1>3 DEF Differs
    <2>2. /\ TableOf(r)' = TableOf(r) /\ diskTable'[r] = diskTable[r]
          /\ r \notin heldBack \ heldBack'
        BY <2>1, TablesMove
    <2>3. Differs(r, c)
        BY <2>1, <2>2 DEF Differs
    <2>4. ~Crash
        <3>1. Crash => opened' = {}
            BY DEF Crash
        <3>2. opened' = {} => TableOf(r)' = diskTable'[r]
            BY DEF TableOf
        <3> QED BY <2>1, <3>1, <3>2
    <2>5. c \in reported' => r \in heldBack
        BY <2>3, <2>4 DEF RegionInv, ReportedOnDisk, Sure
    <2> QED BY <2>2, <2>3, <2>4, <2>5
<1>4. ReportedOnDisk'
    BY <1>3 DEF ReportedOnDisk, Sure
<1>5. OneBehind'
    <2>1. \A r \in Regions \ lost' : r \in Sure
        BY DEF Sure
    <2> QED BY <1>3, <2>1 DEF OneBehind, RegionInv, Sure
<1> QED BY <1>2, <1>4, <1>5

-----------------------------------------------------------------------------
(* What is read *)

\* GetChunkData by an entry and the data of the region.
ReadOf(data, e) ==
    LET first == data[e.at]
    IN  IF e.at < FirstSector THEN Nothing
        ELSE IF /\ first.version # 0 /\ first.part = 1
                /\ e.at + first.size - 1 <= LastSector
                /\ \A i \in 1..first.size : data[e.at + i - 1] = [first EXCEPT !.part = i]
             THEN first.version
             ELSE Spoiled

LEMMA ReadsEntry ==
    ASSUME NEW t, NEW c
    PROVE  GetChunkData(t, c) = ReadOf(sector[RegionOf[c]], t[c])
BY DEF GetChunkData, ReadOf

LEMMA ReadType ==
    ASSUME NEW data, Filled(data), NEW e, e.at \in Nat, e.at >= 2 => e.at \in Sectors,
           NEW n \in Nat, \A s \in Sectors : data[s].version <= n
    PROVE  ReadOf(data, e) \in 0..n \cup {Nothing, Spoiled}
<1>1. CASE e.at \in Sectors
    <2>1. data[e.at] \in Parts /\ data[e.at].version <= n
        BY <1>1 DEF Filled
    <2>2. data[e.at].version \in 0..n
        BY <2>1, Naturals DEF Parts
    <2> QED BY <2>2 DEF ReadOf
<1>2. CASE e.at < 2
    BY <1>2 DEF ReadOf
<1> QED BY <1>1, <1>2

\* A sector that is not looked at does not matter.
LEMMA ReadSame ==
    ASSUME NEW data, Filled(data), NEW e, e.at \in Sectors, NEW x \in Sectors, NEW p \in Parts,
           x < e.at \/ x >= e.at + ReadLen(data, e.at),
           NEW after, after = [data EXCEPT ![x] = p]
    PROVE  ReadOf(after, e) = ReadOf(data, e)
<1> DEFINE first == data[e.at]
<1>1. e.at \in Nat /\ x \in Nat
    BY Naturals DEF Sectors
<1>2. ReadLen(data, e.at) \in Nat /\ ReadLen(data, e.at) >= 1
    BY ReadLenType
<1>3. e.at # x
    BY <1>1, <1>2
<1>4. after[e.at] = first /\ \A s : s # x => after[s] = data[s]
    BY <1>3 DEF Filled
<1>5. CASE first.version # 0 /\ first.part = 1
    <2>1. first.size = ReadLen(data, e.at)
        BY <1>5 DEF ReadLen
    <2>2. \A i \in 1..first.size : e.at + i - 1 # x
        BY <1>1, <1>2, <2>1
    <2>3. \A i \in 1..first.size : after[e.at + i - 1] = data[e.at + i - 1]
        BY <1>4, <2>2
    <2> QED BY <1>4, <2>3 DEF ReadOf
<1>6. CASE ~(first.version # 0 /\ first.part = 1)
    BY <1>4, <1>6 DEF ReadOf
<1> QED BY <1>5, <1>6

\* A sector that changes leaves what is read, or spoils it, or makes what it is a part of.
LEMMA ReadOwn ==
    ASSUME NEW data, Filled(data), NEW e, e.at \in Nat, NEW x \in Sectors, NEW p \in Parts,
           NEW after, after = [data EXCEPT ![x] = p]
    PROVE  /\ ReadOf(after, e) \in {ReadOf(data, e), p.version, Spoiled}
           /\ p.version = 0 => ReadOf(after, e) \in {ReadOf(data, e), Spoiled}
<1> DEFINE first == after[e.at]
<1>1. after[x] = p /\ \A s : s # x => after[s] = data[s]
    BY DEF Filled
<1>2. CASE e.at < FirstSector
    BY <1>2 DEF ReadOf
<1>3. CASE e.at = x
    BY <1>1, <1>3 DEF ReadOf
<1>4. CASE /\ e.at >= FirstSector /\ e.at # x
           /\ first.version # 0 /\ first.part = 1
           /\ e.at + first.size - 1 <= LastSector
           /\ \A i \in 1..first.size : after[e.at + i - 1] = [first EXCEPT !.part = i]
    <2>1. first = data[e.at] /\ ReadOf(after, e) = first.version
        BY <1>1, <1>4 DEF ReadOf
    <2>2. CASE \A i \in 1..first.size : e.at + i - 1 # x
        <3>1. \A i \in 1..first.size : data[e.at + i - 1] = [first EXCEPT !.part = i]
            BY <1>1, <1>4, <2>2
        <3>2. ReadOf(data, e) = first.version
            BY <1>4, <2>1, <3>1 DEF ReadOf
        <3> QED BY <2>1, <3>2, <1>4
    <2>3. CASE \E i \in 1..first.size : e.at + i - 1 = x
        <3>1. PICK i \in 1..first.size : e.at + i - 1 = x
            BY <2>3
        <3>2. p = [first EXCEPT !.part = i]
            BY <1>1, <1>4, <3>1
        <3>3. p.version = first.version
            BY <1>4, <3>2, <2>1
        <3> QED BY <1>4, <2>1, <3>3
    <2> QED BY <2>2, <2>3
<1>5. CASE /\ e.at >= FirstSector
           /\ ~(/\ first.version # 0 /\ first.part = 1
                /\ e.at + first.size - 1 <= LastSector
                /\ \A i \in 1..first.size : after[e.at + i - 1] = [first EXCEPT !.part = i])
    <2>1. ReadOf(after, e) = Spoiled
        BY <1>5 DEF ReadOf
    <2> QED BY <2>1
<1> QED BY <1>2, <1>3, <1>4, <1>5

\* Data that are written whole are what is read.
Whole(data, a, n, v) ==
    /\ a \in Sectors /\ n \in Nat /\ n >= 1 /\ a + n - 1 <= LastSector
    /\ v \in Nat /\ v # 0
    /\ \A i \in 1..n : data[a + i - 1] = [version |-> v, part |-> i, size |-> n]

LEMMA ReadNew ==
    ASSUME NEW data, NEW a, NEW n, NEW v, Whole(data, a, n, v)
    PROVE  ReadOf(data, [at |-> a, len |-> n]) = v /\ ReadLen(data, a) = n
<1> DEFINE e == [at |-> a, len |-> n]
<1> USE DEF Whole
<1>1. a \in Nat /\ a >= 2
    BY Naturals DEF Sectors
<1>2. data[a] = [version |-> v, part |-> 1, size |-> n]
    <2>1. data[a + 1 - 1] = [version |-> v, part |-> 1, size |-> n]
        OBVIOUS
    <2> QED BY <1>1, <2>1
<1>3. \A i \in 1..n : data[a + i - 1] = [data[a] EXCEPT !.part = i]
    BY <1>2
<1> QED BY <1>1, <1>2, <1>3 DEF ReadOf, ReadLen

-----------------------------------------------------------------------------
(* A step of the save in progress *)

\* Whatever is written where, a sector is filled, or holds nothing.
LEMMA PutFilled ==
    ASSUME RegionInv, NEW s, NEW p \in Parts, Put(s, p),
           p.version <= saves, p.version # 0 => p.size >= 1
    PROVE  /\ \A r \in Regions : Filled(sector'[r])
           /\ \A r \in Regions : \A x \in Sectors : sector'[r][x].version <= saves
<1>1. TypeOK /\ SectorsOK
    BY DEF RegionInv
<1>2. sector' \in [Regions -> [Sectors -> Parts]]
    BY <1>1, PutTypes
<1>3. ASSUME NEW r \in Regions, NEW x \in Sectors
      PROVE  sector'[r][x] \in {sector[r][x], p}
    <2>1. CASE r = OpRegion
        <3>1. sector'[OpRegion] = [q \in Sectors |-> IF q = s THEN p ELSE sector[OpRegion][q]]
            BY <1>1, <2>1, PutTypes
        <3> QED BY <2>1, <3>1
    <2>2. CASE r # OpRegion
        BY <1>1, <2>2, PutTypes
    <2> QED BY <2>1, <2>2
<1>4. ASSUME NEW r \in Regions, NEW x \in Sectors
      PROVE  /\ sector'[r][x].version <= saves
             /\ sector'[r][x].version # 0 => sector'[r][x].size >= 1
    BY <1>1, <1>3 DEF SectorsOK
<1> QED BY <1>2, <1>4 DEF Filled

\* A step of a save in a region of which nothing is sure any more.
LEMMA LostKeeps ==
    ASSUME RegionInv, OpRegion \in lost', lost \subseteq lost', opened' = opened,
           \A q \in Regions \ {OpRegion} :
               sector'[q] = sector[q] /\ diskTable'[q] = diskTable[q] /\ table'[q] = table[q],
           heldBack \subseteq heldBack', reported' \subseteq reported \cup {op.chunk}
    PROVE  Layout' /\ ReportedOnDisk' /\ OneBehind'
<1>1. ASSUME NEW q \in Regions \ lost'
      PROVE  /\ q \in Sure /\ sector'[q] = sector[q]
             /\ TableOf(q)' = TableOf(q) /\ diskTable'[q] = diskTable[q]
             /\ \A c : Differs(q, c)' <=> Differs(q, c)
             /\ \A c \in ChunksIn(q) : c \in reported' => c \in reported
    <2>1. q \in Sure /\ q # OpRegion
        BY DEF Sure
    <2>2. sector'[q] = sector[q] /\ TableOf(q)' = TableOf(q) /\ diskTable'[q] = diskTable[q]
        BY <2>1 DEF TableOf
    <2>3. \A c \in ChunksIn(q) : c # op.chunk
        BY <2>1 DEF ChunksIn, OpRegion
    <2> QED BY <2>1, <2>2, <2>3 DEF Differs
<1>2. Layout'
    BY <1>1 DEF RegionInv, Layout, Sure
<1>3. ReportedOnDisk'
    BY <1>1 DEF RegionInv, ReportedOnDisk, Sure
<1>4. OneBehind'
    BY <1>1 DEF RegionInv, OneBehind, Sure
<1> QED BY <1>2, <1>3, <1>4

\* A sector of the save in progress is written or spoiled.
LEMMA Overwrite ==
    ASSUME RegionInv, Saving, OpRegion \in Sure, NEW x \in Sectors, op.at <= x, x < op.at + op.size,
           NEW p \in Parts, p.version # 0 /\ p.part = 1 => x = op.at,
           p.version <= saves, p.version # 0 => p.size = op.size,
           sector' = [sector EXCEPT ![OpRegion][x] = p],
           sector' \in [Regions -> [Sectors -> Parts]]
    PROVE  /\ sector'[OpRegion] = [sector[OpRegion] EXCEPT ![x] = p]
           /\ \A r \in Regions \ {OpRegion} : sector'[r] = sector[r]
           /\ \A r \in Regions : Filled(sector'[r])
           /\ \A r \in Regions : \A s \in Sectors : sector'[r][s].version <= saves
           /\ \A r \in Sure : Fit(r, TableOf(r), diskTable[r], sector'[r])
           /\ Room(OpRegion, TableOf(OpRegion), diskTable[OpRegion], sector'[OpRegion],
                   op.chunk, op.at, op.size)
           /\ \A d \in ChunksIn(OpRegion) \ {op.chunk} :
                  \A u \in {TableOf(OpRegion), diskTable[OpRegion]} :
                      ReadOf(sector'[OpRegion], u[d]) = ReadOf(sector[OpRegion], u[d])
<1> DEFINE r == OpRegion
           t == TableOf(r)
           k == diskTable[r]
           data == sector[r]
           after == sector'[r]
<1>1. TypeOK /\ SectorsOK /\ r \in Regions /\ op.chunk \in ChunksIn(r)
    BY OpFacts DEF RegionInv
<1>2. /\ Filled(data) /\ t \in [ChunksIn(r) -> Entries] /\ k \in [ChunksIn(r) -> Entries]
      /\ sector \in [Regions -> [Sectors -> Parts]]
    BY <1>1, DataFilled, TableTypes DEF TypeOK
<1>3. after = [data EXCEPT ![x] = p] /\ \A q \in Regions \ {r} : sector'[q] = sector[q]
    BY <1>1, <1>2
<1>4. op.size \in Nat /\ op.size >= 1 /\ op.at \in Sectors
    BY <1>1, OpFacts
<1>5. \A q \in Regions : Filled(sector'[q])
    <2>1. \A s \in Sectors : after[s].version # 0 => after[s].size >= 1
        BY <1>2, <1>3, <1>4 DEF Filled
    <2>2. Filled(after)
        BY <1>1, <2>1 DEF Filled
    <2>3. \A q \in Regions \ {r} : Filled(sector'[q])
        BY <1>1, <1>3, DataFilled
    <2> QED BY <2>2, <2>3
<1>6. \A q \in Regions : \A s \in Sectors : sector'[q][s].version <= saves
    <2>1. \A q \in Regions : \A s \in Sectors : sector[q][s].version <= saves
        BY <1>1 DEF SectorsOK
    <2>2. \A s \in Sectors : after[s].version <= saves
        BY <1>1, <1>2, <1>3, <2>1 DEF Filled
    <2> QED BY <1>3, <2>1, <2>2
<1>7. Fit(r, t, k, data) /\ Room(r, t, k, data, op.chunk, op.at, op.size)
    BY <1>1 DEF RegionInv, Layout, OpInv, OpStraight, NoOp, Sure
<1>8. p.version # 0 /\ p.part = 1 => x = op.at /\ p.size = op.size
    OBVIOUS
<1>9. Filled(after)
    BY <1>1, <1>5
<1> HIDE DEF r, t, k, data, after
<1>10. /\ Fit(r, t, k, after) /\ Room(r, t, k, after, op.chunk, op.at, op.size)
       /\ \A d \in ChunksIn(r) \ {op.chunk} : \A u \in {t, k} :
              u[d].at = 0 \/ (/\ u[d].at \in Sectors
                              /\ Apart(op.at, op.size, u[d].at, ReadLen(data, u[d].at)))
    <2>1. op.chunk \in ChunksIn(r)
        BY <1>1
    <2>2. /\ Filled(data) /\ t \in [ChunksIn(r) -> Entries] /\ k \in [ChunksIn(r) -> Entries]
        BY <1>2
    <2>3. op.size \in Nat /\ op.at \in Sectors
        BY <1>4
    <2>4. after = [data EXCEPT ![x] = p]
        BY <1>3
    <2>5. Filled([data EXCEPT ![x] = p])
        BY <1>9, <2>4
    <2>6. Fitting(r, t, k, data)
        BY <1>7, <2>2 DEF Fitting
    <2>7. HasRoom(r, t, k, data, op.chunk, op.at, op.size)
        BY <1>7, <2>1, <2>3 DEF HasRoom
    <2>8. IsPart(p, x, op.at, op.size)
        BY <1>8 DEF IsPart
    <2> QED BY <1>9, <2>2, <2>4, <2>6, <2>7, <2>8, FitWrite
<1>11. ASSUME NEW d \in ChunksIn(r) \ {op.chunk}, NEW u \in {t, k}
       PROVE  ReadOf(after, u[d]) = ReadOf(data, u[d])
    <2>1. CASE u[d].at = 0
        BY <2>1 DEF ReadOf
    <2>2. CASE /\ u[d].at \in Sectors
               /\ Apart(op.at, op.size, u[d].at, ReadLen(data, u[d].at))
        <3>1. x < u[d].at \/ x >= u[d].at + ReadLen(data, u[d].at)
            <4>1. /\ op.at \in Nat /\ x \in Nat /\ u[d].at \in Nat
                  /\ ReadLen(data, u[d].at) \in Nat
                BY <1>2, <1>4, <2>2, ReadLenType, Naturals DEF Sectors
            <4> QED BY <1>4, <2>2, <4>1 DEF Apart
        <3>2. Filled(data)
            BY <1>2
        <3>3. after = [data EXCEPT ![x] = p]
            BY <1>3
        <3>4. u[d].at \in Sectors
            BY <2>2
        <3>5. ReadOf([data EXCEPT ![x] = p], u[d]) = ReadOf(data, u[d])
            BY <3>1, <3>2, <3>4, ReadSame
        <3> QED BY <3>3, <3>5
    <2> QED BY <1>10, <2>1, <2>2
<1>12. \A q \in Sure : Fit(q, TableOf(q), diskTable[q], sector'[q])
    BY <1>3, <1>10 DEF RegionInv, Layout, Sure, r, t, k, after
<1> QED BY <1>3, <1>5, <1>6, <1>10, <1>11, <1>12 DEF r, t, k, data, after

-----------------------------------------------------------------------------
(* The invariant holds *)

LEMMA InitInv == Init => RegionInv
<1> SUFFICES ASSUME Init PROVE RegionInv
    OBVIOUS
<1>1. TypeOK
    BY InitTypes
<1>2. SectorsOK
    BY DEF Init, SectorsOK, Garbage
<1>3. \A r \in Regions : TableOf(r) = NoTable(r) /\ diskTable[r] = NoTable(r)
    BY DEF Init, TableOf
<1>4. ASSUME NEW r \in Regions
      PROVE  Fit(r, NoTable(r), NoTable(r), sector[r])
    <2>1. \A c \in ChunksIn(r) : NoTable(r)[c].at = 0 /\ NoTable(r)[c].len = 0
        BY DEF NoTable, NoEntry
    <2> QED BY <2>1 DEF Fit, Entered, Behind, Clear, Apart
<1>5. Layout
    BY <1>3, <1>4 DEF Layout, Sure
<1>6. OpInv
    BY DEF Init, NoOp, OpInv
<1>7. ReportedOnDisk /\ OneBehind
    BY <1>3 DEF ReportedOnDisk, OneBehind, Differs, Sure
<1> QED BY <1>1, <1>2, <1>5, <1>6, <1>7 DEF RegionInv

\* Files are opened and closed between saves.
LEMMA OpenInv ==
    ASSUME RegionInv, TypeOK', ~Saving, UNCHANGED <<sector, op, saves>>,
           FilesMove, reported' \subseteq reported
    PROVE  RegionInv'
<1>1. lost \subseteq lost'
    BY DEF FilesMove
<1>2. \A r \in Regions \ lost' : Fit(r, TableOf(r), diskTable[r], sector[r])
    BY <1>1, InvFacts DEF Sure
<1>3. /\ \A r \in Regions \ lost' : Fit(r, TableOf(r)', diskTable'[r], sector[r])
      /\ ReportedOnDisk' /\ OneBehind'
    BY <1>1, <1>2, InvFacts, MoveKeeps
<1>4. Layout'
    BY <1>3 DEF Layout, Sure
<1>5. SectorsOK'
    BY DEF RegionInv, SectorsOK
<1>6. OpInv'
    <2>1. op = NoOp
        BY NoneSaving
    <2> QED BY <2>1 DEF OpInv, NoOp
<1> QED BY <1>3, <1>4, <1>5, <1>6 DEF RegionInv

LEMMA BeginInv ==
    ASSUME RegionInv, TypeOK', NEW c \in Chunks, NEW n \in Sizes, SetChunkData(c, n)
    PROVE  RegionInv'
<1> DEFINE r == RegionOf[c]
<1>1. /\ r \in Regions /\ c \in ChunksIn(r) /\ n \in Nat /\ n >= 1 /\ c # None
    BY RegionAssumption, Naturals DEF ChunksIn
<1>2. PICK s \in Sectors, pos \in 0..LastSector :
          /\ FindFreeLocation(table'[r], c, n, s)
          /\ pos = s \/ r \in lost'
          /\ op' = [chunk |-> c, version |-> saves', size |-> n, at |-> s,
                    pos |-> pos, done |-> 0]
    BY BeginMoves
<1>3. /\ FilesMove /\ lost \subseteq lost' /\ r \in opened'
      /\ UNCHANGED sector /\ saves' = saves + 1 /\ reported' = reported \ {c}
    <2>1. FilesMove /\ r \in opened'
        BY BeginMoves
    <2>2. lost \subseteq lost'
        BY <2>1 DEF FilesMove
    <2> QED BY <2>1, <2>2 DEF SetChunkData
<1>4. /\ \A q \in Regions \ lost' : Fit(q, TableOf(q)', diskTable'[q], sector[q])
      /\ ReportedOnDisk' /\ OneBehind'
    <2>1. \A q \in Regions \ lost' : Fit(q, TableOf(q), diskTable[q], sector[q])
        BY <1>3, InvFacts DEF Sure
    <2> QED BY <1>3, <2>1, InvFacts, MoveKeeps
<1>5. Layout'
    BY <1>3, <1>4 DEF Layout, Sure
<1>6. SectorsOK'
    <2>1. saves \in Nat /\ saves' = saves + 1 /\ UNCHANGED sector
        BY <1>3, InvFacts
    <2>2. ASSUME NEW q \in Regions, NEW x \in Sectors
          PROVE  sector[q][x].version <= saves + 1
        <3>1. sector[q] \in [Sectors -> Parts] /\ sector[q][x].version <= saves
            BY InvFacts DEF Filled
        <3>2. sector[q][x] \in Parts
            BY <3>1
        <3> QED BY <2>1, <3>1, <3>2 DEF Parts
    <2>3. \A q \in Regions : \A x \in Sectors : sector[q][x].version # 0 => sector[q][x].size >= 1
        BY DEF RegionInv, SectorsOK
    <2> QED BY <2>1, <2>2, <2>3 DEF SectorsOK
<1>7. OpInv'
    <2>1. /\ op'.chunk = c /\ op'.at = s /\ op'.size = n /\ op'.version = saves' /\ op'.done = 0
          /\ op'.pos = pos
        BY <1>2
    <2>2. OpRegion' = r
        BY <2>1 DEF OpRegion
    <2>3. TableOf(r)' = table'[r]
        BY <1>3 DEF TableOf
    <2>4. r \notin lost' => Fit(r, table'[r], diskTable'[r], sector[r])
        BY <1>1, <1>4, <2>3
    <2>5. /\ table'[r] \in [ChunksIn(r) -> Entries] /\ diskTable'[r] \in [ChunksIn(r) -> Entries]
        BY <1>1 DEF TypeOK, Tables
    <2>6. Filled(sector[r])
        BY <1>1, InvFacts
    <2>7. r \notin lost' => Room(r, table'[r], diskTable'[r], sector[r], c, s, n)
        BY <1>1, <1>2, <2>4, <2>5, <2>6, FitFind
    <2>8. saves' >= 1
        BY <1>3, InvFacts
    <2>9. r \notin lost' => Room(OpRegion, TableOf(OpRegion), diskTable[OpRegion],
                                 sector[OpRegion], op.chunk, op.at, op.size)'
        BY <1>3, <2>1, <2>2, <2>3, <2>7
    <2>10. (\A i \in 1..op.done : sector[OpRegion][op.at + i - 1] = OpPart(i))'
        BY <2>1
    <2>11. r \notin lost' => OpStraight'
        BY <1>2, <2>1, <2>9, <2>10 DEF OpStraight
    <2> QED BY <1>1, <1>3, <2>1, <2>2, <2>8, <2>11 DEF OpInv
<1> QED BY <1>4, <1>5, <1>6, <1>7 DEF RegionInv

LEMMA WriteInv ==
    ASSUME RegionInv, TypeOK', WriteSector
    PROVE  RegionInv'
<1> DEFINE x == op.at + op.done
           p == OpPart(op.done + 1)
<1>1. TypeOK /\ Saving /\ op.done < op.size /\ saves \in Nat
    BY InvFacts DEF WriteSector
<1>2. /\ op.at \in Nat /\ op.size \in Nat /\ op.done \in Nat /\ OpRegion \in Regions
      /\ \A i \in 0..op.size - 1 : op.at + i \in Sectors
    BY <1>1, OpFacts
<1>3. x \in Sectors /\ op.at <= x /\ x < op.at + op.size
    BY <1>1, <1>2
<1>4. op.version = saves /\ saves >= 1 /\ op.chunk \notin reported
    BY <1>1 DEF RegionInv, OpInv, NoOp
<1>5. /\ p \in Parts /\ p.version = saves /\ p.size = op.size /\ p.part = op.done + 1
    <2>1. op.done + 1 \in Nat
        BY <1>2
    <2> QED BY <1>1, <1>4, <2>1, PartType DEF OpPart
<1>6. /\ UNCHANGED <<opened, table, heldBack, saves, reported>>
      /\ op' = [op EXCEPT !.done = @ + 1]
    BY DEF WriteSector
<1>7. /\ lost \subseteq lost'
      /\ OpRegion \in lost' \/ (lost' = lost /\ Put(op.pos + op.done, p))
    BY DEF WriteSector, Lose
<1>8. /\ op'.chunk = op.chunk /\ op'.at = op.at /\ op'.size = op.size /\ op'.pos = op.pos
      /\ op'.version = op.version /\ op'.done = op.done + 1
    BY <1>1, <1>6 DEF TypeOK
<1>9. OpRegion' = OpRegion /\ \A i : OpPart(i)' = OpPart(i)
    BY <1>8 DEF OpRegion, OpPart
<1>10. PICK w \in Parts : /\ Put(op.pos + op.done, w) /\ w.version <= saves
                          /\ w.version # 0 => w.size >= 1
    <2>1. p.version <= saves /\ p.size >= 1
        BY <1>1, <1>2, <1>5
    <2>2. Garbage \in Parts /\ Garbage.version = 0
        BY GarbageType DEF Garbage
    <2> QED BY <1>1, <1>5, <2>1, <2>2 DEF WriteSector
<1>11. SectorsOK'
    BY <1>6, <1>10, PutFilled DEF SectorsOK, Filled
<1> HIDE DEF x, p
<1>12. CASE OpRegion \in lost'
    <2>1. \A q \in Regions \ {OpRegion} :
              sector'[q] = sector[q] /\ diskTable'[q] = diskTable[q] /\ table'[q] = table[q]
        BY <1>1, <1>6, <1>10, PutTypes
    <2>2. Layout' /\ ReportedOnDisk' /\ OneBehind'
        BY <1>6, <1>7, <1>12, <2>1, LostKeeps
    <2>3. OpInv'
        BY <1>1, <1>4, <1>6, <1>8, <1>9, <1>12 DEF OpInv
    <2> QED BY <1>11, <2>2, <2>3 DEF RegionInv
<1>13. CASE OpRegion \notin lost'
    <2>1. /\ op.pos = op.at /\ OpRegion \in Sure /\ lost' = lost
          /\ \A i \in 1..op.done : sector[OpRegion][op.at + i - 1] = OpPart(i)
        BY <1>1, <1>2, <1>7, <1>13 DEF RegionInv, OpInv, OpStraight, NoOp, Sure
    <2>2. sector' = [sector EXCEPT ![OpRegion][x] = p] /\ diskTable' = diskTable
        BY <1>1, <1>3, <1>5, <1>7, <1>13, <2>1, PutSector DEF x
    <2>3. /\ p.version # 0 /\ p.part = 1 => x = op.at
          /\ p.version <= saves /\ (p.version # 0 => p.size = op.size)
        BY <1>1, <1>2, <1>5 DEF x
    <2>4. sector' \in [Regions -> [Sectors -> Parts]]
        BY DEF TypeOK
    <2>5. \A r \in Regions : TableOf(r)' = TableOf(r)
        BY <1>6, <2>2 DEF TableOf
    <2>6. /\ sector'[OpRegion] = [sector[OpRegion] EXCEPT ![x] = p]
          /\ \A r \in Sure : Fit(r, TableOf(r), diskTable[r], sector'[r])
          /\ Room(OpRegion, TableOf(OpRegion), diskTable[OpRegion], sector'[OpRegion],
                  op.chunk, op.at, op.size)
        BY <1>1, <1>3, <1>5, <2>1, <2>2, <2>3, <2>4, Overwrite
    <2>7. Layout'
        BY <2>1, <2>2, <2>5, <2>6 DEF Layout, Sure
    <2>8. ReportedOnDisk' /\ OneBehind'
        BY <1>6, <2>1, <2>2, <2>5 DEF RegionInv, ReportedOnDisk, OneBehind, Differs, Sure
    <2>9. ASSUME NEW i \in 1..op.done + 1
          PROVE  sector'[OpRegion][op.at + i - 1] = OpPart(i)
        <3>1. op.at + i - 1 \in Sectors
            <4>1. i - 1 \in 0..op.size - 1 /\ op.at + (i - 1) = op.at + i - 1
                BY <1>1, <1>2
            <4> QED BY <1>2, <4>1
        <3>2. sector[OpRegion] \in [Sectors -> Parts]
            BY <1>1, <1>2 DEF TypeOK
        <3>3. CASE i = op.done + 1
            <4>1. op.at + i - 1 = x
                BY <1>2, <3>3 DEF x
            <4> QED BY <2>6, <3>1, <3>2, <3>3, <4>1 DEF p
        <3>4. CASE i \in 1..op.done
            <4>1. op.at + i - 1 # x
                BY <1>2, <3>4 DEF x
            <4> QED BY <2>1, <2>6, <3>1, <3>2, <3>4, <4>1
        <3> QED BY <1>2, <3>3, <3>4
    <2>10. Room(OpRegion, TableOf(OpRegion), diskTable[OpRegion], sector[OpRegion],
                op.chunk, op.at, op.size)'
        BY <1>2, <1>8, <1>9, <2>2, <2>5, <2>6
    <2>11. (\A i \in 1..op.done : sector[OpRegion][op.at + i - 1] = OpPart(i))'
        BY <1>8, <1>9, <2>9
    <2>12. OpStraight'
        BY <1>8, <2>1, <2>10, <2>11 DEF OpStraight
    <2>13. OpInv'
        BY <1>1, <1>4, <1>6, <1>8, <2>12 DEF OpInv
    <2> QED BY <1>11, <2>7, <2>8, <2>13 DEF RegionInv
<1> QED BY <1>12, <1>13

\* A failed write, or a crash, in the middle of a save: at most the next sector of it.
LEMMA SpoilKeeps ==
    ASSUME RegionInv, SpoilSector
    PROVE  /\ \A r \in Regions : Filled(sector'[r])
           /\ \A r \in Regions : \A s \in Sectors : sector'[r][s].version <= saves
           /\ \A r \in Sure : Fit(r, TableOf(r), diskTable[r], sector'[r])
           /\ \A r \in Sure : \A d \in ChunksIn(r) \ {op.chunk} :
                  \A u \in {TableOf(r), diskTable[r]} :
                      ReadOf(sector'[r], u[d]) = ReadOf(sector[r], u[d])
<1>1. TypeOK /\ saves \in Nat
    BY InvFacts
<1>2. Garbage \in Parts /\ Garbage.version = 0 /\ Garbage.version <= saves
    BY <1>1, GarbageType DEF Garbage
<1>3. /\ \A r \in Regions : Filled(sector'[r])
      /\ \A r \in Regions : \A s \in Sectors : sector'[r][s].version <= saves
    <2>1. CASE UNCHANGED sector
        BY <2>1, InvFacts
    <2>2. CASE Put(op.pos + op.done, Garbage)
        BY <1>2, <2>2, PutFilled
    <2> QED BY <2>1, <2>2 DEF SpoilSector
<1>4. CASE UNCHANGED sector
    BY <1>3, <1>4, InvFacts
<1>5. CASE OpRegion \notin Sure
    <2>1. \A r \in Sure : r \in Regions /\ sector'[r] = sector[r]
        BY <1>1, <1>5, InvFacts, SpoilTypes
    <2> QED BY <1>3, <2>1, InvFacts
<1>6. CASE /\ OpRegion \in Sure /\ Saving /\ op.done < op.size
           /\ sector' = [sector EXCEPT ![OpRegion][op.at + op.done] = Garbage]
    <2> DEFINE x == op.at + op.done
    <2>1. /\ op.at \in Nat /\ op.size \in Nat /\ op.done \in Nat /\ OpRegion \in Regions
          /\ \A i \in 0..op.size - 1 : op.at + i \in Sectors
        BY <1>1, <1>6, OpFacts
    <2>2. x \in Sectors /\ op.at <= x /\ x < op.at + op.size
        BY <1>6, <2>1
    <2>3. sector' \in [Regions -> [Sectors -> Parts]]
        BY <1>1, SpoilTypes
    <2>4. sector' = [sector EXCEPT ![OpRegion][x] = Garbage]
        BY <1>6
    <2> HIDE DEF x
    <2>5. /\ \A r \in Regions \ {OpRegion} : sector'[r] = sector[r]
          /\ \A r \in Sure : Fit(r, TableOf(r), diskTable[r], sector'[r])
          /\ \A d \in ChunksIn(OpRegion) \ {op.chunk} :
                 \A u \in {TableOf(OpRegion), diskTable[OpRegion]} :
                     ReadOf(sector'[OpRegion], u[d]) = ReadOf(sector[OpRegion], u[d])
        BY <1>2, <1>6, <2>2, <2>3, <2>4, Overwrite
    <2>6. ASSUME NEW r \in Sure, NEW d \in ChunksIn(r) \ {op.chunk},
                 NEW u \in {TableOf(r), diskTable[r]}
          PROVE  ReadOf(sector'[r], u[d]) = ReadOf(sector[r], u[d])
        BY <2>5, InvFacts
    <2> QED BY <1>3, <2>5, <2>6
<1> QED BY <1>4, <1>5, <1>6, SpoilSure

LEMMA BreakOffInv ==
    ASSUME RegionInv, TypeOK', DataNotSaved
    PROVE  RegionInv'
<1>1. UNCHANGED <<opened, table, heldBack, saves, reported, lost>> /\ op' = NoOp
    BY DEF DataNotSaved
<1>2. SpoilSector
    BY DEF DataNotSaved, SpoilSector
<1>3. \A r \in Sure : TableOf(r)' = TableOf(r) /\ diskTable'[r] = diskTable[r]
    BY <1>1, <1>2, SpoilTable DEF TableOf
<1>4. Layout'
    BY <1>1, <1>2, <1>3, SpoilKeeps DEF Layout, Sure
<1>5. SectorsOK'
    BY <1>1, <1>2, SpoilKeeps DEF SectorsOK, Filled
<1>6. ReportedOnDisk' /\ OneBehind'
    BY <1>1, <1>3 DEF RegionInv, ReportedOnDisk, OneBehind, Differs, Sure
<1>7. OpInv'
    BY <1>1 DEF OpInv
<1> QED BY <1>4, <1>5, <1>6, <1>7 DEF RegionInv

LEMMA CrashInv ==
    ASSUME RegionInv, TypeOK', Crash
    PROVE  RegionInv'
<1>1. SpoilSector /\ saves' = saves /\ op' = NoOp /\ lost' = lost
    BY DEF Crash
<1>2. /\ \A r \in Regions : Filled(sector'[r])
      /\ \A r \in Regions \ lost' : Fit(r, TableOf(r), diskTable[r], sector'[r])
    BY <1>1, SpoilKeeps DEF Sure
<1>3. /\ \A r \in Regions \ lost' : Fit(r, TableOf(r)', diskTable'[r], sector'[r])
      /\ ReportedOnDisk' /\ OneBehind'
    BY <1>1, <1>2, MoveKeeps
<1>4. Layout'
    BY <1>3 DEF Layout, Sure
<1>5. SectorsOK'
    BY <1>1, SpoilKeeps DEF SectorsOK, Filled
<1>6. OpInv'
    BY <1>1 DEF OpInv
<1> QED BY <1>3, <1>4, <1>5, <1>6 DEF RegionInv

\* The save in progress is complete: its data are what a table that names them gives.
LEMMA DataComplete ==
    ASSUME RegionInv, Saving, OpRegion \in Sure, op.done = op.size
    PROVE  LET e == [at |-> op.at, len |-> op.size]
           IN  /\ ReadOf(sector[OpRegion], e) = saves
               /\ ReadLen(sector[OpRegion], op.at) = op.size
<1>1. TypeOK /\ saves \in Nat
    BY InvFacts
<1>2. /\ op.at \in Sectors /\ op.size \in Nat /\ op.size >= 1 /\ op.at + op.size - 1 <= LastSector
    BY <1>1, OpFacts
<1>3. /\ op.version = saves /\ saves >= 1
      /\ \A i \in 1..op.done : sector[OpRegion][op.at + i - 1] = OpPart(i)
    BY DEF RegionInv, OpInv, OpStraight, NoOp, Sure
<1>4. \A i \in 1..op.size : sector[OpRegion][op.at + i - 1] =
                                [version |-> saves, part |-> i, size |-> op.size]
    BY <1>3 DEF OpPart
<1>5. saves # 0
    BY <1>1, <1>3
<1>6. Whole(sector[OpRegion], op.at, op.size, saves)
    BY <1>1, <1>2, <1>4, <1>5 DEF Whole
<1> QED BY <1>6, ReadNew

\* The table names the data, in memory and perhaps on the disk.
LEMMA EnterKeeps ==
    ASSUME RegionInv, TypeOK', Saving, op.size <= MaxLen,
           NEW r, r = OpRegion, NEW c, c = op.chunk, NEW a, a = op.at, NEW n, n = op.size,
           table' = WrittenTable, opened' = opened,
           diskTable' \in {diskTable, [diskTable EXCEPT ![r] = table'[r]]},
           NEW data, Filled(data), ReadLen(data, a) <= n,
           Fit(r, TableOf(r), diskTable[r], data),
           Room(r, TableOf(r), diskTable[r], data, c, a, n)
    PROVE  /\ Fit(r, TableOf(r)', diskTable'[r], data)
           /\ \A q \in Regions \ {r} : TableOf(q)' = TableOf(q) /\ diskTable'[q] = diskTable[q]
           /\ TableOf(r)' = [TableOf(r) EXCEPT ![c] = [at |-> a, len |-> n]]
           /\ diskTable'[r] \in {diskTable[r], TableOf(r)'}
<1> DEFINE t == TableOf(r)
           k == diskTable[r]
           u == [t EXCEPT ![c] = [at |-> a, len |-> n]]
<1>1. TypeOK
    BY InvFacts
<1>2. /\ r \in Regions /\ c \in ChunksIn(r) /\ a \in Sectors /\ n \in Nat /\ n >= 1
      /\ r \in opened
    BY <1>1, OpFacts
<1>3. /\ t \in [ChunksIn(r) -> Entries] /\ k \in [ChunksIn(r) -> Entries]
      /\ diskTable = [q \in Regions |-> diskTable[q]] /\ t = table[r]
    BY <1>1, <1>2, TableTypes DEF TableOf
<1>4. /\ [at |-> a, len |-> n] \in Entries /\ table'[r] = u
      /\ \A q \in Regions \ {r} : table'[q] = table[q]
    BY <1>1, <1>3, WrittenType
<1>5. TableOf(r)' = u
    BY <1>2, <1>4 DEF TableOf
<1>6. \A q \in Regions \ {r} : diskTable'[q] = diskTable[q]
    BY <1>3
<1>7. \A q \in Regions \ {r} : TableOf(q)' = TableOf(q)
    BY <1>4, <1>6 DEF TableOf
<1>8. diskTable'[r] \in {k, u}
    BY <1>2, <1>3, <1>4
<1>9. u \in [ChunksIn(r) -> Entries]
    BY <1>2, <1>3, <1>4
<1>10. Fitting(r, t, k, data) /\ HasRoom(r, t, k, data, c, a, n)
    BY <1>2, <1>3 DEF Fitting, HasRoom
<1>11. ReadLen(data, a) <= n
    OBVIOUS
<1> HIDE DEF t, k, u
<1>12. Fit(r, u, k, data)
    BY <1>2, <1>4, <1>10, <1>11, FitEnter DEF u
<1>13. Fit(r, u, u, data)
    BY <1>3, <1>9, <1>12, FitBoth
<1>14. Fit(r, TableOf(r)', diskTable'[r], data)
    BY <1>5, <1>8, <1>12, <1>13
<1> QED BY <1>5, <1>6, <1>7, <1>8, <1>14 DEF t, k, u

\* What follows once the table names the data, whatever part of it reached the disk.
LEMMA EndKeeps ==
    ASSUME RegionInv, TypeOK', Saving, OpRegion \in Sure, lost' = lost,
           op.size <= MaxLen, op.done = op.size,
           table' = WrittenTable, opened' = opened, saves' = saves, op' = NoOp,
           diskTable' \in {diskTable,
                           [diskTable EXCEPT ![OpRegion] = table'[OpRegion]]},
           \/ UNCHANGED sector
           \/ sector' = [sector EXCEPT ![OpRegion][op.at + op.size - 1] = Garbage]
    PROVE  /\ SectorsOK' /\ Layout' /\ OpInv'
           /\ \A q \in Regions \ {OpRegion} : /\ TableOf(q)' = TableOf(q)
                                              /\ diskTable'[q] = diskTable[q]
           /\ \A q \in Regions : \A d \in ChunksIn(q) \ {op.chunk} :
                  /\ TableOf(q)'[d] = TableOf(q)[d]
                  /\ diskTable'[q][d] \in {diskTable[q][d], TableOf(q)[d]}
                  /\ \A u \in {TableOf(q), diskTable[q]} :
                         ReadOf(sector'[q], u[d]) = ReadOf(sector[q], u[d])
           /\ \A q \in Regions : q = OpRegion =>
                  /\ TableOf(q)' = [TableOf(q) EXCEPT ![op.chunk] =
                                        [at |-> op.at, len |-> op.size]]
                  /\ diskTable'[q] \in {diskTable[q], TableOf(q)'}
<1>1. TypeOK /\ saves \in Nat
    BY InvFacts
<1>2. PICK r : r = OpRegion
    OBVIOUS
<1>3. PICK c : c = op.chunk
    OBVIOUS
<1>4. PICK a : a = op.at
    OBVIOUS
<1>5. PICK n : n = op.size
    OBVIOUS
<1>6. /\ r \in Regions /\ r \in Sure /\ c \in ChunksIn(r) /\ a \in Sectors /\ a \in Nat
      /\ n \in Nat /\ n >= 1 /\ \A i \in 0..n - 1 : a + i \in Sectors
    BY <1>1, <1>2, <1>3, <1>4, <1>5, OpFacts
<1>7. /\ Room(r, TableOf(r), diskTable[r], sector[r], c, a, n)
      /\ ReadLen(sector[r], a) = n
    BY <1>2, <1>3, <1>4, <1>5, DataComplete DEF RegionInv, OpInv, OpStraight, NoOp, Sure
<1>8. /\ \A q \in Regions : Filled(sector'[q])
      /\ \A q \in Regions : \A s \in Sectors : sector'[q][s].version <= saves
      /\ \A q \in Sure : Fit(q, TableOf(q), diskTable[q], sector'[q])
      /\ Room(r, TableOf(r), diskTable[r], sector'[r], c, a, n)
      /\ ReadLen(sector'[r], a) <= n
      /\ \A q \in Regions : \A d \in ChunksIn(q) \ {c} : \A u \in {TableOf(q), diskTable[q]} :
             ReadOf(sector'[q], u[d]) = ReadOf(sector[q], u[d])
    <2>1. CASE UNCHANGED sector
        BY <1>1, <1>6, <1>7, <2>1, InvFacts
    <2>2. CASE sector' = [sector EXCEPT ![OpRegion][op.at + op.size - 1] = Garbage]
        <3> DEFINE x == a + n - 1
        <3>1. x \in Sectors /\ a <= x /\ x < a + n
            <4>1. n - 1 \in 0..n - 1 /\ a + (n - 1) = a + n - 1
                BY <1>6
            <4>2. x \in Sectors
                BY <1>6, <4>1
            <4> QED BY <1>6, <4>2
        <3>2. Garbage \in Parts /\ Garbage.version = 0 /\ Garbage.version <= saves
            BY <1>1, GarbageType DEF Garbage
        <3>3. sector' \in [Regions -> [Sectors -> Parts]]
            BY DEF TypeOK
        <3>4. sector' = [sector EXCEPT ![OpRegion][x] = Garbage]
            BY <1>4, <1>5, <2>2
        <3> HIDE DEF x
        <3>5. op.at <= x /\ x < op.at + op.size
            BY <1>4, <1>5, <3>1
        <3>6. /\ sector'[r] = [sector[r] EXCEPT ![x] = Garbage]
              /\ \A q \in Regions \ {r} : sector'[q] = sector[q]
              /\ \A q \in Regions : Filled(sector'[q])
              /\ \A q \in Regions : \A s \in Sectors : sector'[q][s].version <= saves
              /\ \A q \in Sure : Fit(q, TableOf(q), diskTable[q], sector'[q])
              /\ Room(r, TableOf(r), diskTable[r], sector'[r], c, a, n)
              /\ \A d \in ChunksIn(r) \ {c} : \A u \in {TableOf(r), diskTable[r]} :
                     ReadOf(sector'[r], u[d]) = ReadOf(sector[r], u[d])
            <4>1. x \in Sectors
                BY <3>1
            <4>2. /\ sector'[OpRegion] = [sector[OpRegion] EXCEPT ![x] = Garbage]
                  /\ \A q \in Regions \ {OpRegion} : sector'[q] = sector[q]
                  /\ \A q \in Regions : Filled(sector'[q])
                  /\ \A q \in Regions : \A s \in Sectors : sector'[q][s].version <= saves
                  /\ \A q \in Sure : Fit(q, TableOf(q), diskTable[q], sector'[q])
                  /\ Room(OpRegion, TableOf(OpRegion), diskTable[OpRegion], sector'[OpRegion],
                          op.chunk, op.at, op.size)
                  /\ \A d \in ChunksIn(OpRegion) \ {op.chunk} :
                         \A u \in {TableOf(OpRegion), diskTable[OpRegion]} :
                             ReadOf(sector'[OpRegion], u[d]) = ReadOf(sector[OpRegion], u[d])
                BY <3>2, <3>3, <3>4, <3>5, <4>1, Overwrite
            <4> QED BY <1>2, <1>3, <1>4, <1>5, <4>2
        <3>7. ReadLen(sector'[r], a) <= n
            <4>1. Filled(sector[r])
                BY <1>6, InvFacts
            <4>2. sector'[r][a] = sector[r][a] \/ sector'[r][a] = Garbage
                BY <3>6, <4>1 DEF Filled
            <4>3. ReadLen(sector'[r], a) = ReadLen(sector[r], a) \/ ReadLen(sector'[r], a) = 1
                BY <3>2, <4>2 DEF ReadLen
            <4> QED BY <1>6, <1>7, <4>3
        <3> QED BY <3>6, <3>7
    <2> QED BY <2>1, <2>2
<1>9. Filled(sector'[r]) /\ Fit(r, TableOf(r), diskTable[r], sector'[r])
    BY <1>6, <1>8
<1>10. diskTable' \in {diskTable, [diskTable EXCEPT ![r] = table'[r]]}
    BY <1>2
<1>11. /\ Fit(r, TableOf(r)', diskTable'[r], sector'[r])
       /\ \A q \in Regions \ {r} : TableOf(q)' = TableOf(q) /\ diskTable'[q] = diskTable[q]
       /\ TableOf(r)' = [TableOf(r) EXCEPT ![c] = [at |-> a, len |-> n]]
       /\ diskTable'[r] \in {diskTable[r], TableOf(r)'}
    BY <1>2, <1>3, <1>4, <1>5, <1>8, <1>9, <1>10, EnterKeeps
<1>12. Layout'
    <2>1. ASSUME NEW q \in Sure
          PROVE  Fit(q, TableOf(q)', diskTable'[q], sector'[q])
        <3>1. CASE q = r
            BY <1>11, <3>1
        <3>2. CASE q # r
            BY <1>8, <1>11, <3>2, InvFacts
        <3> QED BY <3>1, <3>2
    <2> QED BY <2>1 DEF Layout, Sure
<1>13. SectorsOK'
    BY <1>8 DEF SectorsOK, Filled
<1>14. OpInv'
    BY DEF OpInv
<1>15. ASSUME NEW q \in Regions, NEW d \in ChunksIn(q) \ {c}
       PROVE  /\ TableOf(q)'[d] = TableOf(q)[d]
              /\ diskTable'[q][d] \in {diskTable[q][d], TableOf(q)[d]}
    <2>1. CASE q # r
        BY <1>11, <2>1
    <2>2. CASE q = r
        <3>1. TableOf(r) \in [ChunksIn(r) -> Entries]
            BY <1>1, <1>6, TableTypes
        <3> QED BY <1>11, <2>2, <3>1
    <2> QED BY <2>1, <2>2
<1> QED BY <1>2, <1>3, <1>4, <1>5, <1>8, <1>11, <1>12, <1>13, <1>14, <1>15

LEMMA TableSteps ==
    ASSUME RegionInv, OpRegion \in Sure, SaveTable \/ TableNotSaved
    PROVE  /\ Saving /\ op.size <= MaxLen /\ op.done = op.size /\ lost' = lost
           /\ table' = WrittenTable /\ opened' = opened /\ saves' = saves /\ op' = NoOp
           /\ diskTable' \in {diskTable, [diskTable EXCEPT ![OpRegion] = table'[OpRegion]]}
           /\ \/ UNCHANGED sector
              \/ sector' = [sector EXCEPT ![OpRegion][op.at + op.size - 1] = Garbage]
<1>1. TypeOK /\ Saving
    BY InvFacts DEF SaveTable, TableNotSaved
<1>2. op.pos = op.at
    BY <1>1 DEF RegionInv, OpInv, OpStraight, NoOp, Sure
<1>3. op.at + op.size - 1 \in Sectors
    <2>1. /\ op.at \in Nat /\ op.size \in Nat /\ op.size >= 1
          /\ \A i \in 0..op.size - 1 : op.at + i \in Sectors
        BY <1>1, OpFacts
    <2>2. op.at + (op.size - 1) \in Sectors
        BY <2>1
    <2> QED BY <2>1, <2>2
<1>4. Put(op.pos + op.size - 1, Garbage) =>
          /\ diskTable' = diskTable
          /\ sector' = [sector EXCEPT ![OpRegion][op.at + op.size - 1] = Garbage]
    BY <1>1, <1>2, <1>3, GarbageType, PutSector
<1> QED BY <1>4 DEF SaveTable, TableNotSaved

LEMMA EndSure ==
    ASSUME RegionInv, TypeOK', OpRegion \in Sure, SaveTable \/ TableNotSaved
    PROVE  RegionInv'
<1>1. /\ Saving /\ op.size <= MaxLen /\ op.done = op.size /\ lost' = lost
      /\ table' = WrittenTable /\ opened' = opened /\ saves' = saves /\ op' = NoOp
      /\ diskTable' \in {diskTable, [diskTable EXCEPT ![OpRegion] = table'[OpRegion]]}
      /\ \/ UNCHANGED sector
         \/ sector' = [sector EXCEPT ![OpRegion][op.at + op.size - 1] = Garbage]
    BY TableSteps
<1>2. TypeOK /\ OpRegion \in Regions /\ OpRegion \notin heldBack /\ op.chunk \notin reported
    BY <1>1, InvFacts, OpFacts DEF RegionInv, OpInv, NoOp
<1>3. /\ SectorsOK' /\ Layout' /\ OpInv'
      /\ \A q \in Regions \ {OpRegion} : /\ TableOf(q)' = TableOf(q)
                                              /\ diskTable'[q] = diskTable[q]
      /\ \A q \in Regions : \A d \in ChunksIn(q) \ {op.chunk} :
             /\ TableOf(q)'[d] = TableOf(q)[d]
             /\ diskTable'[q][d] \in {diskTable[q][d], TableOf(q)[d]}
      /\ \A q \in Regions : q = OpRegion => diskTable'[q] \in {diskTable[q], TableOf(q)'}
    BY <1>1, EndKeeps
<1>4. \A q \in Regions : \A d \in ChunksIn(q) \ {op.chunk} :
          (diskTable'[q][d] # TableOf(q)'[d]) => Differs(q, d)
    BY <1>3 DEF Differs
<1>5. \A d \in ChunksIn(OpRegion) \cap reported : ~Differs(OpRegion, d)
    BY <1>2 DEF RegionInv, ReportedOnDisk
<1>6. CASE SaveTable
    <2>1. reported' = reported \cup {op.chunk}
        BY <1>6 DEF SaveTable
    <2>2. \/ UNCHANGED heldBack
             /\ diskTable' = [diskTable EXCEPT ![OpRegion] = table'[OpRegion]]
          \/ heldBack' = heldBack \cup {OpRegion}
        BY <1>6 DEF SaveTable
    <2>3. ASSUME NEW q \in Sure, NEW d \in ChunksIn(q) \cap reported',
                 diskTable'[q][d] # TableOf(q)'[d]
          PROVE  /\ q \in heldBack' /\ (q = OpRegion => d = op.chunk)
                 /\ (q # OpRegion => Differs(q, d) /\ d \in reported)
        <3>1. CASE q = OpRegion
            <4>1. d = op.chunk
                BY <1>2, <1>4, <1>5, <2>1, <2>3, <3>1
            <4>2. ~(diskTable' = [diskTable EXCEPT ![OpRegion] = table'[OpRegion]])
                <5>1. SUFFICES ASSUME diskTable' = [diskTable EXCEPT ![OpRegion] = table'[OpRegion]]
                               PROVE  FALSE
                    OBVIOUS
                <5>2. diskTable'[q] = table'[q]
                    BY <1>2, <3>1, <5>1, TableTypes
                <5>3. q \in opened'
                    BY <1>1, <3>1, <1>2, OpFacts
                <5>4. TableOf(q)' = table'[q]
                    BY <5>3 DEF TableOf
                <5> QED BY <2>3, <5>2, <5>4
            <4> QED BY <2>2, <3>1, <4>1, <4>2
        <3>2. CASE q # OpRegion
            <4>1. d \in reported
                <5>1. op.chunk \in ChunksIn(OpRegion) /\ d \in ChunksIn(q)
                    BY <1>1, <1>2, OpFacts
                <5>2. d # op.chunk
                    BY <3>2, <5>1 DEF ChunksIn
                <5> QED BY <2>1, <5>2
            <4>2. Differs(q, d)
                BY <1>3, <2>3, <3>2, InvFacts DEF Differs
            <4>3. q \in heldBack
                BY <4>1, <4>2 DEF RegionInv, ReportedOnDisk
            <4> QED BY <2>2, <3>2, <4>1, <4>2, <4>3
        <3> QED BY <3>1, <3>2
    <2>4. ReportedOnDisk'
        BY <1>1, <2>3 DEF ReportedOnDisk, Differs, Sure
    <2>5. OneBehind'
        <3>1. ASSUME NEW q \in Sure, NEW d \in ChunksIn(q) \cap reported',
                     NEW e \in ChunksIn(q) \cap reported',
                     diskTable'[q][d] # TableOf(q)'[d], diskTable'[q][e] # TableOf(q)'[e]
              PROVE  d = e
            <4>1. CASE q = OpRegion
                BY <2>3, <3>1, <4>1
            <4>2. CASE q # OpRegion
                <5>1. Differs(q, d) /\ Differs(q, e) /\ d \in reported /\ e \in reported
                    BY <2>3, <3>1, <4>2
                <5> QED BY <5>1 DEF RegionInv, OneBehind
            <4> QED BY <4>1, <4>2
        <3> QED BY <1>1, <3>1 DEF OneBehind, Differs, Sure
    <2> QED BY <1>3, <2>4, <2>5 DEF RegionInv
<1>7. CASE TableNotSaved
    <2>1. UNCHANGED <<heldBack, reported>>
        BY <1>7 DEF TableNotSaved
    <2>2. ASSUME NEW q \in Sure, NEW d \in ChunksIn(q) \cap reported',
                 diskTable'[q][d] # TableOf(q)'[d]
          PROVE  Differs(q, d)
        BY <1>2, <1>4, <2>1, <2>2, InvFacts
    <2>3. ReportedOnDisk' /\ OneBehind'
        BY <1>1, <2>1, <2>2 DEF RegionInv, ReportedOnDisk, OneBehind, Differs, Sure
    <2> QED BY <1>3, <2>3 DEF RegionInv
<1> QED BY <1>6, <1>7

LEMMA EndInv ==
    ASSUME RegionInv, TypeOK', SaveTable \/ TableNotSaved
    PROVE  RegionInv'
<1>1. CASE OpRegion \in Sure
    BY <1>1, EndSure
<1>2. CASE OpRegion \notin Sure
    <2>1. /\ Saving /\ op.size <= MaxLen /\ table' = WrittenTable
          /\ opened' = opened /\ saves' = saves /\ op' = NoOp /\ lost' = lost
          /\ heldBack \subseteq heldBack' /\ reported' \subseteq reported \cup {op.chunk}
        BY DEF SaveTable, TableNotSaved
    <2>2. TypeOK /\ OpRegion \in Regions /\ OpRegion \in lost' /\ saves \in Nat
        BY <1>2, <2>1, InvFacts, OpFacts DEF Sure
    <2>3. \A q \in Regions \ {OpRegion} : table'[q] = table[q]
        BY <2>1, <2>2, WrittenType
    <2>4. \A q \in Regions \ {OpRegion} :
              sector'[q] = sector[q] /\ diskTable'[q] = diskTable[q]
        <3>1. CASE Put(op.pos + op.size - 1, Garbage)
            BY <2>2, <3>1, GarbageType, PutTypes
        <3>2. CASE /\ UNCHANGED sector
                   /\ diskTable' \in {diskTable, [diskTable EXCEPT ![OpRegion] = table'[OpRegion]]}
            BY <2>2, <3>2, TableTypes
        <3> QED BY <3>1, <3>2 DEF SaveTable, TableNotSaved
    <2>5. Layout' /\ ReportedOnDisk' /\ OneBehind'
        BY <2>1, <2>2, <2>3, <2>4, LostKeeps
    <2>6. SectorsOK'
        <3>1. CASE Put(op.pos + op.size - 1, Garbage)
            <4>1. Garbage \in Parts /\ Garbage.version = 0 /\ Garbage.version <= saves
                BY <2>2, GarbageType DEF Garbage
            <4> QED BY <2>1, <3>1, <4>1, PutFilled DEF SectorsOK, Filled
        <3>2. CASE UNCHANGED sector
            BY <2>1, <3>2 DEF RegionInv, SectorsOK
        <3> QED BY <3>1, <3>2 DEF SaveTable, TableNotSaved
    <2>7. OpInv'
        BY <2>1 DEF OpInv
    <2> QED BY <2>5, <2>6, <2>7 DEF RegionInv
<1> QED BY <1>1, <1>2

LEMMA StepInv ==
    ASSUME RegionInv, [Next]_vars
    PROVE  RegionInv'
<1>1. TypeOK'
    BY InvFacts, StepTypes
<1>2. ASSUME NEW c \in Chunks, LoadChunk(c) \/ SaveCannotOpen(c)
      PROVE  RegionInv'
    <2>1. ~Saving /\ UNCHANGED <<sector, op, saves>> /\ reported' \subseteq reported
        BY <1>2 DEF LoadChunk, SaveCannotOpen
    <2> QED BY <1>1, <1>2, <2>1, LoadMoves, OpenInv
<1>3. ASSUME NEW c \in Chunks, NEW n \in Sizes, SetChunkData(c, n)
      PROVE  RegionInv'
    BY <1>1, <1>3, BeginInv
<1>4. CASE WriteSector
    BY <1>1, <1>4, WriteInv
<1>5. CASE DataNotSaved
    BY <1>1, <1>5, BreakOffInv
<1>6. CASE SaveTable \/ TableNotSaved
    BY <1>1, <1>6, EndInv
<1>7. CASE Stop
    <2>1. ~Saving /\ UNCHANGED <<sector, op, saves, reported>>
        BY <1>7 DEF Stop
    <2> QED BY <1>1, <1>7, <2>1, StopMoves, OpenInv
<1>8. CASE Crash
    BY <1>1, <1>8, CrashInv
<1>9. CASE UNCHANGED vars
    <2>1. \A r : TableOf(r)' = TableOf(r)
        BY <1>9 DEF vars, TableOf
    <2>2. Layout' /\ SectorsOK' /\ ReportedOnDisk' /\ OneBehind'
        BY <1>9, <2>1
        DEF vars, RegionInv, Layout, SectorsOK, ReportedOnDisk, OneBehind, Differs, Sure
    <2>3. OpRegion' = OpRegion /\ \A i : OpPart(i)' = OpPart(i)
        BY <1>9 DEF vars, OpRegion, OpPart
    <2>4. TableOf(OpRegion)' = TableOf(OpRegion)
        BY <1>9, <2>3 DEF vars, TableOf
    <2>5. OpInv'
        BY <1>9, <2>3, <2>4 DEF vars, RegionInv, OpInv, OpStraight
    <2> QED BY <1>1, <2>2, <2>5 DEF RegionInv
<1> QED BY <1>2, <1>3, <1>4, <1>5, <1>6, <1>7, <1>8, <1>9 DEF Next

LEMMA Invariant == Spec => []RegionInv
BY InitInv, StepInv, PTL DEF Spec

-----------------------------------------------------------------------------
(* What follows *)

LEMMA FitDisjoint ==
    ASSUME NEW r, NEW t \in [ChunksIn(r) -> Entries],
           NEW c \in ChunksIn(r), NEW d \in ChunksIn(r),
           Apart(t[c].at, t[c].len, t[d].at, t[d].len)
    PROVE  Run(t[c]) \cap Run(t[d]) = {}
<1>1. /\ t[c].at \in Nat /\ t[c].len \in Nat /\ t[d].at \in Nat /\ t[d].len \in Nat
    BY EntryTypes
<1> QED BY <1>1 DEF Apart, Run

LEMMA InvDisjoint == RegionInv => SectorsDisjointUnlessLost
<1> SUFFICES ASSUME RegionInv PROVE SectorsDisjointUnlessLost
    OBVIOUS
<1>1. ASSUME NEW r \in Regions \ lost,
             NEW c \in ChunksIn(r), NEW d \in ChunksIn(r), c # d
      PROVE  /\ Run(TableOf(r)[c]) \cap Run(TableOf(r)[d]) = {}
             /\ Run(diskTable[r][c]) \cap Run(diskTable[r][d]) = {}
    <2>1. TableOf(r) \in [ChunksIn(r) -> Entries] /\ diskTable[r] \in [ChunksIn(r) -> Entries]
        BY InvFacts, TableTypes
    <2>2. Fit(r, TableOf(r), diskTable[r], sector[r])
        BY InvFacts DEF Sure
    <2>3. /\ Apart(TableOf(r)[c].at, TableOf(r)[c].len, TableOf(r)[d].at, TableOf(r)[d].len)
          /\ Apart(diskTable[r][c].at, diskTable[r][c].len,
                   diskTable[r][d].at, diskTable[r][d].len)
        BY <1>1, <2>2 DEF Fit
    <2> QED BY <2>1, <2>3, FitDisjoint
<1> QED BY <1>1 DEF SectorsDisjointUnlessLost

LEMMA InvOwnSectors == RegionInv => WritesOwnSectorsUnlessLost
<1> SUFFICES ASSUME RegionInv, Saving, OpRegion \notin lost
             PROVE  /\ op.pos..(op.pos + op.size - 1) \subseteq Sectors
                    /\ \A d \in ChunksIn(OpRegion) \ {op.chunk} :
                           op.pos..(op.pos + op.size - 1) \cap Run(table[OpRegion][d]) = {}
    BY DEF WritesOwnSectorsUnlessLost
<1>1. /\ OpRegion \in Regions /\ OpRegion \in opened
      /\ op.at \in Nat /\ op.size \in Nat /\ op.at >= 2 /\ op.at + op.size - 1 <= LastSector
    BY InvFacts, OpFacts
<1>2. TableOf(OpRegion) = table[OpRegion] /\ table[OpRegion] \in [ChunksIn(OpRegion) -> Entries]
    BY <1>1, InvFacts, TableTypes DEF TableOf
<1>3. OpStraight
    BY <1>1 DEF RegionInv, OpInv, NoOp
<1>4. op.pos = op.at
    BY <1>3 DEF OpStraight
<1>5. op.pos..(op.pos + op.size - 1) \subseteq Sectors
    BY <1>1, <1>4, Naturals DEF Sectors
<1>6. ASSUME NEW d \in ChunksIn(OpRegion) \ {op.chunk}
      PROVE  op.pos..(op.pos + op.size - 1) \cap Run(table[OpRegion][d]) = {}
    <2>1. Apart(op.at, op.size, table[OpRegion][d].at, table[OpRegion][d].len)
        BY <1>2, <1>3 DEF OpStraight, Room
    <2>2. table[OpRegion][d].at \in Nat /\ table[OpRegion][d].len \in Nat
        BY <1>2, EntryTypes
    <2> QED BY <1>1, <1>4, <2>1, <2>2 DEF Apart, Run
<1> QED BY <1>5, <1>6

LEMMA InvOneBehind == RegionInv => OnlyLastSaveHeldBackUnlessLost
<1> SUFFICES ASSUME RegionInv, NEW c \in reported, NEW d \in reported,
                    RegionOf[c] = RegionOf[d], RegionOf[c] \notin lost,
                    Now(c) # Disk(c), Now(d) # Disk(d)
             PROVE  c = d
    BY DEF OnlyLastSaveHeldBackUnlessLost
<1>1. c \in Chunks /\ d \in Chunks
    BY InvFacts DEF TypeOK
<1>2. PICK r \in Sure : r = RegionOf[c] /\ c \in ChunksIn(r) /\ d \in ChunksIn(r)
    BY <1>1, RegionAssumption DEF ChunksIn, Sure
<1>3. Differs(r, c) /\ Differs(r, d)
    BY <1>2, ReadsEntry DEF Now, Disk, Differs
<1> QED BY <1>2, <1>3 DEF RegionInv, OneBehind

\* No two chunks of a region ever share a sector, by the table in memory or by the one on
\* the disk, whatever writes fail, are held back or are cut short by a crash; unless a failure
\* that cMCAFile does not notice has met the region before (cMCAFile).
THEOREM NoSharedSectors == Spec => []SectorsDisjointUnlessLost
BY Invariant, InvDisjoint, PTL

\* SetChunkData writes over no other chunk and not over the table, though FindFreeLocation
\* looks at the table only; unless a failure went unnoticed: a Seek that failed, a table that
\* was not written when the file was closed, or not read when it was opened.
THEOREM WritesOwn == Spec => []WritesOwnSectorsUnlessLost
BY Invariant, InvOwnSectors, PTL

\* A crash takes back one save of a region at most of those that were reported a success;
\* unless a failure went unnoticed.
THEOREM OneSaveHeldBack == Spec => []OnlyLastSaveHeldBackUnlessLost
BY Invariant, InvOneBehind, PTL

-----------------------------------------------------------------------------
(* The refinement: seen through what loading a chunk gives, and what it would give after a *)
(* crash, the steps are those of a store in which nothing but the chunk being saved        *)
(* changes.                                                                                *)

nows == [c \in Chunks |-> Now(c)]
disks == [c \in Chunks |-> Disk(c)]

losts == {c \in Chunks : RegionOf[c] \in lost}

StoreState == <<nows, disks, reported, op.chunk, saves, losts>>

LEMMA ChunkRegion ==
    ASSUME NEW c \in Chunks
    PROVE  RegionOf[c] \in Regions /\ c \in ChunksIn(RegionOf[c])
BY RegionAssumption DEF ChunksIn

\* What is read, by the entry and the data.
LEMMA Reads ==
    ASSUME NEW c \in Chunks, NEW r, r = RegionOf[c]
    PROVE  /\ Now(c) = ReadOf(sector[r], TableOf(r)[c])
           /\ Disk(c) = ReadOf(sector[r], diskTable[r][c])
BY ReadsEntry DEF Now, Disk

LEMMA ReadsNext ==
    ASSUME NEW c \in Chunks, NEW r, r = RegionOf[c]
    PROVE  /\ Now(c)' = ReadOf(sector'[r], TableOf(r)'[c])
           /\ Disk(c)' = ReadOf(sector'[r], diskTable'[r][c])
BY DEF Now, Disk, GetChunkData, ReadOf

\* Versions, and nothing else, are read.
LEMMA MapTypes ==
    ASSUME RegionInv'
    PROVE  nows' \in Store!Maps /\ disks' \in Store!Maps
<1>1. /\ TypeOK' /\ SectorsOK' /\ saves' \in Nat
    BY Naturals DEF RegionInv, TypeOK
<1>2. ASSUME NEW c \in Chunks
      PROVE  Now(c)' \in 0..saves' \cup {Nothing, Spoiled}
             /\ Disk(c)' \in 0..saves' \cup {Nothing, Spoiled}
    <2>1. PICK r \in Regions : r = RegionOf[c] /\ c \in ChunksIn(r)
        BY ChunkRegion
    <2>2. /\ table'[r] \in [ChunksIn(r) -> Entries] /\ diskTable'[r] \in [ChunksIn(r) -> Entries]
        BY <1>1 DEF TypeOK, Tables
    <2>3. TableOf(r)' \in [ChunksIn(r) -> Entries]
        BY <2>2 DEF TableOf
    <2>4. /\ TableOf(r)'[c].at \in Nat /\ (TableOf(r)'[c].at >= 2 => TableOf(r)'[c].at \in Sectors)
          /\ diskTable'[r][c].at \in Nat
          /\ diskTable'[r][c].at >= 2 => diskTable'[r][c].at \in Sectors
        BY <2>1, <2>2, <2>3, EntryTypes
    <2>5. Filled(sector'[r]) /\ \A s \in Sectors : sector'[r][s].version <= saves'
        BY <1>1 DEF TypeOK, SectorsOK, Filled
    <2>6. ReadOf(sector'[r], TableOf(r)'[c]) \in 0..saves' \cup {Nothing, Spoiled}
        BY <1>1, <2>4, <2>5, ReadType
    <2>7. ReadOf(sector'[r], diskTable'[r][c]) \in 0..saves' \cup {Nothing, Spoiled}
        BY <1>1, <2>4, <2>5, ReadType
    <2> QED BY <2>1, <2>6, <2>7, ReadsNext
<1> QED BY <1>2 DEF Store!Maps, nows, disks

LEMMA StoreInit == Init => Store!Init
<1> SUFFICES ASSUME Init PROVE Store!Init
    OBVIOUS
<1>1. ASSUME NEW c \in Chunks
      PROVE  Now(c) = Nothing /\ Disk(c) = Nothing
    <2>1. PICK r \in Regions : r = RegionOf[c] /\ c \in ChunksIn(r)
        BY ChunkRegion
    <2>2. TableOf(r)[c].at = 0 /\ diskTable[r][c].at = 0
        BY <2>1 DEF Init, TableOf, NoTable, NoEntry
    <2> QED BY <2>1, <2>2, Reads DEF ReadOf
<1> QED BY <1>1 DEF Init, NoOp, Store!Init

\* Opening and closing files.
LEMMA Settling ==
    ASSUME RegionInv, UNCHANGED sector, FilesMove, ~Crash
    PROVE  Store!Settle
<1>1. lost \subseteq lost'
    BY DEF FilesMove
<1>2. ASSUME NEW c \in Chunks, RegionOf[c] \notin lost'
      PROVE  \/ Now(c)' = Now(c) /\ Disk(c)' \in {Disk(c), Now(c)}
             \/ c \notin reported /\ Now(c)' = Disk(c) /\ Disk(c)' = Disk(c)
    <2>1. PICK r \in Sure : r = RegionOf[c] /\ c \in ChunksIn(r) /\ r \notin lost'
        BY <1>1, <1>2, ChunkRegion DEF Sure
    <2>2. \/ TableOf(r)' = TableOf(r) /\ diskTable'[r] \in {diskTable[r], TableOf(r)}
          \/ /\ TableOf(r)' = diskTable[r] /\ diskTable'[r] = diskTable[r]
             /\ r \notin heldBack
        BY <2>1, InvFacts, TablesMove
    <2>3. CASE TableOf(r)' = TableOf(r) /\ diskTable'[r] \in {diskTable[r], TableOf(r)}
        BY <2>1, <2>3, Reads, ReadsNext
    <2>4. CASE /\ TableOf(r)' = diskTable[r] /\ diskTable'[r] = diskTable[r]
               /\ r \notin heldBack
        <3>1. Now(c)' = Disk(c) /\ Disk(c)' = Disk(c)
            BY <2>1, <2>4, Reads, ReadsNext
        <3>2. CASE c \in reported
            <4>1. ~Differs(r, c)
                BY <2>1, <2>4, <3>2 DEF RegionInv, ReportedOnDisk
            <4>2. Now(c) = Disk(c)
                BY <2>1, <4>1, Reads DEF Differs
            <4> QED BY <3>1, <4>2
        <3> QED BY <3>1, <3>2
    <2> QED BY <2>2, <2>3, <2>4
<1> QED BY <1>2 DEF Store!Settle, Store!Settles

\* Chunks of which neither entry nor data change.
LEMMA OthersRead ==
    ASSUME NEW c \in Chunks, NEW r, r = RegionOf[c],
           TableOf(r)'[c] = TableOf(r)[c],
           diskTable'[r][c] \in {diskTable[r][c], TableOf(r)[c]},
           \A u \in {TableOf(r), diskTable[r]} :
               ReadOf(sector'[r], u[c]) = ReadOf(sector[r], u[c])
    PROVE  Now(c)' = Now(c) /\ Disk(c)' \in {Disk(c), Now(c)}
BY Reads, ReadsNext

LEMMA WriteSure ==
    ASSUME RegionInv, TypeOK', WriteSector, OpRegion \notin lost'
    PROVE  \E c \in Chunks : Store!Write(c)
<1> DEFINE x == op.at + op.done
           p == OpPart(op.done + 1)
<1>1. TypeOK /\ Saving /\ op.done < op.size
    BY InvFacts DEF WriteSector
<1>2. PICK r \in Regions : r = OpRegion
    BY <1>1, OpFacts
<1>3. /\ op.at \in Nat /\ op.size \in Nat /\ op.done \in Nat /\ op.chunk \in ChunksIn(r)
      /\ op.chunk \in Chunks /\ RegionOf[op.chunk] = r
      /\ \A i \in 0..op.size - 1 : op.at + i \in Sectors
    BY <1>1, <1>2, OpFacts DEF OpRegion
<1>4. x \in Sectors /\ op.at <= x /\ x < op.at + op.size
    BY <1>1, <1>3
<1>5. op.version = saves /\ op.pos = op.at /\ OpRegion \in Sure
    <2>1. OpRegion \notin lost /\ OpRegion \in Regions
        BY <1>1, OpFacts DEF WriteSector, Lose
    <2> QED BY <1>1, <2>1 DEF RegionInv, OpInv, OpStraight, NoOp, Sure
<1>6. p \in Parts /\ p.version = saves /\ p.size = op.size /\ p.part = op.done + 1
    <2>1. op.done + 1 \in Nat
        BY <1>3
    <2> QED BY <1>1, <1>5, <2>1, PartType DEF OpPart
<1>7. /\ sector' = [sector EXCEPT ![OpRegion][x] = p]
      /\ UNCHANGED <<fileVars, saves, reported, lost>>
      /\ op' = [op EXCEPT !.done = @ + 1]
    <2>1. /\ Put(op.pos + op.done, p) /\ op' = [op EXCEPT !.done = @ + 1]
          /\ UNCHANGED <<opened, table, heldBack, saves, reported, lost>>
        BY DEF WriteSector, Lose
    <2> QED BY <1>1, <1>4, <1>5, <1>6, <2>1, PutSector
<1>8. /\ p.version # 0 /\ p.part = 1 => x = op.at
      /\ p.version <= saves /\ (p.version # 0 => p.size = op.size)
    BY <1>3, <1>6, InvFacts
<1>9. sector' \in [Regions -> [Sectors -> Parts]]
    BY DEF TypeOK
<1>10. op'.chunk = op.chunk
    BY <1>1, <1>7 DEF TypeOK
<1>11. \A q : TableOf(q)' = TableOf(q)
    BY <1>7 DEF TableOf
<1> HIDE DEF x, p
<1>12. /\ sector'[r] = [sector[r] EXCEPT ![x] = p]
       /\ \A q \in Regions \ {r} : sector'[q] = sector[q]
       /\ \A d \in ChunksIn(r) \ {op.chunk} : \A u \in {TableOf(r), diskTable[r]} :
              ReadOf(sector'[r], u[d]) = ReadOf(sector[r], u[d])
    BY <1>1, <1>2, <1>4, <1>5, <1>6, <1>7, <1>8, <1>9, Overwrite
<1>13. ASSUME NEW d \in Chunks \ {op.chunk}
       PROVE  Now(d)' = Now(d) /\ Disk(d)' = Disk(d)
    <2>1. PICK q \in Regions : q = RegionOf[d] /\ d \in ChunksIn(q)
        BY ChunkRegion
    <2>2. /\ ReadOf(sector'[q], TableOf(q)[d]) = ReadOf(sector[q], TableOf(q)[d])
          /\ ReadOf(sector'[q], diskTable[q][d]) = ReadOf(sector[q], diskTable[q][d])
        BY <1>12, <2>1
    <2> QED BY <1>7, <1>11, <2>1, <2>2, Reads, ReadsNext
<1>14. PICK c \in Chunks : c = op.chunk
    BY <1>3
<1>15. Now(c)' \in {Now(c), saves, Spoiled} /\ Disk(c)' \in {Disk(c), saves, Spoiled}
    <2>1. Filled(sector[r])
        BY InvFacts
    <2>2. TableOf(r)[c].at \in Nat /\ diskTable[r][c].at \in Nat
        BY <1>1, <1>3, <1>14, TableTypes, EntryTypes
    <2>3. /\ ReadOf(sector'[r], TableOf(r)[c]) \in
                 {ReadOf(sector[r], TableOf(r)[c]), saves, Spoiled}
          /\ ReadOf(sector'[r], diskTable[r][c]) \in
                 {ReadOf(sector[r], diskTable[r][c]), saves, Spoiled}
        BY <1>4, <1>6, <1>12, <2>1, <2>2, ReadOwn
    <2>4. c \in Chunks /\ r = RegionOf[c]
        BY <1>3, <1>14
    <2> QED BY <1>7, <1>11, <2>3, <2>4, Reads, ReadsNext
<1>16. Store!Write(c)
    BY <1>7, <1>10, <1>13, <1>14, <1>15 DEF Store!Write
<1> QED BY <1>16

LEMMA WriteLost ==
    ASSUME RegionInv, WriteSector, OpRegion \in lost', TypeOK'
    PROVE  \E c \in Chunks : Store!Write(c)
<1>1. TypeOK /\ Saving
    BY InvFacts DEF WriteSector
<1>2. /\ op'.chunk = op.chunk /\ lost \subseteq lost'
      /\ UNCHANGED <<opened, table, saves, reported>>
    BY <1>1 DEF WriteSector, TypeOK, Lose
<1>3. \A q \in Regions \ {OpRegion} : sector'[q] = sector[q] /\ diskTable'[q] = diskTable[q]
    <2>1. op.done + 1 \in Nat
        BY <1>1 DEF TypeOK
    <2>2. \E p \in Parts : Put(op.pos + op.done, p)
        BY <1>1, <2>1, PartType, GarbageType DEF WriteSector
    <2> QED BY <1>1, <2>2, PutTypes
<1>4. ASSUME NEW d \in Chunks, RegionOf[d] \notin lost'
      PROVE  Now(d)' = Now(d) /\ Disk(d)' = Disk(d)
    <2>1. PICK q \in Regions : q = RegionOf[d] /\ d \in ChunksIn(q) /\ q # OpRegion
        BY <1>4, ChunkRegion
    <2>2. sector'[q] = sector[q] /\ diskTable'[q] = diskTable[q] /\ TableOf(q)' = TableOf(q)
        BY <1>2, <1>3, <2>1 DEF TableOf
    <2> QED BY <2>1, <2>2, Reads, ReadsNext
<1>5. PICK c \in Chunks : c = op.chunk
    BY <1>1, OpFacts
<1>6. RegionOf[c] \in lost'
    BY <1>5 DEF OpRegion
<1>7. Store!Write(c)
    BY <1>2, <1>4, <1>5, <1>6 DEF Store!Write
<1> QED BY <1>7

LEMMA WriteStep ==
    ASSUME RegionInv, TypeOK', WriteSector
    PROVE  \E c \in Chunks : Store!Write(c)
BY WriteSure, WriteLost

-----------------------------------------------------------------------------
(* Between saves *)

LEMMA BeginStep ==
    ASSUME RegionInv, NEW c \in Chunks, NEW n, SetChunkData(c, n), ~Crash
    PROVE  Store!Begin(c)
<1>1. /\ op.chunk = None /\ saves' = saves + 1 /\ reported' = reported \ {c}
      /\ UNCHANGED sector
    BY DEF SetChunkData
<1>2. FilesMove /\ op'.chunk = c
    BY BeginMoves
<1>3. Store!Settle
    BY <1>1, <1>2, Settling
<1> QED BY <1>1, <1>2, <1>3 DEF Store!Begin

LEMMA RestStep ==
    ASSUME RegionInv, (\E c \in Chunks : LoadChunk(c)) \/ Stop, ~Crash
    PROVE  Store!Rest
<1>1. op.chunk = None /\ UNCHANGED <<sector, op, saves, reported>>
    BY DEF LoadChunk, Stop
<1>2. FilesMove
    BY LoadMoves, StopMoves
<1>3. Store!Settle
    BY <1>1, <1>2, Settling
<1> QED BY <1>1, <1>3 DEF Store!Rest

LEMMA RefuseStep ==
    ASSUME RegionInv, NEW c \in Chunks, SaveCannotOpen(c), ~Crash
    PROVE  Store!Refuse(c)
<1>1. op.chunk = None /\ UNCHANGED <<sector, op, saves>> /\ reported' = reported \ {c}
    BY DEF SaveCannotOpen
<1>2. Store!Settle
    BY <1>1, LoadMoves, Settling
<1> QED BY <1>1, <1>2 DEF Store!Refuse

-----------------------------------------------------------------------------
(* Saves that are broken off *)

\* A spoiled sector takes away the data of the chunk being saved, or nothing.
LEMMA SpoilReads ==
    ASSUME RegionInv, SpoilSector, NEW c \in Chunks, NEW r \in Sure, r = RegionOf[c],
           NEW u \in {TableOf(r), diskTable[r]}
    PROVE  /\ ReadOf(sector'[r], u[c]) \in {ReadOf(sector[r], u[c]), Spoiled}
           /\ c # op.chunk => ReadOf(sector'[r], u[c]) = ReadOf(sector[r], u[c])
<1>1. r \in Regions /\ c \in ChunksIn(r)
    BY ChunkRegion
<1>2. CASE c # op.chunk
    BY <1>1, <1>2, SpoilKeeps
<1>3. CASE UNCHANGED sector /\ c = op.chunk
    BY <1>3
<1>4. CASE /\ c = op.chunk /\ Saving /\ op.done < op.size
           /\ sector' = [sector EXCEPT ![OpRegion][op.at + op.done] = Garbage]
    <2>1. r = OpRegion
        BY <1>4 DEF OpRegion
    <2>2. TypeOK /\ Filled(sector[r])
        BY <1>1, InvFacts
    <2>3. PICK x \in Sectors : x = op.at + op.done
        <3>1. /\ op.size \in Nat /\ op.done \in Nat
              /\ \A i \in 0..op.size - 1 : op.at + i \in Sectors
            BY <1>4, <2>2, OpFacts
        <3> QED BY <1>4, <3>1
    <2>4. sector'[r] = [sector[r] EXCEPT ![x] = Garbage]
        BY <1>1, <1>4, <2>1, <2>2, <2>3 DEF TypeOK
    <2>5. u[c].at \in Nat
        BY <1>1, <2>2, TableTypes, EntryTypes
    <2>6. Garbage \in Parts /\ Garbage.version = 0
        BY GarbageType DEF Garbage
    <2>7. ReadOf(sector'[r], u[c]) \in {ReadOf(sector[r], u[c]), Spoiled}
        BY <2>2, <2>4, <2>5, <2>6, ReadOwn
    <2> QED BY <1>4, <2>7
<1>5. CASE c = op.chunk
    <2>1. OpRegion \in Sure
        BY <1>5 DEF OpRegion
    <2> QED BY <1>3, <1>4, <1>5, <2>1, SpoilSure
<1> QED BY <1>2, <1>5

LEMMA CrashStep ==
    ASSUME RegionInv, Crash
    PROVE  Store!Crash
<1>1. /\ SpoilSector /\ op' = NoOp /\ reported' = Chunks /\ opened' = {}
      /\ UNCHANGED <<saves, lost>>
    BY DEF Crash
<1>2. ASSUME NEW c \in Chunks
      PROVE  Now(c)' = Disk(c)'
    <2>1. PICK r : r = RegionOf[c]
        OBVIOUS
    <2>2. TableOf(r)' = diskTable'[r]
        BY <1>1 DEF TableOf
    <2> QED BY <2>1, <2>2, ReadsNext
<1>3. ASSUME NEW c \in Chunks, RegionOf[c] \notin lost
      PROVE  Disk(c)' = Disk(c) \/ (c = op.chunk /\ Disk(c)' = Spoiled)
    <2>1. PICK r \in Sure : r = RegionOf[c]
        BY <1>3, ChunkRegion DEF Sure
    <2>2. diskTable'[r] = diskTable[r]
        BY <1>1, SpoilTable
    <2>3. Disk(c)' = ReadOf(sector'[r], diskTable[r][c])
        BY <2>1, <2>2, ReadsNext
    <2>4. Disk(c) = ReadOf(sector[r], diskTable[r][c])
        BY <2>1, Reads
    <2>5. /\ ReadOf(sector'[r], diskTable[r][c]) \in
                 {ReadOf(sector[r], diskTable[r][c]), Spoiled}
          /\ c # op.chunk =>
                 ReadOf(sector'[r], diskTable[r][c]) = ReadOf(sector[r], diskTable[r][c])
        BY <1>1, <2>1, SpoilReads
    <2> QED BY <2>3, <2>4, <2>5
<1> QED BY <1>1, <1>2, <1>3 DEF Store!Crash, NoOp

LEMMA DataFails ==
    ASSUME RegionInv, DataNotSaved
    PROVE  Store!Fail(op.chunk)
<1>1. /\ SpoilSector /\ op' = NoOp /\ Saving
      /\ UNCHANGED <<opened, table, heldBack, saves, reported, lost>>
    BY DEF DataNotSaved, SpoilSector
<1>2. op.chunk \in Chunks /\ op.chunk # None
    BY <1>1, InvFacts, OpFacts
<1>3. ASSUME NEW c \in Chunks, RegionOf[c] \notin lost
      PROVE  /\ Now(c)' \in {Now(c), Spoiled} /\ Disk(c)' \in {Disk(c), Spoiled}
             /\ c # op.chunk => Now(c)' = Now(c) /\ Disk(c)' = Disk(c)
    <2>1. PICK r \in Sure : r = RegionOf[c]
        BY <1>3, ChunkRegion DEF Sure
    <2>2. diskTable'[r] = diskTable[r]
        BY <1>1, SpoilTable
    <2>3. TableOf(r)' = TableOf(r)
        BY <1>1, <2>2 DEF TableOf
    <2>4. Now(c)' = ReadOf(sector'[r], TableOf(r)[c])
          /\ Disk(c)' = ReadOf(sector'[r], diskTable[r][c])
        BY <2>1, <2>2, <2>3, ReadsNext
    <2>5. \A u \in {TableOf(r), diskTable[r]} :
              /\ ReadOf(sector'[r], u[c]) \in {ReadOf(sector[r], u[c]), Spoiled}
              /\ c # op.chunk => ReadOf(sector'[r], u[c]) = ReadOf(sector[r], u[c])
        BY <1>1, <2>1, SpoilReads
    <2> QED BY <2>1, <2>4, <2>5, Reads
<1>4. PICK c \in Chunks : c = op.chunk
    BY <1>2
<1>5. Store!Fail(c)
    BY <1>1, <1>3, <1>4 DEF Store!Fail, Store!Others, NoOp
<1> QED BY <1>4, <1>5

-----------------------------------------------------------------------------
(* Saves that come to the table *)

TableWritten ==
    /\ Saving /\ op.size <= MaxLen /\ op.done = op.size /\ OpRegion \in Sure /\ lost' = lost
    /\ table' = WrittenTable /\ opened' = opened /\ saves' = saves /\ op' = NoOp
    /\ diskTable' \in {diskTable, [diskTable EXCEPT ![OpRegion] = table'[OpRegion]]}

\* The other chunks are read as before.
LEMMA OthersKept ==
    ASSUME RegionInv, TypeOK', TableWritten,
           \/ UNCHANGED sector
           \/ sector' = [sector EXCEPT ![OpRegion][op.at + op.size - 1] = Garbage],
           NEW d \in Chunks, d # op.chunk
    PROVE  Now(d)' = Now(d) /\ Disk(d)' \in {Disk(d), Now(d)}
<1>1. PICK q \in Regions : q = RegionOf[d] /\ d \in ChunksIn(q)
    BY ChunkRegion
<1>2. \A r \in Regions : \A c \in ChunksIn(r) \ {op.chunk} :
          /\ TableOf(r)'[c] = TableOf(r)[c]
          /\ diskTable'[r][c] \in {diskTable[r][c], TableOf(r)[c]}
          /\ \A u \in {TableOf(r), diskTable[r]} :
                 ReadOf(sector'[r], u[c]) = ReadOf(sector[r], u[c])
    BY EndKeeps DEF TableWritten
<1>3. /\ TableOf(q)'[d] = TableOf(q)[d]
      /\ diskTable'[q][d] \in {diskTable[q][d], TableOf(q)[d]}
      /\ \A u \in {TableOf(q), diskTable[q]} :
             ReadOf(sector'[q], u[d]) = ReadOf(sector[q], u[d])
    BY <1>1, <1>2
<1> QED BY <1>1, <1>3, OthersRead

\* The chunk that was saved: its entry is the new one, or on the disk still the old one.
LEMMA OwnEntry ==
    ASSUME RegionInv, TypeOK', TableWritten,
           \/ UNCHANGED sector
           \/ sector' = [sector EXCEPT ![OpRegion][op.at + op.size - 1] = Garbage],
           NEW c, c = op.chunk, NEW r, r = OpRegion,
           NEW e, e = [at |-> op.at, len |-> op.size]
    PROVE  /\ TableOf(r)'[c] = e /\ diskTable'[r][c] \in {diskTable[r][c], e}
           /\ ReadOf(sector[r], e) = saves
<1>1. TypeOK /\ r \in Regions /\ c \in ChunksIn(r)
    BY InvFacts, OpFacts DEF TableWritten
<1>2. /\ TableOf(r)' = [TableOf(r) EXCEPT ![c] = e]
      /\ diskTable'[r] \in {diskTable[r], TableOf(r)'}
    BY <1>1, EndKeeps DEF TableWritten
<1>3. TableOf(r) \in [ChunksIn(r) -> Entries]
    BY <1>1, TableTypes
<1>4. ReadOf(sector[r], e) = saves
    BY DataComplete DEF TableWritten
<1> QED BY <1>1, <1>2, <1>3, <1>4

LEMMA SucceedSure ==
    ASSUME RegionInv, TypeOK', SaveTable, OpRegion \in Sure
    PROVE  Store!Succeed(op.chunk)
<1>1. TableWritten /\ UNCHANGED sector
    BY TableSteps DEF SaveTable, TableWritten
<1>2. PICK c \in Chunks : c = op.chunk
    BY <1>1, InvFacts, OpFacts DEF TableWritten
<1>3. PICK r : r = OpRegion /\ r = RegionOf[c]
    BY <1>2 DEF OpRegion
<1>4. PICK e : e = [at |-> op.at, len |-> op.size]
    OBVIOUS
<1>5. /\ TableOf(r)'[c] = e /\ diskTable'[r][c] \in {diskTable[r][c], e}
      /\ ReadOf(sector[r], e) = saves
    BY <1>1, <1>2, <1>3, <1>4, OwnEntry
<1>6. Now(c)' = saves /\ Disk(c)' \in {Disk(c), saves}
    BY <1>1, <1>3, <1>5, Reads, ReadsNext
<1>7. \A d \in Chunks \ {c} : Now(d)' = Now(d) /\ Disk(d)' \in {Disk(d), Now(d)}
    BY <1>1, <1>2, OthersKept
<1>8. /\ op.chunk = c /\ op'.chunk = None
      /\ reported' = reported \cup {c} /\ UNCHANGED <<saves, lost>>
    BY <1>2 DEF SaveTable, NoOp
<1>9. Store!Succeed(c)
    BY <1>2, <1>6, <1>7, <1>8 DEF Store!Succeed, Store!Others
<1> QED BY <1>2, <1>9

LEMMA TableFailsSure ==
    ASSUME RegionInv, TypeOK', TableNotSaved, OpRegion \in Sure
    PROVE  Store!Fail(op.chunk)
<1>1. /\ TableWritten /\ UNCHANGED reported
      /\ \/ UNCHANGED sector
         \/ sector' = [sector EXCEPT ![OpRegion][op.at + op.size - 1] = Garbage]
    BY TableSteps DEF TableNotSaved, TableWritten
<1>2. TypeOK /\ Saving
    BY <1>1, InvFacts DEF TableWritten
<1>3. PICK c \in Chunks : c = op.chunk
    BY <1>2, OpFacts
<1>4. PICK r \in Regions : r = OpRegion /\ r = RegionOf[c] /\ c \in ChunksIn(r)
    BY <1>2, <1>3, OpFacts DEF OpRegion
<1>5. PICK e : e = [at |-> op.at, len |-> op.size]
    OBVIOUS
<1>6. /\ TableOf(r)'[c] = e /\ diskTable'[r][c] \in {diskTable[r][c], e}
      /\ ReadOf(sector[r], e) = saves
    BY <1>1, <1>3, <1>4, <1>5, OwnEntry
<1>7. PICK x \in Sectors : x = op.at + op.size - 1
    <2>1. op.at \in Nat /\ op.size \in Nat /\ op.size >= 1
          /\ \A i \in 0..op.size - 1 : op.at + i \in Sectors
        BY <1>2, OpFacts
    <2>2. op.at + (op.size - 1) \in Sectors
        BY <2>1
    <2> QED BY <2>1, <2>2
<1>8. Filled(sector[r]) /\ e.at \in Nat /\ diskTable[r][c].at \in Nat
    BY <1>2, <1>4, <1>5, InvFacts, OpFacts, TableTypes, EntryTypes
<1>9. \A u \in {e, diskTable[r][c]} :
          ReadOf(sector'[r], u) \in {ReadOf(sector[r], u), Spoiled}
    <2>1. CASE UNCHANGED sector
        BY <2>1
    <2>2. CASE sector' = [sector EXCEPT ![OpRegion][op.at + op.size - 1] = Garbage]
        <3>1. sector'[r] = [sector[r] EXCEPT ![x] = Garbage]
            BY <1>2, <1>4, <1>7, <2>2 DEF TypeOK
        <3>2. Garbage \in Parts /\ Garbage.version = 0
            BY GarbageType DEF Garbage
        <3> QED BY <1>7, <1>8, <3>1, <3>2, ReadOwn
    <2> QED BY <1>1, <2>1, <2>2
<1>10. Now(c)' \in {saves, Spoiled} /\ Disk(c)' \in {Disk(c), saves, Spoiled}
    BY <1>4, <1>6, <1>9, Reads, ReadsNext
<1>11. \A d \in Chunks \ {c} : Now(d)' = Now(d) /\ Disk(d)' \in {Disk(d), Now(d)}
    BY <1>1, <1>3, OthersKept
<1>12. op.chunk = c /\ op'.chunk = None /\ UNCHANGED <<reported, saves, lost>>
    BY <1>1, <1>3 DEF TableWritten, NoOp
<1>13. Store!Fail(c)
    BY <1>3, <1>10, <1>11, <1>12 DEF Store!Fail, Store!Others
<1> QED BY <1>3, <1>13

\* Where nothing is sure, no other region is touched.
LEMMA TableLost ==
    ASSUME RegionInv, TypeOK', SaveTable \/ TableNotSaved, OpRegion \notin Sure
    PROVE  Store!Succeed(op.chunk) \/ Store!Fail(op.chunk)
<1>1. /\ Saving /\ op.size <= MaxLen /\ table' = WrittenTable
      /\ UNCHANGED <<opened, saves, lost>> /\ op' = NoOp
    BY DEF SaveTable, TableNotSaved
<1>2. TypeOK /\ OpRegion \in Regions /\ OpRegion \in lost
    BY <1>1, InvFacts, OpFacts DEF Sure
<1>3. \A q \in Regions \ {OpRegion} : sector'[q] = sector[q] /\ diskTable'[q] = diskTable[q]
    <2>1. CASE Put(op.pos + op.size - 1, Garbage)
        BY <1>2, <2>1, GarbageType, PutTypes
    <2>2. CASE /\ UNCHANGED sector
               /\ diskTable' \in {diskTable, [diskTable EXCEPT ![OpRegion] = table'[OpRegion]]}
        BY <1>2, <2>2, TableTypes
    <2> QED BY <2>1, <2>2 DEF SaveTable, TableNotSaved
<1>4. ASSUME NEW d \in Chunks, RegionOf[d] \notin lost
      PROVE  Now(d)' = Now(d) /\ Disk(d)' = Disk(d)
    <2>1. PICK q \in Regions : q = RegionOf[d] /\ d \in ChunksIn(q) /\ q # OpRegion
        BY <1>2, <1>4, ChunkRegion
    <2>2. table'[q] = table[q]
        BY <1>1, <1>2, <2>1, WrittenType
    <2>3. sector'[q] = sector[q] /\ diskTable'[q] = diskTable[q] /\ TableOf(q)' = TableOf(q)
        BY <1>1, <1>3, <2>1, <2>2 DEF TableOf
    <2> QED BY <2>1, <2>3, Reads, ReadsNext
<1>5. PICK c \in Chunks : c = op.chunk /\ RegionOf[c] \in lost
    BY <1>1, <1>2, OpFacts DEF OpRegion
<1>6. \/ SaveTable /\ reported' = reported \cup {c}
      \/ TableNotSaved /\ UNCHANGED reported
    BY <1>5 DEF SaveTable, TableNotSaved
<1>7. Store!Others(c)
    BY <1>4 DEF Store!Others
<1>8. op'.chunk = None /\ op.chunk = c
    BY <1>1, <1>5 DEF NoOp
<1>9. Store!Succeed(c) \/ Store!Fail(c)
    BY <1>1, <1>5, <1>6, <1>7, <1>8 DEF Store!Succeed, Store!Fail
<1> QED BY <1>5, <1>9

-----------------------------------------------------------------------------
(* The refinement *)

LEMMA StutterStep ==
    ASSUME UNCHANGED vars
    PROVE  UNCHANGED StoreState
<1>1. \A r : TableOf(r)' = TableOf(r)
    BY DEF vars, TableOf
<1>2. \A c \in Chunks : Now(c)' = Now(c) /\ Disk(c)' = Disk(c)
    BY <1>1, Reads, ReadsNext DEF vars
<1> QED BY <1>2 DEF StoreState, nows, disks, losts, vars

LEMMA LostGrows ==
    ASSUME Next
    PROVE  lost \subseteq lost'
<1>1. ASSUME NEW c \in Chunks, LoadChunk(c) \/ SaveCannotOpen(c)
      PROVE  lost \subseteq lost'
    BY <1>1, LoadMoves DEF FilesMove
<1>2. ASSUME NEW c \in Chunks, NEW n \in Sizes, SetChunkData(c, n)
      PROVE  lost \subseteq lost'
    BY <1>2, BeginMoves DEF FilesMove
<1>3. Stop => lost \subseteq lost'
    BY StopMoves DEF FilesMove
<1>4. WriteSector \/ DataNotSaved \/ SaveTable \/ TableNotSaved \/ Crash => lost \subseteq lost'
    BY DEF WriteSector, DataNotSaved, SaveTable, TableNotSaved, Crash, Lose
<1> QED BY <1>1, <1>2, <1>3, <1>4 DEF Next

LEMMA StoreStep ==
    ASSUME RegionInv, [Next]_vars
    PROVE  [Store!Next]_StoreState
<1>1. RegionInv' /\ TypeOK'
    BY StepInv DEF RegionInv
<1>2. /\ nows' \in Store!Maps /\ disks' \in Store!Maps
      /\ losts' \subseteq Chunks /\ (Next => losts \subseteq losts')
    <2>1. Next => lost \subseteq lost'
        BY LostGrows
    <2> QED BY <1>1, <2>1, MapTypes DEF losts
<1>3. CASE UNCHANGED vars
    BY <1>3, StutterStep
<1>4. CASE Crash
    BY <1>2, <1>4, CrashStep DEF Next, Store!Next, nows, disks, losts
<1>5. ASSUME Next, ~Crash
      PROVE  \/ \E c \in Chunks : \/ Store!Begin(c) \/ Store!Write(c) \/ Store!Succeed(c)
                                  \/ Store!Fail(c) \/ Store!Refuse(c)
             \/ Store!Rest
    <2>1. ASSUME NEW c \in Chunks, LoadChunk(c)
          PROVE  Store!Rest
        BY <1>5, <2>1, RestStep
    <2>2. ASSUME NEW c \in Chunks, SaveCannotOpen(c)
          PROVE  Store!Refuse(c)
        BY <1>5, <2>2, RefuseStep
    <2>3. ASSUME NEW c \in Chunks, NEW n \in Sizes, SetChunkData(c, n)
          PROVE  Store!Begin(c)
        BY <1>5, <2>3, BeginStep
    <2>4. CASE Stop
        BY <1>5, <2>4, RestStep
    <2>5. ASSUME WriteSector \/ DataNotSaved \/ SaveTable \/ TableNotSaved
          PROVE  \E c \in Chunks : Store!Write(c) \/ Store!Fail(c) \/ Store!Succeed(c)
        <3>1. Saving
            BY <2>5 DEF WriteSector, DataNotSaved, SaveTable, TableNotSaved
        <3>2. PICK b \in Chunks : b = op.chunk
            BY <3>1, InvFacts, OpFacts
        <3>3. CASE WriteSector
            BY <1>1, <3>3, WriteStep
        <3>4. CASE DataNotSaved \/ SaveTable \/ TableNotSaved
            <4>1. Store!Fail(op.chunk) \/ Store!Succeed(op.chunk)
                BY <1>1, <3>4, DataFails, SucceedSure, TableFailsSure, TableLost
            <4>2. Store!Fail(b) \/ Store!Succeed(b)
                BY <3>2, <4>1
            <4> QED BY <4>2
        <3> QED BY <2>5, <3>3, <3>4
    <2> QED BY <1>5, <2>1, <2>2, <2>3, <2>4, <2>5 DEF Next
<1>6. ASSUME Next, ~Crash
      PROVE  Store!Next
    BY <1>2, <1>5, <1>6 DEF Store!Next, nows, disks, losts
<1> QED BY <1>3, <1>4, <1>6

\* The region files implement the store: whatever writes fail and wherever the process dies,
\* only the chunk that is being saved changes, what was reported as saved is what loading
\* gives, and a crash takes back no more than saves that had not reached the disk; but of the
\* chunks of a region in which a failure went unnoticed nothing is promised from then on
\* (cWSSAnvil and cMCAFile).
THEOREM KeepsStorePromise == Spec => StorePromiseUnlessLost
<1>1. RegionInv /\ [Next]_vars => [Store!Next]_(Store!store)
    BY StoreStep DEF StoreState, nows, disks, losts, Store!store
<1>2. Init => Store!Init
    BY StoreInit
<1> QED BY <1>1, <1>2, Invariant, PTL DEF Spec, StorePromiseUnlessLost, Store!Spec
=============================================================================
