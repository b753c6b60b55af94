----------------------------- MODULE RegionFile -----------------------------
(***************************************************************************)
(* The Anvil schema's region files (cWSSAnvil and cMCAFile).  A region     *)
(* file keeps up to 1024 chunks in runs of sectors and begins with a table *)
(* that says where each chunk is.  Open files, the most recently used      *)
(* first, keep the table in memory.                                        *)
(*                                                                         *)
(* Only the storage thread loads and saves, so that one save is in         *)
(* progress at most; it is a sequence of writes, each of which may fail or *)
(* be the last before the process dies.  A write reaches the disk in       *)
(* order, except that the C library may hold back the end of the last one, *)
(* the table, until the file is next sought in or closed.                  *)
(*                                                                         *)
(* Four failures go unnoticed, and from then on nothing is sure about the  *)
(* region: the table that is held back cannot be written when the file is  *)
(* sought in, after which data go to wherever the file is, or when it is   *)
(* closed; the end of the data cannot be written with the padding; and the *)
(* table cannot be read, and is replaced by an empty one.                  *)
(***************************************************************************)
EXTENDS Integers, Sequences, FiniteSets

CONSTANTS
    Chunks, Regions,
    RegionOf,           \* RegionOf[c]: the region chunk c belongs to
    None,
    MaxFiles,           \* MAX_MCA_FILES
    MaxLen,             \* the most sectors a chunk may take: 255
    MaxSeek,            \* the last sector that Seek, with its int, gets to: 2^19 - 1
    Saved,              \* bound: the chunks that are saved; the others are only looked for
    Sizes,              \* bound: the sectors that the data of a save may need
    MaxSaves,           \* bound: saves
    MaxLost,            \* bound: regions in which a failure goes unnoticed
    LastSector          \* bound: files do not grow past this sector

ASSUME RegionAssumption ==
    /\ RegionOf \in [Chunks -> Regions] /\ None \notin Chunks \cup Regions
    /\ MaxFiles \in Nat \ {0} /\ MaxLen \in Nat \ {0} /\ MaxSeek \in Nat
ASSUME BoundsAssumption ==
    /\ Saved \subseteq Chunks /\ Sizes \subseteq Nat \ {0} /\ MaxSaves \in Nat /\ LastSector \in Nat
    /\ MaxLost \in Nat

FirstSector == 2        \* behind the table and the time stamps
Sectors == FirstSector..LastSector

VARIABLES
    files,              \* m_Files: regions, most recently used first
    opened,             \* the regions whose m_File is open
    table,              \* m_Header of an open region, in memory
    diskTable,          \* the table at the beginning of the file
    sector,             \* the file's other sectors
    heldBack,           \* regions whose table, as written, is in the C library's buffer
    op,                 \* the save in progress, or None
    saves,              \* saves begun: the content of a save is its number
    reported,           \* history: the chunks whose last save returned true
    lost                \* history: the regions in which a failure has gone unnoticed

fileVars == <<opened, table, diskTable, heldBack>>
vars == <<files, fileVars, sector, op, saves, reported, lost>>

NoEntry == [at |-> 0, len |-> 0]
Entries == [at : 0..LastSector, len : 0..MaxLen]

\* A sector holds a part of one save's data; version 0 is anything that is no such part.
Garbage == [version |-> 0, part |-> 0, size |-> 0]
Parts == [version : 0..MaxSaves, part : Nat, size : Nat]

\* The table is to say that the data are at the sector at; pos is where they go.
NoOp == [chunk |-> None, version |-> 0, size |-> 0, at |-> 0, pos |-> 0, done |-> 0]
Saving == op.chunk # None

Nothing == -1           \* the table has no entry for the chunk
Spoiled == -2           \* what is read is not the data of a save

ChunksIn(r) == {c \in Chunks : RegionOf[c] = r}
NoTable(r) == [c \in ChunksIn(r) |-> NoEntry]

-----------------------------------------------------------------------------
(* cMCAFile *)

\* cMCAFile::GetChunkData with the table t: the data's first sector says how long they are.
GetChunkData(t, c) ==
    LET data == sector[RegionOf[c]]
        first == data[t[c].at]
    IN  IF t[c].at < FirstSector THEN Nothing
        ELSE IF /\ first.version # 0 /\ first.part = 1
                /\ t[c].at + first.size - 1 <= LastSector
                /\ \A i \in 1..first.size :
                       data[t[c].at + i - 1] = [first EXCEPT !.part = i]
             THEN first.version
             ELSE Spoiled

\* Mutant: only the chunks' first sectors are looked at.
IsEndOfStarts(t, r, s) ==
    /\ \A d \in ChunksIn(r) : t[d].at < s
    /\ s = FirstSector \/ \E d \in ChunksIn(r) : t[d].at + 1 = s

\* The first sector behind all that the table names.
IsEnd(t, r, s) ==
    /\ \A d \in ChunksIn(r) : t[d].at + t[d].len <= s
    /\ s = FirstSector \/ \E d \in ChunksIn(r) : t[d].at + t[d].len = s

\* Mutant: a chunk that the file has stays where it is.
FindLocationByEntry(t, c, n, s) ==
    IF t[c].len > 0 THEN s = t[c].at ELSE IsEnd(t, RegionOf[c], s)

\* cMCAFile::FindFreeLocation: data of n sectors of chunk c go to sector s.
FindFreeLocation(t, c, n, s) ==
    IF n <= t[c].len THEN s = t[c].at ELSE IsEnd(t, RegionOf[c], s)

-----------------------------------------------------------------------------
(* cWSSAnvil::LoadMCAFile and cMCAFile::OpenFile *)

\* Region r comes to the front of the cache, the last one used may drop out.
UsedFiles(r) == <<r>> \o SelectSeq(files, LAMBDA f : f # r)

LoadMCAFile(r) ==
    files' = IF Len(UsedFiles(r)) > MaxFiles THEN SubSeq(UsedFiles(r), 1, MaxFiles)
             ELSE UsedFiles(r)

Kept == {files'[i] : i \in 1..Len(files')}

\* The others are closed.
Dropped == Regions \ Kept

TableOf(r) == IF r \in opened THEN table[r] ELSE diskTable[r]

\* cMCAFile::OpenFile reads the table of region r, unless the file is open.  If it cannot be
\* read, or cFile::Open has emptied the file, because it could not be opened as it was, then
\* an empty table is written: r is in empty.
OpenFile(r, empty) ==
    /\ LoadMCAFile(r)
    /\ empty \subseteq {r} \ opened
    /\ opened' = (opened \cap Kept) \cup {r}
    /\ table' = [q \in Regions |-> IF q \in opened' \ empty THEN TableOf(q) ELSE NoTable(q)]

\* The file is not there, or cannot be opened, or the empty table not be written to its end:
\* the file is in the cache all the same.
OpenFileFails(r, empty) ==
    /\ LoadMCAFile(r)
    /\ r \notin opened /\ empty \subseteq {r}
    /\ opened' = opened \cap Kept
    /\ table' = [q \in Regions |-> IF q \in opened' THEN table[q] ELSE NoTable(q)]

-----------------------------------------------------------------------------
(* What the C library holds back *)

\* Mutant: it is lost when a file is closed or sought in.
FlushNone(rs, failed, empty) ==
    /\ failed \subseteq rs \cap heldBack
    /\ diskTable' = [r \in Regions |-> IF r \in empty THEN NoTable(r) ELSE diskTable[r]]
    /\ heldBack' = heldBack \ rs

\* What is held back of the regions rs reaches the disk, except in failed; those in empty
\* have got an empty table.
Flush(rs, failed, empty) ==
    /\ failed \subseteq rs \cap heldBack
    /\ diskTable' = [r \in Regions |->
                          CASE r \in empty -> NoTable(r)
                            [] r \in (rs \cap heldBack) \ (failed \cup empty) -> table[r]
                            [] OTHER -> diskTable[r]]
    /\ heldBack' = heldBack \ rs

\* Mutant: Seek flushes nothing.
FlushedDropped(r) == Dropped

\* Seek in the file of region r flushes it, and the file that was dropped has been closed.
Flushed(r) == Dropped \cup {r}

Lose(rs) == lost' = lost \cup rs /\ Cardinality(lost') <= MaxLost

-----------------------------------------------------------------------------
Init ==
    /\ files = <<>> /\ opened = {} /\ heldBack = {}
    /\ table = [r \in Regions |-> NoTable(r)]
    /\ diskTable = table
    /\ sector = [r \in Regions |-> [s \in Sectors |-> Garbage]]
    /\ op = NoOp /\ saves = 0
    /\ reported = Chunks /\ lost = {}

-----------------------------------------------------------------------------
(* cWSSAnvil::LoadChunk; what it reads is GetChunkData of the table *)

\* It seeks in the file only if the chunk has an entry.
LoadChunk(c) ==
    LET r == RegionOf[c]
    IN  /\ ~Saving
        /\ \E failed, empty \in SUBSET Regions :
               /\ \/ OpenFileFails(r, empty) /\ Flush(Dropped, failed, empty)
                  \/ /\ OpenFile(r, empty)
                     /\ \/ table'[r][c].at < FirstSector /\ Flush(Dropped, failed, empty)
                        \/ table'[r][c].at >= FirstSector /\ Flush(Flushed(r), failed, empty)
               /\ Lose(failed \cup empty)
        /\ UNCHANGED <<sector, op, saves, reported>>

-----------------------------------------------------------------------------
(* cWSSAnvil::SaveChunk: cMCAFile::SetChunkData, write by write *)

\* A Seek that fails is not noticed: the data go to where the file happens to be.
SetChunkData(c, n) ==
    LET r == RegionOf[c]
    IN  /\ ~Saving /\ saves < MaxSaves
        /\ saves' = saves + 1
        /\ \E failed, empty \in SUBSET Regions :
               /\ OpenFile(r, empty) /\ Flush(Flushed(r), failed, empty)
               /\ \E s \in Sectors, pos \in 0..LastSector :
                      /\ FindFreeLocation(table'[r], c, n, s)
                      /\ pos = s \/ r \in failed \/ s > MaxSeek
                      /\ s + n - 1 <= LastSector /\ pos + n - 1 <= LastSector
                      /\ op' = [chunk |-> c, version |-> saves', size |-> n, at |-> s,
                                pos |-> pos, done |-> 0]
                      /\ Lose(failed \cup empty \cup {q \in {r} : s > MaxSeek})
        /\ reported' = reported \ {c}
        /\ UNCHANGED sector

SaveCannotOpen(c) ==
    /\ ~Saving
    /\ \E failed, empty \in SUBSET Regions :
           /\ OpenFileFails(RegionOf[c], empty) /\ Flush(Dropped, failed, empty)
           /\ Lose(failed \cup empty)
    /\ reported' = reported \ {c}
    /\ UNCHANGED <<sector, op, saves>>

OpRegion == RegionOf[op.chunk]
OpPart(i) == [version |-> op.version, part |-> i, size |-> op.size]
WrittenTable == [table EXCEPT ![OpRegion][op.chunk] = [at |-> op.at, len |-> op.size]]

\* Sector s of the file is written, which may be the first one, the table's, when a Seek has
\* failed: what is there then is taken for an empty table.
Put(s, part) ==
    /\ sector' = [sector EXCEPT ![OpRegion] =
                      [q \in Sectors |-> IF q = s THEN part ELSE @[q]]]
    /\ diskTable' = IF s = 0 THEN [diskTable EXCEPT ![OpRegion] = NoTable(OpRegion)]
                    ELSE diskTable

\* A sector of the data reaches the file.  The last one may be lost, when the padding that is
\* written after it fails.
WriteSector ==
    /\ Saving /\ op.done < op.size
    /\ \/ Put(op.pos + op.done, OpPart(op.done + 1)) /\ UNCHANGED lost
       \/ op.done + 1 = op.size /\ Put(op.pos + op.done, Garbage) /\ Lose({OpRegion})
    /\ op' = [op EXCEPT !.done = @ + 1]
    /\ UNCHANGED <<files, opened, table, heldBack, saves, reported>>

\* The sector that was being written when a write failed, or the process died: as it was,
\* or spoiled.
SpoilSector ==
    \/ UNCHANGED <<sector, diskTable>>
    \/ op.done < op.size /\ Put(op.pos + op.done, Garbage)

\* Return before the table is touched: a write failed, or the chunk is too large.
DataNotSaved ==
    /\ Saving
    /\ \/ op.done < op.size /\ SpoilSector
       \/ op.done = op.size /\ op.size > MaxLen /\ UNCHANGED <<sector, diskTable>>
    /\ op' = NoOp
    /\ UNCHANGED <<files, opened, table, heldBack, saves, reported, lost>>

\* The table is changed in memory, written, and may be held back.
SaveTable ==
    /\ Saving /\ op.done = op.size /\ op.size <= MaxLen
    /\ table' = WrittenTable
    /\ \/ diskTable' = [diskTable EXCEPT ![OpRegion] = table'[OpRegion]] /\ UNCHANGED heldBack
       \/ heldBack' = heldBack \cup {OpRegion} /\ UNCHANGED diskTable
    /\ op' = NoOp
    /\ reported' = reported \cup {op.chunk}
    /\ UNCHANGED <<files, opened, sector, saves, lost>>

\* The table is changed in memory, and then Seek, which flushes the data, or the write of
\* the table or of the time stamps fails.
TableNotSaved ==
    /\ Saving /\ op.done = op.size /\ op.size <= MaxLen
    /\ table' = WrittenTable
    /\ \/ UNCHANGED <<sector, diskTable>>
       \/ Put(op.pos + op.size - 1, Garbage)
       \/ /\ diskTable' = [diskTable EXCEPT ![OpRegion] = table'[OpRegion]]
          /\ UNCHANGED sector
    /\ op' = NoOp
    /\ UNCHANGED <<files, opened, heldBack, saves, reported, lost>>

-----------------------------------------------------------------------------
\* The schema is destroyed after the storage thread has ended: all files are closed.
Stop ==
    /\ ~Saving /\ files # <<>>
    /\ files' = <<>> /\ opened' = {}
    /\ \E failed \in SUBSET Regions : Flush(Regions, failed, {}) /\ Lose(failed)
    /\ table' = [r \in Regions |-> NoTable(r)]
    /\ UNCHANGED <<sector, op, saves, reported>>

\* The process dies, and is started again.
Crash ==
    /\ files' = <<>> /\ opened' = {} /\ heldBack' = {}
    /\ SpoilSector
    /\ op' = NoOp
    /\ reported' = Chunks
    /\ table' = [r \in Regions |-> NoTable(r)]
    /\ UNCHANGED <<saves, lost>>

Next ==
    \/ \E c \in Chunks :
           \/ LoadChunk(c) \/ SaveCannotOpen(c)
           \/ c \in Saved /\ \E n \in Sizes : SetChunkData(c, n)
    \/ WriteSector \/ DataNotSaved \/ SaveTable \/ TableNotSaved
    \/ Stop \/ Crash

Spec == Init /\ [][Next]_vars

-----------------------------------------------------------------------------
(* Properties *)

Tables == {t \in [Regions -> UNION {[ChunksIn(r) -> Entries] : r \in Regions}] :
               \A r \in Regions : t[r] \in [ChunksIn(r) -> Entries]}

\* Types: the tables name the chunks of their region, only open files hold anything back, and
\* the file of the chunk that is being saved is open, with all it wrote before on the disk.
TypeOK ==
    /\ opened \subseteq Regions /\ heldBack \subseteq opened /\ lost \subseteq Regions
    /\ table \in Tables /\ diskTable \in Tables
    /\ sector \in [Regions -> [Sectors -> Parts]]
    /\ saves \in 0..MaxSaves /\ reported \subseteq Chunks
    /\ op \in [chunk : Chunks \cup {None}, version : 0..saves, size : Sizes \cup {0},
               at : 0..LastSector, pos : 0..LastSector, done : Nat]
    /\ Saving => /\ OpRegion \in opened \ heldBack
                 /\ op.at >= FirstSector /\ op.size >= 1 /\ op.done <= op.size
                 /\ op.at + op.size - 1 <= LastSector /\ op.pos + op.size - 1 <= LastSector

Run(e) == e.at..(e.at + e.len - 1)

\* No two chunks of a region share a sector: not by the table that an open file keeps in
\* memory, nor by the one a restart would read, whatever writes failed in between and were
\* noticed.
SectorsDisjointUnlessLost ==
    \A r \in Regions \ lost : \A c, d \in ChunksIn(r) :
        c # d => /\ Run(TableOf(r)[c]) \cap Run(TableOf(r)[d]) = {}
                 /\ Run(diskTable[r][c]) \cap Run(diskTable[r][d]) = {}

\* SetChunkData writes behind the table and where no other chunk is by the table in memory,
\* so that a save that is broken off hurts no chunk but its own; unless a failure went
\* unnoticed.
WritesOwnSectorsUnlessLost ==
    Saving /\ OpRegion \notin lost =>
        LET written == op.pos..(op.pos + op.size - 1)
        IN  /\ written \subseteq Sectors
            /\ \A d \in ChunksIn(OpRegion) \ {op.chunk} :
                   written \cap Run(table[OpRegion][d]) = {}

Now(c)  == GetChunkData(TableOf(RegionOf[c]), c)
Disk(c) == GetChunkData(diskTable[RegionOf[c]], c)

\* A crash takes back the last save of each region at most: every chunk reported saved
\* before it is on the disk, where m_IsDirty says it is; unless a failure went unnoticed.
OnlyLastSaveHeldBackUnlessLost ==
    \A c, d \in reported :
        /\ RegionOf[c] = RegionOf[d] /\ RegionOf[c] \notin lost
        /\ Now(c) # Disk(c) /\ Now(d) # Disk(d)
        => c = d

\* Refinement: moving chunks about, closing and opening files, failed writes and crashes
\* in the middle of them are a store in which only the chunk being saved changes; of the
\* chunks of a region in which a failure went unnoticed, the store promises nothing more.
Store == INSTANCE ChunkStore WITH
    now <- [c \in Chunks |-> Now(c)],
    disk <- [c \in Chunks |-> Disk(c)],
    busy <- op.chunk,
    lost <- {c \in Chunks : RegionOf[c] \in lost}

StorePromiseUnlessLost == Store!Spec
=============================================================================
