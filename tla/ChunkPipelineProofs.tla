------------------------- MODULE ChunkPipelineProofs -------------------------
(***************************************************************************)
(* Theorems about ChunkPipeline, for every value of its constants.         *)
(***************************************************************************)
EXTENDS ChunkPipeline, FiniteSetTheorems, TLAPS

USE DEF chunkVars, flagVars, holderVars, storageVars, generatorVars, dataVars, boundVars,
        doubtVars

-----------------------------------------------------------------------------
(* Type correctness *)

\* SaveAllChunks appends to the save queue a sequence of the chunks it chose.
LEMMA OrdersAreSequences ==
    ASSUME NEW S \in SUBSET Coords, NEW s \in Orders(S)
    PROVE  s \in Seq(Coords)
<1>1. IsFiniteSet(S)
    BY CoordsAssumption, FS_Subset
<1>2. Cardinality(S) \in Nat
    BY <1>1, FS_CardinalityType
<1>3. s \in [1 .. Cardinality(S) -> S]
    BY DEF Orders
<1> QED BY <1>2, <1>3

\* What GetChunk does to the chunk and to the load queue keeps their types.
LEMMA GetChunkTypes ==
    ASSUME TypeOK, NEW c \in Coords, GetChunk(c)
    PROVE  /\ presence' \in [Coords -> Presence]
           /\ stage' \in [Coords -> Stage]
           /\ loadQueue' \in Seq(Coords)
<1>1. presence \in [Coords -> Presence] /\ stage \in [Coords -> Stage]
    BY DEF TypeOK, ChunkTypes
<1>2. loadQueue \in Seq(Coords)
    BY DEF TypeOK, StorageTypes
<1>3. CASE ~IsValid(c) /\ ~IsQueued(c)
  <2>1. /\ presence' = [presence EXCEPT ![c] = "cpQueued"]
        /\ stage' = [stage EXCEPT ![c] = "load"]
        /\ loadQueue' = Append(loadQueue, c)
    BY <1>3 DEF GetChunk
  <2>2. "cpQueued" \in Presence /\ "load" \in Stage
    BY DEF Presence, Stage
  <2>3. presence' \in [Coords -> Presence]
    BY <1>1, <2>1, <2>2
  <2>4. stage' \in [Coords -> Stage]
    BY <1>1, <2>1, <2>2
  <2>5. loadQueue' \in Seq(Coords)
    BY <1>2, <2>1
  <2> QED BY <2>3, <2>4, <2>5
<1>4. CASE IsValid(c) \/ IsQueued(c)
    BY <1>1, <1>2, <1>4 DEF GetChunk
<1> QED BY <1>3, <1>4

\* What SetAllData makes of the chunk and of the data that came in is a content.
LEMMA SetAllDataType ==
    ASSUME NEW c \in Coords, NEW data \in Content, mem[c] \in Content
    PROVE  SetAllData(c, data) \in Content
<1>1. data.blocks \in Nat /\ data.mobs \cup mem[c].mobs \in SUBSET Mobs
    BY DEF Content
<1> QED BY <1>1 DEF SetAllData, Content

\* The initial state is well typed.
LEMMA TypeInit == Init => TypeOK
<1> SUFFICES ASSUME Init PROVE TypeOK
    OBVIOUS
<1> USE DEF Init, Content, Nothing, NotGenerated
<1>1. ChunkTypes
    BY DEF ChunkTypes, Presence, Stage
<1>2. HolderTypes
    BY DEF HolderTypes
<1>3. StorageTypes
    BY DEF StorageTypes, StorePc
<1>4. GeneratorTypes
  <2>1. genQueue \in Seq(Job)
    OBVIOUS
  <2>2. gnPc \in GenPc /\ gnSkip \in BOOLEAN
    BY DEF GenPc
  <2>3. gnItem \in IF gnPc = "idle" THEN {NoJob} ELSE Job
    OBVIOUS
  <2> QED BY <2>1, <2>2, <2>3 DEF GeneratorTypes
<1>5. DataTypes /\ CallTypes
    BY DEF DataTypes, CallTypes
<1> QED BY <1>1, <1>2, <1>3, <1>4, <1>5 DEF TypeOK

\* Every step keeps the types.
LEMMA TypeStep == TypeOK /\ [Next]_vars => TypeOK'
<1> SUFFICES ASSUME TypeOK, [Next]_vars PROVE TypeOK'
    OBVIOUS
<1> USE CoordsAssumption
<1>1. ASSUME NEW c \in Coords, NEW k \in Clients, AddChunkClient(c, k) PROVE TypeOK'
  <2>1. ChunkTypes'
    BY <1>1, GetChunkTypes DEF TypeOK, ChunkTypes, AddChunkClient
  <2>2. HolderTypes'
    BY <1>1 DEF TypeOK, HolderTypes, AddChunkClient
  <2>3. StorageTypes'
    BY <1>1, GetChunkTypes DEF TypeOK, StorageTypes, AddChunkClient
  <2>4. UNCHANGED <<genQueue, generatorVars, dataVars, boundVars, doubtVars>>
    BY <1>1 DEF AddChunkClient
  <2> QED BY <2>1, <2>2, <2>3, <2>4 DEF TypeOK, GeneratorTypes, DataTypes, CallTypes
<1>2. ASSUME NEW c \in Coords, NEW k \in Clients, RemoveChunkClient(c, k) PROVE TypeOK'
  <2>1. HolderTypes'
    BY <1>2 DEF TypeOK, HolderTypes, RemoveChunkClient
  <2>2. UNCHANGED <<presence, dirty, saving, mem, disk, stage, loadQueue, storageVars,
      genQueue, generatorVars, dataVars, boundVars, doubtVars>>
    BY <1>2 DEF RemoveChunkClient
  <2> QED BY <2>1, <2>2 DEF TypeOK, ChunkTypes, StorageTypes, GeneratorTypes, DataTypes,
      CallTypes
<1>3. ASSUME NEW k \in Clients, RemoveClientFromChunks(k) PROVE TypeOK'
  <2>1. HolderTypes'
    BY <1>3 DEF TypeOK, HolderTypes, RemoveClientFromChunks
  <2>2. UNCHANGED <<presence, dirty, saving, mem, disk, stage, loadQueue, storageVars,
      genQueue, generatorVars, dataVars, boundVars, doubtVars>>
    BY <1>3 DEF RemoveClientFromChunks
  <2> QED BY <2>1, <2>2 DEF TypeOK, ChunkTypes, StorageTypes, GeneratorTypes, DataTypes,
      CallTypes
<1>4. ASSUME NEW c \in Coords, GenerateChunk(c) PROVE TypeOK'
  <2>1. ChunkTypes'
    BY <1>4, GetChunkTypes DEF TypeOK, ChunkTypes, GenerateChunk
  <2>2. StorageTypes'
    BY <1>4, GetChunkTypes DEF TypeOK, StorageTypes, GenerateChunk
  <2>3. UNCHANGED <<holderVars, genQueue, generatorVars, dataVars, boundVars,
      doubtVars>>
    BY <1>4 DEF GenerateChunk
  <2> QED BY <2>1, <2>2, <2>3 DEF TypeOK, HolderTypes, GeneratorTypes, DataTypes,
      CallTypes
<1>5. ASSUME NEW c \in Coords, NEW on \in BOOLEAN, SetChunkAlwaysTicked(c, on) PROVE TypeOK'
  <2>1. ChunkTypes'
    BY <1>5, GetChunkTypes DEF TypeOK, ChunkTypes, SetChunkAlwaysTicked
  <2>2. HolderTypes'
    BY <1>5 DEF TypeOK, HolderTypes, SetChunkAlwaysTicked
  <2>3. StorageTypes'
    BY <1>5, GetChunkTypes DEF TypeOK, StorageTypes, SetChunkAlwaysTicked
  <2>4. UNCHANGED <<genQueue, generatorVars, dataVars, boundVars, doubtVars>>
    BY <1>5 DEF SetChunkAlwaysTicked
  <2> QED BY <2>1, <2>2, <2>3, <2>4 DEF TypeOK, GeneratorTypes, DataTypes, CallTypes
<1>6. ASSUME NEW c \in Coords, NEW m \in Mobs, AddEntity(c, m) PROVE TypeOK'
  <2>1. ChunkTypes'
    BY <1>6 DEF TypeOK, ChunkTypes, AddEntity, Presence, Stage, ConstructChunk,
        MarkDirty, WithMobs, Content
  <2>2. CallTypes'
    BY <1>6 DEF TypeOK, CallTypes, AddEntity
  <2>3. UNCHANGED <<holderVars, loadQueue, storageVars, genQueue, generatorVars,
      dataVars>>
    BY <1>6 DEF AddEntity
  <2> QED BY <2>1, <2>2, <2>3 DEF TypeOK, HolderTypes, StorageTypes, GeneratorTypes,
      DataTypes
<1>7. ASSUME NEW c \in Coords, NEW m \in Mobs, RemoveEntity(c, m) PROVE TypeOK'
  <2>1. ChunkTypes'
    BY <1>7 DEF TypeOK, ChunkTypes, RemoveEntity, Presence, Stage, MarkDirty, WithMobs,
        Content
  <2>2. CallTypes'
    BY <1>7 DEF TypeOK, CallTypes, RemoveEntity
  <2>3. UNCHANGED <<holderVars, loadQueue, storageVars, genQueue, generatorVars,
      dataVars>>
    BY <1>7 DEF RemoveEntity
  <2> QED BY <2>1, <2>2, <2>3 DEF TypeOK, HolderTypes, StorageTypes, GeneratorTypes,
      DataTypes
<1>8. ASSUME NEW c \in Coords, NEW p \in Players, AddPlayer(c, p) PROVE TypeOK'
  <2>1. ChunkTypes'
    BY <1>8 DEF TypeOK, ChunkTypes, AddPlayer, Presence, Stage, ConstructChunk
  <2>2. HolderTypes'
    BY <1>8 DEF TypeOK, HolderTypes, AddPlayer
  <2>3. UNCHANGED <<loadQueue, storageVars, genQueue, generatorVars, dataVars,
      boundVars, doubtVars>>
    BY <1>8 DEF AddPlayer
  <2> QED BY <2>1, <2>2, <2>3 DEF TypeOK, StorageTypes, GeneratorTypes, DataTypes,
      CallTypes
<1>9. ASSUME NEW c \in Coords, NEW p \in Players, RemovePlayer(c, p) PROVE TypeOK'
  <2>1. HolderTypes'
    BY <1>9 DEF TypeOK, HolderTypes, RemovePlayer
  <2>2. UNCHANGED <<presence, dirty, saving, mem, disk, stage, loadQueue, storageVars,
      genQueue, generatorVars, dataVars, boundVars, doubtVars>>
    BY <1>9 DEF RemovePlayer
  <2> QED BY <2>1, <2>2 DEF TypeOK, ChunkTypes, StorageTypes, GeneratorTypes, DataTypes,
      CallTypes
<1>10. ASSUME NEW c \in Coords, FastSetBlock(c) PROVE TypeOK'
  <2>1. ChunkTypes'
    BY <1>10 DEF TypeOK, ChunkTypes, FastSetBlock, Presence, Stage, MarkDirty,
        ChangeBlocks, NextVersion, Content, CallTypes
  <2>2. CallTypes'
    BY <1>10 DEF TypeOK, CallTypes, FastSetBlock, ChangeBlocks
  <2>3. UNCHANGED <<holderVars, loadQueue, storageVars, genQueue, generatorVars,
      dataVars>>
    BY <1>10 DEF FastSetBlock, ChangeBlocks
  <2> QED BY <2>1, <2>2, <2>3 DEF TypeOK, HolderTypes, StorageTypes, GeneratorTypes,
      DataTypes
<1>11. ASSUME NEW c \in Coords, ReplaceLiquid(c) PROVE TypeOK'
  <2>1. ChunkTypes'
    BY <1>11 DEF TypeOK, ChunkTypes, ReplaceLiquid, Presence, Stage, ChangeBlocks,
        NextVersion, Content, CallTypes
  <2>2. CallTypes'
    BY <1>11 DEF TypeOK, CallTypes, ReplaceLiquid, ChangeBlocks
  <2>3. UNCHANGED <<holderVars, loadQueue, storageVars, genQueue, generatorVars,
      dataVars>>
    BY <1>11 DEF ReplaceLiquid, ChangeBlocks
  <2> QED BY <2>1, <2>2, <2>3 DEF TypeOK, HolderTypes, StorageTypes, GeneratorTypes,
      DataTypes
<1>12. ASSUME NEW c \in Coords, TickBlockEntities(c) PROVE TypeOK'
  <2>1. ChunkTypes'
    BY <1>12 DEF TypeOK, ChunkTypes, TickBlockEntities, Presence, Stage, ChangeBlocks,
        NextVersion, Content, CallTypes
  <2>2. CallTypes'
    BY <1>12 DEF TypeOK, CallTypes, TickBlockEntities, ChangeBlocks
  <2>3. UNCHANGED <<holderVars, loadQueue, storageVars, genQueue, generatorVars,
      dataVars>>
    BY <1>12 DEF TickBlockEntities, ChangeBlocks
  <2> QED BY <2>1, <2>2, <2>3 DEF TypeOK, HolderTypes, StorageTypes, GeneratorTypes,
      DataTypes
<1>13. ASSUME TakeChunkDataSets PROVE TypeOK'
  <2>1. ChunkTypes'
    BY <1>13 DEF TypeOK, ChunkTypes, TakeChunkDataSets, Presence, Stage
  <2>2. DataTypes'
    BY <1>13 DEF TypeOK, DataTypes, TakeChunkDataSets
  <2>3. UNCHANGED <<holderVars, loadQueue, storageVars, genQueue, generatorVars,
      boundVars, doubtVars>>
    BY <1>13 DEF TakeChunkDataSets
  <2> QED BY <2>1, <2>2, <2>3 DEF TypeOK, HolderTypes, StorageTypes, GeneratorTypes,
      CallTypes
<1>14. ASSUME SetChunkData PROVE TypeOK'
  <2>1. ChunkTypes'
    <3>1. Head(setDataBatch) \in Data
      BY <1>14 DEF TypeOK, DataTypes, SetChunkData
    <3>2. PICK c \in Coords : /\ mem' =
                                     [mem EXCEPT ![c] = SetAllData(c, Head(setDataBatch).content)]
                             /\ presence' = [presence EXCEPT ![c] = "cpPresent"]
                             /\ stage' = [stage EXCEPT ![c] = "none"]
                             /\ UNCHANGED <<dirty, saving, disk>>
      BY <1>14, <3>1 DEF SetChunkData, Data
    <3>3. SetAllData(c, Head(setDataBatch).content) \in Content
      <4>1. mem[c] \in Content /\ Head(setDataBatch).content \in Content
        BY <3>1 DEF TypeOK, ChunkTypes, Data
      <4> QED BY <4>1, SetAllDataType
    <3> QED BY <1>14, <3>2, <3>3 DEF TypeOK, ChunkTypes, Presence, Stage
  <2>2. DataTypes'
    BY <1>14 DEF TypeOK, DataTypes, SetChunkData
  <2>3. UNCHANGED <<holderVars, loadQueue, storageVars, genQueue, generatorVars,
      boundVars, doubtVars>>
    BY <1>14 DEF SetChunkData
  <2> QED BY <2>1, <2>2, <2>3 DEF TypeOK, HolderTypes, StorageTypes, GeneratorTypes,
      CallTypes
<1>15. ASSUME UnloadUnusedChunks PROVE TypeOK'
  <2>1. ChunkTypes'
    BY <1>15 DEF TypeOK, ChunkTypes, UnloadUnusedChunks, Presence, Stage, Content,
        Nothing, NotGenerated
  <2>2. UNCHANGED <<holderVars, loadQueue, storageVars, genQueue, generatorVars,
      dataVars, boundVars, doubtVars>>
    BY <1>15 DEF UnloadUnusedChunks
  <2> QED BY <2>1, <2>2 DEF TypeOK, HolderTypes, StorageTypes, GeneratorTypes,
      DataTypes, CallTypes
<1>16. ASSUME SaveAllChunks PROVE TypeOK'
  <2>1. StorageTypes'
    <3>1. PICK order \in Orders({c \in Coords : NeedsSaving(c)}) : saveQueue' = saveQueue \o order
      BY <1>16 DEF SaveAllChunks
    <3>2. order \in Seq(Coords)
      BY <3>1, OrdersAreSequences
    <3> QED BY <1>16, <3>1, <3>2 DEF TypeOK, StorageTypes, SaveAllChunks
  <2>2. CallTypes'
    BY <1>16 DEF TypeOK, CallTypes, SaveAllChunks
  <2>3. UNCHANGED <<presence, dirty, saving, mem, disk, stage, holderVars, genQueue,
      generatorVars, dataVars>>
    BY <1>16 DEF SaveAllChunks
  <2> QED BY <2>1, <2>2, <2>3 DEF TypeOK, ChunkTypes, HolderTypes, GeneratorTypes, DataTypes
<1>17. ASSUME NEW c \in Coords, MarkChunkRegenerating(c) PROVE TypeOK'
  <2>1. ChunkTypes'
    BY <1>17 DEF TypeOK, ChunkTypes, MarkChunkRegenerating, Presence, Stage
  <2>2. CallTypes'
    BY <1>17 DEF TypeOK, CallTypes, MarkChunkRegenerating
  <2>3. UNCHANGED <<holderVars, loadQueue, storageVars, genQueue, generatorVars,
      dataVars>>
    BY <1>17 DEF MarkChunkRegenerating
  <2> QED BY <2>1, <2>2, <2>3 DEF TypeOK, HolderTypes, StorageTypes, GeneratorTypes,
      DataTypes
<1>18. ASSUME QueueRegeneration PROVE TypeOK'
  <2>1. ChunkTypes'
    BY <1>18 DEF TypeOK, ChunkTypes, QueueRegeneration, Presence, Stage, CallTypes,
        QueueGenerateChunk
  <2>2. GeneratorTypes'
    BY <1>18 DEF TypeOK, GeneratorTypes, QueueRegeneration, GenPc, CallTypes,
        QueueGenerateChunk, Job
  <2>3. CallTypes'
    BY <1>18 DEF TypeOK, CallTypes, QueueRegeneration
  <2>4. UNCHANGED <<holderVars, loadQueue, storageVars, dataVars>>
    BY <1>18 DEF QueueRegeneration
  <2> QED BY <2>1, <2>2, <2>3, <2>4 DEF TypeOK, HolderTypes, StorageTypes, DataTypes
<1>19. ASSUME LoadDequeue PROVE TypeOK'
  <2>1. ChunkTypes'
    BY <1>19 DEF TypeOK, ChunkTypes, LoadDequeue, Presence, Stage, StorageTypes
  <2>2. StorageTypes'
    BY <1>19 DEF TypeOK, StorageTypes, LoadDequeue, StorePc, StorageGoesTo
  <2>3. UNCHANGED <<holderVars, genQueue, generatorVars, dataVars, boundVars,
      doubtVars>>
    BY <1>19 DEF LoadDequeue
  <2> QED BY <2>1, <2>2, <2>3 DEF TypeOK, HolderTypes, GeneratorTypes, DataTypes,
      CallTypes
<1>20. ASSUME LoadNothing PROVE TypeOK'
  <2>1. StorageTypes'
    BY <1>20 DEF TypeOK, StorageTypes, LoadNothing, StorePc, StorageGoesTo
  <2>2. UNCHANGED <<presence, dirty, saving, mem, disk, stage, holderVars, genQueue,
      generatorVars, dataVars, boundVars, doubtVars>>
    BY <1>20 DEF LoadNothing
  <2> QED BY <2>1, <2>2 DEF TypeOK, ChunkTypes, HolderTypes, GeneratorTypes, DataTypes,
      CallTypes
<1>21. ASSUME LoadChunk PROVE TypeOK'
  <2>1. ChunkTypes'
    BY <1>21 DEF TypeOK, ChunkTypes, LoadChunk, Presence, Stage, StorageTypes,
        QueueSetChunkData
  <2>2. DataTypes'
    BY <1>21 DEF TypeOK, DataTypes, LoadChunk, StorageTypes, ChunkTypes,
        QueueSetChunkData, Data
  <2>3. StorageTypes'
    BY <1>21 DEF TypeOK, StorageTypes, LoadChunk, StorePc, StorageGoesTo
  <2>4. UNCHANGED <<holderVars, genQueue, generatorVars, boundVars, doubtVars>>
    BY <1>21 DEF LoadChunk
  <2> QED BY <2>1, <2>2, <2>3, <2>4 DEF TypeOK, HolderTypes, GeneratorTypes, CallTypes
<1>22. ASSUME LoadMisses PROVE TypeOK'
  <2>1. StorageTypes'
    BY <1>22 DEF TypeOK, StorageTypes, LoadMisses, StorePc, StorageGoesTo
  <2>2. UNCHANGED <<presence, dirty, saving, mem, disk, stage, holderVars, genQueue,
      generatorVars, dataVars, boundVars, doubtVars>>
    BY <1>22 DEF LoadMisses
  <2> QED BY <2>1, <2>2 DEF TypeOK, ChunkTypes, HolderTypes, GeneratorTypes, DataTypes,
      CallTypes
<1>23. ASSUME ChunkLoadFailed PROVE TypeOK'
  <2>1. ChunkTypes'
    BY <1>23 DEF TypeOK, ChunkTypes, ChunkLoadFailed, Presence, Stage, StorageTypes,
        MarkDirty, QueueGenerateChunk
  <2>2. StorageTypes'
    BY <1>23 DEF TypeOK, StorageTypes, ChunkLoadFailed, StorePc, StorageGoesTo
  <2>3. GeneratorTypes'
    BY <1>23 DEF TypeOK, GeneratorTypes, ChunkLoadFailed, GenPc, StorageTypes,
        QueueGenerateChunk, Job
  <2>4. UNCHANGED <<holderVars, dataVars, boundVars, doubtVars>>
    BY <1>23 DEF ChunkLoadFailed
  <2> QED BY <2>1, <2>2, <2>3, <2>4 DEF TypeOK, HolderTypes, DataTypes, CallTypes
<1>24. ASSUME SaveDequeue PROVE TypeOK'
  <2>1. StorageTypes'
    BY <1>24 DEF TypeOK, StorageTypes, SaveDequeue, StorePc, StorageGoesTo
  <2>2. UNCHANGED <<presence, dirty, saving, mem, disk, stage, holderVars, genQueue,
      generatorVars, dataVars, boundVars, doubtVars>>
    BY <1>24 DEF SaveDequeue
  <2> QED BY <2>1, <2>2 DEF TypeOK, ChunkTypes, HolderTypes, GeneratorTypes, DataTypes,
      CallTypes
<1>25. ASSUME SaveNothing PROVE TypeOK'
  <2>1. StorageTypes'
    BY <1>25 DEF TypeOK, StorageTypes, SaveNothing, StorePc, StorageGoesTo
  <2>2. UNCHANGED <<presence, dirty, saving, mem, disk, stage, holderVars, genQueue,
      generatorVars, dataVars, boundVars, doubtVars>>
    BY <1>25 DEF SaveNothing
  <2> QED BY <2>1, <2>2 DEF TypeOK, ChunkTypes, HolderTypes, GeneratorTypes, DataTypes,
      CallTypes
<1>26. ASSUME SaveCheckValid PROVE TypeOK'
  <2>1. StorageTypes'
    BY <1>26 DEF TypeOK, StorageTypes, SaveCheckValid, StorePc, StorageGoesTo
  <2>2. UNCHANGED <<presence, dirty, saving, mem, disk, stage, holderVars, genQueue,
      generatorVars, dataVars, boundVars, doubtVars>>
    BY <1>26 DEF SaveCheckValid
  <2> QED BY <2>1, <2>2 DEF TypeOK, ChunkTypes, HolderTypes, GeneratorTypes, DataTypes,
      CallTypes
<1>27. ASSUME MarkChunkSaving PROVE TypeOK'
  <2>1. ChunkTypes'
    BY <1>27 DEF TypeOK, ChunkTypes, MarkChunkSaving, Presence, Stage, StorageTypes
  <2>2. StorageTypes'
    BY <1>27 DEF TypeOK, StorageTypes, MarkChunkSaving, StorePc, StorageGoesTo
  <2>3. UNCHANGED <<holderVars, genQueue, generatorVars, dataVars, boundVars,
      doubtVars>>
    BY <1>27 DEF MarkChunkSaving
  <2> QED BY <2>1, <2>2, <2>3 DEF TypeOK, HolderTypes, GeneratorTypes, DataTypes,
      CallTypes
<1>28. ASSUME SaveSnapshot PROVE TypeOK'
  <2>1. StorageTypes'
    BY <1>28 DEF TypeOK, StorageTypes, SaveSnapshot, StorePc, StorageGoesTo, ChunkTypes,
        Content, Sectionless
  <2>2. UNCHANGED <<presence, dirty, saving, mem, disk, stage, holderVars, genQueue,
      generatorVars, dataVars, boundVars, doubtVars>>
    BY <1>28 DEF SaveSnapshot
  <2> QED BY <2>1, <2>2 DEF TypeOK, ChunkTypes, HolderTypes, GeneratorTypes, DataTypes,
      CallTypes
<1>29. ASSUME NEW c \in Coords, SaveWrite(c) PROVE TypeOK'
  <2>1. ChunkTypes'
    BY <1>29 DEF TypeOK, ChunkTypes, SaveWrite, Presence, Stage, StorageTypes
  <2>2. StorageTypes'
    BY <1>29 DEF TypeOK, StorageTypes, SaveWrite, StorePc, StorageGoesTo, Content,
        Nothing, NotGenerated
  <2>3. UNCHANGED <<holderVars, genQueue, generatorVars, dataVars, boundVars,
      doubtVars>>
    BY <1>29 DEF SaveWrite
  <2> QED BY <2>1, <2>2, <2>3 DEF TypeOK, HolderTypes, GeneratorTypes, DataTypes,
      CallTypes
<1>30. ASSUME SaveWriteFails PROVE TypeOK'
  <2>1. stPc' = "load" /\ stChunk' = None /\ stSnapshot' = Nothing /\ UNCHANGED saveQueue
    BY <1>30 DEF SaveWriteFails, StorageGoesTo
  <2>2. StorageTypes'
    BY <2>1, <1>30 DEF TypeOK, StorageTypes, SaveWriteFails, StorePc, Content, Nothing,
        NotGenerated
  <2>3. disk' \in [Coords -> Content]
    BY <1>30 DEF TypeOK, ChunkTypes, SaveWriteFails, Content, Nothing, NotGenerated
  <2>4. UNCHANGED <<presence, dirty, saving, mem, stage, holderVars, genQueue,
      generatorVars, dataVars, boundVars, doubtVars>>
    BY <1>30 DEF SaveWriteFails
  <2> QED BY <2>2, <2>3, <2>4 DEF TypeOK, ChunkTypes, HolderTypes, GeneratorTypes,
      DataTypes, CallTypes
<1>31. ASSUME MarkChunkSaved PROVE TypeOK'
  <2>1. ChunkTypes'
    BY <1>31 DEF TypeOK, ChunkTypes, MarkChunkSaved, Presence, Stage, StorageTypes
  <2>2. StorageTypes'
    BY <1>31 DEF TypeOK, StorageTypes, MarkChunkSaved, StorePc, StorageGoesTo
  <2>3. UNCHANGED <<holderVars, genQueue, generatorVars, dataVars, boundVars,
      doubtVars>>
    BY <1>31 DEF MarkChunkSaved
  <2> QED BY <2>1, <2>2, <2>3 DEF TypeOK, HolderTypes, GeneratorTypes, DataTypes,
      CallTypes
<1>32. ASSUME GenDequeue PROVE TypeOK'
  <2>1. ChunkTypes'
    BY <1>32 DEF TypeOK, ChunkTypes, GenDequeue, Presence, Stage, GeneratorTypes, Job
  <2>2. GeneratorTypes'
    BY <1>32 DEF TypeOK, GeneratorTypes, GenDequeue, GenPc, Overloaded
  <2>3. UNCHANGED <<holderVars, loadQueue, storageVars, dataVars, boundVars, doubtVars>>
    BY <1>32 DEF GenDequeue
  <2> QED BY <2>1, <2>2, <2>3 DEF TypeOK, HolderTypes, StorageTypes, DataTypes,
      CallTypes
<1>33. ASSUME GenCheckValid PROVE TypeOK'
  <2>1. GeneratorTypes'
    BY <1>33 DEF TypeOK, GeneratorTypes, GenCheckValid, GenPc, GeneratorRests
  <2>2. UNCHANGED <<presence, dirty, saving, mem, disk, stage, holderVars, loadQueue,
      storageVars, dataVars, boundVars, doubtVars>>
    BY <1>33 DEF GenCheckValid
  <2> QED BY <2>1, <2>2 DEF TypeOK, ChunkTypes, HolderTypes, StorageTypes, DataTypes,
      CallTypes
<1>34. ASSUME GenCheckClients PROVE TypeOK'
  <2>1. ChunkTypes'
    BY <1>34 DEF TypeOK, ChunkTypes, GenCheckClients, Presence, Stage, GeneratorTypes,
        Job
  <2>2. GeneratorTypes'
    BY <1>34 DEF TypeOK, GeneratorTypes, GenCheckClients, GenPc, GeneratorRests
  <2>3. UNCHANGED <<holderVars, loadQueue, storageVars, dataVars, boundVars, doubtVars>>
    BY <1>34 DEF GenCheckClients
  <2> QED BY <2>1, <2>2, <2>3 DEF TypeOK, HolderTypes, StorageTypes, DataTypes,
      CallTypes
<1>35. ASSUME DoGenerate PROVE TypeOK'
  <2>1. ChunkTypes'
    BY <1>35 DEF TypeOK, ChunkTypes, DoGenerate, Presence, Stage, GeneratorTypes,
        QueueSetChunkData, Job
  <2>2. DataTypes'
    BY <1>35 DEF TypeOK, DataTypes, DoGenerate, GeneratorTypes, QueueSetChunkData, Job,
        Data, Content, Generated
  <2>3. GeneratorTypes'
    BY <1>35 DEF TypeOK, GeneratorTypes, DoGenerate, GenPc, GeneratorRests
  <2>4. UNCHANGED <<holderVars, loadQueue, storageVars, boundVars, doubtVars>>
    BY <1>35 DEF DoGenerate
  <2> QED BY <2>1, <2>2, <2>3, <2>4 DEF TypeOK, HolderTypes, StorageTypes, CallTypes
<1>36. CASE UNCHANGED vars
  BY <1>36 DEF vars, TypeOK, ChunkTypes, HolderTypes, StorageTypes, GeneratorTypes,
     DataTypes, CallTypes
<1> QED BY <1>1, <1>2, <1>3, <1>4, <1>5, <1>6, <1>7, <1>8, <1>9, <1>10, <1>11, <1>12,
    <1>13, <1>14, <1>15, <1>16, <1>17, <1>18, <1>19, <1>20, <1>21, <1>22, <1>23, <1>24,
    <1>25, <1>26, <1>27, <1>28, <1>29, <1>30, <1>31, <1>32, <1>33, <1>34, <1>35, <1>36
    DEF Next, ClientSteps, EntitySteps, BlockSteps, DataSteps, RegenSteps, LoadSteps,
    SaveSteps, StorageSteps, GeneratorSteps

\* Type correctness: every queue holds chunks of this world or jobs on them, and the
\* threads' local variables are set exactly while they work on a chunk.
THEOREM TypeCorrect == Spec => []TypeOK
BY TypeInit, TypeStep, PTL DEF Spec

-----------------------------------------------------------------------------
(* A chunk is worked on once at a time.  The history variable stage names    *)
(* the one place where the work on a chunk is; the invariant says that every *)
(* queue and every thread agrees with it, and that a chunk is queued exactly *)
(* while its stage is not "none".                                            *)

\* A chunk waits once for loading, for generation, for the tick thread, ...
LoadsFollow ==
    \A i \in 1 .. Len(loadQueue) : loadQueue[i] \notin regenerated =>
        /\ stage[loadQueue[i]] = "load"
        /\ \A j \in 1 .. Len(loadQueue) : loadQueue[j] = loadQueue[i] => j = i

GensFollow ==
    \A i \in 1 .. Len(genQueue) : genQueue[i].coords \notin regenerated =>
        /\ stage[genQueue[i].coords] = "generate"
        /\ \A j \in 1 .. Len(genQueue) : genQueue[j].coords = genQueue[i].coords => j = i

DataFollows ==
    \A i \in 1 .. Len(setDataQueue) : setDataQueue[i].coords \notin regenerated =>
        /\ stage[setDataQueue[i].coords] = "data"
        /\ \A j \in 1 .. Len(setDataQueue) :
              setDataQueue[j].coords = setDataQueue[i].coords => j = i

BatchFollows ==
    \A i \in 1 .. Len(setDataBatch) : setDataBatch[i].coords \notin regenerated =>
        /\ stage[setDataBatch[i].coords] = "batch"
        /\ \A j \in 1 .. Len(setDataBatch) :
              setDataBatch[j].coords = setDataBatch[i].coords => j = i

\* ... or is being loaded, or generated, ...
LoadingFollows ==
    stPc \in {"loading", "loadFailed"} /\ stChunk \notin regenerated =>
        stage[stChunk] = "loading"

GeneratingFollows ==
    gnPc # "idle" /\ gnItem.coords \notin regenerated =>
        stage[gnItem.coords] = "generating"

\* ... and is queued all that time, and only then.
QueuedFollows == \A c \in Coords \ regenerated : IsQueued(c) <=> stage[c] # "none"

\* A chunk whose regeneration is under way counts as regenerated.
CallFollows == regenCall # None => regenCall \in regenerated

\* The inductive invariant.
StageInv ==
    /\ LoadsFollow /\ GensFollow /\ DataFollows /\ BatchFollows
    /\ LoadingFollows /\ GeneratingFollows /\ QueuedFollows /\ CallFollows

\* Initially nothing is worked on.
LEMMA StageInit == Init => StageInv
BY DEF Init, StageInv, LoadsFollow, GensFollow, DataFollows, BatchFollows, LoadingFollows,
       GeneratingFollows, QueuedFollows, CallFollows, IsQueued

\* A step that moves no chunk to another place, and queues or drops none.
Quiet ==
    /\ UNCHANGED <<loadQueue, genQueue, setDataQueue, setDataBatch, stage>>
    /\ stPc' \in {"loading", "loadFailed"} =>
          stPc \in {"loading", "loadFailed"} /\ stChunk' = stChunk
    /\ gnPc' # "idle" => gnPc # "idle" /\ gnItem' = gnItem
    /\ regenerated \subseteq regenerated'
    /\ regenCall' # None => regenCall' \in regenerated'
    /\ \A c \in Coords \ regenerated' : IsQueued(c)' <=> IsQueued(c)

\* Such a step keeps the invariant.
LEMMA QuietStep == StageInv /\ Quiet => StageInv'
<1> SUFFICES ASSUME StageInv, Quiet PROVE StageInv'
    OBVIOUS
<1>1. LoadsFollow' /\ GensFollow'
    BY DEF StageInv, Quiet, LoadsFollow, GensFollow
<1>2. DataFollows' /\ BatchFollows'
    BY DEF StageInv, Quiet, DataFollows, BatchFollows
<1>3. LoadingFollows' /\ GeneratingFollows'
    BY DEF StageInv, Quiet, LoadingFollows, GeneratingFollows
<1>4. QueuedFollows'
    BY DEF StageInv, Quiet, QueuedFollows
<1>5. CallFollows'
    BY DEF Quiet, CallFollows
<1> QED BY <1>1, <1>2, <1>3, <1>4, <1>5 DEF StageInv

\* A step that takes the work on c from one place to another.
Moved(c, from, to) ==
    /\ UNCHANGED regenerated
    /\ c \notin regenerated => stage[c] = from
    /\ stage' = [stage EXCEPT ![c] = to]

\* The load queue, where such a step leaves it alone, appends c, or removes it.
LEMMA MoveLoads ==
    ASSUME TypeOK, StageInv, NEW c \in Coords, NEW from, NEW to, Moved(c, from, to)
    PROVE  /\ from # "load" /\ UNCHANGED loadQueue => LoadsFollow'
           /\ /\ from # "load" /\ to = "load"
              /\ loadQueue' = Append(loadQueue, c)
              => LoadsFollow'
           /\ /\ loadQueue # << >> /\ c = Head(loadQueue)
              /\ loadQueue' = Tail(loadQueue)
              => LoadsFollow'
<1>1. LoadsFollow /\ stage \in [Coords -> Stage]
    BY DEF StageInv, TypeOK, ChunkTypes
<1>2. loadQueue \in Seq(Coords)
    BY DEF TypeOK, StorageTypes
<1>3. \A i \in 1 .. Len(loadQueue) : loadQueue[i] \in Coords
    BY <1>2
<1>4. ASSUME from # "load", UNCHANGED loadQueue PROVE LoadsFollow'
    BY <1>1, <1>3, <1>4 DEF LoadsFollow, Moved
<1>5. ASSUME from # "load", to = "load",
             loadQueue' = Append(loadQueue, c)
      PROVE  LoadsFollow'
  <2>1. /\ Len(loadQueue') = Len(loadQueue) + 1
        /\ loadQueue'[Len(loadQueue) + 1] = c
        /\ \A i \in 1 .. Len(loadQueue) : loadQueue'[i] = loadQueue[i]
    BY <1>2, <1>5
  <2> QED BY <1>1, <1>2, <1>3, <1>5, <2>1 DEF LoadsFollow, Moved
<1>6. ASSUME loadQueue # << >>, c = Head(loadQueue), loadQueue' = Tail(loadQueue)
      PROVE  LoadsFollow'
  <2>1. /\ Len(loadQueue) >= 1 /\ Len(loadQueue') = Len(loadQueue) - 1
        /\ c = loadQueue[1]
        /\ \A i \in 1 .. Len(loadQueue') : loadQueue'[i] = loadQueue[i + 1]
    BY <1>2, <1>6
  <2>2. ASSUME NEW i \in 1 .. Len(loadQueue'), loadQueue'[i] \notin regenerated'
        PROVE  /\ stage'[loadQueue'[i]] = "load"
               /\ \A j \in 1 .. Len(loadQueue') :
                     loadQueue'[j] = loadQueue'[i] => j = i
    <3>1. /\ i + 1 \in 1 .. Len(loadQueue) /\ 1 \in 1 .. Len(loadQueue)
          /\ loadQueue'[i] = loadQueue[i + 1]
      BY <1>2, <2>1
    <3>2. loadQueue[i + 1] # c
      BY <1>1, <2>1, <2>2, <3>1 DEF LoadsFollow, Moved
    <3>3. stage'[loadQueue'[i]] = "load"
      BY <1>1, <1>3, <2>2, <3>1, <3>2 DEF LoadsFollow, Moved
    <3>4. ASSUME NEW j \in 1 .. Len(loadQueue'), loadQueue'[j] = loadQueue'[i] PROVE j = i
      <4>1. j + 1 \in 1 .. Len(loadQueue) /\ loadQueue'[j] = loadQueue[j + 1]
        BY <1>2, <2>1
      <4>2. j + 1 = i + 1
        BY <1>1, <2>2, <3>1, <3>4, <4>1 DEF LoadsFollow, Moved
      <4> QED BY <4>2
    <3> QED BY <3>3, <3>4
  <2> QED BY <2>2 DEF LoadsFollow
<1> QED BY <1>4, <1>5, <1>6

\* The same for the generator's queue ...
LEMMA MoveGens ==
    ASSUME TypeOK, StageInv, NEW c \in Coords, NEW from, NEW to, Moved(c, from, to)
    PROVE  /\ from # "generate" /\ UNCHANGED genQueue => GensFollow'
           /\ /\ from # "generate" /\ to = "generate"
              /\ (\E f \in BOOLEAN : genQueue' = Append(genQueue, [coords |-> c, force |-> f]))
              => GensFollow'
           /\ /\ genQueue # << >> /\ c = Head(genQueue).coords
              /\ genQueue' = Tail(genQueue)
              => GensFollow'
<1>1. GensFollow /\ stage \in [Coords -> Stage]
    BY DEF StageInv, TypeOK, ChunkTypes
<1>2. genQueue \in Seq(Job)
    BY DEF TypeOK, GeneratorTypes
<1>3. \A i \in 1 .. Len(genQueue) : genQueue[i].coords \in Coords
  <2>1. \A i \in 1 .. Len(genQueue) : genQueue[i] \in Job
    BY <1>2
  <2>2. \A e \in Job : e.coords \in Coords
    BY DEF Job
  <2> QED BY <2>1, <2>2
<1>4. ASSUME from # "generate", UNCHANGED genQueue PROVE GensFollow'
    BY <1>1, <1>3, <1>4 DEF GensFollow, Moved
<1>5. ASSUME from # "generate", to = "generate",
             (\E f \in BOOLEAN : genQueue' = Append(genQueue, [coords |-> c, force |-> f]))
      PROVE  GensFollow'
  <2>1. /\ Len(genQueue') = Len(genQueue) + 1
        /\ genQueue'[Len(genQueue) + 1].coords = c
        /\ \A i \in 1 .. Len(genQueue) : genQueue'[i] = genQueue[i]
    BY <1>2, <1>5 DEF Job
  <2> QED BY <1>1, <1>2, <1>3, <1>5, <2>1 DEF GensFollow, Moved
<1>6. ASSUME genQueue # << >>, c = Head(genQueue).coords, genQueue' = Tail(genQueue)
      PROVE  GensFollow'
  <2>1. /\ Len(genQueue) >= 1 /\ Len(genQueue') = Len(genQueue) - 1
        /\ c = genQueue[1].coords
        /\ \A i \in 1 .. Len(genQueue') : genQueue'[i] = genQueue[i + 1]
    BY <1>2, <1>6
  <2>2. ASSUME NEW i \in 1 .. Len(genQueue'), genQueue'[i].coords \notin regenerated'
        PROVE  /\ stage'[genQueue'[i].coords] = "generate"
               /\ \A j \in 1 .. Len(genQueue') :
                     genQueue'[j].coords = genQueue'[i].coords => j = i
    <3>1. /\ i + 1 \in 1 .. Len(genQueue) /\ 1 \in 1 .. Len(genQueue)
          /\ genQueue'[i] = genQueue[i + 1]
      BY <1>2, <2>1
    <3>2. genQueue[i + 1].coords # c
      BY <1>1, <2>1, <2>2, <3>1 DEF GensFollow, Moved
    <3>3. stage'[genQueue'[i].coords] = "generate"
      BY <1>1, <1>3, <2>2, <3>1, <3>2 DEF GensFollow, Moved
    <3>4. ASSUME NEW j \in 1 .. Len(genQueue'), genQueue'[j].coords = genQueue'[i].coords
          PROVE  j = i
      <4>1. j + 1 \in 1 .. Len(genQueue) /\ genQueue'[j] = genQueue[j + 1]
        BY <1>2, <2>1
      <4>2. j + 1 = i + 1
        BY <1>1, <2>2, <3>1, <3>4, <4>1 DEF GensFollow, Moved
      <4> QED BY <4>2
    <3> QED BY <3>3, <3>4
  <2> QED BY <2>2 DEF GensFollow
<1> QED BY <1>4, <1>5, <1>6

\* ... for the queue of data ...
LEMMA MoveData ==
    ASSUME TypeOK, StageInv, NEW c \in Coords, NEW from, NEW to, Moved(c, from, to)
    PROVE  /\ from # "data" /\ UNCHANGED setDataQueue => DataFollows'
           /\ /\ from # "data" /\ to = "data"
              /\ (\E x \in Content :
                     setDataQueue' = Append(setDataQueue, [coords |-> c, content |-> x]))
              => DataFollows'
<1>1. DataFollows /\ stage \in [Coords -> Stage]
    BY DEF StageInv, TypeOK, ChunkTypes
<1>2. setDataQueue \in Seq(Data)
    BY DEF TypeOK, DataTypes
<1>3. \A i \in 1 .. Len(setDataQueue) : setDataQueue[i].coords \in Coords
  <2>1. \A i \in 1 .. Len(setDataQueue) : setDataQueue[i] \in Data
    BY <1>2
  <2>2. \A e \in Data : e.coords \in Coords
    BY DEF Data
  <2> QED BY <2>1, <2>2
<1>4. ASSUME from # "data", UNCHANGED setDataQueue PROVE DataFollows'
    BY <1>1, <1>3, <1>4 DEF DataFollows, Moved
<1>5. ASSUME from # "data", to = "data",
             (\E x \in Content :
                 setDataQueue' = Append(setDataQueue, [coords |-> c, content |-> x]))
      PROVE  DataFollows'
  <2>1. /\ Len(setDataQueue') = Len(setDataQueue) + 1
        /\ setDataQueue'[Len(setDataQueue) + 1].coords = c
        /\ \A i \in 1 .. Len(setDataQueue) : setDataQueue'[i] = setDataQueue[i]
    BY <1>2, <1>5 DEF Data
  <2> QED BY <1>1, <1>2, <1>3, <1>5, <2>1 DEF DataFollows, Moved
<1> QED BY <1>4, <1>5

\* ... and for the batch taken from it.
LEMMA MoveBatch ==
    ASSUME TypeOK, StageInv, NEW c \in Coords, NEW from, NEW to, Moved(c, from, to)
    PROVE  /\ from # "batch" /\ UNCHANGED setDataBatch => BatchFollows'
           /\ /\ setDataBatch # << >> /\ c = Head(setDataBatch).coords
              /\ setDataBatch' = Tail(setDataBatch)
              => BatchFollows'
<1>1. BatchFollows /\ stage \in [Coords -> Stage]
    BY DEF StageInv, TypeOK, ChunkTypes
<1>2. setDataBatch \in Seq(Data)
    BY DEF TypeOK, DataTypes
<1>3. \A i \in 1 .. Len(setDataBatch) : setDataBatch[i].coords \in Coords
  <2>1. \A i \in 1 .. Len(setDataBatch) : setDataBatch[i] \in Data
    BY <1>2
  <2>2. \A e \in Data : e.coords \in Coords
    BY DEF Data
  <2> QED BY <2>1, <2>2
<1>4. ASSUME from # "batch", UNCHANGED setDataBatch PROVE BatchFollows'
    BY <1>1, <1>3, <1>4 DEF BatchFollows, Moved
<1>5. ASSUME setDataBatch # << >>, c = Head(setDataBatch).coords, setDataBatch' = Tail(setDataBatch)
      PROVE  BatchFollows'
  <2>1. /\ Len(setDataBatch) >= 1 /\ Len(setDataBatch') = Len(setDataBatch) - 1
        /\ c = setDataBatch[1].coords
        /\ \A i \in 1 .. Len(setDataBatch') : setDataBatch'[i] = setDataBatch[i + 1]
    BY <1>2, <1>5
  <2>2. ASSUME NEW i \in 1 .. Len(setDataBatch'), setDataBatch'[i].coords \notin regenerated'
        PROVE  /\ stage'[setDataBatch'[i].coords] = "batch"
               /\ \A j \in 1 .. Len(setDataBatch') :
                     setDataBatch'[j].coords = setDataBatch'[i].coords => j = i
    <3>1. /\ i + 1 \in 1 .. Len(setDataBatch) /\ 1 \in 1 .. Len(setDataBatch)
          /\ setDataBatch'[i] = setDataBatch[i + 1]
      BY <1>2, <2>1
    <3>2. setDataBatch[i + 1].coords # c
      BY <1>1, <2>1, <2>2, <3>1 DEF BatchFollows, Moved
    <3>3. stage'[setDataBatch'[i].coords] = "batch"
      BY <1>1, <1>3, <2>2, <3>1, <3>2 DEF BatchFollows, Moved
    <3>4. ASSUME NEW j \in 1 .. Len(setDataBatch'),
                 setDataBatch'[j].coords = setDataBatch'[i].coords
          PROVE  j = i
      <4>1. j + 1 \in 1 .. Len(setDataBatch) /\ setDataBatch'[j] = setDataBatch[j + 1]
        BY <1>2, <2>1
      <4>2. j + 1 = i + 1
        BY <1>1, <2>2, <3>1, <3>4, <4>1 DEF BatchFollows, Moved
      <4> QED BY <4>2
    <3> QED BY <3>3, <3>4
  <2> QED BY <2>2 DEF BatchFollows
<1> QED BY <1>4, <1>5

\* The two threads' own chunks, where such a step leaves them alone.
LEMMA MoveThreads ==
    ASSUME TypeOK, StageInv, NEW c \in Coords, NEW from, NEW to, Moved(c, from, to)
    PROVE  /\ from # "loading" /\ UNCHANGED <<stPc, stChunk>> => LoadingFollows'
           /\ from # "generating" /\ UNCHANGED <<gnPc, gnItem>> => GeneratingFollows'
<1>1. LoadingFollows /\ GeneratingFollows /\ stage \in [Coords -> Stage]
    BY DEF StageInv, TypeOK, ChunkTypes
<1>2. stPc \in {"loading", "loadFailed"} => stChunk \in Coords
    BY DEF TypeOK, StorageTypes
<1>3. gnPc # "idle" => gnItem.coords \in Coords
    BY DEF TypeOK, GeneratorTypes, Job
<1>4. ASSUME from # "loading", UNCHANGED <<stPc, stChunk>> PROVE LoadingFollows'
    BY <1>1, <1>2, <1>4 DEF LoadingFollows, Moved
<1>5. ASSUME from # "generating", UNCHANGED <<gnPc, gnItem>> PROVE GeneratingFollows'
    BY <1>1, <1>3, <1>5 DEF GeneratingFollows, Moved
<1> QED BY <1>4, <1>5

\* Such a step between two places queues and drops no chunk.
LEMMA MoveQueued ==
    ASSUME TypeOK, StageInv, NEW c \in Coords, NEW from, NEW to, Moved(c, from, to),
           from # "none", to # "none", UNCHANGED presence
    PROVE  QueuedFollows'
<1>1. QueuedFollows /\ stage \in [Coords -> Stage]
    BY DEF StageInv, TypeOK, ChunkTypes
<1> QED BY <1>1 DEF QueuedFollows, Moved, IsQueued

\* A regeneration under way, where a step leaves it alone.
LEMMA CallKept == StageInv /\ UNCHANGED <<regenCall, regenerated>> => CallFollows'
BY DEF StageInv, CallFollows

\* What GetChunk does to a chunk keeps the invariant, where nothing else is moved.
LEMMA GetChunkMoves ==
    ASSUME TypeOK, StageInv, NEW c \in Coords, GetChunk(c),
           UNCHANGED <<genQueue, gnPc, gnItem, dataVars, stPc, stChunk, doubtVars>>
    PROVE  StageInv'
<1>1. presence \in [Coords -> Presence] /\ QueuedFollows
    BY DEF TypeOK, ChunkTypes, StageInv
<1>2. CASE IsValid(c) \/ IsQueued(c)
  <2>1. UNCHANGED <<presence, loadQueue, stage>>
    BY <1>2 DEF GetChunk
  <2>2. Quiet
    BY <2>1 DEF Quiet, IsQueued, StageInv, CallFollows
  <2> QED BY <2>2, QuietStep
<1>3. CASE ~IsValid(c) /\ ~IsQueued(c)
  <2>1. /\ presence' = [presence EXCEPT ![c] = "cpQueued"]
        /\ loadQueue' = Append(loadQueue, c)
        /\ stage' = [stage EXCEPT ![c] = "load"]
    BY <1>3 DEF GetChunk
  <2>2. Moved(c, "none", "load")
    BY <1>1, <1>3, <2>1 DEF Moved, QueuedFollows
  <2>3. LoadsFollow' /\ GensFollow' /\ DataFollows' /\ BatchFollows'
    BY <2>1, <2>2, MoveLoads, MoveGens, MoveData, MoveBatch
  <2>4. LoadingFollows' /\ GeneratingFollows'
    BY <2>2, MoveThreads
  <2>5. QueuedFollows'
    BY <1>1, <2>1 DEF QueuedFollows, IsQueued, StageInv, TypeOK, ChunkTypes
  <2>6. CallFollows'
    BY CallKept
  <2> QED BY <2>3, <2>4, <2>5, <2>6 DEF StageInv
<1> QED BY <1>2, <1>3

\* Every step keeps the invariant.
LEMMA StageStep == TypeOK /\ StageInv /\ [Next]_vars => StageInv'
<1> SUFFICES ASSUME TypeOK, StageInv, [Next]_vars PROVE StageInv'
    OBVIOUS
<1> USE CoordsAssumption
<1>1. ASSUME NEW c \in Coords, NEW k \in Clients, AddChunkClient(c, k) PROVE StageInv'
    BY <1>1, GetChunkMoves DEF AddChunkClient
<1>2. ASSUME NEW c \in Coords, NEW k \in Clients, RemoveChunkClient(c, k) PROVE StageInv'
  <2>1. Quiet
    BY <1>2 DEF RemoveChunkClient, Quiet, IsQueued, CallFollows, StageInv
  <2> QED BY <2>1, QuietStep
<1>3. ASSUME NEW k \in Clients, RemoveClientFromChunks(k) PROVE StageInv'
  <2>1. Quiet
    BY <1>3 DEF RemoveClientFromChunks, Quiet, IsQueued, CallFollows, StageInv
  <2> QED BY <2>1, QuietStep
<1>4. ASSUME NEW c \in Coords, GenerateChunk(c) PROVE StageInv'
    BY <1>4, GetChunkMoves DEF GenerateChunk
<1>5. ASSUME NEW c \in Coords, NEW on \in BOOLEAN, SetChunkAlwaysTicked(c, on) PROVE StageInv'
    BY <1>5, GetChunkMoves DEF SetChunkAlwaysTicked
<1>6. ASSUME NEW c \in Coords, NEW m \in Mobs, AddEntity(c, m) PROVE StageInv'
  <2>1. Quiet
    BY <1>6 DEF AddEntity, Quiet, IsQueued, CallFollows, StageInv, ConstructChunk, Exists,
        TypeOK, ChunkTypes
  <2> QED BY <2>1, QuietStep
<1>7. ASSUME NEW c \in Coords, NEW m \in Mobs, RemoveEntity(c, m) PROVE StageInv'
  <2>1. Quiet
    BY <1>7 DEF RemoveEntity, Quiet, IsQueued, CallFollows, StageInv
  <2> QED BY <2>1, QuietStep
<1>8. ASSUME NEW c \in Coords, NEW p \in Players, AddPlayer(c, p) PROVE StageInv'
  <2>1. Quiet
    BY <1>8 DEF AddPlayer, Quiet, IsQueued, CallFollows, StageInv, ConstructChunk, Exists,
        TypeOK, ChunkTypes
  <2> QED BY <2>1, QuietStep
<1>9. ASSUME NEW c \in Coords, NEW p \in Players, RemovePlayer(c, p) PROVE StageInv'
  <2>1. Quiet
    BY <1>9 DEF RemovePlayer, Quiet, IsQueued, CallFollows, StageInv
  <2> QED BY <2>1, QuietStep
<1>10. ASSUME NEW c \in Coords, FastSetBlock(c) PROVE StageInv'
  <2>1. Quiet
    BY <1>10 DEF FastSetBlock, Quiet, IsQueued, CallFollows, StageInv, ChangeBlocks
  <2> QED BY <2>1, QuietStep
<1>11. ASSUME NEW c \in Coords, ReplaceLiquid(c) PROVE StageInv'
  <2>1. Quiet
    BY <1>11 DEF ReplaceLiquid, Quiet, IsQueued, CallFollows, StageInv, ChangeBlocks
  <2> QED BY <2>1, QuietStep
<1>12. ASSUME NEW c \in Coords, TickBlockEntities(c) PROVE StageInv'
  <2>1. Quiet
    BY <1>12 DEF TickBlockEntities, Quiet, IsQueued, CallFollows, StageInv, ChangeBlocks
  <2> QED BY <2>1, QuietStep
<1>13. ASSUME TakeChunkDataSets PROVE StageInv'
  <2>1. /\ setDataBatch = << >> /\ setDataBatch' = setDataQueue /\ setDataQueue' = << >>
        /\ stage' = [c \in Coords |-> IF stage[c] = "data" THEN "batch" ELSE stage[c]]
        /\ UNCHANGED <<presence, loadQueue, stPc, stChunk, genQueue, gnPc, gnItem, doubtVars>>
    BY <1>13 DEF TakeChunkDataSets, TickThreadFree
  <2>2. loadQueue \in Seq(Coords) /\ genQueue \in Seq(Job) /\ setDataQueue \in Seq(Data)
    BY DEF TypeOK, StorageTypes, GeneratorTypes, DataTypes
  <2>3. LoadsFollow'
    <3>1. \A i \in 1 .. Len(loadQueue) : loadQueue[i] \in Coords
      BY <2>2
    <3> QED BY <2>1, <3>1 DEF StageInv, LoadsFollow
  <2>4. GensFollow'
    <3>1. \A i \in 1 .. Len(genQueue) : genQueue[i] \in Job
      BY <2>2
    <3>2. \A e \in Job : e.coords \in Coords
      BY DEF Job
    <3>3. \A i \in 1 .. Len(genQueue) : genQueue[i].coords \in Coords
      BY <3>1, <3>2
    <3> QED BY <2>1, <3>3 DEF StageInv, GensFollow
  <2>5. DataFollows' /\ BatchFollows'
    <3>1. \A i \in 1 .. Len(setDataQueue) : setDataQueue[i] \in Data
      BY <2>2
    <3>2. \A e \in Data : e.coords \in Coords
      BY DEF Data
    <3>3. \A i \in 1 .. Len(setDataQueue) : setDataQueue[i].coords \in Coords
      BY <3>1, <3>2
    <3>4. BatchFollows'
      BY <2>1, <3>3 DEF StageInv, DataFollows, BatchFollows
    <3>5. DataFollows'
      BY <2>1 DEF DataFollows
    <3> QED BY <3>4, <3>5
  <2>6. LoadingFollows' /\ GeneratingFollows'
    <3>1. stPc \in {"loading", "loadFailed"} => stChunk \in Coords
      BY DEF TypeOK, StorageTypes
    <3>2. gnPc # "idle" => gnItem.coords \in Coords
      BY DEF TypeOK, GeneratorTypes, Job
    <3> QED BY <2>1, <3>1, <3>2 DEF StageInv, LoadingFollows, GeneratingFollows
  <2>7. QueuedFollows' /\ CallFollows'
    BY <2>1, CallKept DEF StageInv, QueuedFollows, IsQueued
  <2> QED BY <2>3, <2>4, <2>5, <2>6, <2>7 DEF StageInv
<1>14. ASSUME SetChunkData PROVE StageInv'
  <2> DEFINE c == Head(setDataBatch).coords
  <2>1. c \in Coords
    <3>1. Head(setDataBatch) \in Data
      BY <1>14 DEF TypeOK, DataTypes, SetChunkData
    <3> QED BY <3>1 DEF Data
  <2>2. /\ c = Head(setDataBatch).coords /\ setDataBatch # << >>
        /\ setDataBatch' = Tail(setDataBatch)
        /\ presence' = [presence EXCEPT ![c] = "cpPresent"]
        /\ stage' = [stage EXCEPT ![c] = "none"]
        /\ UNCHANGED <<loadQueue, stPc, stChunk, genQueue, gnPc, gnItem, setDataQueue, doubtVars>>
    BY <1>14 DEF SetChunkData
  <2>3. Moved(c, "batch", "none")
    <3>1. c = setDataBatch[1].coords /\ Len(setDataBatch) >= 1
      BY <2>2 DEF TypeOK, DataTypes
    <3> QED BY <2>2, <3>1 DEF Moved, StageInv, BatchFollows
  <2> HIDE DEF c
  <2>4. LoadsFollow' /\ GensFollow'
    BY <2>1, <2>2, <2>3, MoveLoads, MoveGens
  <2>5. DataFollows' /\ BatchFollows'
    BY <2>1, <2>2, <2>3, MoveData, MoveBatch
  <2>6. LoadingFollows' /\ GeneratingFollows'
    BY <2>1, <2>2, <2>3, MoveThreads DEF LoadingFollows, GeneratingFollows
  <2>7. QueuedFollows'
    BY <2>1, <2>2 DEF QueuedFollows, IsQueued, StageInv, TypeOK, ChunkTypes
  <2>8. CallFollows'
    BY <2>2, CallKept
  <2> QED BY <2>4, <2>5, <2>6, <2>7, <2>8 DEF StageInv
<1>15. ASSUME UnloadUnusedChunks PROVE StageInv'
  <2>1. Quiet
    BY <1>15 DEF UnloadUnusedChunks, Quiet, IsQueued, CallFollows, StageInv, CanUnload,
        TypeOK, ChunkTypes
  <2> QED BY <2>1, QuietStep
<1>16. ASSUME SaveAllChunks PROVE StageInv'
  <2>1. Quiet
    BY <1>16 DEF SaveAllChunks, Quiet, IsQueued, CallFollows, StageInv
  <2> QED BY <2>1, QuietStep
<1>17. ASSUME NEW c \in Coords, MarkChunkRegenerating(c) PROVE StageInv'
  <2>1. Quiet
    BY <1>17 DEF MarkChunkRegenerating, Quiet, IsQueued, CallFollows, StageInv, TypeOK, ChunkTypes
  <2> QED BY <2>1, QuietStep
<1>18. ASSUME QueueRegeneration PROVE StageInv'
  <2> DEFINE c == regenCall
  <2>1. c \in Coords
    BY <1>18 DEF TypeOK, CallTypes, QueueRegeneration
  <2>2. /\ c \in regenerated
        /\ \E f \in BOOLEAN : genQueue' = Append(genQueue, [coords |-> c, force |-> f])
        /\ stage' = [stage EXCEPT ![c] = "generate"]
        /\ regenCall' = None
        /\ UNCHANGED <<presence, loadQueue, stPc, stChunk, gnPc, gnItem, dataVars, regenerated>>
    BY <1>18 DEF QueueRegeneration, QueueGenerateChunk, StageInv, CallFollows
  <2>3. Moved(c, "skipped", "generate")
    BY <2>2 DEF Moved, StageInv
  <2> HIDE DEF c
  <2>4. LoadsFollow' /\ GensFollow'
    BY <2>1, <2>2, <2>3, MoveLoads, MoveGens
  <2>5. DataFollows' /\ BatchFollows'
    BY <2>1, <2>2, <2>3, MoveData, MoveBatch
  <2>6. LoadingFollows' /\ GeneratingFollows'
    BY <2>1, <2>2, <2>3, MoveThreads DEF LoadingFollows, GeneratingFollows
  <2>7. QueuedFollows'
    BY <2>1, <2>2, <2>3, MoveQueued
  <2>8. CallFollows'
    BY <2>2 DEF CallFollows
  <2> QED BY <2>4, <2>5, <2>6, <2>7, <2>8 DEF StageInv
<1>19. ASSUME LoadDequeue PROVE StageInv'
  <2> DEFINE c == Head(loadQueue)
  <2>1. c \in Coords
    BY <1>19 DEF TypeOK, StorageTypes, LoadDequeue
  <2>2. /\ c = Head(loadQueue) /\ loadQueue # << >> /\ loadQueue' = Tail(loadQueue)
        /\ stage' = [stage EXCEPT ![c] = "loading"]
        /\ stChunk' = c
        /\ UNCHANGED <<presence, genQueue, gnPc, gnItem, dataVars, doubtVars>>
    BY <1>19 DEF LoadDequeue, StorageGoesTo
  <2>3. Moved(c, "load", "loading")
    <3>1. c = loadQueue[1] /\ Len(loadQueue) >= 1
      BY <2>2 DEF TypeOK, StorageTypes
    <3> QED BY <2>2, <3>1 DEF Moved, StageInv, LoadsFollow
  <2> HIDE DEF c
  <2>4. LoadsFollow' /\ GensFollow'
    BY <2>1, <2>2, <2>3, MoveLoads, MoveGens
  <2>5. DataFollows' /\ BatchFollows'
    BY <2>1, <2>2, <2>3, MoveData, MoveBatch
  <2>6. LoadingFollows' /\ GeneratingFollows'
    <3>1. GeneratingFollows'
      BY <2>1, <2>2, <2>3, MoveThreads
    <3>2. LoadingFollows'
      BY <2>1, <2>2 DEF LoadingFollows, TypeOK, ChunkTypes
    <3> QED BY <3>1, <3>2
  <2>7. QueuedFollows'
    BY <2>1, <2>2, <2>3, MoveQueued
  <2>8. CallFollows'
    BY <2>2, CallKept
  <2> QED BY <2>4, <2>5, <2>6, <2>7, <2>8 DEF StageInv
<1>20. ASSUME LoadNothing PROVE StageInv'
  <2>1. Quiet
    BY <1>20 DEF LoadNothing, Quiet, IsQueued, CallFollows, StageInv, StorageGoesTo
  <2> QED BY <2>1, QuietStep
<1>21. ASSUME LoadChunk PROVE StageInv'
  <2> DEFINE c == stChunk
  <2>1. c \in Coords
    BY <1>21 DEF TypeOK, StorageTypes, LoadChunk
  <2>2. /\ \E x \in Content : setDataQueue' = Append(setDataQueue, [coords |-> c, content |-> x])
        /\ stage' = [stage EXCEPT ![c] = "data"]
        /\ stPc = "loading" /\ stPc' = "save"
        /\ UNCHANGED <<presence, loadQueue, genQueue, gnPc, gnItem, setDataBatch, doubtVars>>
    BY <1>21, <2>1 DEF LoadChunk, QueueSetChunkData, StorageGoesTo, TypeOK, ChunkTypes
  <2>3. Moved(c, "loading", "data")
    BY <2>2 DEF Moved, StageInv, LoadingFollows
  <2> HIDE DEF c
  <2>4. LoadsFollow' /\ GensFollow'
    BY <2>1, <2>2, <2>3, MoveLoads, MoveGens
  <2>5. DataFollows' /\ BatchFollows'
    BY <2>1, <2>2, <2>3, MoveData, MoveBatch
  <2>6. LoadingFollows' /\ GeneratingFollows'
    <3>1. GeneratingFollows'
      BY <2>1, <2>2, <2>3, MoveThreads
    <3>2. LoadingFollows'
      BY <2>2 DEF LoadingFollows
    <3> QED BY <3>1, <3>2
  <2>7. QueuedFollows'
    BY <2>1, <2>2, <2>3, MoveQueued
  <2>8. CallFollows'
    BY <2>2, CallKept
  <2> QED BY <2>4, <2>5, <2>6, <2>7, <2>8 DEF StageInv
<1>22. ASSUME LoadMisses PROVE StageInv'
  <2>1. Quiet
    BY <1>22 DEF LoadMisses, Quiet, IsQueued, CallFollows, StageInv, StorageGoesTo
  <2> QED BY <2>1, QuietStep
<1>23. ASSUME ChunkLoadFailed PROVE StageInv'
  <2> DEFINE c == stChunk
  <2>1. c \in Coords
    BY <1>23 DEF TypeOK, StorageTypes, ChunkLoadFailed
  <2>2. /\ \E f \in BOOLEAN : genQueue' = Append(genQueue, [coords |-> c, force |-> f])
        /\ stage' = [stage EXCEPT ![c] = "generate"]
        /\ stPc = "loadFailed" /\ stPc' = "save"
        /\ UNCHANGED <<presence, loadQueue, gnPc, gnItem, dataVars, doubtVars>>
    BY <1>23 DEF ChunkLoadFailed, QueueGenerateChunk, StorageGoesTo
  <2>3. Moved(c, "loading", "generate")
    BY <2>2 DEF Moved, StageInv, LoadingFollows
  <2> HIDE DEF c
  <2>4. LoadsFollow' /\ GensFollow'
    BY <2>1, <2>2, <2>3, MoveLoads, MoveGens
  <2>5. DataFollows' /\ BatchFollows'
    BY <2>1, <2>2, <2>3, MoveData, MoveBatch
  <2>6. LoadingFollows' /\ GeneratingFollows'
    <3>1. GeneratingFollows'
      BY <2>1, <2>2, <2>3, MoveThreads
    <3>2. LoadingFollows'
      BY <2>2 DEF LoadingFollows
    <3> QED BY <3>1, <3>2
  <2>7. QueuedFollows'
    BY <2>1, <2>2, <2>3, MoveQueued
  <2>8. CallFollows'
    BY <2>2, CallKept
  <2> QED BY <2>4, <2>5, <2>6, <2>7, <2>8 DEF StageInv
<1>24. ASSUME SaveDequeue PROVE StageInv'
  <2>1. Quiet
    BY <1>24 DEF SaveDequeue, Quiet, IsQueued, CallFollows, StageInv, StorageGoesTo
  <2> QED BY <2>1, QuietStep
<1>25. ASSUME SaveNothing PROVE StageInv'
  <2>1. Quiet
    BY <1>25 DEF SaveNothing, Quiet, IsQueued, CallFollows, StageInv, StorageGoesTo
  <2> QED BY <2>1, QuietStep
<1>26. ASSUME SaveCheckValid PROVE StageInv'
  <2>1. Quiet
    BY <1>26 DEF SaveCheckValid, Quiet, IsQueued, CallFollows, StageInv, StorageGoesTo
  <2> QED BY <2>1, QuietStep
<1>27. ASSUME MarkChunkSaving PROVE StageInv'
  <2>1. Quiet
    BY <1>27 DEF MarkChunkSaving, Quiet, IsQueued, CallFollows, StageInv, StorageGoesTo
  <2> QED BY <2>1, QuietStep
<1>28. ASSUME SaveSnapshot PROVE StageInv'
  <2>1. Quiet
    BY <1>28 DEF SaveSnapshot, Quiet, IsQueued, CallFollows, StageInv, StorageGoesTo
  <2> QED BY <2>1, QuietStep
<1>29. ASSUME NEW c \in Coords, SaveWrite(c) PROVE StageInv'
  <2>1. Quiet
    BY <1>29 DEF SaveWrite, Quiet, IsQueued, CallFollows, StageInv, StorageGoesTo
  <2> QED BY <2>1, QuietStep
<1>30. ASSUME SaveWriteFails PROVE StageInv'
  <2>1. Quiet
    BY <1>30 DEF SaveWriteFails, Quiet, IsQueued, CallFollows, StageInv, StorageGoesTo
  <2> QED BY <2>1, QuietStep
<1>31. ASSUME MarkChunkSaved PROVE StageInv'
  <2>1. Quiet
    BY <1>31 DEF MarkChunkSaved, Quiet, IsQueued, CallFollows, StageInv, StorageGoesTo
  <2> QED BY <2>1, QuietStep
<1>32. ASSUME GenDequeue PROVE StageInv'
  <2> DEFINE c == Head(genQueue).coords
  <2>1. c \in Coords
    <3>1. Head(genQueue) \in Job
      BY <1>32 DEF TypeOK, GeneratorTypes, GenDequeue
    <3> QED BY <3>1 DEF Job
  <2>2. /\ c = Head(genQueue).coords /\ genQueue # << >> /\ genQueue' = Tail(genQueue)
        /\ stage' = [stage EXCEPT ![c] = "generating"]
        /\ gnItem' = Head(genQueue)
        /\ UNCHANGED <<presence, loadQueue, stPc, stChunk, dataVars, doubtVars>>
    BY <1>32 DEF GenDequeue
  <2>3. Moved(c, "generate", "generating")
    <3>1. c = genQueue[1].coords /\ Len(genQueue) >= 1
      BY <2>2 DEF TypeOK, GeneratorTypes
    <3> QED BY <2>2, <3>1 DEF Moved, StageInv, GensFollow
  <2> HIDE DEF c
  <2>4. LoadsFollow' /\ GensFollow'
    BY <2>1, <2>2, <2>3, MoveLoads, MoveGens
  <2>5. DataFollows' /\ BatchFollows'
    BY <2>1, <2>2, <2>3, MoveData, MoveBatch
  <2>6. LoadingFollows' /\ GeneratingFollows'
    <3>1. LoadingFollows'
      BY <2>1, <2>2, <2>3, MoveThreads
    <3>2. gnItem'.coords = c
      BY <2>2 DEF c
    <3>3. GeneratingFollows'
      BY <2>1, <2>2, <3>2 DEF GeneratingFollows, TypeOK, ChunkTypes
    <3> QED BY <3>1, <3>3
  <2>7. QueuedFollows'
    BY <2>1, <2>2, <2>3, MoveQueued
  <2>8. CallFollows'
    BY <2>2, CallKept
  <2> QED BY <2>4, <2>5, <2>6, <2>7, <2>8 DEF StageInv
<1>33. ASSUME GenCheckValid PROVE StageInv'
  <2>1. Quiet
    BY <1>33 DEF GenCheckValid, Quiet, IsQueued, CallFollows, StageInv, GeneratorRests
  <2> QED BY <2>1, QuietStep
<1>34. ASSUME GenCheckClients PROVE StageInv'
  <2>1. CASE HasAnyClients(gnItem.coords)
    <3>1. Quiet
      BY <1>34, <2>1 DEF GenCheckClients, Quiet, IsQueued, CallFollows, StageInv
    <3> QED BY <3>1, QuietStep
  <2>2. CASE ~HasAnyClients(gnItem.coords)
    <3> DEFINE c == gnItem.coords
    <3>1. c \in Coords
      BY <1>34 DEF TypeOK, GeneratorTypes, GenCheckClients, Job
    <3>2. /\ stage' = [stage EXCEPT ![c] = "skipped"]
          /\ gnPc # "idle" /\ gnPc' = "idle"
          /\ UNCHANGED <<presence, loadQueue, stPc, stChunk, genQueue, dataVars, doubtVars>>
      BY <1>34, <2>2 DEF GenCheckClients, GeneratorRests
    <3>3. Moved(c, "generating", "skipped")
      BY <3>2 DEF Moved, StageInv, GeneratingFollows
    <3> HIDE DEF c
    <3>4. LoadsFollow' /\ GensFollow'
      BY <3>1, <3>2, <3>3, MoveLoads, MoveGens
    <3>5. DataFollows' /\ BatchFollows'
      BY <3>1, <3>2, <3>3, MoveData, MoveBatch
    <3>6. LoadingFollows' /\ GeneratingFollows'
      <4>1. LoadingFollows'
        BY <3>1, <3>2, <3>3, MoveThreads
      <4>2. GeneratingFollows'
        BY <3>2 DEF GeneratingFollows
      <4> QED BY <4>1, <4>2
    <3>7. QueuedFollows'
      BY <3>1, <3>2, <3>3, MoveQueued
    <3>8. CallFollows'
      BY <3>2, CallKept
    <3> QED BY <3>4, <3>5, <3>6, <3>7, <3>8 DEF StageInv
  <2> QED BY <2>1, <2>2
<1>35. ASSUME DoGenerate PROVE StageInv'
  <2> DEFINE c == gnItem.coords
  <2>1. c \in Coords
    BY <1>35 DEF TypeOK, GeneratorTypes, DoGenerate, Job
  <2>2. /\ \E x \in Content : setDataQueue' = Append(setDataQueue, [coords |-> c, content |-> x])
        /\ stage' = [stage EXCEPT ![c] = "data"]
        /\ gnPc # "idle" /\ gnPc' = "idle"
        /\ UNCHANGED <<presence, loadQueue, stPc, stChunk, genQueue, setDataBatch, doubtVars>>
    BY <1>35 DEF DoGenerate, QueueSetChunkData, GeneratorRests, Content, Generated
  <2>3. Moved(c, "generating", "data")
    BY <2>2 DEF Moved, StageInv, GeneratingFollows
  <2> HIDE DEF c
  <2>4. LoadsFollow' /\ GensFollow'
    BY <2>1, <2>2, <2>3, MoveLoads, MoveGens
  <2>5. DataFollows' /\ BatchFollows'
    BY <2>1, <2>2, <2>3, MoveData, MoveBatch
  <2>6. LoadingFollows' /\ GeneratingFollows'
    <3>1. LoadingFollows'
      BY <2>1, <2>2, <2>3, MoveThreads
    <3>2. GeneratingFollows'
      BY <2>2 DEF GeneratingFollows
    <3> QED BY <3>1, <3>2
  <2>7. QueuedFollows'
    BY <2>1, <2>2, <2>3, MoveQueued
  <2>8. CallFollows'
    BY <2>2, CallKept
  <2> QED BY <2>4, <2>5, <2>6, <2>7, <2>8 DEF StageInv
<1>36. CASE UNCHANGED vars
  <2>1. Quiet
    BY <1>36 DEF vars, Quiet, IsQueued, CallFollows, StageInv
  <2> QED BY <2>1, QuietStep
<1> QED BY <1>1, <1>2, <1>3, <1>4, <1>5, <1>6, <1>7, <1>8, <1>9, <1>10, <1>11, <1>12, <1>13,
    <1>14, <1>15, <1>16, <1>17, <1>18, <1>19, <1>20, <1>21, <1>22, <1>23, <1>24, <1>25,
    <1>26, <1>27, <1>28, <1>29, <1>30, <1>31, <1>32, <1>33, <1>34, <1>35, <1>36
    DEF Next, ClientSteps, EntitySteps, BlockSteps, DataSteps, RegenSteps, LoadSteps,
    SaveSteps, StorageSteps, GeneratorSteps

\* The invariant holds in every reachable state.
LEMMA StageCorrect == Spec => []StageInv
<1>1. TypeOK /\ StageInv /\ [Next]_vars => StageInv'
    BY StageStep
<1> QED BY StageInit, TypeCorrect, <1>1, PTL DEF Spec

\* The work on a chunk that was never regenerated is where its stage says, and is known
\* by it: of two jobs on the chunk neither is elsewhere, nor elsewhere in the queue.
JobAt(j, c) ==
    \/ /\ stage[c] = "load"
       /\ \E i \in 1 .. Len(loadQueue) : loadQueue[i] = c /\ j = <<"load", i>>
    \/ /\ stage[c] = "generate"
       /\ \E i \in 1 .. Len(genQueue) : genQueue[i].coords = c /\ j = <<"generate", i>>
    \/ /\ stage[c] = "data"
       /\ \E i \in 1 .. Len(setDataQueue) : setDataQueue[i].coords = c /\ j = <<"data", i>>
    \/ /\ stage[c] = "batch"
       /\ \E i \in 1 .. Len(setDataBatch) : setDataBatch[i].coords = c /\ j = <<"batch", i>>
    \/ stage[c] = "loading" /\ j = <<"loading", 0>>
    \/ stage[c] = "generating" /\ j = <<"generating", 0>>

\* Where StageInv holds, every job of a chunk is the one its stage names.
LEMMA JobsAtStage ==
    ASSUME TypeOK, StageInv, NEW c \in Coords \ regenerated, NEW j \in Jobs(c)
    PROVE  JobAt(j, c)
<1> USE CoordsAssumption
<1>1. /\ DOMAIN loadQueue = 1 .. Len(loadQueue)
      /\ DOMAIN genQueue = 1 .. Len(genQueue)
      /\ DOMAIN setDataQueue = 1 .. Len(setDataQueue)
      /\ DOMAIN setDataBatch = 1 .. Len(setDataBatch)
    BY DEF TypeOK, StorageTypes, GeneratorTypes, DataTypes
<1>2. ASSUME NEW i \in DOMAIN loadQueue, loadQueue[i] = c, j = <<"load", i>>
      PROVE  JobAt(j, c)
    BY <1>1, <1>2 DEF JobAt, StageInv, LoadsFollow
<1>3. ASSUME NEW i \in DOMAIN genQueue, genQueue[i].coords = c, j = <<"generate", i>>
      PROVE  JobAt(j, c)
    BY <1>1, <1>3 DEF JobAt, StageInv, GensFollow
<1>4. ASSUME NEW i \in DOMAIN setDataQueue, setDataQueue[i].coords = c, j = <<"data", i>>
      PROVE  JobAt(j, c)
    BY <1>1, <1>4 DEF JobAt, StageInv, DataFollows
<1>5. ASSUME NEW i \in DOMAIN setDataBatch, setDataBatch[i].coords = c, j = <<"batch", i>>
      PROVE  JobAt(j, c)
    BY <1>1, <1>5 DEF JobAt, StageInv, BatchFollows
<1>6. ASSUME stPc \in {"loading", "loadFailed"}, stChunk = c, j = <<"loading", 0>>
      PROVE  JobAt(j, c)
    BY <1>6 DEF JobAt, StageInv, LoadingFollows
<1>7. ASSUME gnItem.coords = c, j = <<"generating", 0>> PROVE JobAt(j, c)
  <2>1. gnPc # "idle"
    BY <1>7 DEF TypeOK, GeneratorTypes, NoJob
  <2> QED BY <1>7, <2>1 DEF JobAt, StageInv, GeneratingFollows
<1> QED BY <1>2, <1>3, <1>4, <1>5, <1>6, <1>7 DEF Jobs

\* So a chunk has at most one job, and is queued if it has one.
LEMMA JobsUnique ==
    ASSUME TypeOK, StageInv, NEW c \in Coords \ regenerated, NEW j1, NEW j2,
           JobAt(j1, c), JobAt(j2, c)
    PROVE  j1 = j2
<1>1. CASE stage[c] = "load"
    BY <1>1 DEF JobAt, StageInv, LoadsFollow
<1>2. CASE stage[c] = "generate"
    BY <1>2 DEF JobAt, StageInv, GensFollow
<1>3. CASE stage[c] = "data"
    BY <1>3 DEF JobAt, StageInv, DataFollows
<1>4. CASE stage[c] = "batch"
    BY <1>4 DEF JobAt, StageInv, BatchFollows
<1>5. CASE stage[c] \in {"loading", "generating"}
    BY <1>5 DEF JobAt
<1> QED BY <1>1, <1>2, <1>3, <1>4, <1>5 DEF JobAt

\* Multi-load and multi-gen cannot occur: whatever the clients, plugins and threads do, and
\* however many of them there are, a chunk (never regenerated) that is in a queue or on a
\* thread is marked as queued, and it is there once.
THEOREM OneJob == Spec => []OneJobPerQueuedChunk
<1>1. ASSUME TypeOK, StageInv PROVE OneJobPerQueuedChunk
  <2>1. ASSUME NEW c \in Coords \ regenerated, NEW j \in Jobs(c) PROVE IsQueued(c)
    <3>1. stage[c] # "none"
      BY <1>1, JobsAtStage DEF JobAt
    <3> QED BY <1>1, <3>1 DEF StageInv, QueuedFollows
  <2>2. ASSUME NEW c \in Coords \ regenerated, NEW j1 \in Jobs(c), NEW j2 \in Jobs(c)
        PROVE  j1 = j2
    BY <1>1, JobsAtStage, JobsUnique
  <2> QED BY <2>1, <2>2 DEF OneJobPerQueuedChunk
<1> QED BY <1>1, TypeCorrect, StageCorrect, PTL

-----------------------------------------------------------------------------
(* A queued chunk is not forgotten: regenerated ones included *)

Holds(s, y) == \E i \in 1 .. Len(s) : s[i] = y

\* The places of Jobs(c), as a predicate.
Worked(c) ==
    \/ Holds(loadQueue, c)
    \/ \E job \in Job : job.coords = c /\ Holds(genQueue, job)
    \/ \E data \in Data : data.coords = c /\ Holds(setDataQueue, data)
    \/ \E data \in Data : data.coords = c /\ Holds(setDataBatch, data)
    \/ stPc \in {"loading", "loadFailed"} /\ stChunk = c
    \/ gnItem.coords = c

Remembered(c) == Worked(c) \/ regenCall = c \/ stage[c] = "skipped"

\* The property itself is inductive: nobody drops the last work on a queued chunk, except
\* a generator that says so.
NotForgotten == \A c \in Coords : IsQueued(c) => Remembered(c)

\* Append keeps what a queue holds and adds its element.
LEMMA AppendHolds ==
    ASSUME NEW T, NEW s \in Seq(T), NEW x \in T, NEW y, Holds(s, y) \/ y = x
    PROVE  Holds(Append(s, x), y)
<1>1. /\ Len(Append(s, x)) = Len(s) + 1
      /\ \A i \in 1 .. Len(s) : Append(s, x)[i] = s[i]
      /\ Append(s, x)[Len(s) + 1] = x
      /\ Len(s) \in Nat
    OBVIOUS
<1>2. CASE Holds(s, y)
    BY <1>1, <1>2 DEF Holds
<1>3. CASE y = x
    BY <1>1, <1>3 DEF Holds
<1> QED BY <1>2, <1>3

\* Tail loses the first element and nothing else.
LEMMA TailHolds ==
    ASSUME NEW T, NEW s \in Seq(T), s # << >>, NEW y, Holds(s, y), y # Head(s)
    PROVE  Holds(Tail(s), y)
<1>1. PICK i \in 1 .. Len(s) : s[i] = y
    BY DEF Holds
<1>2. i # 1
    BY <1>1
<1>3. i - 1 \in 1 .. Len(Tail(s)) /\ Tail(s)[i - 1] = s[i]
    BY <1>2
<1> QED BY <1>1, <1>3 DEF Holds

\* Steps that move no work and queue no chunk.
LEMMA NotForgottenQuiet ==
    ASSUME NotForgotten,
           \A c \in Coords : IsQueued(c)' => IsQueued(c),
           UNCHANGED <<loadQueue, genQueue, dataVars, gnItem, regenCall, stage>>,
           \/ UNCHANGED <<stPc, stChunk>>
           \/ stPc \notin {"loading", "loadFailed"}
           \/ stPc' = "loadFailed" /\ stChunk' = stChunk
    PROVE  NotForgotten'
<1> SUFFICES ASSUME NEW c \in Coords, IsQueued(c)' PROVE Remembered(c)'
    BY DEF NotForgotten
<1>1. Remembered(c)
    BY DEF NotForgotten
<1> QED BY <1>1 DEF Remembered, Worked, Holds

\* Steps that touch the stage of one chunk and leave it remembered.
LEMMA NotForgottenMove ==
    ASSUME TypeOK, NotForgotten, NEW c \in Coords, NEW st,
           \A d \in Coords \ {c} : IsQueued(d)' => IsQueued(d),
           stage' = [stage EXCEPT ![c] = st],
           \A d \in Coords \ {c} : Worked(d) => Worked(d)',
           \A d \in Coords \ {c} : regenCall = d => regenCall' = d,
           IsQueued(c)' => Remembered(c)'
    PROVE  NotForgotten'
<1> SUFFICES ASSUME NEW d \in Coords, IsQueued(d)', d # c PROVE Remembered(d)'
    BY DEF NotForgotten
<1>1. Remembered(d)
    BY DEF NotForgotten
<1>2. stage'[d] = stage[d]
    BY DEF TypeOK, ChunkTypes
<1> QED BY <1>1, <1>2 DEF Remembered

\* Whoever has GetChunk called puts an unknown chunk on the load queue.
LEMMA GetChunkRemembers ==
    ASSUME TypeOK, NotForgotten, NEW c \in Coords, GetChunk(c),
           UNCHANGED <<storageVars, genQueue, generatorVars, dataVars, doubtVars>>
    PROVE  NotForgotten'
<1>1. CASE ~IsValid(c) /\ ~IsQueued(c)
  <2>1. /\ loadQueue' = Append(loadQueue, c)
        /\ presence' = [presence EXCEPT ![c] = "cpQueued"]
        /\ stage' = [stage EXCEPT ![c] = "load"]
    BY <1>1 DEF GetChunk
  <2>2. loadQueue \in Seq(Coords) /\ presence \in [Coords -> Presence]
    BY DEF TypeOK, StorageTypes, ChunkTypes
  <2>3. \A d : Holds(loadQueue, d) \/ d = c => Holds(loadQueue', d)
    BY <2>1, <2>2, AppendHolds
  <2>4. Worked(c)'
    BY <2>3 DEF Worked
  <2>5. \A d \in Coords : Worked(d) => Worked(d)'
    BY <2>3 DEF Worked, Holds
  <2>6. \A d \in Coords \ {c} : IsQueued(d)' => IsQueued(d)
    BY <2>1, <2>2 DEF IsQueued
  <2> QED BY <2>1, <2>4, <2>5, <2>6, NotForgottenMove DEF Remembered
<1>2. CASE IsValid(c) \/ IsQueued(c)
    BY <1>2, NotForgottenQuiet DEF GetChunk, IsQueued, IsValid
<1> QED BY <1>1, <1>2

\* A chunk put on the generator's queue is remembered, and so are the others.
LEMMA GeneratorRemembers ==
    ASSUME TypeOK, NEW c \in Coords, NEW force \in BOOLEAN, QueueGenerateChunk(c, force)
    PROVE  /\ \E job \in Job : job.coords = c /\ Holds(genQueue', job)
           /\ \A job \in Job : Holds(genQueue, job) => Holds(genQueue', job)
<1> DEFINE new == [coords |-> c, force |-> force]
<1>1. new \in Job /\ genQueue \in Seq(Job)
    BY DEF Job, TypeOK, GeneratorTypes
<1>2. genQueue' = Append(genQueue, new)
    BY DEF QueueGenerateChunk
<1>3. \A job \in Job : Holds(genQueue, job) \/ job = new => Holds(genQueue', job)
    BY <1>1, <1>2, AppendHolds
<1>4. new.coords = c
    OBVIOUS
<1> HIDE DEF new
<1> QED BY <1>1, <1>3, <1>4

\* The same for the queue of chunk data.
LEMMA DataQueueRemembers ==
    ASSUME TypeOK, NEW c \in Coords, NEW content \in Content, QueueSetChunkData(c, content)
    PROVE  /\ \E data \in Data : data.coords = c /\ Holds(setDataQueue', data)
           /\ \A data \in Data : Holds(setDataQueue, data) => Holds(setDataQueue', data)
<1> DEFINE new == [coords |-> c, content |-> content]
<1>1. new \in Data /\ setDataQueue \in Seq(Data)
    BY DEF Data, TypeOK, DataTypes
<1>2. setDataQueue' = Append(setDataQueue, new)
    BY DEF QueueSetChunkData
<1>3. \A data \in Data : Holds(setDataQueue, data) \/ data = new => Holds(setDataQueue', data)
    BY <1>1, <1>2, AppendHolds
<1>4. new.coords = c
    OBVIOUS
<1> HIDE DEF new
<1> QED BY <1>1, <1>3, <1>4

\* At the start no chunk is queued.
LEMMA NotForgottenInit == Init => NotForgotten
    BY DEF Init, NotForgotten, IsQueued

\* Every step hands the work on: the tick thread's.
LEMMA TickRemembers ==
    ASSUME TypeOK, NotForgotten, DataSteps \/ UnloadUnusedChunks \/ SaveAllChunks
    PROVE  NotForgotten'
<1>1. CASE TakeChunkDataSets
  <2>1. /\ stage' = [c \in Coords |-> IF stage[c] = "data" THEN "batch" ELSE stage[c]]
        /\ setDataBatch = << >> /\ setDataBatch' = setDataQueue
        /\ UNCHANGED <<presence, loadQueue, stPc, stChunk, genQueue, gnItem, regenCall>>
    BY <1>1 DEF TakeChunkDataSets, TickThreadFree
  <2> SUFFICES ASSUME NEW c \in Coords, IsQueued(c)' PROVE Remembered(c)'
    BY DEF NotForgotten
  <2>2. Remembered(c)
    BY <2>1 DEF NotForgotten, IsQueued
  <2>3. \A y : ~Holds(setDataBatch, y)
    BY <2>1 DEF Holds
  <2>4. Worked(c) => Worked(c)'
    BY <2>1, <2>3 DEF Worked, Holds
  <2>5. stage[c] = "skipped" => stage'[c] = "skipped"
    BY <2>1
  <2> QED BY <2>1, <2>2, <2>4, <2>5 DEF Remembered
<1>2. CASE SetChunkData
  <2>1. setDataBatch # << >> /\ setDataBatch \in Seq(Data) /\ Head(setDataBatch) \in Data
    BY <1>2 DEF SetChunkData, TypeOK, DataTypes
  <2>2. PICK c \in Coords : c = Head(setDataBatch).coords
    BY <2>1 DEF Data
  <2>3. /\ presence' = [presence EXCEPT ![c] = "cpPresent"]
        /\ stage' = [stage EXCEPT ![c] = "none"]
        /\ setDataBatch' = Tail(setDataBatch)
        /\ UNCHANGED <<loadQueue, stPc, stChunk, genQueue, gnItem, setDataQueue, regenCall>>
    BY <1>2, <2>2 DEF SetChunkData
  <2>4. presence \in [Coords -> Presence]
    BY DEF TypeOK, ChunkTypes
  <2>5. \A data \in Data : data.coords # c /\ Holds(setDataBatch, data) => Holds(setDataBatch', data)
    BY <2>1, <2>2, <2>3, TailHolds
  <2>6. \A d \in Coords \ {c} : Worked(d) => Worked(d)'
    BY <2>3, <2>5 DEF Worked, Holds
  <2>7. ~IsQueued(c)' /\ \A d \in Coords \ {c} : IsQueued(d)' => IsQueued(d)
    BY <2>2, <2>3, <2>4 DEF IsQueued
  <2> QED BY <2>2, <2>3, <2>6, <2>7, NotForgottenMove
<1>3. CASE UnloadUnusedChunks
    BY <1>3, NotForgottenQuiet DEF UnloadUnusedChunks, IsQueued
<1>4. CASE SaveAllChunks
    BY <1>4, NotForgottenQuiet DEF SaveAllChunks, IsQueued
<1> QED BY <1>1, <1>2, <1>3, <1>4 DEF DataSteps

\* Regeneration: the call remembers the chunk until the generator's queue does.
LEMMA RegenRemembers ==
    ASSUME TypeOK, NotForgotten, RegenSteps
    PROVE  NotForgotten'
<1>1. ASSUME NEW c \in Coords, MarkChunkRegenerating(c) PROVE NotForgotten'
  <2>1. /\ presence' = [presence EXCEPT ![c] = "cpQueued"]
        /\ regenCall = None /\ regenCall' = c
        /\ UNCHANGED <<loadQueue, stPc, stChunk, genQueue, gnItem, dataVars, stage>>
    BY <1>1 DEF MarkChunkRegenerating
  <2> SUFFICES ASSUME NEW d \in Coords, IsQueued(d)', d # c PROVE Remembered(d)'
    BY <2>1 DEF NotForgotten, Remembered
  <2>2. Remembered(d) /\ regenCall # d
    BY <2>1, CoordsAssumption DEF NotForgotten, IsQueued, TypeOK, ChunkTypes
  <2> QED BY <2>1, <2>2 DEF Remembered, Worked, Holds
<1>2. CASE QueueRegeneration
  <2>1. PICK c \in Coords : c = regenCall
    BY <1>2 DEF QueueRegeneration, TypeOK, CallTypes
  <2>2. /\ QueueGenerateChunk(c, TRUE)
        /\ UNCHANGED <<presence, loadQueue, stPc, stChunk, gnItem, dataVars>>
    BY <1>2, <2>1 DEF QueueRegeneration
  <2>3. /\ \E job \in Job : job.coords = c /\ Holds(genQueue', job)
        /\ \A job \in Job : Holds(genQueue, job) => Holds(genQueue', job)
    BY <2>1, <2>2, GeneratorRemembers
  <2>4. stage' = [stage EXCEPT ![c] = "generate"]
    BY <2>2 DEF QueueGenerateChunk
  <2>5. \A d \in Coords \ {c} : regenCall = d => regenCall' = d
    BY <2>1
  <2>6. Worked(c)'
    BY <2>3 DEF Worked
  <2>7. \A d \in Coords : Worked(d) => Worked(d)'
    BY <2>2, <2>3 DEF Worked, Holds
  <2> QED BY <2>1, <2>2, <2>4, <2>5, <2>6, <2>7, NotForgottenMove DEF Remembered, IsQueued
<1> QED BY <1>1, <1>2 DEF RegenSteps

\* The storage thread: a chunk it takes from the load queue goes on to the tick thread or
\* to the generator; saving concerns no queued chunk's work.
LEMMA StorageRemembers ==
    ASSUME TypeOK, NotForgotten, StorageSteps
    PROVE  NotForgotten'
<1>1. CASE LoadDequeue
  <2>0. loadQueue # << >> /\ loadQueue \in Seq(Coords)
    BY <1>1 DEF LoadDequeue, TypeOK, StorageTypes
  <2>1. PICK c \in Coords : c = Head(loadQueue)
    BY <2>0
  <2>2. /\ stage' = [stage EXCEPT ![c] = "loading"]
        /\ loadQueue' = Tail(loadQueue)
        /\ stPc = "load" /\ stPc' = "loading" /\ stChunk' = c
        /\ UNCHANGED <<presence, genQueue, gnItem, dataVars, regenCall>>
    BY <1>1, <2>1 DEF LoadDequeue, StorageGoesTo
  <2>3. \A d : d # c /\ Holds(loadQueue, d) => Holds(loadQueue', d)
    BY <2>0, <2>1, <2>2, TailHolds
  <2>4. Worked(c)'
    BY <2>2 DEF Worked
  <2>5. \A d \in Coords \ {c} : Worked(d) => Worked(d)'
    BY <2>1, <2>2, <2>3 DEF Worked, Holds
  <2> QED BY <2>1, <2>2, <2>4, <2>5, NotForgottenMove DEF Remembered, IsQueued
<1>2. CASE LoadChunk
  <2>1. PICK c \in Coords : c = stChunk /\ disk[c] \in Content
    BY <1>2 DEF LoadChunk, TypeOK, StorageTypes, ChunkTypes
  <2>2. /\ QueueSetChunkData(c, disk[c])
        /\ UNCHANGED <<presence, loadQueue, genQueue, gnItem, setDataBatch, regenCall>>
    BY <1>2, <2>1 DEF LoadChunk
  <2>3. /\ \E data \in Data : data.coords = c /\ Holds(setDataQueue', data)
        /\ \A data \in Data : Holds(setDataQueue, data) => Holds(setDataQueue', data)
    BY <2>1, <2>2, DataQueueRemembers
  <2>4. stage' = [stage EXCEPT ![c] = "data"]
    BY <2>2 DEF QueueSetChunkData
  <2>5. \A d \in Coords \ {c} : Worked(d) => Worked(d)'
    BY <2>1, <2>2, <2>3 DEF Worked, Holds
  <2>6. Worked(c)'
    BY <2>3 DEF Worked
  <2> QED BY <2>1, <2>2, <2>4, <2>5, <2>6, NotForgottenMove DEF Remembered, IsQueued
<1>3. CASE ChunkLoadFailed
  <2>1. PICK c \in Coords : c = stChunk
    BY <1>3 DEF ChunkLoadFailed, TypeOK, StorageTypes
  <2>2. /\ QueueGenerateChunk(c, FALSE)
        /\ UNCHANGED <<presence, loadQueue, gnItem, dataVars, regenCall>>
    BY <1>3, <2>1 DEF ChunkLoadFailed
  <2>3. /\ \E job \in Job : job.coords = c /\ Holds(genQueue', job)
        /\ \A job \in Job : Holds(genQueue, job) => Holds(genQueue', job)
    BY <2>1, <2>2, GeneratorRemembers
  <2>4. stage' = [stage EXCEPT ![c] = "generate"]
    BY <2>2 DEF QueueGenerateChunk
  <2>5. \A d \in Coords \ {c} : Worked(d) => Worked(d)'
    BY <2>1, <2>2, <2>3 DEF Worked, Holds
  <2>6. Worked(c)'
    BY <2>3 DEF Worked
  <2> QED BY <2>1, <2>2, <2>4, <2>5, <2>6, NotForgottenMove DEF Remembered, IsQueued
<1>4. CASE LoadNothing
    BY <1>4, NotForgottenQuiet DEF LoadNothing, IsQueued
<1>5. CASE LoadMisses
    BY <1>5, NotForgottenQuiet DEF LoadMisses, StorageGoesTo, IsQueued
<1>6. CASE SaveSteps
  <2>1. /\ stPc \notin {"loading", "loadFailed"}
        /\ UNCHANGED <<presence, loadQueue, genQueue, dataVars, gnItem, regenCall, stage>>
    BY <1>6 DEF SaveSteps, SaveDequeue, SaveNothing, SaveCheckValid, MarkChunkSaving,
        SaveSnapshot, SaveWrite, SaveWriteFails, MarkChunkSaved
  <2> QED BY <2>1, NotForgottenQuiet DEF IsQueued
<1> QED BY <1>1, <1>2, <1>3, <1>4, <1>5, <1>6 DEF StorageSteps, LoadSteps

\* The generator drops a chunk when it is valid already, or marks it as skipped.
LEMMA GeneratorHandsOn ==
    ASSUME TypeOK, NotForgotten, GeneratorSteps
    PROVE  NotForgotten'
<1>1. CASE GenDequeue
  <2>1. genQueue # << >> /\ genQueue \in Seq(Job) /\ Head(genQueue) \in Job
    BY <1>1 DEF GenDequeue, TypeOK, GeneratorTypes
  <2>2. PICK c \in Coords : c = Head(genQueue).coords
    BY <2>1 DEF Job
  <2>3. /\ stage' = [stage EXCEPT ![c] = "generating"]
        /\ genQueue' = Tail(genQueue)
        /\ gnItem = NoJob /\ gnItem'.coords = c
        /\ UNCHANGED <<presence, loadQueue, stPc, stChunk, dataVars, regenCall>>
    BY <1>1, <2>2 DEF GenDequeue, TypeOK, GeneratorTypes
  <2>4. \A job \in Job : job.coords # c /\ Holds(genQueue, job) => Holds(genQueue', job)
    BY <2>1, <2>2, <2>3, TailHolds
  <2>5. \A d \in Coords : gnItem.coords # d
    BY <2>3, CoordsAssumption DEF NoJob
  <2>6. \A d \in Coords \ {c} : Worked(d) => Worked(d)'
    BY <2>3, <2>4, <2>5 DEF Worked, Holds
  <2>7. Worked(c)'
    BY <2>3 DEF Worked
  <2> QED BY <2>2, <2>3, <2>6, <2>7, NotForgottenMove DEF Remembered, IsQueued
<1>2. CASE GenCheckValid
  <2>1. CASE ~gnItem.force /\ IsValid(gnItem.coords) /\ GeneratorRests
    <3>1. UNCHANGED <<presence, loadQueue, stPc, stChunk, genQueue, dataVars, regenCall, stage>>
      BY <1>2 DEF GenCheckValid
    <3> SUFFICES ASSUME NEW c \in Coords, IsQueued(c)' PROVE Remembered(c)'
      BY DEF NotForgotten
    <3>2. Remembered(c) /\ gnItem.coords # c
      BY <2>1, <3>1 DEF NotForgotten, IsQueued, IsValid
    <3> QED BY <3>1, <3>2 DEF Remembered, Worked, Holds
  <2>2. CASE UNCHANGED gnItem
    BY <1>2, <2>2, NotForgottenQuiet DEF GenCheckValid, IsQueued
  <2> QED BY <1>2, <2>1, <2>2 DEF GenCheckValid
<1>3. CASE GenCheckClients
  <2>1. CASE HasAnyClients(gnItem.coords)
    BY <1>3, <2>1, NotForgottenQuiet DEF GenCheckClients, IsQueued
  <2>2. CASE ~HasAnyClients(gnItem.coords)
    <3>1. PICK c \in Coords : c = gnItem.coords
      BY <1>3 DEF GenCheckClients, TypeOK, GeneratorTypes, Job
    <3>2. /\ stage' = [stage EXCEPT ![c] = "skipped"]
          /\ UNCHANGED <<presence, loadQueue, stPc, stChunk, genQueue, dataVars, regenCall>>
      BY <1>3, <2>2, <3>1 DEF GenCheckClients
    <3>3. \A d \in Coords \ {c} : Worked(d) => Worked(d)'
      BY <3>1, <3>2 DEF Worked, Holds
    <3>4. Remembered(c)'
      BY <3>1, <3>2 DEF Remembered, TypeOK, ChunkTypes
    <3> QED BY <3>1, <3>2, <3>3, <3>4, NotForgottenMove DEF IsQueued
  <2> QED BY <2>1, <2>2
<1>4. CASE DoGenerate
  <2> DEFINE made == [blocks |-> Generated, mobs |-> {}]
  <2>1. PICK c \in Coords : c = gnItem.coords /\ made \in Content
    BY <1>4 DEF DoGenerate, TypeOK, GeneratorTypes, Job, Content, Generated
  <2>2. /\ QueueSetChunkData(c, made)
        /\ UNCHANGED <<presence, loadQueue, stPc, stChunk, genQueue, setDataBatch, regenCall>>
    BY <1>4, <2>1 DEF DoGenerate
  <2> HIDE DEF made
  <2>3. /\ \E data \in Data : data.coords = c /\ Holds(setDataQueue', data)
        /\ \A data \in Data : Holds(setDataQueue, data) => Holds(setDataQueue', data)
    BY <2>1, <2>2, DataQueueRemembers
  <2>4. stage' = [stage EXCEPT ![c] = "data"]
    BY <2>2 DEF QueueSetChunkData
  <2>5. \A d \in Coords \ {c} : Worked(d) => Worked(d)'
    BY <2>1, <2>2, <2>3 DEF Worked, Holds
  <2>6. Worked(c)'
    BY <2>3 DEF Worked
  <2> QED BY <2>1, <2>2, <2>4, <2>5, <2>6, NotForgottenMove DEF Remembered, IsQueued
<1> QED BY <1>1, <1>2, <1>3, <1>4 DEF GeneratorSteps

\* Those who hold and change chunks move no work but through GetChunk.
LEMMA HoldersRemember ==
    ASSUME TypeOK, NotForgotten,
           \/ ClientSteps \/ EntitySteps \/ BlockSteps
           \/ \E k \in Clients : RemoveClientFromChunks(k)
    PROVE  NotForgotten'
<1>1. CASE ClientSteps
  <2>1. PICK c \in Coords :
            \/ \E k \in Clients : AddChunkClient(c, k) \/ RemoveChunkClient(c, k)
            \/ GenerateChunk(c)
            \/ \E on \in BOOLEAN : SetChunkAlwaysTicked(c, on)
    BY <1>1 DEF ClientSteps
  <2>2. CASE \E k \in Clients : AddChunkClient(c, k)
    BY <2>2, GetChunkRemembers DEF AddChunkClient
  <2>3. CASE \E k \in Clients : RemoveChunkClient(c, k)
    BY <2>3, NotForgottenQuiet DEF RemoveChunkClient, IsQueued
  <2>4. CASE GenerateChunk(c)
    BY <2>4, GetChunkRemembers DEF GenerateChunk
  <2>5. CASE \E on \in BOOLEAN : SetChunkAlwaysTicked(c, on)
    BY <2>5, GetChunkRemembers DEF SetChunkAlwaysTicked
  <2> QED BY <2>1, <2>2, <2>3, <2>4, <2>5
<1>2. CASE EntitySteps
  <2>1. \A c \in Coords : IsQueued(c)' => IsQueued(c)
    BY <1>2 DEF EntitySteps, AddEntity, RemoveEntity, AddPlayer, RemovePlayer,
        ConstructChunk, Exists, IsQueued, TypeOK, ChunkTypes
  <2>2. UNCHANGED <<loadQueue, genQueue, dataVars, gnItem, stPc, stChunk, regenCall, stage>>
    BY <1>2 DEF EntitySteps, AddEntity, RemoveEntity, AddPlayer, RemovePlayer
  <2> QED BY <2>1, <2>2, NotForgottenQuiet
<1>3. CASE BlockSteps
    BY <1>3, NotForgottenQuiet DEF BlockSteps, FastSetBlock, ReplaceLiquid,
        TickBlockEntities, ChangeBlocks, IsQueued
<1>4. CASE \E k \in Clients : RemoveClientFromChunks(k)
    BY <1>4, NotForgottenQuiet DEF RemoveClientFromChunks, IsQueued
<1> QED BY <1>1, <1>2, <1>3, <1>4

LEMMA NotForgottenStep == TypeOK /\ NotForgotten /\ [Next]_vars => NotForgotten'
<1> SUFFICES ASSUME TypeOK, NotForgotten, [Next]_vars PROVE NotForgotten'
    OBVIOUS
<1>1. CASE Next
    BY <1>1, TickRemembers, RegenRemembers, StorageRemembers, GeneratorHandsOn,
        HoldersRemember DEF Next
<1>2. CASE UNCHANGED vars
    BY <1>2, NotForgottenQuiet DEF vars, IsQueued
<1> QED BY <1>1, <1>2

\* A chunk somebody waits for is never forgotten between two threads: as long as it is
\* queued, a queue, a thread or an unfinished RegenerateChunk has it, however often it was
\* regenerated, unless an overloaded generator dropped it.
THEOREM QueuedIsWorkedOn == Spec => []QueuedHasJobUnlessSkipped
<1>1. ASSUME TypeOK, NEW c \in Coords, Worked(c) PROVE Jobs(c) # {}
  <2>1. /\ DOMAIN loadQueue = 1 .. Len(loadQueue)
        /\ DOMAIN genQueue = 1 .. Len(genQueue)
        /\ DOMAIN setDataQueue = 1 .. Len(setDataQueue)
        /\ DOMAIN setDataBatch = 1 .. Len(setDataBatch)
    BY <1>1 DEF TypeOK, StorageTypes, GeneratorTypes, DataTypes
  <2>2. CASE Holds(loadQueue, c)
    <3>1. PICK i \in DOMAIN loadQueue : loadQueue[i] = c
      BY <2>1, <2>2 DEF Holds
    <3>2. <<"load", i>> \in Jobs(c)
      BY <3>1 DEF Jobs
    <3> QED BY <3>2
  <2>3. CASE \E job \in Job : job.coords = c /\ Holds(genQueue, job)
    <3>1. PICK i \in DOMAIN genQueue : genQueue[i].coords = c
      BY <2>1, <2>3 DEF Holds
    <3>2. <<"generate", i>> \in Jobs(c)
      BY <3>1 DEF Jobs
    <3> QED BY <3>2
  <2>4. CASE \E data \in Data : data.coords = c /\ Holds(setDataQueue, data)
    <3>1. PICK i \in DOMAIN setDataQueue : setDataQueue[i].coords = c
      BY <2>1, <2>4 DEF Holds
    <3>2. <<"data", i>> \in Jobs(c)
      BY <3>1 DEF Jobs
    <3> QED BY <3>2
  <2>5. CASE \E data \in Data : data.coords = c /\ Holds(setDataBatch, data)
    <3>1. PICK i \in DOMAIN setDataBatch : setDataBatch[i].coords = c
      BY <2>1, <2>5 DEF Holds
    <3>2. <<"batch", i>> \in Jobs(c)
      BY <3>1 DEF Jobs
    <3> QED BY <3>2
  <2>6. CASE stPc \in {"loading", "loadFailed"} /\ stChunk = c
    <3>1. <<"loading", 0>> \in Jobs(c)
      BY <2>6 DEF Jobs
    <3> QED BY <3>1
  <2>7. CASE gnItem.coords = c
    <3>1. <<"generating", 0>> \in Jobs(c)
      BY <2>7 DEF Jobs
    <3> QED BY <3>1
  <2> QED BY <1>1, <2>2, <2>3, <2>4, <2>5, <2>6, <2>7 DEF Worked
<1>2. TypeOK /\ NotForgotten => QueuedHasJobUnlessSkipped
    BY <1>1 DEF NotForgotten, Remembered, QueuedHasJobUnlessSkipped
<1> QED BY <1>2, NotForgottenInit, NotForgottenStep, TypeCorrect, PTL DEF Spec

=============================================================================
