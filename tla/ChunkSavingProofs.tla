-------------------------- MODULE ChunkSavingProofs --------------------------
(***************************************************************************)
(* Saving in ChunkPipeline, for any chunks and holders.  A chunk that is   *)
(* queued for saving once at a time is there when it is written; a chunk   *)
(* that is not dirty equals its file; and ChunkPipeline implements         *)
(* WorldContents: no loading, saving or unloading of a chunk changes what  *)
(* the world contains.  The exceptions are chunks, each made one by an     *)
(* event of its own history, which the model records.                      *)
(***************************************************************************)
EXTENDS ChunkPipelineProofs

USE DEF chunkVars, flagVars, holderVars, storageVars, generatorVars, dataVars, boundVars,
        doubtVars

-----------------------------------------------------------------------------
(* What the exceptions are made for never goes away *)

\* A chunk that is once regenerated, queued for saving again, or changed unnoticed, counts
\* as such from then on.
LEMMA DoubtGrows ==
    ASSUME [Next]_vars
    PROVE  /\ regenerated \subseteq regenerated' /\ overlapped \subseteq overlapped'
           /\ missed \subseteq missed'
<1>1. CASE UNCHANGED doubtVars
    BY <1>1
<1>2. CASE RegenSteps
    BY <1>2 DEF RegenSteps, MarkChunkRegenerating, QueueRegeneration
<1>3. CASE BlockSteps
    BY <1>3 DEF BlockSteps, FastSetBlock, ReplaceLiquid, TickBlockEntities, ChangeBlocks
<1>4. CASE SaveAllChunks
    BY <1>4 DEF SaveAllChunks
<1>5. ASSUME ~RegenSteps, ~BlockSteps, ~SaveAllChunks PROVE UNCHANGED doubtVars
    BY <1>5 DEF Next, vars, ClientSteps, AddChunkClient, RemoveChunkClient, GenerateChunk,
        SetChunkAlwaysTicked, RemoveClientFromChunks, EntitySteps, AddEntity, RemoveEntity,
        AddPlayer, RemovePlayer, DataSteps, TakeChunkDataSets, SetChunkData,
        UnloadUnusedChunks, StorageSteps, LoadSteps, SaveSteps, LoadDequeue, LoadNothing,
        LoadChunk, LoadMisses, ChunkLoadFailed, SaveDequeue, SaveNothing, SaveCheckValid,
        MarkChunkSaving, SaveSnapshot, SaveWrite, SaveWriteFails, MarkChunkSaved,
        GeneratorSteps, GenDequeue, GenCheckValid, GenCheckClients, DoGenerate
<1> QED BY <1>1, <1>2, <1>3, <1>4, <1>5

-----------------------------------------------------------------------------
(* Rounds of saving, which may overlap *)

\* A chunk that no regeneration and no second round got hold of before it was saved.
Orderly(c) == c \notin regenerated \cup overlapped

\* Such a chunk, from the moment it is queued for saving until it is saved, is valid and
\* dirty, and is in one place of the round only.
InRound(c) == IsValid(c) /\ dirty[c]

RoundInv ==
    /\ \A i \in 1 .. Len(saveQueue) : Orderly(saveQueue[i]) =>
          /\ InRound(saveQueue[i])
          /\ \A j \in 1 .. Len(saveQueue) : saveQueue[j] = saveQueue[i] => j = i
    /\ stPc \in SavePc /\ Orderly(stChunk) =>
          /\ InRound(stChunk)
          /\ \A i \in 1 .. Len(saveQueue) : saveQueue[i] # stChunk

\* Initially no round is under way.
LEMMA RoundInit == Init => RoundInv
BY DEF Init, RoundInv, SavePc

\* A step that adds nothing to the round and takes no chunk of it away.
SameRound ==
    /\ UNCHANGED saveQueue
    /\ stPc' \in SavePc => stPc \in SavePc /\ stChunk' = stChunk
    /\ regenerated \subseteq regenerated' /\ UNCHANGED overlapped
    /\ \A c \in Coords \ regenerated' : IsValid(c) /\ dirty[c] => IsValid(c)' /\ dirty'[c]

\* Such a step keeps the invariant.
LEMMA SameRoundStep == TypeOK /\ RoundInv /\ SameRound => RoundInv'
<1> SUFFICES ASSUME TypeOK, RoundInv, SameRound PROVE RoundInv'
    OBVIOUS
<1>1. /\ \A i \in 1 .. Len(saveQueue) : saveQueue[i] \in Coords
      /\ stPc \in SavePc => stChunk \in Coords
    BY DEF TypeOK, StorageTypes, SavePc
<1>2. \A c \in Coords : Orderly(c)' => Orderly(c) /\ (InRound(c) => InRound(c)')
    BY DEF InRound, SameRound, Orderly
<1> QED BY <1>1, <1>2 DEF RoundInv, SameRound

\* A round queues dirty chunks, each of them once; those that are in an earlier round still
\* are overlapped.
LEMMA BeginRound == TypeOK /\ RoundInv /\ SaveAllChunks => RoundInv'
<1> SUFFICES ASSUME TypeOK, RoundInv, SaveAllChunks PROVE RoundInv'
    OBVIOUS
<1> DEFINE S == {c \in Coords : NeedsSaving(c)}
<1>1. PICK order \in Orders(S) : saveQueue' = saveQueue \o order
    BY DEF SaveAllChunks
<1>2. /\ overlapped' = overlapped \cup {c \in Coords : NeedsSaving(c) /\ SavePending(c)}
      /\ UNCHANGED <<stPc, stChunk, presence, dirty, regenerated>>
    BY DEF SaveAllChunks
<1>3. S \in SUBSET Coords
    OBVIOUS
<1>4. \A i \in 1 .. Len(order) : order[i] \in Coords /\ NeedsSaving(order[i])
  <2>1. \A i \in DOMAIN order : order[i] \in S
    BY DEF Orders
  <2> HIDE DEF S
  <2>2. order \in Seq(Coords) /\ DOMAIN order = 1 .. Len(order)
    BY <1>3, OrdersAreSequences
  <2>3. \A i \in 1 .. Len(order) : order[i] \in S
    BY <2>1, <2>2
  <2> QED BY <2>3 DEF S
<1> HIDE DEF S
<1>5. order \in Seq(Coords) /\ DOMAIN order = 1 .. Len(order)
    BY <1>3, OrdersAreSequences
<1>6. \A i, j \in 1 .. Len(order) : order[i] = order[j] => i = j
  <2>1. \A i, j \in DOMAIN order : order[i] = order[j] => i = j
    BY DEF Orders
  <2> QED BY <1>5, <2>1
<1>7. saveQueue \in Seq(Coords) /\ (stPc \in SavePc => stChunk \in Coords)
    BY DEF TypeOK, StorageTypes, SavePc
<1> DEFINE n == Len(saveQueue)
<1>8. \A i \in 1 .. Len(saveQueue') :
          \/ i \in 1 .. n /\ saveQueue'[i] = saveQueue[i]
          \/ i - n \in 1 .. Len(order) /\ saveQueue'[i] = order[i - n]
    BY <1>1, <1>5, <1>7
<1>9. \A c \in Coords : Orderly(c)' => Orderly(c) /\ ~(NeedsSaving(c) /\ SavePending(c))
    BY <1>2 DEF Orderly
<1>10. \A c \in Coords : (InRound(c)' <=> InRound(c)) /\ (NeedsSaving(c) => InRound(c))
    BY <1>2 DEF InRound, NeedsSaving, IsValid
<1>11. \A i \in 1 .. n : SavePending(saveQueue[i]) /\ saveQueue[i] \in Coords
    BY <1>7 DEF SavePending
<1>12. ASSUME NEW i \in 1 .. Len(saveQueue'), Orderly(saveQueue[i])'
       PROVE  InRound(saveQueue[i])'
  <2>1. CASE i \in 1 .. n /\ saveQueue'[i] = saveQueue[i]
    BY <1>9, <1>10, <1>11, <1>12, <2>1 DEF RoundInv
  <2>2. CASE i - n \in 1 .. Len(order) /\ saveQueue'[i] = order[i - n]
    BY <1>4, <1>10, <2>2
  <2> QED BY <1>8, <2>1, <2>2
<1>13. ASSUME NEW i \in 1 .. Len(saveQueue'), Orderly(saveQueue[i])',
              NEW j \in 1 .. Len(saveQueue'), saveQueue'[j] = saveQueue'[i]
       PROVE  j = i
  <2>1. CASE i \in 1 .. n /\ j \in 1 .. n
    BY <1>8, <1>9, <1>11, <1>13, <2>1, <1>1, <1>5, <1>7 DEF RoundInv
  <2>2. CASE i \in 1 .. n /\ j \notin 1 .. n
    <3>1. saveQueue'[i] = saveQueue[i] /\ SavePending(saveQueue[i])
      BY <1>1, <1>5, <1>7, <1>11, <2>2
    <3>2. j - n \in 1 .. Len(order) /\ saveQueue'[j] = order[j - n]
      BY <1>8, <2>2
    <3> QED BY <1>4, <1>9, <1>13, <3>1, <3>2
  <2>3. CASE i \notin 1 .. n /\ j \in 1 .. n
    <3>1. saveQueue'[j] = saveQueue[j] /\ SavePending(saveQueue[j])
      BY <1>1, <1>5, <1>7, <1>11, <2>3
    <3>2. i - n \in 1 .. Len(order) /\ saveQueue'[i] = order[i - n]
      BY <1>8, <2>3
    <3> QED BY <1>4, <1>9, <1>13, <3>1, <3>2
  <2>4. CASE i \notin 1 .. n /\ j \notin 1 .. n
    <3>1. /\ i - n \in 1 .. Len(order) /\ saveQueue'[i] = order[i - n]
          /\ j - n \in 1 .. Len(order) /\ saveQueue'[j] = order[j - n]
      BY <1>8, <2>4
    <3>2. j - n = i - n
      BY <1>6, <1>13, <3>1
    <3> QED BY <1>7, <3>2
  <2> QED BY <2>1, <2>2, <2>3, <2>4
<1>14. ASSUME stPc' \in SavePc, Orderly(stChunk)'
       PROVE  /\ InRound(stChunk)'
              /\ \A i \in 1 .. Len(saveQueue') : saveQueue'[i] # stChunk'
  <2>1. /\ stPc \in SavePc /\ stChunk' = stChunk /\ stChunk \in Coords
        /\ SavePending(stChunk) /\ Orderly(stChunk) /\ ~NeedsSaving(stChunk)
    <3>1. stPc \in SavePc /\ stChunk' = stChunk /\ stChunk \in Coords
      BY <1>2, <1>7, <1>14
    <3>2. SavePending(stChunk)
      BY <3>1 DEF SavePending
    <3> QED BY <1>9, <1>14, <3>1, <3>2
  <2>2. InRound(stChunk)
    BY <2>1 DEF RoundInv
  <2> QED BY <2>1, <2>2 DEF InRound, NeedsSaving
<1> QED BY <1>12, <1>13, <1>14 DEF RoundInv

\* The storage thread takes the first chunk of the queue.
LEMMA TakeFromRound == TypeOK /\ RoundInv /\ SaveDequeue => RoundInv'
<1> SUFFICES ASSUME TypeOK, RoundInv, SaveDequeue PROVE RoundInv'
    OBVIOUS
<1>1. /\ saveQueue \in Seq(Coords) /\ saveQueue # << >> /\ saveQueue' = Tail(saveQueue)
      /\ stChunk' = Head(saveQueue)
      /\ UNCHANGED <<presence, dirty, regenerated, overlapped>>
    BY DEF TypeOK, StorageTypes, SaveDequeue, StorageGoesTo
<1>2. /\ Head(saveQueue) = saveQueue[1] /\ Len(saveQueue) >= 1
      /\ \A i \in 1 .. Len(saveQueue') :
            i + 1 \in 1 .. Len(saveQueue) /\ saveQueue'[i] = saveQueue[i + 1] /\ i + 1 # 1
    BY <1>1
<1>3. \A c : (InRound(c)' <=> InRound(c)) /\ (Orderly(c)' <=> Orderly(c))
    BY <1>1 DEF InRound, Orderly, IsValid
<1>4. Orderly(stChunk)' => /\ InRound(stChunk)'
                           /\ \A i \in 1 .. Len(saveQueue') : saveQueue'[i] # stChunk'
    BY <1>1, <1>2, <1>3 DEF RoundInv
<1>5. ASSUME NEW i \in 1 .. Len(saveQueue'), Orderly(saveQueue[i])'
      PROVE  /\ InRound(saveQueue[i])'
             /\ \A j \in 1 .. Len(saveQueue') : saveQueue'[j] = saveQueue'[i] => j = i
  <2>1. i + 1 \in 1 .. Len(saveQueue) /\ Orderly(saveQueue[i + 1])
    BY <1>2, <1>3, <1>5
  <2>2. InRound(saveQueue[i])'
    BY <1>2, <1>3, <2>1 DEF RoundInv
  <2>3. ASSUME NEW j \in 1 .. Len(saveQueue'), saveQueue'[j] = saveQueue'[i] PROVE j = i
    <3>1. j + 1 \in 1 .. Len(saveQueue) /\ saveQueue[j + 1] = saveQueue[i + 1]
      BY <1>2, <2>3
    <3>2. j + 1 = i + 1
      BY <2>1, <3>1 DEF RoundInv
    <3> QED BY <3>2
  <2> QED BY <2>2, <2>3
<1> QED BY <1>4, <1>5 DEF RoundInv

\* A chunk that was saved is not in the round any more.
LEMMA LeaveRound == TypeOK /\ RoundInv /\ MarkChunkSaved => RoundInv'
<1> SUFFICES ASSUME TypeOK, RoundInv, MarkChunkSaved PROVE RoundInv'
    OBVIOUS
<1>1. /\ dirty \in [Coords -> BOOLEAN] /\ stPc \in SavePc /\ stChunk \in Coords
      /\ stPc' \notin SavePc
      /\ \A c \in Coords \ {stChunk} : dirty'[c] = dirty[c]
      /\ UNCHANGED <<presence, saveQueue, regenerated, overlapped>>
    BY DEF TypeOK, ChunkTypes, StorageTypes, MarkChunkSaved, StorageGoesTo, SavePc
<1>2. \A c : Orderly(c)' <=> Orderly(c)
    BY <1>1 DEF Orderly
<1>3. \A i \in 1 .. Len(saveQueue) :
          saveQueue[i] \in Coords /\ (Orderly(saveQueue[i]) => saveQueue[i] # stChunk)
    BY <1>1 DEF RoundInv, TypeOK, StorageTypes
<1>4. \A i \in 1 .. Len(saveQueue) : Orderly(saveQueue[i]) => InRound(saveQueue[i])'
    BY <1>1, <1>3 DEF RoundInv, InRound, IsValid
<1> QED BY <1>1, <1>2, <1>4 DEF RoundInv

\* Asking for a chunk leaves the round alone.
LEMMA GetChunkSameRound ==
    ASSUME TypeOK, NEW c \in Coords, GetChunk(c),
           UNCHANGED <<dirty, saveQueue, stPc, stChunk, regenerated, overlapped>>
    PROVE  SameRound
BY DEF TypeOK, ChunkTypes, GetChunk, SameRound, IsValid

\* Every step keeps the invariant.
LEMMA RoundStep == TypeOK /\ RoundInv /\ [Next]_vars => RoundInv'
<1> SUFFICES ASSUME TypeOK, RoundInv, [Next]_vars PROVE RoundInv'
    OBVIOUS
<1>1. ASSUME NEW c \in Coords, NEW k \in Clients, AddChunkClient(c, k) PROVE RoundInv'
    BY <1>1, GetChunkSameRound, SameRoundStep DEF AddChunkClient
<1>2. ASSUME NEW c \in Coords, NEW k \in Clients, RemoveChunkClient(c, k) PROVE RoundInv'
  <2>1. SameRound
    BY <1>2 DEF RemoveChunkClient, IsValid, SameRound
  <2> QED BY <2>1, SameRoundStep
<1>3. ASSUME NEW k \in Clients, RemoveClientFromChunks(k) PROVE RoundInv'
  <2>1. SameRound
    BY <1>3 DEF RemoveClientFromChunks, IsValid, SameRound
  <2> QED BY <2>1, SameRoundStep
<1>4. ASSUME NEW c \in Coords, GenerateChunk(c) PROVE RoundInv'
    BY <1>4, GetChunkSameRound, SameRoundStep DEF GenerateChunk
<1>5. ASSUME NEW c \in Coords, NEW on \in BOOLEAN, SetChunkAlwaysTicked(c, on) PROVE RoundInv'
    BY <1>5, GetChunkSameRound, SameRoundStep DEF SetChunkAlwaysTicked
<1>6. ASSUME NEW c \in Coords, NEW m \in Mobs, AddEntity(c, m) PROVE RoundInv'
  <2>1. SameRound
    BY <1>6 DEF AddEntity, ConstructChunk, Exists, MarkDirty, TypeOK, ChunkTypes, IsValid, SameRound
  <2> QED BY <2>1, SameRoundStep
<1>7. ASSUME NEW c \in Coords, NEW m \in Mobs, RemoveEntity(c, m) PROVE RoundInv'
  <2>1. SameRound
    BY <1>7 DEF RemoveEntity, MarkDirty, TypeOK, ChunkTypes, IsValid, SameRound
  <2> QED BY <2>1, SameRoundStep
<1>8. ASSUME NEW c \in Coords, NEW p \in Players, AddPlayer(c, p) PROVE RoundInv'
  <2>1. SameRound
    BY <1>8 DEF AddPlayer, ConstructChunk, Exists, TypeOK, ChunkTypes, IsValid, SameRound
  <2> QED BY <2>1, SameRoundStep
<1>9. ASSUME NEW c \in Coords, NEW p \in Players, RemovePlayer(c, p) PROVE RoundInv'
  <2>1. SameRound
    BY <1>9 DEF RemovePlayer, IsValid, SameRound
  <2> QED BY <2>1, SameRoundStep
<1>10. ASSUME NEW c \in Coords, FastSetBlock(c) PROVE RoundInv'
  <2>1. SameRound
    BY <1>10 DEF FastSetBlock, ChangeBlocks, MarkDirty, TypeOK, ChunkTypes, IsValid, SameRound
  <2> QED BY <2>1, SameRoundStep
<1>11. ASSUME NEW c \in Coords, ReplaceLiquid(c) PROVE RoundInv'
  <2>1. SameRound
    BY <1>11 DEF ReplaceLiquid, ChangeBlocks, IsValid, SameRound
  <2> QED BY <2>1, SameRoundStep
<1>12. ASSUME NEW c \in Coords, TickBlockEntities(c) PROVE RoundInv'
  <2>1. SameRound
    BY <1>12 DEF TickBlockEntities, ChangeBlocks, TypeOK, ChunkTypes, IsValid, SameRound
  <2> QED BY <2>1, SameRoundStep
<1>13. ASSUME TakeChunkDataSets PROVE RoundInv'
  <2>1. SameRound
    BY <1>13 DEF TakeChunkDataSets, IsValid, SameRound
  <2> QED BY <2>1, SameRoundStep
<1>14. ASSUME SetChunkData PROVE RoundInv'
  <2>1. SameRound
    BY <1>14 DEF SetChunkData, TypeOK, ChunkTypes, IsValid, SameRound
  <2> QED BY <2>1, SameRoundStep
<1>15. ASSUME UnloadUnusedChunks PROVE RoundInv'
  <2>1. \A d \in Coords : IsValid(d) /\ dirty[d] => IsValid(d)'
    BY <1>15 DEF UnloadUnusedChunks, CanUnload, IsValid
  <2>2. SameRound
    BY <1>15, <2>1 DEF UnloadUnusedChunks, SameRound
  <2> QED BY <2>2, SameRoundStep
<1>16. ASSUME SaveAllChunks PROVE RoundInv'
    BY <1>16, BeginRound
<1>17. ASSUME NEW c \in Coords, MarkChunkRegenerating(c) PROVE RoundInv'
  <2>1. SameRound
    BY <1>17 DEF MarkChunkRegenerating, TypeOK, ChunkTypes, IsValid, SameRound
  <2> QED BY <2>1, SameRoundStep
<1>18. ASSUME QueueRegeneration PROVE RoundInv'
  <2>1. SameRound
    BY <1>18 DEF QueueRegeneration, IsValid, SameRound
  <2> QED BY <2>1, SameRoundStep
<1>19. ASSUME LoadDequeue PROVE RoundInv'
  <2>1. SameRound
    BY <1>19 DEF LoadDequeue, StorageGoesTo, SavePc, IsValid, SameRound
  <2> QED BY <2>1, SameRoundStep
<1>20. ASSUME LoadNothing PROVE RoundInv'
  <2>1. SameRound
    BY <1>20 DEF LoadNothing, StorageGoesTo, SavePc, IsValid, SameRound
  <2> QED BY <2>1, SameRoundStep
<1>21. ASSUME LoadChunk PROVE RoundInv'
  <2>1. SameRound
    BY <1>21 DEF LoadChunk, StorageGoesTo, SavePc, IsValid, SameRound
  <2> QED BY <2>1, SameRoundStep
<1>22. ASSUME LoadMisses PROVE RoundInv'
  <2>1. SameRound
    BY <1>22 DEF LoadMisses, StorageGoesTo, SavePc, IsValid, SameRound
  <2> QED BY <2>1, SameRoundStep
<1>23. ASSUME ChunkLoadFailed PROVE RoundInv'
  <2>1. SameRound
    BY <1>23 DEF ChunkLoadFailed, MarkDirty, StorageGoesTo, SavePc, TypeOK, ChunkTypes,
        IsValid, SameRound
  <2> QED BY <2>1, SameRoundStep
<1>24. ASSUME SaveDequeue PROVE RoundInv'
    BY <1>24, TakeFromRound
<1>25. ASSUME SaveNothing PROVE RoundInv'
  <2>1. SameRound
    BY <1>25 DEF SaveNothing, StorageGoesTo, SavePc, IsValid, SameRound
  <2> QED BY <2>1, SameRoundStep
<1>26. ASSUME SaveCheckValid PROVE RoundInv'
  <2>1. SameRound
    BY <1>26 DEF SaveCheckValid, StorageGoesTo, SavePc, IsValid, SameRound
  <2> QED BY <2>1, SameRoundStep
<1>27. ASSUME MarkChunkSaving PROVE RoundInv'
  <2>1. SameRound
    BY <1>27 DEF MarkChunkSaving, StorageGoesTo, SavePc, IsValid, SameRound
  <2> QED BY <2>1, SameRoundStep
<1>28. ASSUME SaveSnapshot PROVE RoundInv'
  <2>1. SameRound
    BY <1>28 DEF SaveSnapshot, StorageGoesTo, SavePc, IsValid, SameRound
  <2> QED BY <2>1, SameRoundStep
<1>29. ASSUME NEW c \in Coords, SaveWrite(c) PROVE RoundInv'
  <2>1. SameRound
    BY <1>29 DEF SaveWrite, StorageGoesTo, SavePc, IsValid, SameRound
  <2> QED BY <2>1, SameRoundStep
<1>30. ASSUME SaveWriteFails PROVE RoundInv'
  <2>1. SameRound
    BY <1>30 DEF SaveWriteFails, StorageGoesTo, SavePc, IsValid, SameRound
  <2> QED BY <2>1, SameRoundStep
<1>31. ASSUME MarkChunkSaved PROVE RoundInv'
    BY <1>31, LeaveRound
<1>32. ASSUME GeneratorSteps PROVE RoundInv'
  <2>1. SameRound
    BY <1>32 DEF GeneratorSteps, GenDequeue, GenCheckValid, GenCheckClients, DoGenerate,
        IsValid, SameRound
  <2> QED BY <2>1, SameRoundStep
<1>33. ASSUME UNCHANGED vars PROVE RoundInv'
  <2>1. SameRound
    BY <1>33 DEF vars, IsValid, SameRound
  <2> QED BY <2>1, SameRoundStep
<1> QED BY <1>1, <1>2, <1>3, <1>4, <1>5, <1>6, <1>7, <1>8, <1>9, <1>10, <1>11, <1>12,
    <1>13, <1>14, <1>15, <1>16, <1>17, <1>18, <1>19, <1>20, <1>21, <1>22, <1>23, <1>24,
    <1>25, <1>26, <1>27, <1>28, <1>29, <1>30, <1>31, <1>32, <1>33
    DEF Next, ClientSteps, EntitySteps, BlockSteps, DataSteps, RegenSteps, LoadSteps,
    SaveSteps, StorageSteps

\* The invariant holds in every reachable state.
LEMMA RoundCorrect == Spec => []RoundInv
<1>1. TypeOK /\ RoundInv /\ [Next]_vars => RoundInv'
    BY RoundStep
<1> QED BY RoundInit, TypeCorrect, <1>1, PTL DEF Spec

-----------------------------------------------------------------------------
(* A save writes a chunk that is there *)

\* An orderly chunk has not the content of a chunk that was not there when it was
\* serialized: neither in memory or in its file, ...
ChunksWhole ==
    \A c \in Coords : Orderly(c) =>
        mem[c].blocks # Sectionless /\ disk[c].blocks # Sectionless

\* ... nor in the copy about to be written, ...
SnapshotWhole == stPc = "saveWrite" /\ Orderly(stChunk) => stSnapshot.blocks # Sectionless

\* ... nor in the data on their way to the tick thread.
QueueWhole ==
    \A i \in 1 .. Len(setDataQueue) : Orderly(setDataQueue[i].coords) =>
        setDataQueue[i].content.blocks # Sectionless

BatchWhole ==
    \A i \in 1 .. Len(setDataBatch) : Orderly(setDataBatch[i].coords) =>
        setDataBatch[i].content.blocks # Sectionless

\* The inductive invariant.
WholeInv == ChunksWhole /\ SnapshotWhole /\ QueueWhole /\ BatchWhole

\* No content is a missing chunk's to begin with.
LEMMA WholeInit == Init => WholeInv
BY DEF Init, WholeInv, ChunksWhole, SnapshotWhole, QueueWhole, BatchWhole, Nothing,
       NotGenerated, Sectionless

\* Most steps change no content, and begin no write.
WholeKept ==
    /\ UNCHANGED <<mem, disk, dataVars>>
    /\ stPc' = "saveWrite" => UNCHANGED <<stPc, stChunk, stSnapshot>>

\* These do.
LEMMA WholeKeptSteps ==
    ASSUME \/ ClientSteps \/ (\E k \in Clients : RemoveClientFromChunks(k))
           \/ (\E c \in Coords, p \in Players : AddPlayer(c, p) \/ RemovePlayer(c, p))
           \/ SaveAllChunks \/ RegenSteps
           \/ LoadDequeue \/ LoadNothing \/ LoadMisses \/ ChunkLoadFailed
           \/ SaveDequeue \/ SaveNothing \/ SaveCheckValid \/ MarkChunkSaving \/ MarkChunkSaved
           \/ GenDequeue \/ GenCheckValid \/ GenCheckClients
           \/ UNCHANGED vars
    PROVE  WholeKept
BY DEF WholeKept, ClientSteps, AddChunkClient, RemoveChunkClient, GenerateChunk,
       SetChunkAlwaysTicked, RemoveClientFromChunks, AddPlayer, RemovePlayer, SaveAllChunks,
       RegenSteps, MarkChunkRegenerating, QueueRegeneration, StorageGoesTo,
       LoadDequeue, LoadNothing, LoadMisses, ChunkLoadFailed, SaveDequeue, SaveNothing,
       SaveCheckValid, MarkChunkSaving, MarkChunkSaved, GenDequeue, GenCheckValid,
       GenCheckClients, vars

\* A step that changes the content of one chunk in memory, to one that is whole.
LEMMA WholeChanged ==
    ASSUME TypeOK, WholeInv, NEW c \in Coords, NEW content,
           Orderly(c) => content.blocks # Sectionless, mem' = [mem EXCEPT ![c] = content],
           UNCHANGED <<disk, dataVars, stPc, stChunk, stSnapshot>>,
           \A d : Orderly(d)' => Orderly(d)
    PROVE  WholeInv'
<1>1. mem \in [Coords -> Content]
    BY DEF TypeOK, ChunkTypes
<1>2. ChunksWhole'
    BY <1>1 DEF WholeInv, ChunksWhole
<1> QED BY <1>2 DEF WholeInv, SnapshotWhole, QueueWhole, BatchWhole

\* Data that are queued for the tick thread are those of the file, or generated.
LEMMA WholeQueued ==
    ASSUME TypeOK, WholeInv, NEW c \in Coords, NEW content,
           Orderly(c) => content.blocks # Sectionless, QueueSetChunkData(c, content),
           UNCHANGED <<mem, disk, setDataBatch>>,
           stPc' = "saveWrite" => UNCHANGED <<stPc, stChunk, stSnapshot>>,
           \A d : Orderly(d)' => Orderly(d)
    PROVE  WholeInv'
<1>1. /\ setDataQueue \in Seq(Data)
      /\ setDataQueue' = Append(setDataQueue, [coords |-> c, content |-> content])
    BY DEF TypeOK, DataTypes, QueueSetChunkData
<1>2. \A i \in 1 .. Len(setDataQueue') :
          \/ i \in 1 .. Len(setDataQueue) /\ setDataQueue'[i] = setDataQueue[i]
          \/ setDataQueue'[i] = [coords |-> c, content |-> content]
    BY <1>1
<1>3. QueueWhole'
    BY <1>2 DEF WholeInv, QueueWhole
<1> QED BY <1>3 DEF WholeInv, ChunksWhole, SnapshotWhole, BatchWhole

\* Every step keeps the invariant: an orderly chunk is copied only while it is there.
LEMMA WholeStep ==
    ASSUME TypeOK, RoundInv, WholeInv, [Next]_vars PROVE WholeInv'
<1>1. \A d : Orderly(d)' => Orderly(d)
    BY DoubtGrows DEF Orderly
<1>2. ASSUME WholeKept PROVE WholeInv'
    BY <1>1, <1>2 DEF WholeKept, WholeInv, ChunksWhole, SnapshotWhole, QueueWhole, BatchWhole
<1>3. ASSUME NEW c \in Coords, NEW m \in Mobs, AddEntity(c, m) \/ RemoveEntity(c, m)
      PROVE  WholeInv'
  <2>1. PICK mobs : mem' = [mem EXCEPT ![c] = WithMobs(mem[c], mobs)]
    <3>1. CASE AddEntity(c, m)
      BY <3>1 DEF AddEntity
    <3>2. CASE RemoveEntity(c, m)
      BY <3>2 DEF RemoveEntity
    <3> QED BY <1>3, <3>1, <3>2
  <2>2. Orderly(c) => WithMobs(mem[c], mobs).blocks # Sectionless
    BY DEF WithMobs, WholeInv, ChunksWhole
  <2>3. UNCHANGED <<disk, dataVars, stPc, stChunk, stSnapshot>>
    BY <1>3 DEF AddEntity, RemoveEntity
  <2> QED BY <1>1, <2>1, <2>2, <2>3, WholeChanged
<1>4. ASSUME NEW c \in Coords, FastSetBlock(c) \/ ReplaceLiquid(c) \/ TickBlockEntities(c)
      PROVE  WholeInv'
  <2>1. ChangeBlocks(c)
    BY <1>4 DEF FastSetBlock, ReplaceLiquid, TickBlockEntities
  <2> DEFINE content == [blocks |-> NextVersion, mobs |-> mem[c].mobs]
  <2>2. content.blocks # Sectionless
    BY DEF NextVersion, Sectionless, TypeOK, CallTypes
  <2>3. /\ mem' = [mem EXCEPT ![c] = content]
        /\ UNCHANGED <<disk, dataVars, stPc, stChunk, stSnapshot>>
    BY <2>1 DEF ChangeBlocks
  <2> HIDE DEF content
  <2> QED BY <1>1, <2>2, <2>3, WholeChanged
<1>5. ASSUME TakeChunkDataSets PROVE WholeInv'
    BY <1>1, <1>5 DEF TakeChunkDataSets, WholeInv, ChunksWhole, SnapshotWhole, QueueWhole,
        BatchWhole
<1>6. ASSUME SetChunkData PROVE WholeInv'
  <2>1. /\ setDataBatch \in Seq(Data) /\ setDataBatch # << >>
        /\ setDataBatch' = Tail(setDataBatch)
        /\ UNCHANGED <<disk, setDataQueue, stPc, stChunk, stSnapshot>>
    BY <1>6 DEF SetChunkData, TypeOK, DataTypes
  <2>2. PICK data \in Data : data = Head(setDataBatch) /\ data = setDataBatch[1]
    BY <2>1
  <2>3. /\ data.coords \in Coords
        /\ mem' = [mem EXCEPT ![data.coords] = SetAllData(data.coords, data.content)]
    BY <1>6, <2>2 DEF SetChunkData, Data
  <2>4. Len(setDataBatch) >= 1 /\ \A i \in 1 .. Len(setDataBatch') :
            i + 1 \in 1 .. Len(setDataBatch) /\ setDataBatch'[i] = setDataBatch[i + 1]
    BY <2>1
  <2>5. Orderly(data.coords) => SetAllData(data.coords, data.content).blocks # Sectionless
    BY <2>2, <2>4 DEF SetAllData, WholeInv, BatchWhole
  <2>6. ChunksWhole'
    BY <1>1, <2>1, <2>3, <2>5 DEF WholeInv, ChunksWhole, TypeOK, ChunkTypes
  <2>7. BatchWhole'
    BY <1>1, <2>4 DEF WholeInv, BatchWhole
  <2> QED BY <1>1, <2>1, <2>6, <2>7 DEF WholeInv, SnapshotWhole, QueueWhole
<1>7. ASSUME UnloadUnusedChunks PROVE WholeInv'
  <2>1. /\ \A c \in Coords : mem'[c] \in {mem[c], Nothing}
        /\ UNCHANGED <<disk, dataVars, stPc, stChunk, stSnapshot>>
    BY <1>7 DEF UnloadUnusedChunks
  <2>2. ChunksWhole'
    BY <1>1, <2>1 DEF WholeInv, ChunksWhole, Nothing, NotGenerated, Sectionless
  <2> QED BY <1>1, <2>1, <2>2 DEF WholeInv, SnapshotWhole, QueueWhole, BatchWhole
<1>8. ASSUME LoadChunk PROVE WholeInv'
  <2>1. /\ stChunk \in Coords /\ QueueSetChunkData(stChunk, disk[stChunk])
        /\ stPc' # "saveWrite" /\ UNCHANGED <<mem, disk, setDataBatch>>
    BY <1>8 DEF LoadChunk, StorageGoesTo, TypeOK, StorageTypes
  <2>2. Orderly(stChunk) => disk[stChunk].blocks # Sectionless
    BY <2>1 DEF WholeInv, ChunksWhole
  <2> QED BY <1>1, <2>1, <2>2, WholeQueued
<1>9. ASSUME SaveSnapshot PROVE WholeInv'
  <2>1. /\ stPc \in SavePc /\ stChunk \in Coords /\ stChunk' = stChunk
        /\ IsValid(stChunk) => stSnapshot' = mem[stChunk]
        /\ UNCHANGED <<mem, disk, dataVars>>
    BY <1>9 DEF SaveSnapshot, StorageGoesTo, SavePc, TypeOK, StorageTypes
  <2>2. Orderly(stChunk) => stSnapshot'.blocks # Sectionless
    BY <2>1 DEF RoundInv, InRound, WholeInv, ChunksWhole
  <2> QED BY <1>1, <2>1, <2>2 DEF WholeInv, ChunksWhole, SnapshotWhole, QueueWhole, BatchWhole
<1>10. ASSUME stPc = "saveWrite", (\E c \in Coords : SaveWrite(c)) \/ SaveWriteFails
       PROVE  WholeInv'
  <2>1. /\ UNCHANGED <<mem, dataVars>> /\ stPc' # "saveWrite"
        /\ \A c \in Coords : disk'[c] \in {disk[c], Nothing} \/ (c = stChunk /\ disk'[c] = stSnapshot)
    BY <1>10 DEF SaveWrite, SaveWriteFails, StorageGoesTo, TypeOK, ChunkTypes
  <2>2. ChunksWhole'
    BY <1>1, <1>10, <2>1 DEF WholeInv, ChunksWhole, SnapshotWhole, Nothing, NotGenerated,
        Sectionless
  <2> QED BY <1>1, <2>1, <2>2 DEF WholeInv, SnapshotWhole, QueueWhole, BatchWhole
<1>11. ASSUME DoGenerate PROVE WholeInv'
  <2> DEFINE content == [blocks |-> Generated, mobs |-> {}]
  <2>1. /\ gnItem.coords \in Coords /\ QueueSetChunkData(gnItem.coords, content)
        /\ UNCHANGED <<mem, disk, setDataBatch, stPc, stChunk, stSnapshot>>
    BY <1>11 DEF DoGenerate, TypeOK, GeneratorTypes, Job
  <2>2. content.blocks # Sectionless
    BY DEF Generated, Sectionless
  <2> HIDE DEF content
  <2> QED BY <1>1, <2>1, <2>2, WholeQueued
<1>12. (\E c \in Coords : SaveWrite(c)) \/ SaveWriteFails => stPc = "saveWrite"
    BY DEF SaveWrite, SaveWriteFails
<1> QED BY WholeKeptSteps, <1>2, <1>3, <1>4, <1>5, <1>6, <1>7, <1>8, <1>9, <1>10, <1>11, <1>12
    DEF Next, EntitySteps, BlockSteps, DataSteps, LoadSteps, SaveSteps, StorageSteps,
    GeneratorSteps

\* The storage thread writes no chunk that was unloaded after it looked, however the rounds
\* of saving overlap: what Serialize relies on.  (Not one that a second round queued before
\* the first had saved it, or that was regenerated.)
THEOREM SavesPresent == Spec => []SavesPresentUnlessOverlapped
<1>1. TypeOK /\ RoundInv /\ WholeInv /\ [Next]_vars => WholeInv'
    BY WholeStep
<1>2. WholeInv => SavesPresentUnlessOverlapped
    BY DEF WholeInv, SnapshotWhole, SavesPresentUnlessOverlapped, Orderly
<1> QED BY WholeInit, TypeCorrect, RoundCorrect, <1>1, <1>2, PTL DEF Spec

-----------------------------------------------------------------------------
(* A chunk that is not dirty equals its file *)

USE DEF Doubted

\* The chunks that CleanIsSavedUnlessDoubted speaks of.
Plain(c) == c \in Coords \ Doubted

\* The storage thread has found a chunk valid and is about to mark, copy or write it.
Writing == stPc \in {"saveMark", "saveSnapshot", "saveWrite", "saveDone"}

\* Data on their way to the tick thread are those of the file, or the chunk is dirty.
QueueSaved ==
    \A i \in 1 .. Len(setDataQueue) :
        Plain(setDataQueue[i].coords) /\ ~dirty[setDataQueue[i].coords] =>
            setDataQueue[i].content = disk[setDataQueue[i].coords]

BatchSaved ==
    \A i \in 1 .. Len(setDataBatch) :
        Plain(setDataBatch[i].coords) /\ ~dirty[setDataBatch[i].coords] =>
            setDataBatch[i].content = disk[setDataBatch[i].coords]

\* What is generated is not in the file yet.
GeneratedDirty ==
    \A c \in Coords : Plain(c) /\ stage[c] \in {"generate", "generating"} => dirty[c]

\* A chunk being written does not come back in that time: the thread that writes it is the
\* one that would load it.
WritingFollows == Writing /\ Plain(stChunk) => stage[stChunk] \in {"none", "load"}

\* The copy that is about to be written is the chunk, unless a change since has marked it.
SnapshotSaved ==
    stPc = "saveWrite" /\ Plain(stChunk) /\ IsValid(stChunk) =>
        (dirty[stChunk] /\ ~saving[stChunk]) \/ stSnapshot = mem[stChunk]

WrittenSaved ==
    stPc = "saveDone" /\ Plain(stChunk) /\ IsValid(stChunk) /\ saving[stChunk] =>
        disk[stChunk] = mem[stChunk]

\* A chunk without blocks yet has no mobs, or it is dirty.
MobsDirty == \A c \in Coords : Plain(c) /\ ~IsValid(c) /\ ~dirty[c] => mem[c].mobs = {}

\* The inductive invariant.
SaveInv ==
    /\ CleanIsSavedUnlessDoubted /\ QueueSaved /\ BatchSaved /\ GeneratedDirty
    /\ WritingFollows /\ SnapshotSaved /\ WrittenSaved /\ MobsDirty

\* Initially nothing is valid, queued or written.
LEMMA SaveInit == Init => SaveInv
BY DEF Init, SaveInv, CleanIsSavedUnlessDoubted, QueueSaved, BatchSaved, GeneratedDirty,
       WritingFollows, Writing, SnapshotSaved, WrittenSaved, MobsDirty, IsValid, Nothing

-----------------------------------------------------------------------------
(* Two kinds of steps that many actions are *)

\* A step that changes no content and no flag, moves no data, and moves no chunk to the
\* generator; the storage thread stands still or stops writing.
Calm ==
    /\ UNCHANGED <<dirty, saving, mem, disk, setDataQueue, setDataBatch, edits>>
    /\ Doubted \subseteq Doubted'
    /\ \A c \in Coords \ Doubted' :
          /\ IsValid(c)' <=> IsValid(c)
          /\ stage'[c] \in {"generate", "generating"} => stage[c] \in {"generate", "generating"}
    /\ \/ ~Writing'
       \/ /\ UNCHANGED <<stPc, stChunk, stSnapshot>>
          /\ \A c \in Coords \ Doubted' :
                stage[c] \in {"none", "load"} => stage'[c] \in {"none", "load"}

\* Such a step keeps the invariant.
LEMMA CalmStep == SaveInv /\ Calm => SaveInv'
<1> SUFFICES ASSUME SaveInv, Calm PROVE SaveInv'
    OBVIOUS
<1>1. \A c : Plain(c)' => Plain(c) /\ c \in Coords \ Doubted'
    BY DEF Calm, Plain
<1>2. CleanIsSavedUnlessDoubted' /\ MobsDirty'
    BY <1>1 DEF SaveInv, Calm, CleanIsSavedUnlessDoubted, MobsDirty, Plain
<1>3. QueueSaved' /\ BatchSaved'
    BY <1>1 DEF SaveInv, Calm, QueueSaved, BatchSaved
<1>4. GeneratedDirty'
    BY <1>1 DEF SaveInv, Calm, GeneratedDirty
<1>5. WritingFollows'
    BY <1>1 DEF SaveInv, Calm, WritingFollows, Writing
<1>6. SnapshotSaved' /\ WrittenSaved'
    BY <1>1 DEF SaveInv, Calm, SnapshotSaved, WrittenSaved, Writing
<1> QED BY <1>2, <1>3, <1>4, <1>5, <1>6 DEF SaveInv

\* A step that changes the content of c, and marks it if it is one of those the invariant
\* is about: the save that has copied it will not make it clean.
Changed(c) ==
    /\ \A d \in Coords \ {c} :
          mem'[d] = mem[d] /\ dirty'[d] = dirty[d] /\ saving'[d] = saving[d]
    /\ Plain(c)' => dirty'[c] /\ ~SaveHasCopied(c)'
    /\ \A d \in Coords : IsValid(d)' <=> IsValid(d)
    /\ UNCHANGED <<disk, stage, dataVars, stPc, stChunk, stSnapshot>>
    /\ Doubted \subseteq Doubted'

\* Such a step keeps the invariant.
LEMMA ChangedStep == ASSUME NEW c \in Coords, SaveInv, Changed(c) PROVE SaveInv'
<1>1. \A d : Plain(d)' => Plain(d)
    BY DEF Changed, Plain
<1>2. \A d : Plain(d)' /\ ~dirty'[d] => d # c /\ d \in Coords /\ ~dirty[d] /\ mem'[d] = mem[d]
    BY DEF Changed, Plain
<1>3. CleanIsSavedUnlessDoubted' /\ MobsDirty'
    BY <1>1, <1>2 DEF SaveInv, Changed, CleanIsSavedUnlessDoubted, MobsDirty, Plain
<1>4. QueueSaved' /\ BatchSaved'
    BY <1>1, <1>2 DEF SaveInv, Changed, QueueSaved, BatchSaved
<1>5. GeneratedDirty' /\ WritingFollows'
    BY <1>1 DEF SaveInv, Changed, GeneratedDirty, WritingFollows, Writing, Plain
<1>6. SnapshotSaved' /\ WrittenSaved'
    BY <1>1 DEF SaveInv, Changed, SnapshotSaved, WrittenSaved, Plain, SaveHasCopied
<1> QED BY <1>3, <1>4, <1>5, <1>6 DEF SaveInv

-----------------------------------------------------------------------------
(* The steps that are neither *)

\* TickQueuedChunkDataSets takes the queue as its batch.
LEMMA TakeKeepsSaved == TypeOK /\ SaveInv /\ TakeChunkDataSets => SaveInv'
<1> SUFFICES ASSUME TypeOK, SaveInv, TakeChunkDataSets PROVE SaveInv'
    OBVIOUS
<1>1. /\ setDataBatch' = setDataQueue /\ setDataQueue' = << >>
      /\ stage' = [c \in Coords |-> IF stage[c] = "data" THEN "batch" ELSE stage[c]]
      /\ UNCHANGED <<presence, dirty, saving, mem, disk, stPc, stChunk, stSnapshot, doubtVars>>
    BY DEF TakeChunkDataSets
<1>2. CleanIsSavedUnlessDoubted' /\ MobsDirty' /\ SnapshotSaved' /\ WrittenSaved'
    BY <1>1 DEF SaveInv, CleanIsSavedUnlessDoubted, MobsDirty, SnapshotSaved, WrittenSaved,
        IsValid, Plain
<1>3. QueueSaved' /\ BatchSaved'
    BY <1>1 DEF SaveInv, QueueSaved, BatchSaved, Plain
<1>4. GeneratedDirty' /\ WritingFollows'
    BY <1>1 DEF SaveInv, GeneratedDirty, WritingFollows, Writing, Plain
<1> QED BY <1>2, <1>3, <1>4 DEF SaveInv

\* The data of a clean chunk are those of its file, and no mob waits for them.
LEMMA SetDataKeepsSaved == TypeOK /\ StageInv /\ SaveInv /\ SetChunkData => SaveInv'
<1> SUFFICES ASSUME TypeOK, StageInv, SaveInv, SetChunkData PROVE SaveInv'
    OBVIOUS
<1> DEFINE data == Head(setDataBatch)
           c    == data.coords
<1>1. /\ setDataBatch \in Seq(Data) /\ setDataBatch # << >>
      /\ mem \in [Coords -> Content] /\ presence \in [Coords -> Presence]
      /\ stage \in [Coords -> Stage]
    BY DEF TypeOK, DataTypes, ChunkTypes, SetChunkData
<1>2. data \in Data /\ data = setDataBatch[1] /\ Len(setDataBatch) >= 1
    BY <1>1
<1>3. c \in Coords /\ data.content \in Content
    BY <1>2 DEF Data
<1>4. /\ setDataBatch' = Tail(setDataBatch)
      /\ mem' = [mem EXCEPT ![c] = SetAllData(c, data.content)]
      /\ presence' = [presence EXCEPT ![c] = "cpPresent"]
      /\ stage' = [stage EXCEPT ![c] = "none"]
      /\ UNCHANGED <<dirty, saving, disk, stPc, stChunk, stSnapshot, setDataQueue, doubtVars>>
    BY DEF SetChunkData
<1>5. Plain(c) => stage[c] = "batch" /\ ~IsValid(c)
  <2>1. c \notin regenerated => stage[c] = "batch"
    BY <1>2 DEF StageInv, BatchFollows
  <2>2. c \notin regenerated => IsQueued(c)
    BY <1>3, <2>1 DEF StageInv, QueuedFollows
  <2> QED BY <2>1, <2>2 DEF Plain, IsQueued, IsValid
<1>6. Plain(c) /\ ~dirty[c] => data.content = disk[c] /\ mem[c].mobs = {}
    BY <1>2, <1>3, <1>5 DEF SaveInv, BatchSaved, MobsDirty
<1>7. Plain(c) /\ ~dirty[c] => mem'[c] = disk[c]
  <2>1. mem[c].mobs = {} => SetAllData(c, data.content) = data.content
    BY <1>3 DEF SetAllData, Content
  <2> QED BY <1>1, <1>3, <1>4, <1>6, <2>1
<1> HIDE DEF c
<1>8. \A d : Plain(d)' <=> Plain(d)
    BY <1>4 DEF Plain
<1>9. \A d \in Coords \ {c} :
          mem'[d] = mem[d] /\ (IsValid(d)' <=> IsValid(d)) /\ stage'[d] = stage[d]
    BY <1>1, <1>3, <1>4 DEF IsValid
<1>10. CleanIsSavedUnlessDoubted'
    BY <1>4, <1>7, <1>8, <1>9 DEF SaveInv, CleanIsSavedUnlessDoubted, Plain
<1>11. QueueSaved'
    BY <1>4, <1>8 DEF SaveInv, QueueSaved
<1>12. BatchSaved'
  <2>1. \A i \in 1 .. Len(setDataBatch') :
            i + 1 \in 1 .. Len(setDataBatch) /\ setDataBatch'[i] = setDataBatch[i + 1]
    BY <1>1, <1>4
  <2> QED BY <1>4, <1>8, <2>1 DEF SaveInv, BatchSaved
<1>13. GeneratedDirty' /\ WritingFollows'
    BY <1>1, <1>3, <1>4, <1>8, <1>9 DEF SaveInv, GeneratedDirty, WritingFollows, Writing, Plain
<1>14. SnapshotSaved' /\ WrittenSaved'
  <2>1. Writing /\ Plain(stChunk) => stChunk # c /\ stChunk \in Coords
    BY <1>5 DEF SaveInv, WritingFollows, Plain
  <2> QED BY <1>4, <1>8, <1>9, <2>1 DEF SaveInv, SnapshotSaved, WrittenSaved, Writing
<1>15. MobsDirty'
    BY <1>1, <1>3, <1>4, <1>8, <1>9 DEF SaveInv, MobsDirty, IsValid
<1> QED BY <1>10, <1>11, <1>12, <1>13, <1>14, <1>15 DEF SaveInv

\* An unloaded chunk is clean, and leaves neither blocks nor mobs in memory.
LEMMA UnloadKeepsSaved == TypeOK /\ SaveInv /\ UnloadUnusedChunks => SaveInv'
<1> SUFFICES ASSUME TypeOK, SaveInv, UnloadUnusedChunks PROVE SaveInv'
    OBVIOUS
<1>1. PICK S \in SUBSET Coords :
        /\ presence' = [c \in Coords |-> IF c \in S THEN "absent" ELSE presence[c]]
        /\ saving'   = [c \in Coords |-> saving[c] /\ c \notin S]
        /\ mem'      = [c \in Coords |-> IF c \in S THEN Nothing ELSE mem[c]]
    BY DEF UnloadUnusedChunks
<1>2. UNCHANGED <<dirty, disk, stPc, stChunk, stSnapshot, dataVars, stage, doubtVars>>
    BY DEF UnloadUnusedChunks
<1>3. \A c : Plain(c)' <=> Plain(c)
    BY <1>2 DEF Plain
<1>4. \A c \in Coords : IsValid(c)' => IsValid(c) /\ mem'[c] = mem[c] /\ (saving'[c] => saving[c])
    BY <1>1 DEF IsValid
<1>5. CleanIsSavedUnlessDoubted' /\ QueueSaved' /\ BatchSaved'
    BY <1>2, <1>3, <1>4 DEF SaveInv, CleanIsSavedUnlessDoubted, QueueSaved, BatchSaved
<1>6. GeneratedDirty' /\ WritingFollows'
    BY <1>2, <1>3 DEF SaveInv, GeneratedDirty, WritingFollows, Writing
<1>7. SnapshotSaved' /\ WrittenSaved'
    BY <1>2, <1>3, <1>4 DEF SaveInv, SnapshotSaved, WrittenSaved, Plain
<1>8. MobsDirty'
    BY <1>1, <1>2, <1>3 DEF SaveInv, MobsDirty, IsValid, Nothing
<1> QED BY <1>5, <1>6, <1>7, <1>8 DEF SaveInv

\* What queues data for the tick thread leaves the rest alone.
LEMMA QueueKeepsSaved ==
    ASSUME TypeOK, SaveInv, NEW c \in Coords, NEW content,
           Plain(c) /\ ~dirty[c] => content = disk[c],
           QueueSetChunkData(c, content),
           (UNCHANGED <<stPc, stChunk, stSnapshot>> /\ (Plain(c) => stage[c] = "generating"))
               \/ ~Writing',
           UNCHANGED <<presence, dirty, saving, mem, disk, setDataBatch, doubtVars>>
    PROVE  SaveInv'
<1>1. /\ setDataQueue' = Append(setDataQueue, [coords |-> c, content |-> content])
      /\ stage' = [stage EXCEPT ![c] = "data"]
    BY DEF QueueSetChunkData
<1>2. setDataQueue \in Seq(Data) /\ stage \in [Coords -> Stage]
    BY DEF TypeOK, DataTypes, ChunkTypes
<1>3. \A d : Plain(d)' <=> Plain(d)
    BY DEF Plain
<1>4. CleanIsSavedUnlessDoubted' /\ MobsDirty' /\ BatchSaved'
    BY <1>3 DEF SaveInv, CleanIsSavedUnlessDoubted, MobsDirty, BatchSaved, IsValid
<1>5. QueueSaved'
  <2>1. \A i \in 1 .. Len(setDataQueue') :
            \/ i \in 1 .. Len(setDataQueue) /\ setDataQueue'[i] = setDataQueue[i]
            \/ setDataQueue'[i] = [coords |-> c, content |-> content]
    BY <1>1, <1>2
  <2> QED BY <1>3, <2>1 DEF SaveInv, QueueSaved
<1>6. GeneratedDirty' /\ WritingFollows'
    BY <1>1, <1>2, <1>3 DEF SaveInv, GeneratedDirty, WritingFollows, Writing, Plain
<1>7. SnapshotSaved' /\ WrittenSaved'
    BY <1>3 DEF SaveInv, SnapshotSaved, WrittenSaved, Writing, IsValid
<1> QED BY <1>4, <1>5, <1>6, <1>7 DEF SaveInv

\* A chunk that is not found is dirty from then on.
LEMMA LoadFailedKeepsSaved == TypeOK /\ StageInv /\ SaveInv /\ ChunkLoadFailed => SaveInv'
<1> SUFFICES ASSUME TypeOK, StageInv, SaveInv, ChunkLoadFailed PROVE SaveInv'
    OBVIOUS
<1>1. /\ dirty \in [Coords -> BOOLEAN] /\ stage \in [Coords -> Stage]
      /\ stPc = "loadFailed" /\ stChunk \in Coords
    BY DEF TypeOK, ChunkTypes, StorageTypes, ChunkLoadFailed
<1>2. /\ dirty' = [dirty EXCEPT ![stChunk] = TRUE]
      /\ stage' = [stage EXCEPT ![stChunk] = "generate"]
      /\ UNCHANGED <<presence, mem, disk, dataVars, doubtVars>>
      /\ ~Writing'
    BY DEF ChunkLoadFailed, MarkDirty, QueueGenerateChunk, StorageGoesTo, Writing
<1>3. \A c : (Plain(c)' <=> Plain(c)) /\ (Plain(c) /\ ~dirty'[c] => ~dirty[c])
    BY <1>1, <1>2 DEF Plain
<1>4. CleanIsSavedUnlessDoubted' /\ MobsDirty' /\ QueueSaved' /\ BatchSaved'
    BY <1>2, <1>3 DEF SaveInv, CleanIsSavedUnlessDoubted, MobsDirty, QueueSaved, BatchSaved,
        IsValid, Plain
<1>5. GeneratedDirty'
    BY <1>1, <1>2, <1>3 DEF SaveInv, GeneratedDirty
<1>6. WritingFollows' /\ SnapshotSaved' /\ WrittenSaved'
    BY <1>2 DEF WritingFollows, SnapshotSaved, WrittenSaved, Writing
<1> QED BY <1>4, <1>5, <1>6 DEF SaveInv

\* A chunk found valid is nowhere else.
LEMMA CheckKeepsSaved == TypeOK /\ StageInv /\ SaveInv /\ SaveCheckValid => SaveInv'
<1> SUFFICES ASSUME TypeOK, StageInv, SaveInv, SaveCheckValid PROVE SaveInv'
    OBVIOUS
<1>1. UNCHANGED <<presence, dirty, saving, mem, disk, dataVars, stage, doubtVars>>
    BY DEF SaveCheckValid
<1>2. (stPc' = "saveMark" /\ stChunk' = stChunk /\ IsValid(stChunk)) \/ ~Writing'
    BY DEF SaveCheckValid, StorageGoesTo, Writing
<1>3. \A c : Plain(c)' <=> Plain(c)
    BY <1>1 DEF Plain
<1>4. CleanIsSavedUnlessDoubted' /\ MobsDirty' /\ QueueSaved' /\ BatchSaved' /\ GeneratedDirty'
    BY <1>1, <1>3 DEF SaveInv, CleanIsSavedUnlessDoubted, MobsDirty, QueueSaved, BatchSaved,
        GeneratedDirty, IsValid
<1>5. WritingFollows'
  <2>1. Plain(stChunk) /\ IsValid(stChunk) => stage[stChunk] = "none"
    BY DEF Plain, StageInv, QueuedFollows, IsQueued, IsValid
  <2> QED BY <1>1, <1>2, <1>3, <2>1 DEF WritingFollows
<1>6. SnapshotSaved' /\ WrittenSaved'
    BY <1>2 DEF SnapshotSaved, WrittenSaved, Writing
<1> QED BY <1>4, <1>5, <1>6 DEF SaveInv

\* Marking a chunk as being saved comes before its copy.
LEMMA MarkSavingKeepsSaved == SaveInv /\ MarkChunkSaving => SaveInv'
<1> SUFFICES ASSUME SaveInv, MarkChunkSaving PROVE SaveInv'
    OBVIOUS
<1>1. /\ UNCHANGED <<presence, dirty, mem, disk, dataVars, stage, doubtVars>>
      /\ stPc = "saveMark" /\ stPc' = "saveSnapshot" /\ stChunk' = stChunk
    BY DEF MarkChunkSaving, StorageGoesTo
<1>2. \A c : Plain(c)' <=> Plain(c)
    BY <1>1 DEF Plain
<1>3. CleanIsSavedUnlessDoubted' /\ MobsDirty' /\ QueueSaved' /\ BatchSaved' /\ GeneratedDirty'
    BY <1>1, <1>2 DEF SaveInv, CleanIsSavedUnlessDoubted, MobsDirty, QueueSaved, BatchSaved,
        GeneratedDirty, IsValid
<1>4. WritingFollows' /\ SnapshotSaved' /\ WrittenSaved'
    BY <1>1, <1>2 DEF SaveInv, WritingFollows, Writing, SnapshotSaved, WrittenSaved
<1> QED BY <1>3, <1>4 DEF SaveInv

\* The copy is the chunk, if the chunk is there.
LEMMA SnapshotKeepsSaved == SaveInv /\ SaveSnapshot => SaveInv'
<1> SUFFICES ASSUME SaveInv, SaveSnapshot PROVE SaveInv'
    OBVIOUS
<1>1. /\ UNCHANGED <<presence, dirty, saving, mem, disk, dataVars, stage, doubtVars>>
      /\ stPc = "saveSnapshot" /\ stPc' = "saveWrite" /\ stChunk' = stChunk
      /\ IsValid(stChunk) => stSnapshot' = mem[stChunk]
    BY DEF SaveSnapshot, StorageGoesTo
<1>2. \A c : Plain(c)' <=> Plain(c)
    BY <1>1 DEF Plain
<1>3. CleanIsSavedUnlessDoubted' /\ MobsDirty' /\ QueueSaved' /\ BatchSaved' /\ GeneratedDirty'
    BY <1>1, <1>2 DEF SaveInv, CleanIsSavedUnlessDoubted, MobsDirty, QueueSaved, BatchSaved,
        GeneratedDirty, IsValid
<1>4. WritingFollows' /\ SnapshotSaved' /\ WrittenSaved'
    BY <1>1, <1>2 DEF SaveInv, WritingFollows, Writing, SnapshotSaved, WrittenSaved, IsValid
<1> QED BY <1>3, <1>4 DEF SaveInv

\* The write reaches no chunk whose data, read before it, are on their way.
LEMMA WriteKeepsSaved ==
    ASSUME TypeOK, StageInv, SaveInv, NEW c \in Coords, SaveWrite(c) PROVE SaveInv'
<1>1. /\ disk \in [Coords -> Content] /\ dirty \in [Coords -> BOOLEAN]
      /\ stPc = "saveWrite" /\ stChunk = c
      /\ disk' = [disk EXCEPT ![c] = stSnapshot] /\ stPc' = "saveDone" /\ stChunk' = c
      /\ UNCHANGED <<presence, dirty, saving, mem, dataVars, stage, doubtVars>>
    BY DEF TypeOK, ChunkTypes, SaveWrite, StorageGoesTo
<1>2. \A d : Plain(d)' <=> Plain(d)
    BY <1>1 DEF Plain
<1>3. \A d \in Coords \ {c} : disk'[d] = disk[d]
    BY <1>1
<1>4. disk'[c] = stSnapshot
    BY <1>1
<1>5. Plain(c) => stage[c] \in {"none", "load"}
    BY <1>1 DEF SaveInv, WritingFollows, Writing
<1>6. CleanIsSavedUnlessDoubted'
    BY <1>1, <1>2, <1>3, <1>4 DEF SaveInv, CleanIsSavedUnlessDoubted, SnapshotSaved, IsValid,
        Plain
<1>7. MobsDirty' /\ GeneratedDirty'
    BY <1>1, <1>2 DEF SaveInv, MobsDirty, GeneratedDirty, IsValid
<1>8. QueueSaved'
  <2>1. \A i \in 1 .. Len(setDataQueue) :
            Plain(setDataQueue[i].coords) => setDataQueue[i].coords # c
    BY <1>5 DEF StageInv, DataFollows, Plain
  <2> QED BY <1>1, <1>2, <1>3, <2>1 DEF SaveInv, QueueSaved, Plain
<1>9. BatchSaved'
  <2>1. \A i \in 1 .. Len(setDataBatch) :
            Plain(setDataBatch[i].coords) => setDataBatch[i].coords # c
    BY <1>5 DEF StageInv, BatchFollows, Plain
  <2> QED BY <1>1, <1>2, <1>3, <2>1 DEF SaveInv, BatchSaved, Plain
<1>10. WritingFollows' /\ SnapshotSaved' /\ WrittenSaved'
    BY <1>1, <1>2, <1>4 DEF SaveInv, WritingFollows, Writing, SnapshotSaved, WrittenSaved,
        IsValid
<1> QED BY <1>6, <1>7, <1>8, <1>9, <1>10 DEF SaveInv

\* A chunk becomes clean when its file holds it.
LEMMA MarkSavedKeepsSaved == TypeOK /\ StageInv /\ SaveInv /\ MarkChunkSaved => SaveInv'
<1> SUFFICES ASSUME TypeOK, StageInv, SaveInv, MarkChunkSaved PROVE SaveInv'
    OBVIOUS
<1>1. /\ dirty \in [Coords -> BOOLEAN] /\ stChunk \in Coords /\ stPc = "saveDone"
      /\ dirty' = [dirty EXCEPT ![stChunk] = @ /\ ~BecomesClean(stChunk)]
      /\ ~Writing'
      /\ UNCHANGED <<presence, saving, mem, disk, dataVars, stage, doubtVars>>
    BY DEF TypeOK, ChunkTypes, StorageTypes, MarkChunkSaved, StorageGoesTo, Writing
<1>2. \A c : Plain(c)' <=> Plain(c)
    BY <1>1 DEF Plain
<1>3. \A c \in Coords : ~dirty'[c] => ~dirty[c] \/ (c = stChunk /\ IsValid(c) /\ saving[c])
    BY <1>1 DEF BecomesClean
<1>4. \A c \in Coords : Plain(c) /\ IsValid(c) => stage[c] = "none"
    BY DEF Plain, StageInv, QueuedFollows, IsQueued, IsValid
<1>5. CleanIsSavedUnlessDoubted' /\ MobsDirty'
    BY <1>1, <1>2, <1>3 DEF SaveInv, CleanIsSavedUnlessDoubted, MobsDirty, WrittenSaved, IsValid,
        Plain
<1>6. QueueSaved'
  <2>1. \A i \in 1 .. Len(setDataQueue) :
            Plain(setDataQueue[i].coords) => ~IsValid(setDataQueue[i].coords)
    BY <1>4 DEF StageInv, DataFollows, Plain
  <2> QED BY <1>1, <1>2, <1>3, <2>1 DEF SaveInv, QueueSaved, Plain
<1>7. BatchSaved'
  <2>1. \A i \in 1 .. Len(setDataBatch) :
            Plain(setDataBatch[i].coords) => ~IsValid(setDataBatch[i].coords)
    BY <1>4 DEF StageInv, BatchFollows, Plain
  <2> QED BY <1>1, <1>2, <1>3, <2>1 DEF SaveInv, BatchSaved, Plain
<1>8. GeneratedDirty'
  <2>1. \A c \in Coords : Plain(c) /\ ~dirty'[c] => ~dirty[c] \/ stage[c] = "none"
    BY <1>3, <1>4
  <2> QED BY <1>1, <1>2, <2>1 DEF SaveInv, GeneratedDirty
<1>9. WritingFollows' /\ SnapshotSaved' /\ WrittenSaved'
    BY <1>1 DEF WritingFollows, SnapshotSaved, WrittenSaved, Writing
<1> QED BY <1>5, <1>6, <1>7, <1>8, <1>9 DEF SaveInv

\* A write that fails spoils the file of a chunk that is still dirty.
LEMMA FailKeepsSaved == TypeOK /\ RoundInv /\ SaveInv /\ SaveWriteFails => SaveInv'
<1> SUFFICES ASSUME TypeOK, RoundInv, SaveInv, SaveWriteFails PROVE SaveInv'
    OBVIOUS
<1>1. /\ disk \in [Coords -> Content] /\ stPc \in SavePc /\ stChunk \in Coords /\ ~Writing'
      /\ UNCHANGED <<presence, dirty, saving, mem, dataVars, stage, doubtVars>>
    BY DEF TypeOK, ChunkTypes, StorageTypes, SaveWriteFails, StorageGoesTo, SavePc, Writing
<1>2. \A c : Plain(c)' <=> Plain(c)
    BY <1>1 DEF Plain
<1>3. \A c \in Coords : Plain(c) /\ ~dirty[c] => disk'[c] = disk[c]
  <2>1. \A c \in Coords : disk'[c] = disk[c] \/ c = stChunk
    BY <1>1 DEF SaveWriteFails
  <2> QED BY <1>1, <2>1 DEF RoundInv, InRound, Orderly, Plain
<1>4. CleanIsSavedUnlessDoubted' /\ MobsDirty'
    BY <1>1, <1>2, <1>3 DEF SaveInv, CleanIsSavedUnlessDoubted, MobsDirty, IsValid, Plain
<1>5. QueueSaved' /\ BatchSaved' /\ GeneratedDirty'
    BY <1>1, <1>2, <1>3 DEF SaveInv, QueueSaved, BatchSaved, GeneratedDirty, Plain
<1>6. WritingFollows' /\ SnapshotSaved' /\ WrittenSaved'
    BY <1>1 DEF WritingFollows, SnapshotSaved, WrittenSaved, Writing
<1> QED BY <1>4, <1>5, <1>6 DEF SaveInv

-----------------------------------------------------------------------------
(* Every step keeps the invariant *)

\* Asking for a chunk is calm.
LEMMA GetChunkCalm ==
    ASSUME TypeOK, NEW c \in Coords, GetChunk(c),
           UNCHANGED <<flagVars, mem, disk, storageVars, dataVars, boundVars, doubtVars>>
    PROVE  Calm
<1>1. presence \in [Coords -> Presence] /\ stage \in [Coords -> Stage]
    BY DEF TypeOK, ChunkTypes
<1>2. \A d \in Coords : IsValid(d)' <=> IsValid(d)
    BY <1>1 DEF GetChunk, IsValid
<1>3. \A d \in Coords : stage'[d] = stage[d] \/ stage'[d] = "load"
    BY <1>1 DEF GetChunk
<1> QED BY <1>2, <1>3 DEF Calm

\* So is constructing one.
LEMMA ConstructValid ==
    ASSUME TypeOK, NEW c \in Coords, ConstructChunk(c)
    PROVE  \A d \in Coords : IsValid(d)' <=> IsValid(d)
BY DEF TypeOK, ChunkTypes, ConstructChunk, Exists, IsValid

\* The generator works on queued chunks only.
LEMMA GeneratorCalm ==
    ASSUME TypeOK, StageInv, GenDequeue \/ GenCheckValid \/ GenCheckClients
    PROVE  Calm
<1>1. UNCHANGED <<chunkVars, disk, storageVars, dataVars, boundVars, doubtVars>>
    BY DEF GenDequeue, GenCheckValid, GenCheckClients
<1>2. stage \in [Coords -> Stage] /\ genQueue \in Seq(Job)
    BY DEF TypeOK, ChunkTypes, GeneratorTypes
<1>3. CASE GenDequeue
  <2>1. genQueue # << >> /\ stage' = [stage EXCEPT ![Head(genQueue).coords] = "generating"]
    BY <1>3 DEF GenDequeue
  <2>2. Head(genQueue) = genQueue[1] /\ Len(genQueue) >= 1
    BY <1>2, <2>1
  <2>3. Head(genQueue).coords \notin regenerated => stage[Head(genQueue).coords] = "generate"
    BY <2>2 DEF StageInv, GensFollow
  <2> QED BY <1>1, <1>2, <2>1, <2>3 DEF Calm, IsValid
<1>4. CASE GenCheckValid
    BY <1>1, <1>4 DEF GenCheckValid, Calm, IsValid
<1>5. CASE GenCheckClients
  <2>1. gnItem.coords \notin regenerated => stage[gnItem.coords] = "generating"
    BY <1>5 DEF GenCheckClients, StageInv, GeneratingFollows
  <2>2. UNCHANGED stage \/ stage' = [stage EXCEPT ![gnItem.coords] = "skipped"]
    BY <1>5 DEF GenCheckClients
  <2> QED BY <1>1, <1>2, <2>1, <2>2 DEF Calm, IsValid
<1> QED BY <1>3, <1>4, <1>5

\* The actions that are calm.
CalmSteps ==
    \/ ClientSteps \/ (\E k \in Clients : RemoveClientFromChunks(k))
    \/ (\E c \in Coords, p \in Players : AddPlayer(c, p) \/ RemovePlayer(c, p))
    \/ SaveAllChunks \/ RegenSteps
    \/ LoadDequeue \/ LoadNothing \/ LoadMisses \/ SaveDequeue \/ SaveNothing
    \/ GenDequeue \/ GenCheckValid \/ GenCheckClients
    \/ UNCHANGED vars

\* They are.
LEMMA CalmStepsCalm == ASSUME TypeOK, StageInv, CalmSteps PROVE Calm
<1>1. ASSUME NEW c \in Coords, NEW k \in Clients, AddChunkClient(c, k) PROVE Calm
    BY <1>1, GetChunkCalm DEF AddChunkClient
<1>2. ASSUME NEW c \in Coords, NEW k \in Clients, RemoveChunkClient(c, k) PROVE Calm
    BY <1>2 DEF RemoveChunkClient, Calm, IsValid
<1>3. ASSUME NEW k \in Clients, RemoveClientFromChunks(k) PROVE Calm
    BY <1>3 DEF RemoveClientFromChunks, Calm, IsValid
<1>4. ASSUME NEW c \in Coords, GenerateChunk(c) PROVE Calm
    BY <1>4, GetChunkCalm DEF GenerateChunk
<1>5. ASSUME NEW c \in Coords, NEW on \in BOOLEAN, SetChunkAlwaysTicked(c, on) PROVE Calm
    BY <1>5, GetChunkCalm DEF SetChunkAlwaysTicked
<1>6. ASSUME NEW c \in Coords, NEW p \in Players, AddPlayer(c, p) PROVE Calm
  <2>1. \A d \in Coords : IsValid(d)' <=> IsValid(d)
    BY <1>6, ConstructValid DEF AddPlayer
  <2> QED
    BY <1>6, <2>1 DEF AddPlayer, Calm
<1>7. ASSUME NEW c \in Coords, NEW p \in Players, RemovePlayer(c, p) PROVE Calm
    BY <1>7 DEF RemovePlayer, Calm, IsValid
<1>8. ASSUME SaveAllChunks PROVE Calm
    BY <1>8 DEF SaveAllChunks, Calm, IsValid
<1>9. ASSUME NEW c \in Coords, MarkChunkRegenerating(c) PROVE Calm
  <2>1. \A d \in Coords \ Doubted' : presence'[d] = presence[d]
    BY <1>9 DEF MarkChunkRegenerating, TypeOK, ChunkTypes
  <2> QED
    BY <1>9, <2>1 DEF MarkChunkRegenerating, Calm, IsValid
<1>10. ASSUME QueueRegeneration PROVE Calm
  <2>1. regenCall \in regenerated
    BY <1>10 DEF QueueRegeneration, StageInv, CallFollows
  <2>2. \A d \in Coords \ regenerated : stage'[d] = stage[d]
    BY <1>10, <2>1 DEF QueueRegeneration, QueueGenerateChunk, TypeOK, ChunkTypes
  <2> QED
    BY <1>10, <2>2 DEF QueueRegeneration, Calm, IsValid
<1>11. ASSUME LoadDequeue PROVE Calm
  <2>1. loadQueue # << >> /\ stage' = [stage EXCEPT ![Head(loadQueue)] = "loading"]
    BY <1>11 DEF LoadDequeue
  <2>2. loadQueue \in Seq(Coords) /\ stage \in [Coords -> Stage]
    BY DEF TypeOK, StorageTypes, ChunkTypes
  <2>3. \A c \in Coords : stage'[c] = stage[c] \/ stage'[c] = "loading"
    BY <2>1, <2>2
  <2> QED
    BY <1>11, <2>3 DEF LoadDequeue, StorageGoesTo, Calm, Writing, IsValid
<1>12. ASSUME LoadNothing PROVE Calm
    BY <1>12 DEF LoadNothing, StorageGoesTo, Calm, Writing, IsValid
<1>13. ASSUME LoadMisses PROVE Calm
    BY <1>13 DEF LoadMisses, StorageGoesTo, Calm, Writing, IsValid
<1>14. ASSUME SaveDequeue PROVE Calm
    BY <1>14 DEF SaveDequeue, StorageGoesTo, Calm, Writing, IsValid
<1>15. ASSUME SaveNothing PROVE Calm
    BY <1>15 DEF SaveNothing, StorageGoesTo, Calm, Writing, IsValid
<1>16. ASSUME GenDequeue \/ GenCheckValid \/ GenCheckClients PROVE Calm
    BY <1>16, GeneratorCalm
<1>17. ASSUME UNCHANGED vars PROVE Calm
    BY <1>17 DEF vars, Calm, IsValid
<1> QED BY <1>1, <1>2, <1>3, <1>4, <1>5, <1>6, <1>7, <1>8, <1>9, <1>10, <1>11, <1>12,
    <1>13, <1>14, <1>15, <1>16, <1>17
    DEF CalmSteps, ClientSteps, RegenSteps

\* Every step keeps the invariant.
LEMMA SaveStep ==
    ASSUME TypeOK, StageInv, RoundInv, SaveInv, [Next]_vars PROVE SaveInv'
<1>1. ASSUME NEW c \in Coords, NEW m \in Mobs, AddEntity(c, m) PROVE SaveInv'
  <2>1. \A d \in Coords : IsValid(d)' <=> IsValid(d)
    BY <1>1, ConstructValid DEF AddEntity
  <2>2. Changed(c)
    BY <1>1, <2>1 DEF AddEntity, MarkDirty, Changed, TypeOK, ChunkTypes, SaveHasCopied
  <2> QED BY <2>2, ChangedStep
<1>2. ASSUME NEW c \in Coords, NEW m \in Mobs, RemoveEntity(c, m) PROVE SaveInv'
  <2>1. Changed(c)
    BY <1>2 DEF RemoveEntity, MarkDirty, Changed, SaveHasCopied, TypeOK, ChunkTypes, IsValid
  <2> QED BY <2>1, ChangedStep
<1>3. ASSUME NEW c \in Coords, FastSetBlock(c) PROVE SaveInv'
  <2>1. Changed(c)
    BY <1>3 DEF FastSetBlock, ChangeBlocks, MarkDirty, Changed, SaveHasCopied, TypeOK,
        ChunkTypes, IsValid
  <2> QED BY <2>1, ChangedStep
<1>4. ASSUME NEW c \in Coords, ReplaceLiquid(c) PROVE SaveInv'
  <2>1. Changed(c)
    BY <1>4 DEF ReplaceLiquid, ChangeBlocks, Changed, SaveHasCopied, Plain,
        TypeOK, ChunkTypes, IsValid
  <2> QED BY <2>1, ChangedStep
<1>5. ASSUME NEW c \in Coords, TickBlockEntities(c) PROVE SaveInv'
  <2>1. Changed(c)
    BY <1>5 DEF TickBlockEntities, ChangeBlocks, Changed, SaveHasCopied, Plain,
        TypeOK, ChunkTypes, IsValid
  <2> QED BY <2>1, ChangedStep
<1>6. ASSUME TakeChunkDataSets PROVE SaveInv'
    BY <1>6, TakeKeepsSaved
<1>7. ASSUME SetChunkData PROVE SaveInv'
    BY <1>7, SetDataKeepsSaved
<1>8. ASSUME UnloadUnusedChunks PROVE SaveInv'
    BY <1>8, UnloadKeepsSaved
<1>9. ASSUME LoadChunk PROVE SaveInv'
  <2>1. stChunk \in Coords /\ QueueSetChunkData(stChunk, disk[stChunk])
    BY <1>9 DEF LoadChunk, TypeOK, StorageTypes
  <2>2. /\ UNCHANGED <<presence, dirty, saving, mem, disk, setDataBatch, doubtVars>>
        /\ ~Writing'
    BY <1>9 DEF LoadChunk, StorageGoesTo, Writing
  <2> QED BY <2>1, <2>2, QueueKeepsSaved
<1>10. ASSUME ChunkLoadFailed PROVE SaveInv'
    BY <1>10, LoadFailedKeepsSaved
<1>11. ASSUME SaveCheckValid PROVE SaveInv'
    BY <1>11, CheckKeepsSaved
<1>12. ASSUME MarkChunkSaving PROVE SaveInv'
    BY <1>12, MarkSavingKeepsSaved
<1>13. ASSUME SaveSnapshot PROVE SaveInv'
    BY <1>13, SnapshotKeepsSaved
<1>14. ASSUME NEW c \in Coords, SaveWrite(c) PROVE SaveInv'
    BY <1>14, WriteKeepsSaved
<1>15. ASSUME SaveWriteFails PROVE SaveInv'
    BY <1>15, FailKeepsSaved
<1>16. ASSUME MarkChunkSaved PROVE SaveInv'
    BY <1>16, MarkSavedKeepsSaved
<1>17. ASSUME DoGenerate PROVE SaveInv'
  <2> DEFINE c       == gnItem.coords
             content == [blocks |-> Generated, mobs |-> {}]
  <2>1. c \in Coords
    BY <1>17 DEF DoGenerate, TypeOK, GeneratorTypes, Job
  <2>2. Plain(c) => stage[c] = "generating"
    BY <1>17 DEF DoGenerate, Plain, StageInv, GeneratingFollows
  <2>3. Plain(c) => dirty[c]
    BY <2>1, <2>2 DEF SaveInv, GeneratedDirty
  <2>4. /\ QueueSetChunkData(c, content)
        /\ UNCHANGED <<stPc, stChunk, stSnapshot>>
        /\ UNCHANGED <<presence, dirty, saving, mem, disk, setDataBatch, doubtVars>>
    BY <1>17 DEF DoGenerate
  <2> HIDE DEF c, content
  <2> QED BY <2>1, <2>2, <2>3, <2>4, QueueKeepsSaved
<1>18. ASSUME CalmSteps PROVE SaveInv'
    BY <1>18, CalmStepsCalm, CalmStep
<1> QED BY <1>1, <1>2, <1>3, <1>4, <1>5, <1>6, <1>7, <1>8, <1>9, <1>10, <1>11, <1>12,
    <1>13, <1>14, <1>15, <1>16, <1>17, <1>18
    DEF CalmSteps, Next, EntitySteps, BlockSteps, DataSteps, LoadSteps, SaveSteps,
    StorageSteps, GeneratorSteps

\* Unloading a chunk that is not dirty loses nothing: such a chunk equals its file, however
\* many threads change, save, load and unload it, and whatever writes fail.  (Not a chunk
\* that one of the events the property names has happened to.)
THEOREM CleanIsSavedCorrect == Spec => []CleanIsSavedUnlessDoubted
<1>1. TypeOK /\ StageInv /\ RoundInv /\ SaveInv /\ [Next]_vars => SaveInv'
    BY SaveStep
<1>2. SaveInv => CleanIsSavedUnlessDoubted
    BY DEF SaveInv
<1> QED BY SaveInit, TypeCorrect, StageCorrect, RoundCorrect, <1>1, <1>2, PTL DEF Spec

-----------------------------------------------------------------------------
(* ChunkPipeline implements WorldContents *)

-----------------------------------------------------------------------------
(* What a step of the promise is, chunk by chunk *)

\* What a chunk contains is a content.
LEMMA ContentOfType ==
    ASSUME TypeOK, NEW c \in Coords PROVE ContentOf(c) \in Content
<1>1. mem[c] \in Content /\ disk[c] \in Content
    BY DEF TypeOK, ChunkTypes
<1> QED BY <1>1 DEF ContentOf, Content

\* So is what it contains after a step.
LEMMA ContentOfTypeNext ==
    ASSUME TypeOK', NEW c \in Coords PROVE ContentOf(c)' \in Content
<1>1. mem'[c] \in Content /\ disk'[c] \in Content
    BY DEF TypeOK, ChunkTypes
<1> QED BY <1>1 DEF ContentOf, Content, IsValid

\* The others the promise is about stay as they are.
OthersKept(c) == \A d \in Coords \ (Doubted' \cup {c}) : ContentOf(d)' = ContentOf(d)

\* The chunks it is not about stay among these.
DoubtKept == Doubted \subseteq Doubted' /\ Doubted' \subseteq Coords

\* Nothing happens to the contents it is about.
LEMMA Rests ==
    ASSUME DoubtKept, \A c \in Coords \ Doubted' : ContentOf(c)' = ContentOf(c)
    PROVE  World!Next
<1> HIDE DEF Doubted
<1> QED BY DEF World!Next, World!Kept, DoubtKept

\* A chunk is generated.
LEMMA Generates ==
    ASSUME TypeOK, TypeOK', DoubtKept, NEW c \in Coords \ Doubted', OthersKept(c),
           ContentOf(c).blocks = NotGenerated, ContentOf(c)'.blocks = Generated,
           ContentOf(c)'.mobs = ContentOf(c).mobs
    PROVE  World!Next
<1> HIDE DEF Doubted
<1>1. ContentOf(c) \in Content /\ ContentOf(c)' \in Content
    BY ContentOfType, ContentOfTypeNext
<1>2. ContentOf(c)' = [ContentOf(c) EXCEPT !.blocks = ContentOf(c)'.blocks]
    BY <1>1 DEF Content
<1>3. World!Generate(c)
    BY <1>2 DEF World!Generate, World!OnlyBlocks, World!Kept, OthersKept
<1> QED BY <1>3 DEF World!Next, DoubtKept

\* The blocks of a chunk change.
LEMMA Changes ==
    ASSUME TypeOK, TypeOK', DoubtKept, NEW c \in Coords \ Doubted', OthersKept(c),
           ContentOf(c).blocks # NotGenerated, ContentOf(c)'.blocks > ContentOf(c).blocks,
           ContentOf(c)'.mobs = ContentOf(c).mobs
    PROVE  World!Next
<1> HIDE DEF Doubted
<1>1. ContentOf(c) \in Content /\ ContentOf(c)' \in Content
    BY ContentOfType, ContentOfTypeNext
<1>2. ContentOf(c)' = [ContentOf(c) EXCEPT !.blocks = ContentOf(c)'.blocks]
    BY <1>1 DEF Content
<1>3. World!Change(c)
    BY <1>2 DEF World!Change, World!OnlyBlocks, World!Kept, OthersKept
<1> QED BY <1>3 DEF World!Next, DoubtKept

\* A mob that was nowhere is added to a chunk.
LEMMA Spawns ==
    ASSUME TypeOK, TypeOK', DoubtKept, NEW c \in Coords \ Doubted', NEW m \in Mobs,
           OthersKept(c), \A d \in Coords : m \notin ContentOf(d).mobs,
           ContentOf(c)'.blocks = ContentOf(c).blocks,
           ContentOf(c)'.mobs = ContentOf(c).mobs \cup {m}
    PROVE  World!Next
<1> HIDE DEF Doubted
<1>1. ContentOf(c) \in Content /\ ContentOf(c)' \in Content
    BY ContentOfType, ContentOfTypeNext
<1>2. ContentOf(c)' = [ContentOf(c) EXCEPT !.mobs = ContentOf(c)'.mobs]
    BY <1>1 DEF Content
<1>3. World!Spawn(c, m)
    BY <1>2 DEF World!Spawn, World!OnlyMobs, World!Kept, OthersKept
<1> QED BY <1>3 DEF World!Next, DoubtKept

\* A mob is taken out of a chunk.
LEMMA Removes ==
    ASSUME TypeOK, TypeOK', DoubtKept, NEW c \in Coords \ Doubted', NEW m \in Mobs,
           OthersKept(c), m \in ContentOf(c).mobs,
           ContentOf(c)'.blocks = ContentOf(c).blocks,
           ContentOf(c)'.mobs = ContentOf(c).mobs \ {m}
    PROVE  World!Next
<1> HIDE DEF Doubted
<1>1. ContentOf(c) \in Content /\ ContentOf(c)' \in Content
    BY ContentOfType, ContentOfTypeNext
<1>2. ContentOf(c)' = [ContentOf(c) EXCEPT !.mobs = ContentOf(c)'.mobs]
    BY <1>1 DEF Content
<1>3. World!Remove(c, m)
    BY <1>2 DEF World!Remove, World!OnlyMobs, World!Kept, OthersKept
<1> QED BY <1>3 DEF World!Next, DoubtKept

-----------------------------------------------------------------------------
(* The invariant that makes every step one of those *)

\* Data on their way are those of the file, or were generated because there is no file.
OfFile(data) ==
    /\ data.content.blocks # NotGenerated
    /\ \/ data.content = disk[data.coords]
       \/ data.content = [blocks |-> Generated, mobs |-> {}] /\ disk[data.coords] = Nothing

QueueOfFile ==
    \A i \in 1 .. Len(setDataQueue) : Plain(setDataQueue[i].coords) => OfFile(setDataQueue[i])
BatchOfFile ==
    \A i \in 1 .. Len(setDataBatch) : Plain(setDataBatch[i].coords) => OfFile(setDataBatch[i])

\* A chunk is generated because it has no file.
GeneratedNoFile ==
    \A c \in Coords : Plain(c) /\ stage[c] \in {"generate", "generating"} => disk[c] = Nothing

\* A file without blocks is no file.
FilesGenerated ==
    \A c \in Coords : Plain(c) /\ disk[c].blocks = NotGenerated => disk[c] = Nothing

\* A chunk that is there, or is being written, has been generated.
ValidGenerated == \A c \in Coords : Plain(c) /\ IsValid(c) => mem[c].blocks # NotGenerated

SnapshotGenerated ==
    stPc = "saveWrite" /\ Plain(stChunk) =>
        stSnapshot.blocks # NotGenerated /\ stSnapshot.blocks < NextVersion

\* No content has blocks of a later version than the last change made.
VersionsPast ==
    \A c \in Coords : Plain(c) =>
        mem[c].blocks < NextVersion /\ disk[c].blocks < NextVersion

\* A mob that waits for its chunk to be loaded is not in the file as well.
MobsOnce == \A c \in Coords : Plain(c) /\ ~IsValid(c) => mem[c].mobs \cap disk[c].mobs = {}

\* The inductive invariant.
WorldInv ==
    /\ QueueOfFile /\ BatchOfFile /\ GeneratedNoFile /\ FilesGenerated
    /\ ValidGenerated /\ SnapshotGenerated /\ VersionsPast /\ MobsOnce

\* Initially there is nothing.
LEMMA WorldInvInit == Init => WorldInv
BY DEF Init, WorldInv, QueueOfFile, BatchOfFile, GeneratedNoFile, FilesGenerated,
       ValidGenerated, SnapshotGenerated, VersionsPast, MobsOnce, IsValid, Nothing,
       NotGenerated, NextVersion

\* A load that failed found no blocks in the file.
FailedInv == stPc = "loadFailed" => disk[stChunk].blocks = NotGenerated

\* It holds in every reachable state: the thread that writes files is the one that loads.
LEMMA FailedCorrect == Spec => []FailedInv
<1>1. Init => FailedInv
    BY DEF Init, FailedInv
<1>2. FailedInv /\ [Next]_vars => FailedInv'
  <2> SUFFICES ASSUME FailedInv, [Next]_vars PROVE FailedInv'
      OBVIOUS
  <2>1. CASE StorageSteps
      BY <2>1 DEF FailedInv, StorageSteps, LoadSteps, SaveSteps, StorageGoesTo, LoadDequeue,
          LoadNothing, LoadChunk, LoadMisses, ChunkLoadFailed, SaveDequeue, SaveNothing,
          SaveCheckValid, MarkChunkSaving, SaveSnapshot, SaveWrite, SaveWriteFails,
          MarkChunkSaved
  <2>2. CASE UNCHANGED <<stPc, stChunk, disk>>
      BY <2>2 DEF FailedInv
  <2>3. ASSUME ~StorageSteps PROVE UNCHANGED <<stPc, stChunk, disk>>
      BY <2>3 DEF Next, vars, ClientSteps, AddChunkClient, RemoveChunkClient, GenerateChunk,
          SetChunkAlwaysTicked, RemoveClientFromChunks, EntitySteps, AddEntity, RemoveEntity,
          AddPlayer, RemovePlayer, BlockSteps, ChangeBlocks, FastSetBlock, ReplaceLiquid,
          TickBlockEntities, DataSteps, TakeChunkDataSets, SetChunkData, UnloadUnusedChunks,
          SaveAllChunks, RegenSteps, MarkChunkRegenerating, QueueRegeneration,
          GeneratorSteps, GenDequeue, GenCheckValid, GenCheckClients, DoGenerate
  <2> QED BY <2>1, <2>2, <2>3
<1> QED BY <1>1, <1>2, PTL DEF Spec

\* What is known of every reachable state.
Known == TypeOK /\ StageInv /\ RoundInv /\ SaveInv /\ FailedInv

\* What a chunk is written for, and what a chunk waiting for data is not.
LEMMA KnownFacts ==
    ASSUME Known
    PROVE  /\ \A c : Plain(c) => c \in Coords
           /\ stPc \in SavePc => stChunk \in Coords
           /\ stPc \in SavePc /\ Plain(stChunk) => IsValid(stChunk)
           /\ \A c : Plain(c) /\ IsValid(c) => stage[c] = "none"
           /\ \A i \in 1 .. Len(setDataQueue) :
                 /\ setDataQueue[i].coords \in Coords
                 /\ Plain(setDataQueue[i].coords) => ~IsValid(setDataQueue[i].coords)
           /\ \A i \in 1 .. Len(setDataBatch) :
                 /\ setDataBatch[i].coords \in Coords
                 /\ Plain(setDataBatch[i].coords) => ~IsValid(setDataBatch[i].coords)
<1>1. \A c : Plain(c) => c \in Coords \ regenerated /\ Orderly(c)
    BY DEF Plain, Orderly
<1>2. /\ stPc \in SavePc => stChunk \in Coords
      /\ stPc \in SavePc /\ Plain(stChunk) => IsValid(stChunk)
    BY <1>1 DEF Known, TypeOK, StorageTypes, SavePc, RoundInv, InRound
<1>3. \A c : Plain(c) /\ IsValid(c) => stage[c] = "none"
    BY <1>1 DEF Known, StageInv, QueuedFollows, IsQueued, IsValid
<1>4. \A i \in 1 .. Len(setDataQueue) :
          /\ setDataQueue[i].coords \in Coords
          /\ Plain(setDataQueue[i].coords) => ~IsValid(setDataQueue[i].coords)
  <2>1. \A i \in 1 .. Len(setDataQueue) : setDataQueue[i].coords \in Coords
    <3>1. \A i \in 1 .. Len(setDataQueue) : setDataQueue[i] \in Data
      BY DEF Known, TypeOK, DataTypes
    <3> QED BY <3>1 DEF Data
  <2>2. \A i \in 1 .. Len(setDataQueue) :
            Plain(setDataQueue[i].coords) => stage[setDataQueue[i].coords] # "none"
    BY <1>1 DEF Known, StageInv, DataFollows
  <2> QED BY <1>3, <2>1, <2>2
<1>5. \A i \in 1 .. Len(setDataBatch) :
          /\ setDataBatch[i].coords \in Coords
          /\ Plain(setDataBatch[i].coords) => ~IsValid(setDataBatch[i].coords)
  <2>1. \A i \in 1 .. Len(setDataBatch) : setDataBatch[i].coords \in Coords
    <3>1. \A i \in 1 .. Len(setDataBatch) : setDataBatch[i] \in Data
      BY DEF Known, TypeOK, DataTypes
    <3> QED BY <3>1 DEF Data
  <2>2. \A i \in 1 .. Len(setDataBatch) :
            Plain(setDataBatch[i].coords) => stage[setDataBatch[i].coords] # "none"
    BY <1>1 DEF Known, StageInv, BatchFollows
  <2> QED BY <1>3, <2>1, <2>2
<1> QED BY <1>1, <1>2, <1>3, <1>4, <1>5

-----------------------------------------------------------------------------
(* Every step keeps the invariant *)

\* A step that moves no content, except into the copy to be written.
LEMMA StillKeeps ==
    ASSUME WorldInv, UNCHANGED <<mem, disk, setDataQueue, setDataBatch, edits>>,
           \A c : Plain(c)' => Plain(c),
           \A c \in Coords : Plain(c)' => (IsValid(c)' <=> IsValid(c)),
           \A c \in Coords : Plain(c)' /\ stage'[c] \in {"generate", "generating"} =>
               stage[c] \in {"generate", "generating"} \/ disk[c] = Nothing,
           stPc' = "saveWrite" /\ Plain(stChunk)' =>
               stSnapshot'.blocks # NotGenerated /\ stSnapshot'.blocks < NextVersion
    PROVE  WorldInv'
<1>1. QueueOfFile' /\ BatchOfFile'
    BY DEF WorldInv, QueueOfFile, BatchOfFile, OfFile
<1>2. GeneratedNoFile' /\ FilesGenerated'
    BY DEF WorldInv, GeneratedNoFile, FilesGenerated
<1>3. ValidGenerated' /\ SnapshotGenerated'
    BY DEF WorldInv, ValidGenerated, SnapshotGenerated, NextVersion
<1>4. VersionsPast' /\ MobsOnce'
    BY DEF WorldInv, VersionsPast, MobsOnce, NextVersion
<1> QED BY <1>1, <1>2, <1>3, <1>4 DEF WorldInv

\* A change of the content of c in memory.
LEMMA ChangeKeeps ==
    ASSUME TypeOK, WorldInv, NEW c \in Coords, NEW content \in Content,
           content.blocks \in {mem[c].blocks, NextVersion},
           Plain(c) => IsValid(c) \/ content.mobs \cap disk[c].mobs = {},
           mem' = [mem EXCEPT ![c] = content], edits' = edits + 1,
           \A d \in Coords : IsValid(d)' <=> IsValid(d), \A d : Plain(d)' => Plain(d),
           UNCHANGED <<disk, stage, dataVars, stPc, stChunk, stSnapshot>>
    PROVE  WorldInv'
<1>1. /\ mem \in [Coords -> Content] /\ disk \in [Coords -> Content] /\ edits \in Nat
      /\ stSnapshot \in Content
    BY DEF TypeOK, ChunkTypes, CallTypes, StorageTypes
<1>2. NextVersion \in Nat /\ NextVersion' = NextVersion + 1 /\ NextVersion # NotGenerated
    BY <1>1 DEF NextVersion, NotGenerated
<1>3. /\ \A d \in Coords : mem[d].blocks \in Nat /\ disk[d].blocks \in Nat
      /\ stSnapshot.blocks \in Nat
    BY <1>1 DEF Content
<1>4. mem'[c] = content /\ \A d \in Coords \ {c} : mem'[d] = mem[d]
    BY <1>1
<1>5. QueueOfFile' /\ BatchOfFile'
    BY DEF WorldInv, QueueOfFile, BatchOfFile, OfFile
<1>6. GeneratedNoFile' /\ FilesGenerated'
    BY DEF WorldInv, GeneratedNoFile, FilesGenerated
<1>7. ValidGenerated'
    BY <1>2, <1>4 DEF WorldInv, ValidGenerated
<1>8. SnapshotGenerated'
    BY <1>2, <1>3 DEF WorldInv, SnapshotGenerated
<1>9. VersionsPast'
    BY <1>2, <1>3, <1>4 DEF WorldInv, VersionsPast
<1>10. MobsOnce'
    BY <1>4 DEF WorldInv, MobsOnce
<1> QED BY <1>5, <1>6, <1>7, <1>8, <1>9, <1>10 DEF WorldInv

\* The file of c is replaced, while c is in memory, if the invariant is about c.
LEMMA FileKeeps ==
    ASSUME Known, WorldInv, NEW c \in Coords, NEW content \in Content,
           Plain(c) => /\ IsValid(c) /\ content.blocks < NextVersion
                       /\ content.blocks = NotGenerated => content = Nothing,
           disk' = [disk EXCEPT ![c] = content], stPc' # "saveWrite",
           UNCHANGED <<presence, mem, dataVars, stage, edits, doubtVars>>
    PROVE  WorldInv'
<1>1. disk \in [Coords -> Content]
    BY DEF Known, TypeOK, ChunkTypes
<1>2. disk'[c] = content /\ \A d \in Coords \ {c} : disk'[d] = disk[d]
    BY <1>1
<1>3. \A d : Plain(d)' <=> Plain(d)
    BY DEF Plain
<1>4. QueueOfFile'
  <2>1. \A i \in 1 .. Len(setDataQueue) : Plain(setDataQueue[i].coords) =>
            disk'[setDataQueue[i].coords] = disk[setDataQueue[i].coords]
    BY <1>2, KnownFacts
  <2> QED BY <1>3, <2>1 DEF WorldInv, QueueOfFile, OfFile
<1>5. BatchOfFile'
  <2>1. \A i \in 1 .. Len(setDataBatch) : Plain(setDataBatch[i].coords) =>
            disk'[setDataBatch[i].coords] = disk[setDataBatch[i].coords]
    BY <1>2, KnownFacts
  <2> QED BY <1>3, <2>1 DEF WorldInv, BatchOfFile, OfFile
<1>6. GeneratedNoFile'
    BY <1>3, <1>2, KnownFacts DEF WorldInv, GeneratedNoFile
<1>7. FilesGenerated' /\ ValidGenerated' /\ SnapshotGenerated'
    BY <1>3, <1>2 DEF WorldInv, FilesGenerated, ValidGenerated, SnapshotGenerated, IsValid
<1>8. VersionsPast'
    BY <1>3, <1>2 DEF WorldInv, VersionsPast, NextVersion
<1>9. MobsOnce'
    BY <1>3, <1>2 DEF WorldInv, MobsOnce, IsValid
<1> QED BY <1>4, <1>5, <1>6, <1>7, <1>8, <1>9 DEF WorldInv

\* Data of the file, or generated for want of one, are queued.
LEMMA QueueKeeps ==
    ASSUME TypeOK, WorldInv, NEW c \in Coords, NEW content, QueueSetChunkData(c, content),
           Plain(c) => OfFile([coords |-> c, content |-> content]),
           stPc' = "saveWrite" => UNCHANGED <<stPc, stChunk, stSnapshot>>,
           UNCHANGED <<presence, mem, disk, setDataBatch, edits, doubtVars>>
    PROVE  WorldInv'
<1>1. /\ setDataQueue' = Append(setDataQueue, [coords |-> c, content |-> content])
      /\ stage' = [stage EXCEPT ![c] = "data"]
    BY DEF QueueSetChunkData
<1>2. setDataQueue \in Seq(Data) /\ stage \in [Coords -> Stage]
    BY DEF TypeOK, DataTypes, ChunkTypes
<1>3. (\A data : OfFile(data)' <=> OfFile(data)) /\ (\A d : Plain(d)' <=> Plain(d))
    BY DEF OfFile, Plain
<1>4. QueueOfFile'
  <2>1. \A i \in 1 .. Len(setDataQueue') :
            \/ i \in 1 .. Len(setDataQueue) /\ setDataQueue'[i] = setDataQueue[i]
            \/ setDataQueue'[i] = [coords |-> c, content |-> content]
    BY <1>1, <1>2
  <2>2. \A i \in 1 .. Len(setDataQueue') :
            Plain(setDataQueue'[i].coords) => OfFile(setDataQueue'[i])
    BY <2>1 DEF WorldInv, QueueOfFile
  <2> QED BY <1>3, <2>2 DEF QueueOfFile, OfFile
<1>5. BatchOfFile'
    BY <1>3 DEF WorldInv, BatchOfFile, OfFile
<1>6. GeneratedNoFile' /\ FilesGenerated'
    BY <1>1, <1>2, <1>3 DEF WorldInv, GeneratedNoFile, FilesGenerated
<1>7. ValidGenerated' /\ SnapshotGenerated' /\ VersionsPast' /\ MobsOnce'
    BY <1>3 DEF WorldInv, ValidGenerated, SnapshotGenerated, VersionsPast, MobsOnce, IsValid,
        NextVersion
<1> QED BY <1>4, <1>5, <1>6, <1>7 DEF WorldInv

\* The tick thread takes the queue as its batch.
LEMMA TakeKeeps == TypeOK /\ WorldInv /\ TakeChunkDataSets => WorldInv'
<1> SUFFICES ASSUME TypeOK, WorldInv, TakeChunkDataSets PROVE WorldInv'
    OBVIOUS
<1>1. /\ setDataBatch' = setDataQueue /\ setDataQueue' = << >>
      /\ stage' = [c \in Coords |-> IF stage[c] = "data" THEN "batch" ELSE stage[c]]
      /\ UNCHANGED <<presence, mem, disk, stPc, stChunk, stSnapshot, edits, doubtVars>>
    BY DEF TakeChunkDataSets
<1>2. QueueOfFile' /\ BatchOfFile'
  <2>1. QueueOfFile'
    BY <1>1 DEF QueueOfFile
  <2>2. BatchOfFile'
    BY <1>1 DEF WorldInv, QueueOfFile, BatchOfFile, OfFile, Plain
  <2> QED BY <2>1, <2>2
<1>3. GeneratedNoFile' /\ FilesGenerated'
    BY <1>1 DEF WorldInv, GeneratedNoFile, FilesGenerated, Plain
<1>4. ValidGenerated' /\ SnapshotGenerated' /\ VersionsPast' /\ MobsOnce'
    BY <1>1 DEF WorldInv, ValidGenerated, SnapshotGenerated, VersionsPast, MobsOnce, IsValid,
        NextVersion, Plain
<1> QED BY <1>2, <1>3, <1>4 DEF WorldInv

\* The tick thread sets the first data of its batch.
LEMMA SetDataKeeps == Known /\ WorldInv /\ SetChunkData => WorldInv'
<1> SUFFICES ASSUME Known, WorldInv, SetChunkData PROVE WorldInv'
    OBVIOUS
<1> DEFINE data == Head(setDataBatch)
           c    == data.coords
<1>1. /\ setDataBatch \in Seq(Data) /\ setDataBatch # << >> /\ edits \in Nat
      /\ mem \in [Coords -> Content] /\ presence \in [Coords -> Presence]
      /\ stage \in [Coords -> Stage]
    BY DEF Known, TypeOK, DataTypes, ChunkTypes, CallTypes, SetChunkData
<1>2. data \in Data /\ data = setDataBatch[1] /\ Len(setDataBatch) >= 1
    BY <1>1
<1>3. c \in Coords /\ (Plain(c) => OfFile(data))
    BY <1>2 DEF Data, WorldInv, BatchOfFile
<1>4. /\ setDataBatch' = Tail(setDataBatch)
      /\ mem' = [mem EXCEPT ![c] = SetAllData(c, data.content)]
      /\ presence' = [presence EXCEPT ![c] = "cpPresent"]
      /\ stage' = [stage EXCEPT ![c] = "none"]
      /\ UNCHANGED <<disk, stPc, stChunk, stSnapshot, setDataQueue, edits, doubtVars>>
    BY DEF SetChunkData
<1>5. Plain(c) => mem'[c].blocks # NotGenerated /\ mem'[c].blocks < NextVersion
  <2>1. mem'[c].blocks = data.content.blocks
    BY <1>1, <1>3, <1>4 DEF SetAllData
  <2>2. Plain(c) => data.content.blocks \in {disk[c].blocks, Generated}
    BY <1>3 DEF OfFile
  <2>3. (Plain(c) => disk[c].blocks < NextVersion) /\ Generated < NextVersion
    BY <1>1, <1>3 DEF WorldInv, VersionsPast, Generated, NextVersion
  <2> QED BY <1>3, <2>1, <2>2, <2>3 DEF OfFile
<1> HIDE DEF c
<1>6. \A d \in Coords \ {c} :
          mem'[d] = mem[d] /\ (IsValid(d)' <=> IsValid(d)) /\ stage'[d] = stage[d]
    BY <1>1, <1>3, <1>4 DEF IsValid
<1>7. \A d \in Coords : d = c => IsValid(d)' /\ stage'[d] = "none"
    BY <1>1, <1>4 DEF IsValid
<1>8. \A d : Plain(d)' <=> Plain(d)
    BY <1>4 DEF Plain
<1>9. QueueOfFile'
    BY <1>4, <1>8 DEF WorldInv, QueueOfFile, OfFile
<1>10. BatchOfFile'
  <2>1. \A i \in 1 .. Len(setDataBatch') :
            i + 1 \in 1 .. Len(setDataBatch) /\ setDataBatch'[i] = setDataBatch[i + 1]
    BY <1>1, <1>4
  <2> QED BY <1>4, <1>8, <2>1 DEF WorldInv, BatchOfFile, OfFile
<1>11. GeneratedNoFile' /\ FilesGenerated'
    BY <1>4, <1>6, <1>7, <1>8 DEF WorldInv, GeneratedNoFile, FilesGenerated
<1>12. ValidGenerated' /\ SnapshotGenerated'
    BY <1>4, <1>5, <1>6, <1>7, <1>8 DEF WorldInv, ValidGenerated, SnapshotGenerated, NextVersion
<1>13. NextVersion' = NextVersion
    BY <1>4 DEF NextVersion
<1>14. VersionsPast'
    BY <1>4, <1>5, <1>6, <1>13, <1>8 DEF WorldInv, VersionsPast
<1>15. MobsOnce'
    BY <1>4, <1>6, <1>7, <1>8 DEF WorldInv, MobsOnce
<1> QED BY <1>9, <1>10, <1>11, <1>12, <1>14, <1>15 DEF WorldInv

\* An unloaded chunk leaves nothing in memory.
LEMMA UnloadKeeps == TypeOK /\ WorldInv /\ UnloadUnusedChunks => WorldInv'
<1> SUFFICES ASSUME TypeOK, WorldInv, UnloadUnusedChunks PROVE WorldInv'
    OBVIOUS
<1>1. PICK S \in SUBSET Coords :
        /\ presence' = [c \in Coords |-> IF c \in S THEN "absent" ELSE presence[c]]
        /\ mem'      = [c \in Coords |-> IF c \in S THEN Nothing ELSE mem[c]]
    BY DEF UnloadUnusedChunks
<1>2. UNCHANGED <<disk, stPc, stChunk, stSnapshot, dataVars, stage, edits, doubtVars>> /\ edits \in Nat
    BY DEF UnloadUnusedChunks, TypeOK, CallTypes
<1>3. \A c \in Coords : \/ mem'[c] = mem[c] /\ (IsValid(c)' <=> IsValid(c))
                        \/ mem'[c] = Nothing /\ ~IsValid(c)'
    BY <1>1 DEF IsValid
<1>4. \A c : Plain(c)' <=> Plain(c)
    BY <1>2 DEF Plain
<1>5. QueueOfFile' /\ BatchOfFile'
    BY <1>2, <1>4 DEF WorldInv, QueueOfFile, BatchOfFile, OfFile
<1>6. GeneratedNoFile' /\ FilesGenerated'
    BY <1>2, <1>4 DEF WorldInv, GeneratedNoFile, FilesGenerated
<1>7. Nothing.blocks < NextVersion /\ Nothing.mobs = {}
    BY <1>2 DEF Nothing, NotGenerated, NextVersion
<1>8. ValidGenerated' /\ SnapshotGenerated' /\ VersionsPast' /\ MobsOnce'
    BY <1>2, <1>3, <1>7, <1>4 DEF WorldInv, ValidGenerated, SnapshotGenerated, VersionsPast,
        MobsOnce, NextVersion
<1> QED BY <1>5, <1>6, <1>8 DEF WorldInv

\* Every step keeps the invariant.
LEMMA WorldInvStep ==
    ASSUME Known, WorldInv, [Next]_vars PROVE WorldInv'
<1> USE DEF Known
<1>1. \A c : Plain(c)' => Plain(c)
    BY DoubtGrows DEF Plain
<1>2. ASSUME CalmSteps PROVE WorldInv'
  <2>1. Calm
    BY <1>2, CalmStepsCalm
  <2>2. \A c : Plain(c)' => c \in Coords \ Doubted'
    BY DEF Plain
  <2> QED BY <1>1, <2>1, <2>2, StillKeeps DEF Calm, Writing, WorldInv, SnapshotGenerated
<1>3. ASSUME NEW c \in Coords, NEW m \in Mobs, AddEntity(c, m) PROVE WorldInv'
  <2> DEFINE content == WithMobs(mem[c], mem[c].mobs \cup {m})
  <2>1. mem[c] \in Content
    BY DEF TypeOK, ChunkTypes
  <2>2. /\ content \in Content /\ content.blocks = mem[c].blocks
        /\ content.mobs = mem[c].mobs \cup {m}
    BY <2>1 DEF WithMobs, Content
  <2>3. Plain(c) => IsValid(c) \/ content.mobs \cap disk[c].mobs = {}
    BY <1>3, <2>2 DEF AddEntity, WorldInv, MobsOnce
  <2>4. \A d \in Coords : IsValid(d)' <=> IsValid(d)
    BY <1>3, ConstructValid DEF AddEntity
  <2>5. /\ mem' = [mem EXCEPT ![c] = content] /\ edits' = edits + 1
        /\ UNCHANGED <<disk, stage, dataVars, stPc, stChunk, stSnapshot>>
    BY <1>3 DEF AddEntity
  <2> HIDE DEF content
  <2> QED BY <1>1, <2>2, <2>3, <2>4, <2>5, ChangeKeeps
<1>4. ASSUME NEW c \in Coords, NEW m \in Mobs, RemoveEntity(c, m) PROVE WorldInv'
  <2> DEFINE content == WithMobs(mem[c], mem[c].mobs \ {m})
  <2>1. mem[c] \in Content
    BY DEF TypeOK, ChunkTypes
  <2>2. /\ content \in Content /\ content.blocks = mem[c].blocks
        /\ content.mobs = mem[c].mobs \ {m}
    BY <2>1 DEF WithMobs, Content
  <2>3. Plain(c) => IsValid(c) \/ content.mobs \cap disk[c].mobs = {}
    BY <2>2 DEF WorldInv, MobsOnce
  <2>4. /\ mem' = [mem EXCEPT ![c] = content] /\ edits' = edits + 1
        /\ UNCHANGED <<presence, disk, stage, dataVars, stPc, stChunk, stSnapshot>>
    BY <1>4 DEF RemoveEntity
  <2> HIDE DEF content
  <2> QED BY <1>1, <2>2, <2>3, <2>4, ChangeKeeps DEF IsValid
<1>5. ASSUME NEW c \in Coords, FastSetBlock(c) \/ ReplaceLiquid(c) \/ TickBlockEntities(c)
      PROVE  WorldInv'
  <2> DEFINE content == [blocks |-> NextVersion, mobs |-> mem[c].mobs]
  <2>1. mem[c] \in Content /\ NextVersion \in Nat
    BY DEF TypeOK, ChunkTypes, CallTypes, NextVersion
  <2>2. content \in Content /\ content.blocks = NextVersion
    BY <2>1 DEF Content
  <2>3. /\ mem' = [mem EXCEPT ![c] = content] /\ edits' = edits + 1 /\ IsValid(c)
        /\ UNCHANGED <<presence, disk, stage, dataVars, stPc, stChunk, stSnapshot>>
    BY <1>5 DEF FastSetBlock, ReplaceLiquid, TickBlockEntities, ShouldBeTicked, ChangeBlocks
  <2> HIDE DEF content
  <2> QED BY <1>1, <2>2, <2>3, ChangeKeeps DEF IsValid
<1>6. ASSUME TakeChunkDataSets PROVE WorldInv'
    BY <1>6, TakeKeeps
<1>7. ASSUME SetChunkData PROVE WorldInv'
    BY <1>7, SetDataKeeps
<1>8. ASSUME UnloadUnusedChunks PROVE WorldInv'
    BY <1>8, UnloadKeeps
<1>9. ASSUME LoadChunk PROVE WorldInv'
  <2>1. stChunk \in Coords
    BY <1>9 DEF LoadChunk, TypeOK, StorageTypes
  <2>2. OfFile([coords |-> stChunk, content |-> disk[stChunk]])
    BY <1>9 DEF LoadChunk, OfFile
  <2>3. /\ QueueSetChunkData(stChunk, disk[stChunk]) /\ stPc' = "save"
        /\ UNCHANGED <<presence, mem, disk, setDataBatch, edits, doubtVars>>
    BY <1>9 DEF LoadChunk, StorageGoesTo
  <2> QED BY <2>1, <2>2, <2>3, QueueKeeps
<1>10. ASSUME ChunkLoadFailed PROVE WorldInv'
  <2>1. stChunk \in Coords /\ (Plain(stChunk) => disk[stChunk] = Nothing)
    BY <1>10 DEF ChunkLoadFailed, TypeOK, StorageTypes, FailedInv, WorldInv, FilesGenerated
  <2>2. /\ stage' = [stage EXCEPT ![stChunk] = "generate"] /\ stPc' = "save"
        /\ UNCHANGED <<presence, mem, disk, dataVars, edits>>
    BY <1>10 DEF ChunkLoadFailed, QueueGenerateChunk, StorageGoesTo
  <2>3. \A c \in Coords : Plain(c) /\ stage'[c] \in {"generate", "generating"} =>
            stage[c] \in {"generate", "generating"} \/ disk[c] = Nothing
    BY <2>1, <2>2 DEF TypeOK, ChunkTypes
  <2> QED BY <1>1, <2>2, <2>3, StillKeeps DEF IsValid
<1>11. ASSUME SaveCheckValid \/ MarkChunkSaving \/ MarkChunkSaved PROVE WorldInv'
  <2>1. UNCHANGED <<presence, mem, disk, dataVars, edits, stage>> /\ stPc' # "saveWrite"
    BY <1>11 DEF SaveCheckValid, MarkChunkSaving, MarkChunkSaved, StorageGoesTo
  <2> QED BY <1>1, <2>1, StillKeeps DEF IsValid
<1>12. ASSUME SaveSnapshot PROVE WorldInv'
  <2>1. stPc = "saveSnapshot" /\ UNCHANGED <<presence, mem, disk, dataVars, edits, stage>>
    BY <1>12 DEF SaveSnapshot
  <2>2. stChunk \in Coords /\ (Plain(stChunk) => IsValid(stChunk))
    BY <2>1, KnownFacts DEF SavePc
  <2>3. stChunk' = stChunk /\ (Plain(stChunk) => stSnapshot' = mem[stChunk])
    BY <1>12, <2>2 DEF SaveSnapshot, StorageGoesTo
  <2>4. Plain(stChunk)' =>
            stSnapshot'.blocks # NotGenerated /\ stSnapshot'.blocks < NextVersion
    BY <1>1, <2>2, <2>3 DEF WorldInv, ValidGenerated, VersionsPast
  <2> QED BY <1>1, <2>1, <2>4, StillKeeps DEF IsValid
<1>13. ASSUME NEW c \in Coords, SaveWrite(c) PROVE WorldInv'
  <2>1. /\ stPc = "saveWrite" /\ stChunk = c /\ disk' = [disk EXCEPT ![c] = stSnapshot]
        /\ stPc' # "saveWrite" /\ UNCHANGED <<presence, mem, dataVars, stage, edits, doubtVars>>
    BY <1>13 DEF SaveWrite, StorageGoesTo
  <2>2. Plain(c) => IsValid(c)
    BY <2>1, KnownFacts DEF SavePc
  <2>3. /\ stSnapshot \in Content
        /\ Plain(c) => stSnapshot.blocks # NotGenerated /\ stSnapshot.blocks < NextVersion
    BY <2>1 DEF TypeOK, StorageTypes, WorldInv, SnapshotGenerated
  <2> QED BY <2>1, <2>2, <2>3, FileKeeps
<1>14. ASSUME SaveWriteFails PROVE WorldInv'
  <2>1. /\ stPc = "saveWrite" /\ stPc' # "saveWrite"
        /\ UNCHANGED <<presence, mem, dataVars, stage, edits, doubtVars>>
    BY <1>14 DEF SaveWriteFails, StorageGoesTo
  <2>2. stChunk \in Coords /\ (Plain(stChunk) => IsValid(stChunk))
    BY <2>1, KnownFacts DEF SavePc
  <2>3. Nothing \in Content /\ Nothing.blocks < NextVersion
    BY DEF Nothing, Content, NotGenerated, NextVersion, TypeOK, CallTypes
  <2>4. CASE UNCHANGED disk
    BY <1>1, <2>1, <2>4, StillKeeps DEF IsValid
  <2>5. CASE disk' = [disk EXCEPT ![stChunk] = Nothing]
    BY <2>1, <2>2, <2>3, <2>5, FileKeeps
  <2> QED BY <1>14, <2>4, <2>5 DEF SaveWriteFails
<1>15. ASSUME DoGenerate PROVE WorldInv'
  <2> DEFINE c       == gnItem.coords
             content == [blocks |-> Generated, mobs |-> {}]
  <2>1. c \in Coords
    BY <1>15 DEF DoGenerate, TypeOK, GeneratorTypes, Job
  <2>2. Plain(c) => stage[c] = "generating"
    BY <1>15 DEF DoGenerate, Plain, StageInv, GeneratingFollows
  <2>3. Plain(c) => OfFile([coords |-> c, content |-> content])
    BY <2>1, <2>2 DEF WorldInv, GeneratedNoFile, OfFile, Generated, NotGenerated
  <2>4. /\ QueueSetChunkData(c, content)
        /\ UNCHANGED <<stPc, stChunk, stSnapshot, presence, mem, disk, setDataBatch, edits,
                        doubtVars>>
    BY <1>15 DEF DoGenerate
  <2> HIDE DEF c, content
  <2> QED BY <2>1, <2>3, <2>4, QueueKeeps
<1> QED BY <1>2, <1>3, <1>4, <1>5, <1>6, <1>7, <1>8, <1>9, <1>10, <1>11, <1>12, <1>13, <1>14,
    <1>15
    DEF CalmSteps, Next, EntitySteps, BlockSteps, DataSteps, LoadSteps, SaveSteps,
    StorageSteps, GeneratorSteps

-----------------------------------------------------------------------------
(* Every step is one of the promise, or changes no content *)

\* As long as memory and files stay as they are, so do the contents.
LEMMA SameContents ==
    ASSUME DoubtKept, UNCHANGED <<mem, disk>>,
           \A c \in Coords \ Doubted' : IsValid(c)' <=> IsValid(c)
    PROVE  World!Next
<1> HIDE DEF Doubted
<1>1. \A c \in Coords \ Doubted' : ContentOf(c)' = ContentOf(c)
    BY DEF ContentOf
<1> QED BY <1>1, Rests

\* A mob comes into a chunk, or leaves it.
LEMMA EntityStep ==
    ASSUME Known, TypeOK', DoubtKept, WorldInv, NEW c \in Coords, NEW m \in Mobs,
           AddEntity(c, m) \/ RemoveEntity(c, m)
    PROVE  World!Next
<1>1. /\ mem \in [Coords -> Content] /\ disk \in [Coords -> Content] /\ disk' = disk
      /\ \A d \in Coords : IsValid(d)' <=> IsValid(d)
    BY ConstructValid DEF Known, TypeOK, ChunkTypes, AddEntity, RemoveEntity, IsValid
<1>2. OthersKept(c)
    BY <1>1 DEF AddEntity, RemoveEntity, OthersKept, ContentOf
<1>3. Plain(c)' => Plain(c)
    BY DEF DoubtKept, Plain
<1>4. CASE c \in Doubted'
  <2>1. \A d \in Coords \ Doubted' : ContentOf(d)' = ContentOf(d)
    BY <1>2, <1>4 DEF OthersKept
  <2> QED BY <2>1, Rests
<1>5. CASE c \notin Doubted' /\ AddEntity(c, m)
  <2>1. /\ mem' = [mem EXCEPT ![c] = WithMobs(mem[c], mem[c].mobs \cup {m})]
        /\ \A d \in Coords : m \notin mem[d].mobs \cup disk[d].mobs
    BY <1>5 DEF AddEntity
  <2>2. /\ ContentOf(c)'.blocks = ContentOf(c).blocks
        /\ ContentOf(c)'.mobs = ContentOf(c).mobs \cup {m}
    BY <1>1, <2>1 DEF ContentOf, WithMobs
  <2>3. \A d \in Coords : m \notin ContentOf(d).mobs
    BY <2>1 DEF ContentOf
  <2> QED BY <1>2, <1>5, <2>2, <2>3, Spawns DEF Known
<1>6. CASE c \notin Doubted' /\ RemoveEntity(c, m)
  <2>1. m \in mem[c].mobs /\ mem' = [mem EXCEPT ![c] = WithMobs(mem[c], mem[c].mobs \ {m})]
    BY <1>6 DEF RemoveEntity
  <2>2. Plain(c)
    BY <1>3, <1>6 DEF Plain
  <2>3. IsValid(c) \/ m \notin disk[c].mobs
    BY <2>1, <2>2 DEF WorldInv, MobsOnce
  <2>4. /\ ContentOf(c)'.blocks = ContentOf(c).blocks
        /\ ContentOf(c)'.mobs = ContentOf(c).mobs \ {m}
    BY <1>1, <2>1, <2>3 DEF ContentOf, WithMobs
  <2>5. m \in ContentOf(c).mobs
    BY <2>1 DEF ContentOf
  <2> QED BY <1>2, <1>6, <2>4, <2>5, Removes DEF Known
<1> QED BY <1>4, <1>5, <1>6

\* The blocks of a chunk change to a later version.
LEMMA BlockStep ==
    ASSUME Known, TypeOK', DoubtKept, WorldInv, NEW c \in Coords,
           FastSetBlock(c) \/ ReplaceLiquid(c) \/ TickBlockEntities(c)
    PROVE  World!Next
<1>1. ChangeBlocks(c) /\ IsValid(c)
    BY DEF FastSetBlock, ReplaceLiquid, TickBlockEntities, ShouldBeTicked
<1>2. /\ mem \in [Coords -> Content] /\ edits \in Nat /\ UNCHANGED <<presence, disk>>
      /\ mem' = [mem EXCEPT ![c] = [blocks |-> NextVersion, mobs |-> mem[c].mobs]]
    BY <1>1 DEF Known, TypeOK, ChunkTypes, CallTypes, ChangeBlocks
<1>3. OthersKept(c)
    BY <1>2 DEF OthersKept, ContentOf, IsValid
<1>4. CASE c \in Doubted'
  <2>1. \A d \in Coords \ Doubted' : ContentOf(d)' = ContentOf(d)
    BY <1>3, <1>4 DEF OthersKept
  <2> QED BY <2>1, Rests
<1>5. CASE c \notin Doubted'
  <2>1. ContentOf(c) = mem[c] /\ ContentOf(c)' = [blocks |-> NextVersion, mobs |-> mem[c].mobs]
    BY <1>1, <1>2 DEF ContentOf, IsValid
  <2>2. Plain(c)
    BY <1>5 DEF DoubtKept, Plain
  <2>3. mem[c].blocks # NotGenerated /\ mem[c].blocks < NextVersion /\ mem[c].blocks \in Nat
    BY <1>1, <1>2, <2>2 DEF WorldInv, ValidGenerated, VersionsPast, Content
  <2>4. ContentOf(c)'.blocks > ContentOf(c).blocks
    BY <1>2, <2>1, <2>3 DEF NextVersion
  <2>5. ContentOf(c).blocks # NotGenerated /\ ContentOf(c)'.mobs = ContentOf(c).mobs
    BY <2>1, <2>3
  <2> QED BY <1>3, <1>5, <2>4, <2>5, Changes DEF Known
<1> QED BY <1>4, <1>5

\* Data that come in are the content the chunk has had in its file, or its first.
LEMMA DataStep ==
    ASSUME Known, TypeOK', DoubtKept, WorldInv, SetChunkData
    PROVE  World!Next
<1>1. /\ setDataBatch \in Seq(Data) /\ setDataBatch # << >>
      /\ mem \in [Coords -> Content] /\ disk \in [Coords -> Content]
      /\ presence \in [Coords -> Presence]
    BY DEF Known, TypeOK, DataTypes, ChunkTypes, SetChunkData
<1>2. Head(setDataBatch) = setDataBatch[1] /\ Len(setDataBatch) >= 1
    BY <1>1
<1>3. /\ Head(setDataBatch) \in Data
      /\ Plain(Head(setDataBatch).coords) =>
            OfFile(Head(setDataBatch)) /\ ~IsValid(Head(setDataBatch).coords)
    BY <1>1, <1>2, KnownFacts DEF WorldInv, BatchOfFile
<1>4. PICK c \in Coords : c = Head(setDataBatch).coords
    BY <1>3 DEF Data
<1>5. PICK content \in Content : content = Head(setDataBatch).content
    BY <1>3 DEF Data
<1>6. /\ mem' = [mem EXCEPT ![c] = SetAllData(c, content)]
      /\ presence' = [presence EXCEPT ![c] = "cpPresent"]
      /\ disk' = disk
    BY <1>4, <1>5 DEF SetChunkData
<1>7. OthersKept(c)
    BY <1>1, <1>6 DEF OthersKept, ContentOf, IsValid
<1>8. CASE c \in Doubted'
  <2>1. \A d \in Coords \ Doubted' : ContentOf(d)' = ContentOf(d)
    BY <1>7, <1>8 DEF OthersKept
  <2> QED BY <2>1, Rests
<1>9. CASE c \notin Doubted'
  <2>1. Plain(c)
    BY <1>9 DEF DoubtKept, Plain
  <2>2. /\ ContentOf(c) = [blocks |-> disk[c].blocks, mobs |-> disk[c].mobs \cup mem[c].mobs]
        /\ ContentOf(c)' = [blocks |-> content.blocks, mobs |-> content.mobs \cup mem[c].mobs]
    BY <1>1, <1>3, <1>4, <1>6, <2>1 DEF ContentOf, IsValid, SetAllData
  <2>3. CASE content = disk[c]
    <3>1. \A d \in Coords \ Doubted' : ContentOf(d)' = ContentOf(d)
      BY <1>7, <2>2, <2>3 DEF OthersKept
    <3> QED BY <3>1, Rests
  <2>4. CASE content = [blocks |-> Generated, mobs |-> {}] /\ disk[c] = Nothing
    <3>1. /\ ContentOf(c).blocks = NotGenerated /\ ContentOf(c)'.blocks = Generated
          /\ ContentOf(c)'.mobs = ContentOf(c).mobs
      BY <2>2, <2>4 DEF Nothing
    <3> QED BY <1>7, <1>9, <3>1, Generates DEF Known
  <2> QED BY <1>3, <1>4, <1>5, <2>1, <2>3, <2>4 DEF OfFile
<1> QED BY <1>8, <1>9

\* What is unloaded is in its file.
LEMMA UnloadStep ==
    ASSUME Known, DoubtKept, UnloadUnusedChunks PROVE World!Next
<1>1. PICK S \in SUBSET {c \in Coords : CanUnload(c)} :
        /\ presence' = [c \in Coords |-> IF c \in S THEN "absent" ELSE presence[c]]
        /\ mem'      = [c \in Coords |-> IF c \in S THEN Nothing ELSE mem[c]]
    BY DEF UnloadUnusedChunks
<1>2. disk' = disk /\ disk \in [Coords -> Content]
    BY DEF UnloadUnusedChunks, Known, TypeOK, ChunkTypes
<1>3. ASSUME NEW c \in Coords, c \notin S PROVE ContentOf(c)' = ContentOf(c)
    BY <1>1, <1>2, <1>3 DEF ContentOf, IsValid
<1>4. ASSUME NEW c \in S, c \notin Doubted' PROVE ContentOf(c)' = ContentOf(c)
  <2>1. c \in Coords /\ ~dirty[c] /\ Plain(c)
    BY <1>4 DEF CanUnload, DoubtKept, Plain
  <2>2. ContentOf(c)' = [blocks |-> disk[c].blocks, mobs |-> disk[c].mobs]
    BY <1>1, <1>2, <1>4, <2>1 DEF ContentOf, IsValid, Nothing
  <2>3. disk[c] = [blocks |-> disk[c].blocks, mobs |-> disk[c].mobs]
    BY <1>2, <2>1 DEF Content
  <2>4. IsValid(c) => mem[c] = disk[c]
    BY <2>1 DEF Known, SaveInv, CleanIsSavedUnlessDoubted, Plain
  <2>5. ~IsValid(c) => mem[c].mobs = {}
    BY <2>1 DEF Known, SaveInv, MobsDirty
  <2> QED BY <2>2, <2>3, <2>4, <2>5 DEF ContentOf
<1>5. \A c \in Coords \ Doubted' : ContentOf(c)' = ContentOf(c)
    BY <1>3, <1>4
<1> QED BY <1>5, Rests

\* While a file is written, or spoiled, the chunk is in memory.
LEMMA FileStep ==
    ASSUME Known, DoubtKept, (\E c \in Coords : SaveWrite(c)) \/ SaveWriteFails
    PROVE  World!Next
<1>1. /\ stPc = "saveWrite" /\ UNCHANGED <<presence, mem>>
      /\ disk' = disk \/ \E content : disk' = [disk EXCEPT ![stChunk] = content]
    BY DEF SaveWrite, SaveWriteFails
<1>2. /\ stChunk \in Coords /\ disk \in [Coords -> Content]
      /\ Plain(stChunk) => IsValid(stChunk)
    BY <1>1, KnownFacts DEF SavePc, Known, TypeOK, ChunkTypes
<1>3. \A c \in Coords : Plain(c) => IsValid(c) \/ disk'[c] = disk[c]
    BY <1>1, <1>2
<1>4. \A c \in Coords \ Doubted' : ContentOf(c)' = ContentOf(c)
    BY <1>1, <1>3 DEF ContentOf, IsValid, DoubtKept, Plain
<1> QED BY <1>4, Rests

\* So is every other step, or it moves no content.
LEMMA WorldStep ==
    ASSUME Known, Known', WorldInv, [Next]_vars PROVE World!Next
<1> USE DEF Known
<1>1. DoubtKept
    BY DoubtGrows DEF DoubtKept, TypeOK, CallTypes
<1>2. ASSUME CalmSteps PROVE World!Next
  <2>1. Calm
    BY <1>2, CalmStepsCalm
  <2> QED BY <1>1, <2>1, SameContents DEF Calm
<1>3. ASSUME NEW c \in Coords, NEW m \in Mobs, AddEntity(c, m) \/ RemoveEntity(c, m)
      PROVE  World!Next
    BY <1>1, <1>3, EntityStep
<1>4. ASSUME NEW c \in Coords, FastSetBlock(c) \/ ReplaceLiquid(c) \/ TickBlockEntities(c)
      PROVE  World!Next
    BY <1>1, <1>4, BlockStep
<1>5. ASSUME SetChunkData PROVE World!Next
    BY <1>1, <1>5, DataStep
<1>6. ASSUME UnloadUnusedChunks PROVE World!Next
    BY <1>1, <1>6, UnloadStep
<1>7. ASSUME (\E c \in Coords : SaveWrite(c)) \/ SaveWriteFails PROVE World!Next
    BY <1>1, <1>7, FileStep
<1>8. ASSUME \/ TakeChunkDataSets \/ LoadChunk \/ ChunkLoadFailed \/ SaveCheckValid
             \/ MarkChunkSaving \/ SaveSnapshot \/ MarkChunkSaved \/ DoGenerate
      PROVE  World!Next
  <2>1. UNCHANGED <<presence, mem, disk>>
    BY <1>8 DEF TakeChunkDataSets, LoadChunk, ChunkLoadFailed, SaveCheckValid,
        MarkChunkSaving, SaveSnapshot, MarkChunkSaved, DoGenerate
  <2> QED BY <1>1, <2>1, SameContents DEF IsValid
<1> QED BY <1>2, <1>3, <1>4, <1>5, <1>6, <1>7, <1>8
    DEF CalmSteps, Next, EntitySteps, BlockSteps, DataSteps, LoadSteps, SaveSteps,
    StorageSteps, GeneratorSteps

\* Before anything is loaded or generated, the world is empty.
LEMMA WorldInit == Init => World!Init
BY DEF Init, World!Init, ContentOf, IsValid, Nothing

\* Saving, unloading and loading again cannot be told from nothing happening, whatever the
\* threads do in between, rounds of saving overlap or not, and writes that fail spoil the
\* file or not: every behaviour of the pipeline is one of WorldContents.  (It promises
\* nothing of a chunk any more once that was regenerated, queued for saving a second time
\* before it was saved, or changed by a block entity or a liquid unnoticed.)
THEOREM KeepsWorldPromise == Spec => WorldPromise
<1>1. TypeOK /\ StageInv /\ RoundInv /\ SaveInv /\ [Next]_vars => SaveInv'
    BY SaveStep
<1>2. Spec => []Known
    BY SaveInit, TypeCorrect, StageCorrect, RoundCorrect, FailedCorrect, <1>1,
        PTL DEF Spec, Known
<1>3. Known /\ Known' /\ WorldInv /\ [Next]_vars => WorldInv'
    BY WorldInvStep
<1>4. Known /\ Known' /\ WorldInv /\ [Next]_vars => World!Next
    BY WorldStep
<1> QED BY WorldInit, WorldInvInit, <1>2, <1>3, <1>4, PTL
    DEF Spec, WorldPromise, World!Spec
=============================================================================
