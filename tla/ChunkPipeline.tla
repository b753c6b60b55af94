---------------------------- MODULE ChunkPipeline ----------------------------
(***************************************************************************)
(* The life of a chunk in one world: who asks for it, the three threads    *)
(* that produce it (storage, generator, tick), its saving and unloading.   *)
(*                                                                         *)
(* An action is one critical section: everything the code does while it    *)
(* holds cChunkMap::m_CSChunks, or the lock of one queue.  Between two     *)
(* actions of one thread every other thread may run.                       *)
(***************************************************************************)
EXTENDS Naturals, Sequences, FiniteSets

CONSTANTS
    Coords,             \* chunk coordinates
    Clients,            \* cClientHandle objects
    Players,            \* cPlayer entities
    Mobs,               \* entities that are saved with their chunk
    BlockEntities,      \* coordinates holding a block entity that ticks by itself
    Liquids,            \* coordinates where a liquid may change its level
    None,               \* "no chunk", for the threads' local variables
    SkipLimit,          \* QUEUE_SKIP_LIMIT of the generator (500 in the code)
    MaxStays,           \* bound: nested SetChunkAlwaysTicked calls
    MaxEdits,           \* bound: changes of chunk contents
    MaxRegens,          \* bound: cWorld::RegenerateChunk calls
    MaxSaveQueue        \* bound: length of the storage's save queue

ASSUME CoordsAssumption == IsFiniteSet(Coords) /\ None \notin Coords
ASSUME SubsetAssumption == BlockEntities \subseteq Coords /\ Liquids \subseteq Coords
ASSUME BoundsAssumption ==
    /\ SkipLimit \in Nat /\ MaxStays \in Nat /\ MaxEdits \in Nat
    /\ MaxRegens \in Nat /\ MaxSaveQueue \in Nat

VARIABLES
    \* One cChunk per coordinate; "absent" when m_Chunks has no entry for it.
    presence, dirty, saving, clients, stays, players,
    mem,                \* the chunk's blocks and mobs in memory
    disk,               \* what the region file holds for it
    \* cWorldStorage and its thread
    loadQueue, saveQueue, stPc, stChunk, stSnapshot,
    \* cChunkGeneratorThread
    genQueue, gnPc, gnItem, gnSkip,
    \* cWorld::m_SetChunkDataQueue and the batch TickQueuedChunkDataSets took from it
    setDataQueue, setDataBatch,
    \* the RegenerateChunk call between its two statements
    regenCall,
    \* counters of the bounds
    edits, regens,
    \* history: where the work on a queued chunk is; the chunks ever regenerated, ever
    \* queued for saving while a save of theirs was pending, ever changed unnoticed
    stage, regenerated, overlapped, missed

chunkVars     == <<presence, dirty, saving, clients, stays, players, mem>>
flagVars      == <<dirty, saving>>
holderVars    == <<clients, stays, players>>
storageVars   == <<saveQueue, stPc, stChunk, stSnapshot>>
generatorVars == <<gnPc, gnItem, gnSkip>>
dataVars      == <<setDataQueue, setDataBatch>>
boundVars     == <<edits, regens>>
doubtVars     == <<regenCall, regenerated, overlapped, missed>>

vars == <<chunkVars, disk, loadQueue, storageVars, genQueue, generatorVars,
          dataVars, boundVars, doubtVars, stage>>

-----------------------------------------------------------------------------
(* Contents.  Blocks and block entities are one version number; every change *)
(* takes a new one.                                                          *)

NotGenerated == 0     \* no blocks yet: nothing on disk, or nothing in memory
Sectionless  == 1     \* the file Serialize() writes when the chunk is not there
Generated    == 2     \* what the generator produces for this seed
NextVersion  == edits + 3

Content  == [blocks : Nat, mobs : SUBSET Mobs]
Nothing  == [blocks |-> NotGenerated, mobs |-> {}]
WithMobs(content, mobs) == [blocks |-> content.blocks, mobs |-> mobs]
Job      == [coords : Coords, force : BOOLEAN]
Data     == [coords : Coords, content : Content]
NoJob    == [coords |-> None, force |-> FALSE]

Presence == {"absent", "cpInvalid", "cpQueued", "cpPresent"}
StorePc  == {"load", "loading", "loadFailed", "save", "saveCheck", "saveMark",
             "saveSnapshot", "saveWrite", "saveDone"}
SavePc   == {"saveCheck", "saveMark", "saveSnapshot", "saveWrite", "saveDone"}
GenPc    == {"idle", "checkValid", "checkClients", "generate"}
Stage    == {"none", "load", "loading", "generate", "generating", "data", "batch",
             "skipped"}

Exists(c)        == presence[c] # "absent"
IsValid(c)       == presence[c] = "cpPresent"
IsQueued(c)      == presence[c] = "cpQueued"
HasAnyClients(c) == clients[c] # {}

ShouldBeTicked(c) == IsValid(c) /\ (HasAnyClients(c) \/ stays[c] > 0)

\* Mutant: a queued chunk may be unloaded too.
CanUnloadQueued(c) ==
    Exists(c) /\ ~HasAnyClients(c) /\ players[c] = {} /\ ~dirty[c] /\ stays[c] = 0

CanUnload(c) ==
    /\ Exists(c)
    /\ ~HasAnyClients(c)
    /\ players[c] = {}
    /\ ~dirty[c]
    /\ stays[c] = 0
    /\ ~IsQueued(c)

\* Mutant: every valid chunk is saved, changed or not.
NeedsSavingIfValid(c) == IsValid(c)

NeedsSaving(c) == IsValid(c) /\ dirty[c]

\* Mutants: m_IsSaving is not looked at; the test of m_IsSaving is the wrong way round.
BecomesCleanAlways(c) == IsValid(c)
BecomesCleanUnlessSaving(c) == IsValid(c) /\ ~saving[c]

\* MarkChunkSaved clears m_IsDirty unless MarkDirty was called since MarkChunkSaving.
BecomesClean(c) == IsValid(c) /\ saving[c]

\* Mutant: the entities already in the chunk are dropped.
DataReplacesMobs(c, data) == data

\* cChunk::SetAllData: the blocks and block entities are replaced, the entities kept.
SetAllData(c, data) == [blocks |-> data.blocks, mobs |-> data.mobs \cup mem[c].mobs]

\* A save of c is queued or under way.
SavePending(c) ==
    (\E i \in DOMAIN saveQueue : saveQueue[i] = c) \/ (stPc \in SavePc /\ stChunk = c)

\* A save has its copy of c, and will make c clean if that is written.
SaveHasCopied(c) == stPc \in {"saveWrite", "saveDone"} /\ stChunk = c /\ saving[c]

Overloaded == Len(genQueue) > SkipLimit

\* The orders in which a loop over m_Chunks may visit the chunks of S.
Orders(S) == {s \in [1 .. Cardinality(S) -> S] : \A i, j \in DOMAIN s : s[i] = s[j] => i = j}

-----------------------------------------------------------------------------
Init ==
    /\ presence = [c \in Coords |-> "absent"]
    /\ dirty    = [c \in Coords |-> FALSE]
    /\ saving   = [c \in Coords |-> FALSE]
    /\ clients  = [c \in Coords |-> {}]
    /\ stays    = [c \in Coords |-> 0]
    /\ players  = [c \in Coords |-> {}]
    /\ mem      = [c \in Coords |-> Nothing]
    /\ disk     = [c \in Coords |-> Nothing]
    /\ loadQueue = << >> /\ saveQueue = << >>
    /\ stPc = "load" /\ stChunk = None /\ stSnapshot = Nothing
    /\ genQueue = << >> /\ gnPc = "idle" /\ gnItem = NoJob /\ gnSkip = FALSE
    /\ setDataQueue = << >> /\ setDataBatch = << >>
    /\ regenCall = None /\ regenerated = {} /\ overlapped = {} /\ missed = {}
    /\ edits = 0 /\ regens = 0
    /\ stage = [c \in Coords |-> "none"]

-----------------------------------------------------------------------------
(* Parts of actions *)

\* Mutant: a change during a save does not cancel it.
MarkDirtyOnly(c) == dirty' = [dirty EXCEPT ![c] = TRUE] /\ UNCHANGED saving

MarkDirty(c) ==
    /\ dirty'  = [dirty EXCEPT ![c] = TRUE]
    /\ saving' = [saving EXCEPT ![c] = FALSE]

ConstructChunk(c) ==
    presence' = IF Exists(c) THEN presence ELSE [presence EXCEPT ![c] = "cpInvalid"]

\* Constructs the chunk if needed; one neither valid nor queued is queued for loading.
GetChunk(c) ==
    \/ /\ ~IsValid(c) /\ ~IsQueued(c)
       /\ presence'  = [presence EXCEPT ![c] = "cpQueued"]
       /\ loadQueue' = Append(loadQueue, c)
       /\ stage'     = [stage EXCEPT ![c] = "load"]
    \/ /\ IsValid(c) \/ IsQueued(c)
       /\ UNCHANGED <<presence, loadQueue, stage>>

\* Mutant: a full queue refuses the chunk.
QueueGenerateChunkUnlessFull(c, force) ==
    /\ genQueue' = IF Len(genQueue) >= SkipLimit THEN genQueue
                   ELSE Append(genQueue, [coords |-> c, force |-> force])
    /\ stage'    = [stage EXCEPT ![c] = "generate"]

QueueGenerateChunk(c, force) ==
    /\ genQueue' = Append(genQueue, [coords |-> c, force |-> force])
    /\ stage'    = [stage EXCEPT ![c] = "generate"]

\* Mutant: the new data overwrites what waits in the queue.
QueueLatestChunkData(c, content) ==
    /\ setDataQueue' = <<[coords |-> c, content |-> content]>>
    /\ stage'        = [stage EXCEPT ![c] = "data"]

QueueSetChunkData(c, content) ==
    /\ setDataQueue' = Append(setDataQueue, [coords |-> c, content |-> content])
    /\ stage'        = [stage EXCEPT ![c] = "data"]

\* What the tick thread does outside TickQueuedChunkDataSets.
TickThreadFree == setDataBatch = << >>

-----------------------------------------------------------------------------
(* Those who hold and change chunks *)

\* cClientHandle::StreamChunk, on the tick thread.
AddChunkClient(c, k) ==
    /\ TickThreadFree
    /\ k \notin clients[c]
    /\ GetChunk(c)
    /\ clients' = [clients EXCEPT ![c] = @ \cup {k}]
    /\ UNCHANGED <<flagVars, stays, players, mem, disk, storageVars, genQueue,
                   generatorVars, dataVars, boundVars, doubtVars>>

RemoveChunkClient(c, k) ==
    /\ TickThreadFree
    /\ k \in clients[c]
    /\ clients' = [clients EXCEPT ![c] = @ \ {k}]
    /\ UNCHANGED <<presence, flagVars, stays, players, mem, disk, loadQueue, storageVars,
                   genQueue, generatorVars, dataVars, boundVars, doubtVars, stage>>

RemoveClientFromChunks(k) ==
    /\ TickThreadFree
    /\ \E c \in Coords : k \in clients[c]
    /\ clients' = [c \in Coords |-> clients[c] \ {k}]
    /\ UNCHANGED <<presence, flagVars, stays, players, mem, disk, loadQueue, storageVars,
                   genQueue, generatorVars, dataVars, boundVars, doubtVars, stage>>

\* cWorld::GenerateChunk: a plugin, or the spawn preparation, on any thread.
GenerateChunk(c) ==
    /\ ~IsValid(c) /\ ~IsQueued(c)
    /\ GetChunk(c)
    /\ UNCHANGED <<flagVars, holderVars, mem, disk, storageVars, genQueue,
                   generatorVars, dataVars, boundVars, doubtVars>>

SetChunkAlwaysTicked(c, on) ==
    /\ IF on THEN stays[c] < MaxStays ELSE stays[c] > 0
    /\ GetChunk(c)
    /\ stays' = [stays EXCEPT ![c] = IF on THEN @ + 1 ELSE @ - 1]
    /\ UNCHANGED <<flagVars, clients, players, mem, disk, storageVars, genQueue,
                   generatorVars, dataVars, boundVars, doubtVars>>

AddEntity(c, m) ==
    /\ edits < MaxEdits
    /\ \A d \in Coords : m \notin mem[d].mobs \cup disk[d].mobs
    /\ ConstructChunk(c)
    /\ edits' = edits + 1
    /\ MarkDirty(c)
    /\ mem' = [mem EXCEPT ![c] = WithMobs(@, @.mobs \cup {m})]
    /\ UNCHANGED <<holderVars, disk, loadQueue, storageVars, genQueue, generatorVars,
                   dataVars, regens, doubtVars, stage>>

RemoveEntity(c, m) ==
    /\ edits < MaxEdits
    /\ m \in mem[c].mobs
    /\ edits' = edits + 1
    /\ MarkDirty(c)
    /\ mem' = [mem EXCEPT ![c] = WithMobs(@, @.mobs \ {m})]
    /\ UNCHANGED <<presence, holderVars, disk, loadQueue, storageVars, genQueue,
                   generatorVars, dataVars, regens, doubtVars, stage>>

AddPlayer(c, p) ==
    /\ \A d \in Coords : p \notin players[d]
    /\ ConstructChunk(c)
    /\ players' = [players EXCEPT ![c] = @ \cup {p}]
    /\ UNCHANGED <<flagVars, clients, stays, mem, disk, loadQueue, storageVars, genQueue,
                   generatorVars, dataVars, boundVars, doubtVars, stage>>

RemovePlayer(c, p) ==
    /\ p \in players[c]
    /\ players' = [players EXCEPT ![c] = @ \ {p}]
    /\ UNCHANGED <<presence, flagVars, clients, stays, mem, disk, loadQueue, storageVars,
                   genQueue, generatorVars, dataVars, boundVars, doubtVars, stage>>

ChangeBlocks(c) ==
    /\ edits < MaxEdits
    /\ edits' = edits + 1
    /\ mem' = [mem EXCEPT ![c] = [blocks |-> NextVersion, mobs |-> @.mobs]]
    /\ UNCHANGED <<presence, holderVars, disk, loadQueue, storageVars, genQueue,
                   generatorVars, dataVars, regens, regenCall, regenerated, overlapped,
                   stage>>

\* A block, biome or light changes, or a block entity's inventory.
FastSetBlock(c) ==
    /\ IsValid(c)
    /\ ChangeBlocks(c)
    /\ MarkDirty(c)
    /\ UNCHANGED missed

\* FastSetBlock where a liquid replaces the same liquid: not marked dirty.
ReplaceLiquid(c) ==
    /\ c \in Liquids
    /\ IsValid(c)
    /\ ChangeBlocks(c)
    /\ missed' = IF dirty[c] /\ ~SaveHasCopied(c) THEN missed ELSE missed \cup {c}
    /\ UNCHANGED flagVars

\* cChunk::Tick, where a block entity reports that it changed: m_IsDirty is set,
\* m_IsSaving is left as it is.
TickBlockEntities(c) ==
    /\ TickThreadFree
    /\ c \in BlockEntities
    /\ ShouldBeTicked(c)
    /\ ChangeBlocks(c)
    /\ dirty' = [dirty EXCEPT ![c] = TRUE]
    /\ missed' = IF SaveHasCopied(c) THEN missed \cup {c} ELSE missed
    /\ UNCHANGED saving

-----------------------------------------------------------------------------
(* The tick thread: data coming in, unloading, saving *)

TakeChunkDataSets ==
    /\ TickThreadFree
    /\ setDataQueue # << >>
    /\ setDataBatch' = setDataQueue
    /\ setDataQueue' = << >>
    /\ stage' = [c \in Coords |-> IF stage[c] = "data" THEN "batch" ELSE stage[c]]
    /\ UNCHANGED <<chunkVars, disk, loadQueue, storageVars, genQueue, generatorVars,
                   boundVars, doubtVars>>

\* cChunkMap::SetChunkData.  Where the chunk is gone the code dereferences nullptr.
SetChunkData ==
    /\ setDataBatch # << >>
    /\ LET c == Head(setDataBatch).coords
       IN /\ Exists(c)
          /\ mem' = [mem EXCEPT ![c] = SetAllData(c, Head(setDataBatch).content)]
          /\ presence' = [presence EXCEPT ![c] = "cpPresent"]
          /\ stage' = [stage EXCEPT ![c] = "none"]
    /\ setDataBatch' = Tail(setDataBatch)
    /\ UNCHANGED <<flagVars, holderVars, disk, loadQueue, storageVars, genQueue,
                   generatorVars, setDataQueue, boundVars, doubtVars>>

\* Plugins may refuse any of the unloads.
UnloadUnusedChunks ==
    /\ TickThreadFree
    /\ \E S \in SUBSET {c \in Coords : CanUnload(c)} :
          /\ S # {}
          /\ presence' = [c \in Coords |-> IF c \in S THEN "absent" ELSE presence[c]]
          /\ saving'   = [c \in Coords |-> saving[c] /\ c \notin S]
          /\ mem'      = [c \in Coords |-> IF c \in S THEN Nothing ELSE mem[c]]
    /\ UNCHANGED <<dirty, holderVars, disk, loadQueue, storageVars, genQueue,
                   generatorVars, dataVars, boundVars, doubtVars, stage>>

SaveAllChunks ==
    /\ TickThreadFree
    /\ \E order \in Orders({c \in Coords : NeedsSaving(c)}) :
          /\ order # << >>
          /\ Len(saveQueue) + Len(order) <= MaxSaveQueue
          /\ saveQueue' = saveQueue \o order
    /\ overlapped' = overlapped \cup {c \in Coords : NeedsSaving(c) /\ SavePending(c)}
    /\ UNCHANGED <<chunkVars, disk, loadQueue, stPc, stChunk, stSnapshot, genQueue,
                   generatorVars, dataVars, boundVars, regenCall, regenerated, missed,
                   stage>>

\* cWorld::RegenerateChunk: two statements, each with its own lock.
MarkChunkRegenerating(c) ==
    /\ regenCall = None
    /\ regens < MaxRegens
    /\ regens' = regens + 1
    /\ presence' = [presence EXCEPT ![c] = "cpQueued"]
    /\ regenCall' = c
    /\ regenerated' = regenerated \cup {c}
    /\ UNCHANGED <<flagVars, holderVars, mem, disk, loadQueue, storageVars, genQueue,
                   generatorVars, dataVars, edits, overlapped, missed, stage>>

QueueRegeneration ==
    /\ regenCall # None
    /\ QueueGenerateChunk(regenCall, TRUE)
    /\ regenCall' = None
    /\ UNCHANGED <<chunkVars, disk, loadQueue, storageVars, generatorVars, dataVars,
                   boundVars, regenerated, overlapped, missed>>

-----------------------------------------------------------------------------
(* cWorldStorage's thread: it alternates LoadOneChunk and SaveOneChunk *)

StorageGoesTo(pc, c) == stPc' = pc /\ stChunk' = c

LoadDequeue ==
    /\ stPc = "load"
    /\ loadQueue # << >>
    /\ StorageGoesTo("loading", Head(loadQueue))
    /\ loadQueue' = Tail(loadQueue)
    /\ stage' = [stage EXCEPT ![Head(loadQueue)] = "loading"]
    /\ UNCHANGED <<chunkVars, disk, saveQueue, stSnapshot, genQueue, generatorVars,
                   dataVars, boundVars, doubtVars>>

\* Nothing to load; the thread goes on as long as it has something to save.
LoadNothing ==
    /\ stPc = "load"
    /\ loadQueue = << >> /\ saveQueue # << >>
    /\ StorageGoesTo("save", None)
    /\ UNCHANGED <<chunkVars, disk, loadQueue, saveQueue, stSnapshot, genQueue,
                   generatorVars, dataVars, boundVars, doubtVars, stage>>

\* The schema finds the chunk and queues its data for the tick thread.
LoadChunk ==
    /\ stPc = "loading"
    /\ disk[stChunk].blocks # NotGenerated
    /\ QueueSetChunkData(stChunk, disk[stChunk])
    /\ StorageGoesTo("save", None)
    /\ UNCHANGED <<chunkVars, disk, loadQueue, saveQueue, stSnapshot, genQueue,
                   generatorVars, setDataBatch, boundVars, doubtVars>>

\* Mutant: the load is tried again instead.
LoadTriesAgain ==
    stPc = "loading" /\ disk[stChunk].blocks = NotGenerated /\ UNCHANGED vars

LoadMisses ==
    /\ stPc = "loading"
    /\ disk[stChunk].blocks = NotGenerated
    /\ StorageGoesTo("loadFailed", stChunk)
    /\ UNCHANGED <<chunkVars, disk, loadQueue, saveQueue, stSnapshot, genQueue,
                   generatorVars, dataVars, boundVars, doubtVars, stage>>

\* cChunkMap::ChunkLoadFailed and cChunk::MarkLoadFailed, under m_CSChunks.
ChunkLoadFailed ==
    /\ stPc = "loadFailed"
    /\ Exists(stChunk)
    /\ MarkDirty(stChunk)
    /\ QueueGenerateChunk(stChunk, FALSE)
    /\ StorageGoesTo("save", None)
    /\ UNCHANGED <<presence, holderVars, mem, disk, loadQueue, saveQueue, stSnapshot,
                   generatorVars, dataVars, boundVars, doubtVars>>

SaveDequeue ==
    /\ stPc = "save"
    /\ saveQueue # << >>
    /\ StorageGoesTo("saveCheck", Head(saveQueue))
    /\ saveQueue' = Tail(saveQueue)
    /\ UNCHANGED <<chunkVars, disk, loadQueue, stSnapshot, genQueue, generatorVars,
                   dataVars, boundVars, doubtVars, stage>>

SaveNothing ==
    /\ stPc = "save"
    /\ saveQueue = << >>
    /\ StorageGoesTo("load", None)
    /\ UNCHANGED <<chunkVars, disk, loadQueue, saveQueue, stSnapshot, genQueue,
                   generatorVars, dataVars, boundVars, doubtVars, stage>>

SaveCheckValid ==
    /\ stPc = "saveCheck"
    /\ IF IsValid(stChunk) THEN StorageGoesTo("saveMark", stChunk)
                           ELSE StorageGoesTo("load", None)
    /\ UNCHANGED <<chunkVars, disk, loadQueue, saveQueue, stSnapshot, genQueue,
                   generatorVars, dataVars, boundVars, doubtVars, stage>>

MarkChunkSaving ==
    /\ stPc = "saveMark"
    /\ saving' = [saving EXCEPT ![stChunk] = @ \/ IsValid(stChunk)]
    /\ StorageGoesTo("saveSnapshot", stChunk)
    /\ UNCHANGED <<presence, dirty, holderVars, mem, disk, loadQueue, saveQueue,
                   stSnapshot, genQueue, generatorVars, dataVars, boundVars, doubtVars,
                   stage>>

\* NBTChunkSerializer::Serialize: GetChunkData refuses when the chunk is not valid,
\* and nothing but an assertion looks at its answer.
SaveSnapshot ==
    /\ stPc = "saveSnapshot"
    /\ stSnapshot' = IF IsValid(stChunk) THEN mem[stChunk]
                     ELSE [blocks |-> Sectionless, mobs |-> {}]
    /\ StorageGoesTo("saveWrite", stChunk)
    /\ UNCHANGED <<chunkVars, disk, loadQueue, saveQueue, genQueue, generatorVars,
                   dataVars, boundVars, doubtVars, stage>>

\* cWSSAnvil::SetChunkData, without m_CSChunks.
SaveWrite(c) ==
    /\ stPc = "saveWrite" /\ stChunk = c
    /\ disk' = [disk EXCEPT ![c] = stSnapshot]
    /\ StorageGoesTo("saveDone", c)
    /\ stSnapshot' = Nothing
    /\ UNCHANGED <<chunkVars, loadQueue, saveQueue, genQueue, generatorVars, dataVars,
                   boundVars, doubtVars, stage>>

\* A write that fails leaves the file as it was or, where the chunk kept its place in the
\* file, spoiled: it cannot be loaded any more.  MarkChunkSaved is not called.
SaveWriteFails ==
    /\ stPc = "saveWrite"
    /\ \/ UNCHANGED disk
       \/ disk' = [disk EXCEPT ![stChunk] = Nothing]
    /\ StorageGoesTo("load", None)
    /\ stSnapshot' = Nothing
    /\ UNCHANGED <<chunkVars, loadQueue, saveQueue, genQueue, generatorVars,
                   dataVars, boundVars, doubtVars, stage>>

MarkChunkSaved ==
    /\ stPc = "saveDone"
    /\ dirty' = [dirty EXCEPT ![stChunk] = @ /\ ~BecomesClean(stChunk)]
    /\ StorageGoesTo("load", None)
    /\ UNCHANGED <<presence, saving, holderVars, mem, disk, loadQueue, saveQueue,
                   stSnapshot, genQueue, generatorVars, dataVars, boundVars, doubtVars,
                   stage>>

-----------------------------------------------------------------------------
(* cChunkGeneratorThread::Execute *)

\* Mutant: the generator keeps the item it worked on.
GeneratorRestsUncleared == gnPc' = "idle" /\ UNCHANGED <<gnItem, gnSkip>>

GeneratorRests == gnPc' = "idle" /\ gnItem' = NoJob /\ gnSkip' = FALSE

GenDequeue ==
    /\ gnPc = "idle"
    /\ genQueue # << >>
    /\ gnItem' = Head(genQueue)
    /\ gnSkip' = Overloaded
    /\ genQueue' = Tail(genQueue)
    /\ gnPc' = "checkValid"
    /\ stage' = [stage EXCEPT ![Head(genQueue).coords] = "generating"]
    /\ UNCHANGED <<chunkVars, disk, loadQueue, storageVars, dataVars, boundVars, doubtVars>>

GenCheckValid ==
    /\ gnPc = "checkValid"
    /\ \/ /\ ~gnItem.force /\ IsValid(gnItem.coords)
          /\ GeneratorRests
       \/ /\ gnItem.force \/ ~IsValid(gnItem.coords)
          /\ gnPc' = IF gnSkip THEN "checkClients" ELSE "generate"
          /\ UNCHANGED <<gnItem, gnSkip>>
    /\ UNCHANGED <<chunkVars, disk, loadQueue, storageVars, genQueue, dataVars,
                   boundVars, doubtVars, stage>>

\* The generator is overloaded: a chunk no client wants is dropped.
GenCheckClients ==
    /\ gnPc = "checkClients"
    /\ \/ /\ HasAnyClients(gnItem.coords)
          /\ gnPc' = "generate"
          /\ UNCHANGED <<gnItem, gnSkip, stage>>
       \/ /\ ~HasAnyClients(gnItem.coords)
          /\ GeneratorRests
          /\ stage' = [stage EXCEPT ![gnItem.coords] = "skipped"]
    /\ UNCHANGED <<chunkVars, disk, loadQueue, storageVars, genQueue, dataVars,
                   boundVars, doubtVars>>

DoGenerate ==
    /\ gnPc = "generate"
    /\ QueueSetChunkData(gnItem.coords, [blocks |-> Generated, mobs |-> {}])
    /\ GeneratorRests
    /\ UNCHANGED <<chunkVars, disk, loadQueue, storageVars, genQueue, setDataBatch,
                   boundVars, doubtVars>>

-----------------------------------------------------------------------------
ClientSteps ==
    \E c \in Coords :
        \/ \E k \in Clients : AddChunkClient(c, k) \/ RemoveChunkClient(c, k)
        \/ GenerateChunk(c)
        \/ \E on \in BOOLEAN : SetChunkAlwaysTicked(c, on)

EntitySteps ==
    \E c \in Coords :
        \/ \E m \in Mobs : AddEntity(c, m) \/ RemoveEntity(c, m)
        \/ \E p \in Players : AddPlayer(c, p) \/ RemovePlayer(c, p)

BlockSteps == \E c \in Coords : FastSetBlock(c) \/ ReplaceLiquid(c) \/ TickBlockEntities(c)

DataSteps == TakeChunkDataSets \/ SetChunkData

RegenSteps == (\E c \in Coords : MarkChunkRegenerating(c)) \/ QueueRegeneration

LoadSteps == LoadDequeue \/ LoadNothing \/ LoadChunk \/ LoadMisses \/ ChunkLoadFailed

SaveSteps == \/ SaveDequeue \/ SaveNothing \/ SaveCheckValid \/ MarkChunkSaving
             \/ SaveSnapshot \/ (\E c \in Coords : SaveWrite(c)) \/ SaveWriteFails
             \/ MarkChunkSaved

StorageSteps == LoadSteps \/ SaveSteps

GeneratorSteps == GenDequeue \/ GenCheckValid \/ GenCheckClients \/ DoGenerate

Next ==
    \/ ClientSteps
    \/ \E k \in Clients : RemoveClientFromChunks(k)
    \/ EntitySteps
    \/ BlockSteps
    \/ DataSteps
    \/ UnloadUnusedChunks
    \/ SaveAllChunks
    \/ RegenSteps
    \/ StorageSteps
    \/ GeneratorSteps

Spec == Init /\ [][Next]_vars

\* Each thread keeps running, and every tick reaches the unload / save section
\* (World.cpp:1117); a write that is tried again and again succeeds once.
Fairness ==
    /\ WF_vars(StorageSteps)
    /\ WF_vars(GeneratorSteps)
    /\ WF_vars(DataSteps)
    /\ SF_vars(SaveAllChunks)
    /\ \A c \in Coords : SF_vars(SaveWrite(c))

FairSpec == Spec /\ Fairness

-----------------------------------------------------------------------------
(* Properties *)

ChunkTypes ==
    /\ presence \in [Coords -> Presence]
    /\ dirty \in [Coords -> BOOLEAN] /\ saving \in [Coords -> BOOLEAN]
    /\ mem \in [Coords -> Content] /\ disk \in [Coords -> Content]
    /\ stage \in [Coords -> Stage]

HolderTypes ==
    /\ clients \in [Coords -> SUBSET Clients]
    /\ stays \in [Coords -> Nat]
    /\ players \in [Coords -> SUBSET Players]

StorageTypes ==
    /\ loadQueue \in Seq(Coords) /\ saveQueue \in Seq(Coords)
    /\ stPc \in StorePc /\ stSnapshot \in Content
    /\ stChunk \in IF stPc \in {"load", "save"} THEN {None} ELSE Coords

GeneratorTypes ==
    /\ genQueue \in Seq(Job)
    /\ gnPc \in GenPc /\ gnSkip \in BOOLEAN
    /\ gnItem \in IF gnPc = "idle" THEN {NoJob} ELSE Job

DataTypes == setDataQueue \in Seq(Data) /\ setDataBatch \in Seq(Data)

CallTypes ==
    /\ regenCall \in Coords \cup {None} /\ regenerated \subseteq Coords
    /\ overlapped \subseteq Coords /\ missed \subseteq Coords
    /\ edits \in Nat /\ regens \in Nat

TypeOK ==
    /\ ChunkTypes /\ HolderTypes /\ StorageTypes /\ GeneratorTypes /\ DataTypes
    /\ CallTypes

\* The places where work on c is waiting or being done.
Jobs(c) ==
       {<<"load", i>>     : i \in {n \in DOMAIN loadQueue : loadQueue[n] = c}}
  \cup {<<"generate", i>> : i \in {n \in DOMAIN genQueue : genQueue[n].coords = c}}
  \cup {<<"data", i>>     : i \in {n \in DOMAIN setDataQueue : setDataQueue[n].coords = c}}
  \cup {<<"batch", i>>    : i \in {n \in DOMAIN setDataBatch : setDataBatch[n].coords = c}}
  \cup {<<p, 0>> : p \in {q \in {"loading"} : stPc \in {"loading", "loadFailed"} /\ stChunk = c}}
  \cup {<<p, 0>> : p \in {q \in {"generating"} : gnItem.coords = c}}

\* A chunk is worked on at most once at a time, and only while it is queued: what
\* CanUnload's last line and the assertions of SetChunkData, ChunkLoadFailed and
\* MarkLoadFailed rely on ("otherwise multi-load / multi-gen could occur").
OneJobPerQueuedChunk ==
    \A c \in Coords \ regenerated :
        /\ Jobs(c) # {} => IsQueued(c)
        /\ \A j1, j2 \in Jobs(c) : j1 = j2

\* A queued chunk is being worked on, unless an overloaded generator dropped it: the
\* client that waits for it will get it.  (GetChunk queues a chunk once and never again.)
QueuedHasJobUnlessSkipped ==
    \A c \in Coords : IsQueued(c) => Jobs(c) # {} \/ regenCall = c \/ stage[c] = "skipped"

\* Chunk.h:43 without the exception: cpQueued means queued for loading or generation.
QueuedHasJob == \A c \in Coords : IsQueued(c) => Jobs(c) # {} \/ regenCall = c

\* The chunks that what is promised of contents leaves out.
Doubted == regenerated \cup overlapped \cup missed

\* A chunk that is not dirty equals its file, so that unloading it loses nothing
\* (CanUnload, MarkSaved); unless it was regenerated, was queued for saving again before
\* it was saved, or a block entity or a liquid changed it and no flag said so.
CleanIsSavedUnlessDoubted ==
    \A c \in Coords \ Doubted : IsValid(c) /\ ~dirty[c] => mem[c] = disk[c]

\* Chunk.h:440, "True if the chunk has changed since it was last saved".
CleanIsSaved == \A c \in Coords : IsValid(c) /\ ~dirty[c] => mem[c] = disk[c]

\* NBTChunkSerializer.cpp:1287: "Chunk must be present in order to save".  It is, unless
\* it was regenerated, or the save of an earlier round had made it clean before.
SavesPresentUnlessOverlapped ==
    stPc = "saveWrite" /\ stChunk \notin regenerated \cup overlapped =>
        stSnapshot.blocks # Sectionless

\* ChunkMap.cpp:224: "Chunk cannot have unloaded since it is marked as queued".
DataFindsChunk == \A i \in DOMAIN setDataBatch : Exists(setDataBatch[i].coords)

\* The content of a chunk, wherever it is: in memory once it is valid; before that in
\* its file, with the mobs that were put into the chunk meanwhile.
ContentOf(c) ==
    IF IsValid(c) THEN mem[c]
    ELSE [blocks |-> disk[c].blocks, mobs |-> disk[c].mobs \cup mem[c].mobs]

\* Loading, saving, unloading, in whatever order, never change what the world contains:
\* no edit is lost, no chunk is generated twice, no mob disappears or is doubled.
World == INSTANCE WorldContents WITH world   <- [c \in Coords |-> ContentOf(c)],
                                     doubted <- Doubted
WorldPromise == World!Spec

\* Whoever waits for a queued chunk gets it (no regeneration, no overload).
QueuedGetsLoaded == \A c \in Coords : IsQueued(c) ~> IsValid(c)

\* Once the changes stop, a dirty chunk is written and becomes clean: the flag is not
\* lost among the save queue, the edits during a write and the failed writes.
DirtyGetsSaved == \A c \in Coords : (IsValid(c) /\ dirty[c]) ~> ~dirty[c]
=============================================================================
