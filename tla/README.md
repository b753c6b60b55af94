# TLA+ models of the Cuberite server

Cuberite is a Minecraft server in C++. This directory holds models of the parts of it where
threads meet, and of the files that must survive them: how a chunk of the world is loaded or
generated, changed, saved and unloaded; how it reaches the players; where it lies in its file;
how players log in, change worlds and leave; how their packets go out; and how a world is
stopped. The modules are translated from `src/src/`; the table `map` in `PROJECT.json` names,
for every definition, the lines it stands for.

## 1. The system

A *world* (`cWorld`) is a map of *chunks* (16 x 16 columns of blocks). It has a tick thread,
which runs the game 20 times a second, and four helper threads. They share the chunk map under
one recursive lock, `cChunkMap::m_CSChunks`, and hand each other work through queues, each
with a lock of its own. No thread holds `m_CSChunks` across a whole job: a job is a chain of
critical sections, and between two of them anything may happen. That is where the hard
behaviours are.

```
  clients, plugins --GetChunk--> load queue --> storage thread --found--> SetChunkData queue
        |                                        |   |                        ^     |
        |                           region files-+   +--not found--> generator+     v
        |                                            ^                         tick thread:
        |                             save queue ----+                   chunk is present
        v                                 ^                                    |
  m_LoadedChunks, m_ChunksToSend          +------------ SaveAllChunks ---------+
        |                                                                      |
        +------> chunk sender thread <---- announces a chunk that arrived -----+
                   |         ^
                   v         +---- lighting thread (a chunk must be lit first)
                 client <--- link <--- network thread
```

Around the worlds there is one *server* (`cServer`), whose thread ticks the clients that are in
no world yet, a network thread (libevent's loop), which accepts, reads, writes and closes, and an
authenticator. A client goes from one to the next:

```
  network thread      authenticator        server thread              world's tick thread
  accepted ---------> account checked ---> login finished ----------> ticked, sends packets,
     |                (AuthenticateUser)   (FinishAuthenticate)       moves to other worlds
     +---- closes the connection at any moment: Destroy -----------------> leaves the world
```

| Component | State it keeps | Operations | Talks to | Correct when |
|---|---|---|---|---|
| Chunk map, chunk (`ChunkMap`, `Chunk`) | `m_Chunks`; per chunk `m_Presence`, `m_IsDirty`, `m_IsSaving`, `m_LoadedByClient`, always-ticked and stay counts, blocks, entities, `m_PendingSendBlocks` | get, set data, mark saving / saved / dirty / load failed / regenerating, add and remove client, entity, player, set block, unload, save all | everyone; under `m_CSChunks` | work on a chunk is unique and not forgotten; what is unloaded is in its file |
| World storage (`WorldStorage`) | load queue, save queue | load one chunk, save one chunk, alternately; drain at shutdown | chunk map, schema, generator | every queued chunk is answered; a save writes the chunk as it was at one moment; nothing is left at shutdown |
| Anvil schema and serializer (`WSSAnvil`, `NBTChunkSerializer`) | cache of region files; per file the sector table, in memory and on the disk, and its time stamps | open, read, snapshot, find a place, write, close | file system, chunk map | two chunks never share sectors; only the chunk being saved changes; a crash costs one save at most; a failure that is noticed costs no other chunk |
| Generator thread (`ChunkGeneratorThread`) | queue of (chunk, force, callback) | queue, skip when valid or overloaded, generate | chunk map, world | generates once, forgets nothing |
| Tick thread (`World`) | queue of chunk data, tasks, entities to add, players, time, weather | apply data, tick chunks, unload, save, stream to players, broadcast, run tasks | all of them | its sections come round for ever |
| Chunk sender (`ChunkSender`) | queue by priority, map chunk to clients | queue, send one chunk | client, chunk map, lighting | every wanted chunk is sent some time |
| Client's lists (`ClientHandle`) | `m_LoadedChunks`, `m_ChunksToSend`, `m_SentChunks`, `m_CachedSentChunk`, the mark where the last walk ended | walk the view and stream, unload out of range, send data, send changes | chunk map, sender | lists agree with the chunks' lists of clients; the client shows the world's blocks; a player has his own chunk |
| Lighting and chunk stays (`LightingThread`, `ChunkStay`) | pending and ready queues of stays, the chunk being lit | queue a chunk with its neighbours, light it, call back; stop | chunk map, sender | a stay keeps its chunks; no deadlock at stop |
| Threads, events, queues (`OSSupport`) | flags, condition variables | start, stop, set, wait | all threads | nobody sleeps with work waiting; stopping ends |
| Client session, server (`ClientHandle`, `Server`, `Authenticator`) | session state, `m_Clients`, `m_ClientsToRemove`, `m_PlayerCount` | accept, authenticate, join, kick, destroy, from four kinds of threads | worlds, network | a client is never without a thread that ticks it; the count is the number of players |
| Moves between worlds (`Entity`, `Player`) | `m_World`, `IsTicking`, `m_WorldChangeInfo` | initialize, move, destroy | two worlds | a player is in one place; what is to remove him finds him |
| Outgoing packets (`Protocol`, `ClientHandle`) | `m_OutgoingData`, the encryptor, `m_HasSentDC` | compose, take away, encrypt, send, disconnect | link | the peer gets whole packets in order and can decrypt them |
| Link (`TCPLinkImpl`) | libevent's buffer, `m_ShouldShutdown` | send, shut down, call back | libevent | what was given to it is written before it is closed, and it is closed |
| Spawn preparation, deadlock detector | chunks in flight; last world ages | prepare n chunks, notify; compare | world, generator | prepares each chunk, ends; no false alarm |
| Windows, inventories, block entities | item grids, timers | move, distribute, cook, hop | tick thread only | items are neither lost nor doubled |
| Simulators, blocks, mobs, generators, plugins, web admin, scoreboards | game rules and tables | many | tick thread, Lua | see "not modelled" |

`PROJECT.json` lists these with their files and what is, or is not, modelled of each, and the
hazards: the lines where something can go wrong that a test would hardly reach, each with the
property that would catch it or the reason why none does.

## 2. The modules

| Module | What it is |
|---|---|
| `ChunkPipeline` | chunk map, storage thread, generator thread and tick thread: the life of a chunk |
| `WorldContents` | the abstract specification: what a world promises about its contents |
| `ChunkStreaming` | clients' lists, chunk sender, lighting thread: how a chunk reaches a player |
| `StreamOrder` | the walk of `StreamNextChunks` through the view: which chunks a client is given, and when that is said to be done |
| `RegionFile` | the region files: cache, sector table, saves write by write, failures and crashes |
| `ChunkStore` | the abstract specification: what a store of chunks promises to the storage thread |
| `PlayerWorlds` | connection, login, worlds and the end of each player, with the phases of a world's tick |
| `ClientLink` | outgoing packets: buffer, cipher, disconnecting, libevent's buffer and callback |
| `WorldStop` | the five threads of a world, their events and queues, two locks, and `cWorld::Stop` |
| `ChunkPipelineProofs` | types of `ChunkPipeline`, and that a chunk is worked on once at a time |
| `ChunkSavingProofs` | rounds of saving save chunks that are there; a clean chunk equals its file; `ChunkPipeline` implements `WorldContents` |
| `ChunkStreamingProofs` | all invariants of `ChunkStreaming`: types, lists, waiting chunks, what a client sees, light |
| `StreamOrderProofs` | the walk of `StreamOrder`: what it has streamed and what it may leave out |
| `RegionFileProofs` | the sector table of `RegionFile`, and that it implements `ChunkStore` |
| `PlayerWorldsProofs` | all invariants of `PlayerWorlds`, and the limit of players |
| `ClientLinkProofs` | order, encryption and completeness of what `ClientLink` sends |
| `WorldStopProofs` | no lost wake-up, and nothing unsaved, in `WorldStop` |
| `MC...` | one module for TLC beside each of the seven, with the definitions its configurations need |

The modules meet where one's assumption is another's property. `ChunkPipeline` treats a save as one
write that succeeds, fails, or fails and spoils the chunk: `ChunkStore` says just that of `RegionFile`,
as long as no failure goes unnoticed. `ChunkStreaming` has queued chunks arrive: `QueuedGetsLoaded` of
`ChunkPipeline`. `StreamOrder` treats the client's lists as one set: `ListsAgree` of `ChunkStreaming`.
`ClientLink` has the server's thread and one world's flush a client's output, one after the other except
in the tick of the hand-over: `HasOneTickerUnlessJoining` of `PlayerWorlds`. All of them take an event
for granted that wakes whoever waits: `NoLostWakeUp` of `WorldStop`.

**Grain.** An action is one critical section: all that the code does while it holds
`m_CSChunks`, one queue's lock, or a client's `m_CSChunkLists`; or one packet, or one write to a
file. Where a function takes a lock several times it is several actions, with a program counter.
For example `cWorldStorage::SaveOneChunk` is `SaveDequeue`, `SaveCheckValid`,
`MarkChunkSaving`, `SaveSnapshot`, `SaveWrite` or `SaveWriteFails`, and `MarkChunkSaved`.

**`ChunkPipeline`.** `presence[c]` is `m_Presence`, with `"absent"` where `m_Chunks`
has no entry; `dirty`, `saving`, `clients`, `stays`, `players` are the chunk's fields of those
names. `mem[c]` and `disk[c]` are the content in memory and in the region file: one version
number for blocks, block entities, biomes and light together, and the set of mobs. The three
smallest versions mean "no blocks", "the file of a chunk that was not there when it was
serialized" and "as generated". `loadQueue`, `saveQueue`, `genQueue`, `setDataQueue` are the
queues, `setDataBatch` what `TickQueuedChunkDataSets` has moved out of its queue and not yet
applied. `regenCall` is the caller of `RegenerateChunk` between its two statements; `stPc`, `gnPc`
and so on are program counters. Three histories record what may put a chunk's content in doubt:
`regenerated`, the chunks that were; `overlapped`, those that a round of `SaveAllChunks` queued while a
save of theirs was pending (`SavePending`); `missed`, those that a liquid or a ticking block entity changed
without the flags saying so. `Doubted` is all of them.

**`ChunkStreaming`.** `loaded`, `toSend`, `sent`, `cached` are the four members of
`cClientHandle`; `loadedBy` is `m_LoadedByClient`; `pending` says that `m_PendingSendBlocks`
holds the latest change; `sendInfo` is the sender's `m_ChunkInfo` (its priority queue is a set:
the order is left open); `lightPending` and `lightQueue` count the chunk stays in the lighting
thread's queues. `seen[k][c]` is what the game at the other end shows. A chunk here is absent,
queued or present; `ChunkPipeline` says when a queued one arrives.

**`StreamOrder`.** One action per tick and one for whatever the player does between two ticks. The walk
is a sequence of *legs*: with high priority the 7 x 7 chunks around each point ahead, with low priority
the squares around the player. A leg is a sequence of *stops*, a stop one chunk or the pair of the
expression `StreamIfUnloaded(a) || StreamIfUnloaded(b)`, which streams one of them at most. `Walks` and
`Leg` are the loops, as recursive functions, `Visit` is what they do at a stop. `loaded` stands for
`m_LoadedChunks` and `m_ChunksToSend`; `done` is the mark that ends the work (`m_LastStreamedChunkX`,
`Z`); `border` says whether the player stands where the unloading takes the next chunk for his; `since`
counts towards the next `UnloadOutOfRangeChunks`.

**`RegionFile`.** `files` is the cache, `opened` the files among them that are open, `table` their tables
in memory, `diskTable` and `sector` the files. A save is a variable, `op`, and a chain of steps:
open the file and find a place, write sector after sector, change the table in memory, write it.
Each write may fail, and the process may die before any of them (`Crash`). `heldBack` are the files
whose table is in the C library's buffer: it reaches the disk at the next seek or when the file is
closed (`Flush`), and is lost in a crash. A sector holds a part of the data of one save, so that what is
read (`GetChunkData`) can be recognized as one save's, or as none's.

The code does not look at the results of `Seek` before the data (`WSSAnvil.cpp:4356`), of `fclose`
(`File.cpp:110`) and of the write of the padding (`WSSAnvil.cpp:4380`), and it takes a table that it
cannot read for that of a new file and writes an empty one (`WSSAnvil.cpp:4201`). All four happen in the
model: a `Flush` may fail for any file; after a failed seek the data go to any sector (`op.pos`), even
over the table, which then counts as empty; `MaxSeek` is the last sector whose offset fits `Seek`'s
`int`; the last sector of the data may be garbage; and a file that is opened may be emptied. `lost` is
the history of the regions in which one of these has happened. Nothing is promised of them any more, but
all of the others.

**`PlayerWorlds`.** Each world goes through the phases of its tick (`"in"`: what the clients have sent;
`"clients"`; `"chunks"`: entities and players; `"tasks"`), one player at a time, while the other threads
do what they like. `queue` is `m_EntitiesToAdd`, `chunk` the players in the chunk map, `players` is
`m_Players`, `tasks` is `m_Tasks`: a player leaves a world only by a task. `clearing` is the player
whose `m_NewWorld` the thread is about to reset, outside the lock. `TickQueuedTasks` takes the tasks
that are there (`due` of them) and runs them in any order, because `std::partition` (`World.cpp:1398`)
keeps none. `asked`, `temp`, `clients`, `toRemove` and `count` are the server's. `joining` is the client
whose `FinishAuthenticate`, or `ServerTick`, is not over although its player is in a world: until
`HandedOver`, the thread that handed it over keeps `m_CSClients`, and in the second kind of login
handles what is left of the client's packets (`ServerTickOn`) beside the world's thread. `refused` has
the clients whose player a plugin would not let appear, so that `Initialize` freed him
(`Entity.cpp:113`, `ClientHandle.cpp:503`); `twice` those for whom two threads called `MoveToWorld` at
once.

**`ClientLink`.** `at[t]` says where each thread is: the server's and the world's, which tick the client,
the network loop, or one of the others, all of which may send a packet and disconnect the client.
`tickers` are those that are still to flush its output: the server's, then both in the tick in which the
server's hands the client over (`FinishAuthenticate`), then the world's. `flush[t]` is the local variable
of `ProcessProtocolOut`. A packet is two pieces, its length and its body. `cipher` counts what has been
encrypted, and a piece gets the next number: the peer can decrypt what comes in that order. `output` is
libevent's buffer, `drained` its callback that is due, `wire` what the socket has got.

**`WorldStop`.** `at[t]` is where each of the five threads is in its loop, `event` the events that are
set, `terminate` the flags `m_ShouldTerminate`, `stop` where `cWorld::Stop` is. Whoever puts something
into a queue, or sets a flag, sets the event in a step of its own; in between, `waking[a]` is the thread
that actor `a` is about to wake. `refused` has the chunks that the storage found not valid, or could not
save, after they were queued for the last time: nobody tries them again. The two locks that are taken
one under the other are variables, `chunksLock` and `lightLock`; `stays` says for each chunk whether its
stay is made, enabled, queued or being lit.

**History variables.** `stage[c]` (where the work on c is), `regenerated`, `overlapped` and `missed` (of
`ChunkPipeline`), both variables named `raced`, `refused` and `twice` (of `PlayerWorlds`), `met`,
`missed` and `queued` (of `ClientLink`), `reported` and `lost` (of `RegionFile`; the bound `MaxLost`
alone reads it) and `unwritten`, `refused` (of `WorldStop`) are written and never read by a guard. They
exist for properties and proofs.

**Abstractions to know about.**
- The tick thread runs `TickQueuedChunkDataSets` without a break, so its other steps wait until
  `setDataBatch` is empty; the order of its other sections within a tick is left open
  in `ChunkPipeline` and kept in `PlayerWorlds`.
- Plugins may refuse to unload any chunk: `UnloadUnusedChunks` unloads some set of unloadable
  chunks. `SaveAllChunks` visits the chunks in any order.
- Null pointers and failed `VERIFY`s stop the modelled server: `SetChunkData`, `ReadChunks`,
  `ChunkLoadFailed` are not enabled there; `aborted` in `PlayerWorlds` and `broken` in `WorldStop` end
  everything. Release builds are modelled: an `ASSERT` does nothing.
- `ChunkStreaming` regenerates present chunks only. Light is valid or not, its values are not
  modelled; a chunk stay's nine chunks are the lit one in `ChunkStreaming`, and one state (there or not)
  in `WorldStop`.
- A region file's tables begin empty and are written by this code only; files damaged from outside are
  not modelled. A table reaches the disk as a whole or not at all: how a table written in part reads is
  left out. Time stamps in the header are not kept: nothing reads them back.
- All players of a world of `PlayerWorlds` are in one chunk, the one they appear in.
- Where a plugin has refused a player, `FinishAuthenticate` goes on with a freed object. Only the outcome in
  which the process lives is followed. In the same way, two threads that call `MoveToWorld` at once race for
  `m_NewWorld`; either both queue a task or one does.
- The test and use of the shared pointer `m_Link` is one step (`CaptureLink`), as if it were locked.

## 3. What is checked

Hazards come first; each property below takes several steps, mostly of several threads, to violate.

`ChunkPipeline`
- `OneJobPerQueuedChunk`: a chunk is in at most one queue or thread, and is `cpQueued` while it
  is. `CanUnload`'s last line and four assertions rely on it.
- `QueuedHasJobUnlessSkipped`: the other direction. Nobody queues a chunk that is
  `cpQueued` already, so one that no queue holds is lost. Left out are the chunks that an overloaded
  generator has dropped.
- `CleanIsSaved`, `CleanIsSavedUnlessDoubted`: a valid chunk that is not dirty equals its file, so
  that unloading loses nothing. The second leaves out the chunks where the code has a known hole: those
  regenerated, queued for saving a second time before the first save was over, or changed unnoticed.
- `SavesPresentUnlessOverlapped`: the storage thread never serializes a chunk that is not there, which is what
  the comment in `SaveOneChunk` wants its check for; unless the chunk was queued twice or regenerated.
- `WorldPromise`: the refinement. `world[c]` is the content of `c` wherever it is kept (memory,
  or file plus the mobs put into the chunk before it was loaded). Loading, saving, failed saves
  and unloading must be stuttering steps of `WorldContents`: no change is lost or undone, no
  chunk is generated twice, no mob vanishes or doubles. Chunks in doubt change freely; no step of one
  chunk may put another in doubt, or change it.
- `QueuedGetsLoaded`, `DirtyGetsSaved`: liveness.

`ChunkStreaming`
- `WantedWillBeSent`: `SendChunk` gives up in five places; each leaves a wanted chunk to somebody
  who queues it again.
- `ListsAgree`: a client's list and the chunk's list of clients differ only inside the call that
  changes them.
- `ClientSeesBlocksUnlessRaced`: with nothing pending or on its way, a client
  that has a chunk shows its blocks. Left out are the pairs in `raced`: a change, a
  regeneration or an unload met a copy on its way.
- `LightReadsPresentUnlessRegenerated`: the `VERIFY` of the lighting thread.
- `LoadedGetsSent`: liveness.

`StreamOrder`
- `DoneMeansLoadedButOpposites`: when the walk says that it is done, fewer chunks than one tick streams
  are missing, and each lies opposite to one that the client has, in the half that is tried second
  (or at the edge that the unloading has taken). `DoneMeansLoaded` says that none is.
- `OwnChunkGiven`: after each tick the player has, or is being given, the chunk he stands in, wherever
  he has come from and looks.
- `StandingIsDone`: liveness; the unloading and the walk do not chase each other for ever.

`RegionFile`
- `SectorsDisjointUnlessLost`: no two chunks of a region share a sector, neither by the table in memory
  nor by the one a restart would read.
- `WritesOwnSectorsUnlessLost`: a save writes neither into the table nor into a sector of another chunk, so
  that one broken off hurts its own chunk only.
- `OnlyLastSaveHeldBackUnlessLost`: a crash takes back one reported save of each region at most.
- `StorePromiseUnlessLost`: the refinement of `ChunkStore`. What loading gives, now and after a crash,
  changes only for the chunk being saved, between the begin and the end of its save; what was reported
  as saved is what loading gives; opening, closing and the failures of one chunk leave the others alone.
  Chunks are lost only with their region.

  All four leave out the regions in which a failure went unnoticed, `lost`.

`PlayerWorlds`
- `InOnePlace`: a player is in one world at most, in its queue or its chunks, the one `m_World` names;
  `m_Players` agrees with the chunks.
- `HasOneTickerUnlessJoining`: a connected client is never without a thread that ticks it, and the
  server's begins no tick of one that is in a world. The tick in which it was handed over may still go on
  beside the world's: `OneTickerAtATime`, which says that there is one at a time, is refuted. Clients
  whose player a plugin refused are ticked by nobody.
- `OneWarpInFlightUnlessRaced`: one task or one unfinished move of a player at most, and in the world he is
  in, however tasks are reordered.
- `CountIsPlayersUnlessRaced`, `NoJoinWhenFullUnlessRaced`: `m_PlayerCount` is the number of players in the
  worlds, and of those that a plugin refused, who count for ever; nobody whose protocol joins at once joins a
  full server.
- `DestroyFindsPlayerUnlessRaced`: the `VERIFY` in the task of `cEntity::Destroy`, and that no task finds
  `m_NewWorld` null.
- `TickedLeavesUnlessRaced`: liveness; the player of a client that is gone leaves the world.

  The exception in the last five are clients that are destroyed while their player is on his way to
  another world (`raced`), and, for moves and the `VERIFY`, players moved by two threads at once (`twice`).
  There the code fails: see the hazards at `Entity.cpp:264`, `Player.cpp:3115` and `Entity.cpp:1687`.

`ClientLink`
- `WireInOrderUnlessMet`, `WireDecryptsUnlessMet`: the socket gets what was queued, in that order, and
  encrypted in that order, whichever threads queue, flush and disconnect.
- `PacketsAreWhole`: packets of several threads do not mix, and a disconnecting thread cuts none short.
- `AllWrittenBeforeFinUnlessMet`: the socket is shut down only when all that was given to it is written.
- `KickedIsToldUnlessMet`, `DestroyedIsShutUnlessMissed`: liveness; a kicked player gets the packet that
  says why, and his link is shut down.

  `met` is the case that `Destroy`, or the other ticking thread, begins to flush while a ticking thread
  holds data it has taken away and not sent yet; `missed`, that the buffer ran empty while `Shutdown`
  was looking at it. All of these happen.

`WorldStop`
- `NoLostWakeUp`: nobody waits for an event that nobody has set or is about to set, with work, or the
  request to end, there; for the storage, work is something in either of its queues.
- `SavesAreWrittenUnlessRefused`: when the world has stopped, every chunk that was queued for saving is
  written, or was refused (`WorldStorage.cpp:258-264`: not valid any more, or `SaveChunk` failed).
- `StopEndsUnlessMet`, `SendIsTaken`: liveness, except where `cLightingThread::Stop` meets the chunk sender
  enabling a stay: the two locks crossed, or the stay disabled before it was enabled.

### Runs that pass

| Run | Instance | Shows |
|---|---|---|
| `pipeline_one_chunk` | 1 chunk with a ticking block entity and a liquid, client, player, mob, an always-ticked hold, 2 edits, 1 regeneration, save queue of 2, generator overloaded at once | all that can hold, change, save or regenerate one chunk, at any moment: it is not worked on twice, nor forgotten, nor saved while absent, nor falsely clean |
| `pipeline_promise` | 2 chunks, one with a liquid, 1 mob, 1 edit, no overload, no regeneration; with fairness | refinement of `WorldContents`, both liveness properties |
| `streaming` | 1 client, 2 chunks of which it sees one, 1 move, 1 block change or regeneration | the walk from chunk to chunk against sender, lighting thread and a change |
| `streaming_two_players` | 2 clients in 1 chunk, 1 change or regeneration; with fairness | two clients in the same queue entries; each gets the chunk |
| `stream_order` | view distances 2 and 4, 3 directions to look in, 1 move, turn, new view distance or change of world at any tick; 4 chunks per tick; with fairness | what a finished walk may have left out; the player's own chunk; standing still is enough |
| `region_file` | 2 chunks of one region, 1 of another that is only looked for, room for 1 open file, 3 saves of 1 to 3 sectors, of which 3 is too large, 5 sectors per file, the last of which `Seek` cannot reach, unnoticed failures in one region | the table under failures, noticed or not, crashes and reopening; refinement of `ChunkStore` |
| `player_worlds` | 2 clients, one of either kind of login, 2 worlds, 1 place, 1 call of `MoveToWorld` | the invariants of places, tickers, count and `VERIFY`, and the limit |
| `player_leaves` | 1 client that logs in in two stages, 2 worlds, 2 calls of `MoveToWorld`; with fairness | one move at a time; a player leaves when his client is gone |
| `world_stop` | 1 chunk, 2 requests of the tick thread; with fairness | wake-ups, the last saves, and the end of stopping |
| `client_link` | the server's thread, the world's and the network's, 2 packets; with fairness | the wire, the hand-over, kicking and shutting down |

**Why the bounds are enough.** The threads' protocol treats chunks independently except that they share
queues and the threads' local variables. `pipeline_promise` has two chunks for that, and `OneJob` is
proved for any number. `QUEUE_SKIP_LIMIT` is a constant (500 in the code): 0 overloads the generator as
soon as a chunk is queued, 2 never with two chunks. In `pipeline_one_chunk` two edits are one during a
save and one after it (or one of blocks and one of mobs); a third repeats the second, because versions
are compared for equality and for order only. `pipeline_promise` asks what threads that work for two
chunks do to the other one, for which one edit, in either, is enough; `KeepsWorldPromise` is proved for
any number. One regeneration can come before, during and after a load, a save or a send. `MaxSaveQueue =
2` lets a chunk be queued twice, the smallest number with which rounds overlap. `MaxStays = 1`: the
counter is only compared with zero. In `streaming`, one move makes a player leave a chunk and see
another. Changes and regenerations share one bound because each only makes a new version. No bound
restricts the queues otherwise. `Symmetry` permutes chunks and clients; `View` (each chunk sees itself)
is the same for all, and the run has invariants only, so the reduction is sound.

`stream_order`: view distance 4 is the smallest at which low-priority squares lie outside the 7 x 7
chunks of high priority, so that pairs of opposites matter; 2 is one that all squares lie within. The
start `<<-1, 0>>` has one negative coordinate and one that is not, the steps lead across both axes.
`UnloadTicks` is 100 in the code; 6 must do here because `UnloadTicks * MaxStreamed` has only to be more
than the chunks one unloading takes (with fewer, a walk would never end). `region_file`: a chunk can
grow out of its place, shrink in it, move behind another and be refused, which are all cases of
`FindFreeLocation`; with room for one file every change of region closes one; three saves are two of one
chunk with one of its neighbour before, between or after them. `MaxLost` is 1: one region may be lost,
the other shows that it stays untouched. `MaxSeek` is 2^19 - 1 in the code, and 5 here so that the last
sector is out of reach. `RegionFileProofs` proves the invariants for any sizes. `player_worlds`: two
clients are the smallest number that can exceed a limit of one, `CountRange` is larger than their number
so that the count wraps only below zero; one call of `MoveToWorld` is a move that a login, a
disconnection or another player may meet. `player_leaves` has two, which can fall into one tick, be made
by two threads, or the second between the first's move and its reset. All invariants of this module are
proved for any numbers. `world_stop`: one chunk, because threads meet over queues and not over chunks;
two requests let one come while the other is worked on. `client_link`: two packets, so that one may be
in a flush while the other is in `m_OutgoingData`, the buffer or the other flush. The network thread,
which may disconnect the client at any time, stands for the others that do, since only the first one
does anything; the theorems are for any others and any number of packets.

**Deadlock** is checked in all runs but three: `player_worlds` and `player_leaves` end where `VERIFY`
aborts the server, and `world_stop` ends when the world has stopped. There the liveness properties
say that nothing hangs.

### Fairness

`ChunkPipeline`: weak fairness of the storage thread, of the generator thread and of
`TickQueuedChunkDataSets`, which are loops that wait for nothing but work. Strong fairness of
`SaveAllChunks`: the tick thread comes to it every five minutes (`World.cpp:1117`), but in the
model it is disabled while the previous round is written, so weak fairness would not do. Strong
fairness of `SaveWrite(c)`: a write that is tried for ever succeeds some time; without it a disk
that always fails would be a counterexample to `DirtyGetsSaved`. Nothing is assumed of clients,
plugins, unloading and edits.

`ChunkStreaming`: weak fairness of the tick thread *inside* a call, of the arrival of queued
chunks (`QueuedGetsLoaded` is what justifies it), of the sender and of the lighting thread. That
the tick thread starts another call, or that anybody moves or changes blocks, is not assumed.

The others: weak fairness of whoever is scheduled. `StreamOrder`: the world ticks. `PlayerWorlds`: each
world's thread goes on; the server thread, the network and the authenticator are not needed. `ClientLink`:
a thread inside a call goes on with it, each thread that ticks the client comes round, the network thread
writes and calls back; that anybody sends or disconnects is not assumed. `WorldStop`: as
long as one of the five threads, or the one that stops the world, can go on, one does; since what the tick
thread asks for is bounded, each gets its turn. That stopping begins is not assumed.

### Runs that find a counterexample

Each checks what a comment of the repository says, and TLC shows an order of steps in
which the code does otherwise; `findings` in `PROJECT.json` quotes the lines.

| Run | In short |
|---|---|
| `found_clean_unsaved` | a block entity's change during a save sets `m_IsDirty` but does not cancel the save; `MarkSaved` then clears it |
| `found_done_unloaded` | for a player in the last block of a chunk of negative coordinates, `UnloadOutOfRangeChunks` measures from the next chunk and takes the farthest ones; `StreamNextChunks`, which is done, does not give them back |

### Properties that fail and have no run

These definitions are in the modules; put into a configuration, TLC refutes each. They are the
exceptions that the names with `Unless` leave out.

| Definition | How it fails |
|---|---|
| `SavesPresentUnlessOverlapped`, without `overlapped` | a chunk saved twice is unloaded between the check and the snapshot of the second save; a chunk without blocks is written over it |
| `CleanIsSavedUnlessDoubted`, without `overlapped` | the second write of a chunk that is clean after the first one spoils the file |
| `QueuedHasJob`, with `SkipLimit = 1` | an overloaded generator drops a chunk and leaves it `cpQueued` for ever |
| `DataFindsChunk` | a chunk regenerated while it is loaded gets its data twice and may be gone when the second set comes |
| `ClientSeesBlocks` | a block that changes between the sender's copy and `m_SentChunks` stays old at the client |
| `CachedIsSent` | `m_CachedSentChunk` survives the unloading of its chunk at the client (two moves) |
| `LightReadsPresent` | a chunk waiting to be lit is regenerated; the `VERIFY` stops the server |
| `DoneMeansLoaded`, with view distance 4 | of a pair of opposites only one is streamed per walk, and the walk says that it is done |
| `OneTickerAtATime` | `ClientHandle.cpp:499` says of the client in a world that "it will be ticked from its cPlayer object from now on"; the server's thread, which has come there from `ServerTick`, goes on with the same client's packets beside the world's |
| `DestroyFindsPlayer` | a client is destroyed in the tick in which its player moves: the task that removes him runs in the world he has left, and `VERIFY` stops the server |
| `LimitKept` | clients of 1.20.2 pass the check of the limit before they are counted |
| `WarpHasTask` | the task of a move does not find a player whose chunk is not loaded; `m_NewWorld` stays set, and he can never move again |
| `DestroyedLeaves` | a player whose chunk is not loaded when he disconnects is never ticked, and stays |
| `~LocksCrossed` | `cLightingThread::Stop` waits for the chunk map's lock with its own, `AddChunkStay` the other way round: the server hangs |
| `WireInOrderUnlessMet` and its companions, without `met` | the rest, or the other thread's flush, overtakes the data taken away before it |
| `WritesOwnSectorsUnlessLost` and its companions, without `lost` | a seek that fails leaves the file where it is, and the data are written over other chunks |
| `DestroyedIsShutUnlessMissed`, without `missed` | nobody shuts the link down |

## 4. What is proved

Thirty theorems: every invariant that a run checks, all action properties and both refinements. They hold
for all values of the constants that the named assumptions allow, which TLC evaluates in every run of
those modules: `CoordsAssumption`, `SubsetAssumption` and `BoundsAssumption` of `ChunkPipeline`;
`CoordsAssumption` and `BoundsAssumption` of `ChunkStreaming`; `StreamAssumption` (the first chunk that a
player looks at is his own, because `StreamNextChunks` begins with `Range` 0); `RegionAssumption` and
`BoundsAssumption` of `RegionFile`; `PlayersAssumption` (finitely many clients, fewer than `CountRange`);
`LinkAssumption`; `StopAssumption`. No theorem assumes more than these.
`ChunkSavingProofs` extends `ChunkPipelineProofs`; the others extend the module they are about.

| Theorem | Module | Property |
|---|---|---|
| `TypeCorrect` | `ChunkPipelineProofs` | `TypeOK` |
| `OneJob` | `ChunkPipelineProofs` | `OneJobPerQueuedChunk` |
| `QueuedIsWorkedOn` | `ChunkPipelineProofs` | `QueuedHasJobUnlessSkipped` |
| `SavesPresent` | `ChunkSavingProofs` | `SavesPresentUnlessOverlapped` |
| `CleanIsSavedCorrect` | `ChunkSavingProofs` | `CleanIsSavedUnlessDoubted` |
| `KeepsWorldPromise` | `ChunkSavingProofs` | `WorldPromise` |
| `TypeCorrect` | `ChunkStreamingProofs` | `TypeOK` |
| `ListsAlwaysAgree` | `ChunkStreamingProofs` | `ListsAgree` |
| `WantedAlwaysSent` | `ChunkStreamingProofs` | `WantedWillBeSent` |
| `SeenUnlessRaced` | `ChunkStreamingProofs` | `ClientSeesBlocksUnlessRaced` |
| `LightReadsUnlessRegenerated` | `ChunkStreamingProofs` | `LightReadsPresentUnlessRegenerated` |
| `DoneMeansLoadedAlmost` | `StreamOrderProofs` | `DoneMeansLoadedButOpposites` |
| `OwnChunk` | `StreamOrderProofs` | `OwnChunkGiven` |
| `NoSharedSectors` | `RegionFileProofs` | `SectorsDisjointUnlessLost` |
| `WritesOwn` | `RegionFileProofs` | `WritesOwnSectorsUnlessLost` |
| `OneSaveHeldBack` | `RegionFileProofs` | `OnlyLastSaveHeldBackUnlessLost` |
| `KeepsStorePromise` | `RegionFileProofs` | `StorePromiseUnlessLost` |
| `Types` | `PlayerWorldsProofs` | `TypeOK` |
| `OnePlace` | `PlayerWorldsProofs` | `InOnePlace` |
| `OneTicker` | `PlayerWorldsProofs` | `HasOneTickerUnlessJoining` |
| `OneWarp` | `PlayerWorldsProofs` | `OneWarpInFlightUnlessRaced` |
| `DestroyFindsPlayers` | `PlayerWorldsProofs` | `DestroyFindsPlayerUnlessRaced` |
| `CountRight` | `PlayerWorldsProofs` | `CountIsPlayersUnlessRaced` |
| `NobodyOverLimit` | `PlayerWorldsProofs` | `NoJoinWhenFullUnlessRaced` |
| `AllWrittenBeforeFin` | `ClientLinkProofs` | `AllWrittenBeforeFinUnlessMet` |
| `WireDecrypts` | `ClientLinkProofs` | `WireDecryptsUnlessMet` |
| `WireInOrder` | `ClientLinkProofs` | `WireInOrderUnlessMet` |
| `PacketsStayWhole` | `ClientLinkProofs` | `PacketsAreWhole` |
| `WakeUpsKept` | `WorldStopProofs` | `NoLostWakeUp` |
| `AllWritten` | `WorldStopProofs` | `SavesAreWrittenUnlessRefused` |

### `ChunkPipeline`

- `TypeCorrect`. `TypeOK` is inductive. It also says that a thread's local chunk is set exactly while the
  thread works on one, which the other proofs need.
- `OneJob`. The property is not inductive: to see that a chunk which enters a queue is in no other place,
  one must know where it was. The history variable `stage` names the one place; `StageInv` says, for
  every place, that what is in it has that place as its stage and is there once (`LoadsFollow`,
  `GensFollow`, `DataFollows`, `BatchFollows`, `LoadingFollows`, `GeneratingFollows`), that a chunk with
  such a stage is queued and no other is (`QueuedFollows`), and that a regeneration in progress is
  recorded (`CallFollows`). Two kinds of step remain. A *quiet* step moves nothing (`QuietStep`). Any
  other step moves one chunk from one stage to the next (`Moved`); the lemmas `MoveLoads`, `MoveGens`,
  `MoveData`, `MoveBatch`, `MoveThreads` and `MoveQueued` say once for each place what such a step does
  to it, and `StageStep` applies them action by action. `JobsAtStage` and `JobsUnique` derive the
  property. That a chunk not regenerated is never unloaded while it is worked on comes out of
  `CanUnload`'s test of `IsQueued`, used in the step of `UnloadUnusedChunks`.
- `QueuedIsWorkedOn`. Here the property is inductive (`NotForgotten`, with the places of `Jobs` as a
  predicate, `Worked`), and it holds for regenerated chunks too, which may be in several places at once.
  `AppendHolds` and `TailHolds` say what the ends of a queue do; `NotForgottenMove` reduces a step to the
  one chunk it moves. Only two steps end work without passing it on: `SetChunkData` and the check for
  valid chunks in the generator, when the chunk is not queued, and the skipping, which `stage` records.
- `SavesPresent`. Nothing in the storage thread keeps a chunk in memory between its check and its copy;
  only the dirty flag does, because `CanUnload` refuses a dirty chunk. `RoundInv` says that what waits in
  the save queue, or is being saved, is valid and dirty and is there once. Being there once is needed:
  `MarkChunkSaved` cleans a chunk, and a second entry for it would then be of a clean one. Rounds do
  overlap, so this is said per chunk (`Orderly`): a chunk that a round queues again while an earlier entry
  of it is not done becomes `overlapped` (`BeginRound`), a regenerated one is in `regenerated`, and for
  every other chunk the invariant goes on to hold in the same run. `WholeInv` carries the fact through
  every place a content can be in: memory, file, snapshot and the two queues of data.
- `CleanIsSavedCorrect`. The chunks it says nothing of are `Doubted`: the two kinds above, and those that
  a block entity or a liquid changed without a flag that says so (`missed`). A chunk never leaves that set
  (`DoubtGrows`). `SaveInv` adds to the property, for every other chunk (`Plain`), what each content on
  its way has to do with the file: queued data of a clean chunk are those of its file (`QueueSaved`,
  `BatchSaved`); what is being generated is dirty (`GeneratedDirty`); the snapshot is the chunk, unless
  the chunk has been marked dirty since and the save was cancelled (`SnapshotSaved`), and so is what was
  written (`WrittenSaved`); a chunk being written cannot have been unloaded and come back from the file in
  the meantime, since the thread that would load it is the one that writes (`WritingFollows`); mobs put
  into a chunk that is not loaded yet make it dirty (`MobsDirty`). `SnapshotSaved` is where `m_IsSaving`
  does its work. A write that fails leaves the file as it was or spoils it; the chunk is dirty then, which
  is `RoundInv` (`FailKeepsSaved`). Most actions are *calm* (`Calm`: no content, flag or data moves) or
  change one chunk's content and mark it (`Changed`); the others have a lemma of their own.
- `KeepsWorldPromise`. The refinement mapping is `ContentOf`, with `Doubted` for the chunks that
  `WorldContents` makes no promise about. Every action of the module, ticking block entities, liquids,
  regenerations and overlapping rounds included, is one action of `WorldContents` or leaves the promised
  contents alone: `EntityStep`, `BlockStep`, `DataStep`, `UnloadStep`, `FileStep`, and `WorldStep` for the
  rest. `Rests`, `Generates`, `Changes`, `Spawns` and `Removes` say once for each action of the abstract
  module what has to be shown: what happens to one chunk, and that the other promised ones stay
  (`OthersKept`). `DataStep` needs that data are the file's, or generated because there is no file
  (`OfFile`, `GeneratedNoFile`, `FailedInv`); otherwise a loaded chunk could overwrite a later file.
  `BlockStep` needs that versions only grow (`VersionsPast`), `EntityStep` that a mob waiting for its
  chunk is not in the file too (`MobsOnce`), `UnloadStep` is `SaveInv`, `FileStep` is `RoundInv`: a file
  is written only while its chunk is in memory, where its content does not matter. `WorldInv` collects
  these.

### `ChunkStreaming`

- `TypeCorrect`. `TypeOK` is inductive, and has a part for each actor (`ChunkTypes`, `ClientTypes`,
  `SenderTypes`, `LightTypes`, `TickTypes`, `HistoryTypes`). A local variable of a thread is set exactly
  at the places where the code uses it; every other proof begins with that.
- `ListsAlwaysAgree`. The property allows any difference in the chunk the tick thread is at. What is
  inductive says which: a listed chunk always has the client (`LoadedHeld`); one that has him and is not
  listed is about to be, or is among those that `UnloadOutOfRangeChunks` has taken off his list and still
  has to take him off (`HeldLoaded`, `RemovedUnlisted`, `ToListHeld`). Only the tick thread changes the
  two (`TickAlone`).
- `WantedAlwaysSent`. Two invariants: a chunk that has a client is there or queued (`HeldInv`), and a
  chunk that he waits for is in somebody's hands (`AwaitedInv`). The property counts the client whose
  turn it is in `SendChunk` among those the sender will come to; `Awaited` does not. The chunk has been
  taken off his list already: if it is put on the list again before his turn ends, the sender does not
  come back to him, and what sends it is the queue entry made with it, or the regeneration that made it
  wanted.
- `SeenUnlessRaced`. `ShowsInv` is the property without its escape for pending changes: what the client
  shows is the chunk as it is, or a change is pending, which will be broadcast to him. To keep it when
  the sender delivers, the copy on its way must be the chunk (`CopiedInv`, and `PacketInv` for the one
  just delivered); to keep it when he is asked, the clients in the sender's list must want the chunk
  still (`WantedInv`); to keep it when a chunk is unloaded from him, he must be off the chunk's list
  (`GoneInv`), which needs `AgreeInv`. Each step that changes a chunk while a copy is in flight is one
  that puts the pair into `raced`.
- `LightReadsUnlessRegenerated`. `LightInv` adds the stays waiting in the queue to the one being read:
  `CanUnload` refuses a chunk that a stay holds, so only a regeneration takes it away.

### `StreamOrder`

- The walk is a recursive function in a recursive function. That each has a solution, and what it
  computes, is proved by the least number at which it would fail (`Least`, from the library's theorem
  that the natural numbers are well-founded; `LegRuns`, `WalkGoes`, then `LegAt`, `WalkAt`).
- `At` is the loop invariant: the chunks streamed in this tick are counted (`Counted`), the player's own
  chunk came first, and each stop that was visited has its first chunk, and its second one too unless the
  first one was streamed just now (`Visited`). `ViewVisited` says that every chunk of the view is at a
  stop of a square. So a chunk left out is the opposite of one streamed in this walk; no two of them have
  the same opposite (`FewLeft`), which is why they are fewer than a tick streams.
- `DoneInv` carries that on. Unloading may round the player's position to the next chunk, so it takes
  chunks at the edge of the view (`Spared`), but no opposite that counts (`OppositeInView`); whatever
  else changes the view or the lists takes the mark away.
- `OwnChunk` needs `DoneInv` for the ticks in which no walk is made.

### `RegionFile`

- Everything is said of the regions in which no failure went unnoticed (`Sure`). A region gets into `lost`
  by the failures that the code takes no notice of: of the seek before the data, which also flushes the
  table held back, of a flush or a close, and of reading the table when a file is opened. It stays there
  (`LostGrows`). That these failures do no harm to any *other* region is a part of what is proved: the
  file of each region is its own, and `LostKeeps`, `WriteLost` and `TableLost` go through the steps of a
  save that is made in a lost one.
- `RegionInv` describes the place of each chunk of such a region by three things at once: the table in
  memory (`TableOf`), the table on the disk, and the data. `Layout` says of them that an entry covers at
  least what is read through it (`Entered`: the data's first sector says how long they are, not the
  table); that the runs of each table are apart; that the disk's entry of a chunk is where the chunk was
  before it moved to the end, or where it still is (`Behind`); and that what a stale entry of the disk
  reads is not in another chunk's place (`Clear`). The last two are what makes a crash harmless: a save
  must not write into sectors that only the old table gives to somebody. `OpInv` says that the save in
  progress has found such a place (`Room`), how far it got, and that its data go there and nowhere else
  (`OpStraight`), which is what the ignored result of the seek puts at risk.
- Three lemmas carry it: `FitWrite` (a sector written into the room), `FitEnter` (the entry changed in
  memory, and on the disk or not), `FitFind` (`FindFreeLocation` finds room). A failed write of the table
  leaves the entry changed in memory, so that the table on the disk may be behind for a chunk that was
  not reported saved; `ReportedOnDisk` and `OneBehind` say that of the chunks reported one at most is
  behind, and only while the table is held back, since each save begins with a seek.
- `KeepsStorePromise`: the steps of `RegionFile` are `Begin`, `Write`, `Succeed`, `Fail`, `Refuse`,
  `Rest` and `Crash` of `ChunkStore`, or stutters (`BeginStep`, `WriteStep`, `SucceedStep`, `DataFails`
  and `TableFails`, `RefuseStep`, `RestStep`, `CrashStep`). `Settling` is the common part: when tables
  reach the disk, each chunk reads as before, or as before a save that failed. `ReadSame`, `ReadOwn`,
  `ReadNew` and `Overwrite` say what `GetChunkData` gives after a sector has changed.

### `PlayerWorlds`

One inductive invariant, `PlayersInv`, for all six properties.

- `TaskInv`: a task that destroys a player is of a destroyed client (`Destroys`), one task or one
  unfinished move of a player exists at most (`OneWay`), and it knows where to (`HasDestination`).
  `MoveToWorld` queues a task only if `m_NewWorld` is not set; `HasDestination` is what turns that into
  `OneWay`, although the reset comes late. It is not so for a player whom two threads move at once, which
  they can only while both tick his client; he is in `twice`, for good (`TwiceStays`).
- `PlaceInv`: the places and tickers, with what makes them inductive: who is in a world, or was refused by
  it, has logged in (`Joined`); who is taken off the server thread is in a world or was refused
  (`Moved`), never both (`Apart`); nobody waits for his turn while tasks run (`Restful`). The server's
  thread goes on with a client that it has handed over; what is proved is that it begins no other
  tick of a client that is in a world, and that no client is left without a ticker. That one tick at a
  time is made of a client is not claimed: in the hand-over it is not so.
- `OrderInv`: a client who is destroyed while his player is on his way has raced (`Recorded`), so for the
  others a move finds the player in the world that it was queued in (`WarpsInside`), in whatever order
  the tasks of a tick run; that is `OneWarp`.
- `RaceInv`: who did not race is to be destroyed once, by the world he is in (`DestroyedOnce`):
  `DestroyFindsPlayers`.
- `CountRight` follows from `Populates`: unless somebody races, each step leaves the population (the
  players in the worlds, and those whose spawning was refused) and the count alone, or lets one join
  (`Joins`) or go (`Goes`). `NobodyOverLimit` needs `LetIn` too: only
  `AuthenticateUser`, which has looked at the count, lets such a player in.

### `ClientLink`

- `ThreadInv`: which thread holds which lock, by the place where it is (`LocksInv`); that the part of
  `Destroy` after the test of the state is done by one thread once (`OnceInv`); and that a thread that
  ticks the client has data in its hands exactly inside `ProcessProtocolOut` (`TickerInv`). Right after
  the login there are two such threads.
- `AllWrittenBeforeFin`: `MetInv` says that, without a meeting, two threads do not flush at once and
  `Destroy` holds the outgoing lock only while no flush has data in its hands, and `FinInv` that nothing
  can be given to the link after the rest has been sent.
- `WireDecrypts` and `WireInOrder` have one invariant, `OrderInv`: the socket, libevent's buffer, the
  data taken away by the one flush there is (`Flow`) and the data not yet taken are, one after the other,
  the pieces queued (`Follows`), and those that have been encrypted have consecutive keys, up to the state
  of the cipher (`Keyed`, `RestInv`). The sequence lemmas (`ConcatFollows`, `Split` and the like) are
  about the places of pieces; once the rest has been sent, only `WireInv` is left, which is enough because
  nothing is added any more.
- `PacketsStayWhole`: the number of pieces queued is odd exactly while somebody holds `m_CSPacket`
  (`WholeInv`), until the first Disconnect packet; it is complete when `m_HasSentDC` is set, so whatever
  that silences comes later.

### `WorldStop`

- `WakeUpsKept`: what a thread waits for is put into its queue first, and its event is set by a later
  step, under another lock or none. So the invariant speaks of a thread that is woken *or about to be*
  (`Woken`: the event is set, or somebody who has queued something has still to set it, `waking`). The
  types, with the place where each thread holds which lock (`TypeOK`), and one conjunct for each thread
  that waits (`LightWakes`, `GenWakes`, `SendWakes`, `StoreWakes`, and `StopWakes` for `BlockTillEmpty`)
  are inductive together. The storage has two queues, and looks at the one after the other: a chunk to
  load that comes after the look into its queue is found in the next round, or sets the event.
- `AllWritten`: a chunk not yet written is in the queue, in the storage thread's hands, or was refused:
  it was no longer valid, or its save failed (`UnwrittenFollows`). And when `cWorld::Stop` comes to the
  storage, the tick thread, the only one that queues chunks for saving, has ended (`StopFollows`).

Only model-checked: the liveness properties, for fairness and `ENABLED` are out of the prover's reach.
Neither checked nor proved: anything about the content of a chunk in `Doubted`, of a region in `lost`, or
of a client recorded as having raced or met. There the properties are not claimed; the table of
counterexamples shows what happens.

## 5. Not modelled, and why

- Generators, blocks, items, mobs, path finding, redstone and the other simulators: rules without a
  protocol or state shared between threads, much of it floating-point or random. The bulk of the source is
  here, and in the tables of block states and the palettes of the protocols.
- NBT and packet formats, compression, logging, configuration: data and I/O.
- Incoming packets: framing in `cByteBuffer`, sequential code with tests of its own, and the handlers, as far
  as they do not move or destroy the player.
- Lua: a plugin is a caller on any thread and a veto on unloading.
- Web admin, RCON, HTTP, scoreboards, maps, ranks, statistics: tables and wrappers around I/O.
- Windows, inventories, block entities: sequential code on the tick thread; how many items a click
  moves is arithmetic on stacks.
- The deadlock detector is about real time. Spawn preparation is one of the callers of `GenerateChunk`.
- Crashes of the server process outside the writing of region files: nothing else survives one.

## 6. Plan

Done: the life of a chunk, its way to the players, its file, the players' way through the worlds, their
packets, and the end of a world. Next, in this order:

1. Theorems across modules, where one's assumption is another's property: that the lists of
   `ChunkStreaming` make the one set of `StreamOrder`, and that the threads that flush in `ClientLink`
   are those that tick the client in `PlayerWorlds`, two of them only in the hand-over.
2. Composing `ChunkStreaming` with `ChunkPipeline`, for a chunk whose data come twice, and for a regeneration
   between the two halves of `UnloadOutOfRangeChunks`, which leaves a wanted chunk that is never streamed.
3. Incoming packets: the ring indices of `cByteBuffer` against a sequence of bytes; packets that are handled
   after a change of protocol state.
4. `SpawnPrepare`; windows and hoppers: items are conserved.
