--------------------------- MODULE ChunkStreaming ---------------------------
(***************************************************************************)
(* How the players' clients get the chunks around them: the tick thread    *)
(* decides who wants which chunk, the chunk sender's thread takes a copy   *)
(* of a chunk and sends it, the lighting thread lights a chunk first, and  *)
(* block changes follow from the tick thread.                              *)
(*                                                                         *)
(* An action is one critical section (cChunkMap::m_CSChunks, a client's    *)
(* m_CSChunkLists, cChunkSender::m_CS) or one packet.  The chunks come and *)
(* go as ChunkPipeline says; here it is enough that a queued one arrives.  *)
(***************************************************************************)
EXTENDS Naturals, FiniteSets

CONSTANTS
    Coords,             \* chunk coordinates
    Clients,            \* cClientHandle objects, each with its player
    View,               \* View[c]: the chunks in view of a player in chunk c
    None,
    MaxMoves,           \* bound: moves of players
    MaxChanges          \* bound: block changes and regenerations, together

ASSUME CoordsAssumption ==
    /\ IsFiniteSet(Coords) /\ Coords # {} /\ None \notin Coords \cup Clients \cup Nat
    /\ View \in [Coords -> SUBSET Coords] /\ \A c \in Coords : c \in View[c]
ASSUME BoundsAssumption == MaxMoves \in Nat /\ MaxChanges \in Nat

VARIABLES
    \* cChunk
    presence, lit, loadedBy, pending,
    blocks,             \* the version of the blocks
    \* cClientHandle: position of its player, and the three lists
    pos, loaded, toSend, sent,
    cached,             \* m_CachedSentChunk
    seen,               \* the game at the other end: version it shows, or None
    \* cChunkSender: m_ChunkInfo, and the thread in SendChunk
    sendInfo, sdPc, sdChunk, sdClients, sdData, sdClient,
    \* cLightingThread: m_PendingQueue and m_Queue (chunk stays per chunk), the thread
    lightPending, lightQueue, ltPc, ltChunk,
    \* the tick thread inside a call that takes several locks
    tkPc, tkClient, tkChunk, tkRemove,
    \* counters of the bounds
    moves, changes,
    \* history: <<k, c>> when c changed, or was unloaded by k, while a copy of it
    \* was on its way to k; the chunks ever regenerated
    raced, regenerated

chunkVars    == <<presence, lit, loadedBy, pending, blocks>>
listVars     == <<loaded, toSend, sent>>
playerVars   == <<pos, cached>>
senderVars   == <<sdPc, sdChunk, sdClients, sdData, sdClient>>
lightQueues  == <<lightPending, lightQueue>>
lightingVars == <<lightQueues, ltPc, ltChunk>>
tickVars     == <<tkPc, tkClient, tkChunk, tkRemove>>
boundVars    == <<moves, changes, regenerated>>

vars == <<chunkVars, listVars, playerVars, seen, sendInfo, senderVars, lightingVars,
          tickVars, boundVars, raced>>

SenderPc == {"idle", "ask", "hasClients", "isValid", "isLit", "getData", "next",
             "packet", "listed"}
TickPc   == {"idle", "list", "queue", "announce", "remove", "unsend", "unload"}

IsPresent(c) == presence[c] = "cpPresent"

\* The sender holds a copy of c that it will send, or is sending, to k.
InFlight(k, c) ==
    /\ sdPc \in {"next", "packet", "listed"}
    /\ sdChunk = c
    /\ k \in sdClients

-----------------------------------------------------------------------------
(* Parts of actions *)

\* Mutant: a client that asks for a chunk already queued is forgotten.
QueueSendChunkToFirst(c, ks) ==
    sendInfo' = [sendInfo EXCEPT ![c] = IF @ = {} THEN ks ELSE @]

QueueSendChunkTo(c, ks) == sendInfo' = [sendInfo EXCEPT ![c] = @ \cup ks]

\* Mutant: a client that has the chunk does not want it again.
AddWantedChunkUnlessSent(c, ks) ==
    toSend' = [k \in Clients |->
                  IF k \in ks /\ c \notin sent[k] THEN toSend[k] \cup {c} ELSE toSend[k]]

AddWantedChunk(c, ks) ==
    toSend' = [k \in Clients |-> IF k \in ks THEN toSend[k] \cup {c} ELSE toSend[k]]

TickGoesTo(pc, k, c, remove) ==
    tkPc' = pc /\ tkClient' = k /\ tkChunk' = c /\ tkRemove' = remove

TickEnds == TickGoesTo("idle", None, None, {})

SenderGoesTo(pc) == sdPc' = pc /\ UNCHANGED <<sdChunk, sdClients, sdData, sdClient>>

\* Mutant: the sender keeps the last chunk it sent.
SenderRestsUncleared ==
    sdPc' = "idle" /\ sdClients' = {} /\ sdClient' = None /\ UNCHANGED <<sdChunk, sdData>>

SenderRests ==
    /\ sdPc' = "idle" /\ sdChunk' = None /\ sdClients' = {} /\ sdData' = None
    /\ sdClient' = None

-----------------------------------------------------------------------------
Init ==
    /\ presence = [c \in Coords |-> "absent"]
    /\ lit      = [c \in Coords |-> FALSE]
    /\ loadedBy = [c \in Coords |-> {}]
    /\ pending  = [c \in Coords |-> FALSE]
    /\ blocks   = [c \in Coords |-> 0]
    /\ pos \in [Clients -> Coords]
    /\ loaded = [k \in Clients |-> {}] /\ toSend = [k \in Clients |-> {}]
    /\ sent   = [k \in Clients |-> {}]
    /\ cached = [k \in Clients |-> None]
    /\ seen   = [k \in Clients |-> [c \in Coords |-> None]]
    /\ sendInfo = [c \in Coords |-> {}]
    /\ sdPc = "idle" /\ sdChunk = None /\ sdClients = {} /\ sdData = None /\ sdClient = None
    /\ lightPending = [c \in Coords |-> 0] /\ lightQueue = [c \in Coords |-> 0]
    /\ ltPc = "idle" /\ ltChunk = None
    /\ tkPc = "idle" /\ tkClient = None /\ tkChunk = None /\ tkRemove = {}
    /\ moves = 0 /\ changes = 0
    /\ raced = {} /\ regenerated = {}

-----------------------------------------------------------------------------
(* The tick thread: players and their lists of chunks *)

MovePlayer(k, c) ==
    /\ tkPc = "idle"
    /\ moves < MaxMoves /\ c # pos[k]
    /\ moves' = moves + 1
    /\ pos' = [pos EXCEPT ![k] = c]
    /\ UNCHANGED <<chunkVars, listVars, cached, seen, sendInfo, senderVars,
                   lightingVars, tickVars, changes, regenerated, raced>>

\* cClientHandle::Tick: where the player stands on a sent chunk, remember it.  (A player
\* who does not is frozen; what that stops is not modelled.)
CheckPlayerChunk(k) ==
    /\ tkPc = "idle"
    /\ cached' = [cached EXCEPT ![k] = IF IsPresent(pos[k]) /\ pos[k] \in sent[k]
                                        THEN pos[k] ELSE @]
    /\ UNCHANGED <<chunkVars, listVars, pos, seen, sendInfo, senderVars, lightingVars,
                   tickVars, boundVars, raced>>

\* StreamNextChunks finds a chunk in view on neither list; StreamChunk adds the client to
\* it (which queues it for loading), the chunk to the lists, and queues it for sending.
AddChunkClient(k, c) ==
    /\ tkPc = "idle"
    /\ c \in View[pos[k]]
    /\ c \notin toSend[k] \cup loaded[k]
    /\ k \notin loadedBy[c]
    /\ loadedBy' = [loadedBy EXCEPT ![c] = @ \cup {k}]
    /\ presence' = IF IsPresent(c) THEN presence ELSE [presence EXCEPT ![c] = "cpQueued"]
    /\ TickGoesTo("list", k, c, {})
    /\ UNCHANGED <<lit, pending, blocks, listVars, playerVars, seen, sendInfo, senderVars,
                   lightingVars, boundVars, raced>>

ListChunk ==
    /\ tkPc = "list"
    /\ loaded' = [loaded EXCEPT ![tkClient] = @ \cup {tkChunk}]
    /\ toSend' = [toSend EXCEPT ![tkClient] = @ \cup {tkChunk}]
    /\ TickGoesTo("queue", tkClient, tkChunk, {})
    /\ UNCHANGED <<chunkVars, sent, playerVars, seen, sendInfo, senderVars, lightingVars,
                   boundVars, raced>>

SendChunkTo ==
    /\ tkPc = "queue"
    /\ QueueSendChunkTo(tkChunk, {tkClient})
    /\ TickEnds
    /\ UNCHANGED <<chunkVars, listVars, playerVars, seen, senderVars, lightingVars,
                   boundVars, raced>>

\* Mutant: a chunk still to be sent is taken to have no client yet.
OutOfRangeSent(k) == (loaded[k] \ View[pos[k]]) \ toSend[k]

OutOfRange(k) == loaded[k] \ View[pos[k]]

\* UnloadOutOfRangeChunks: the lists first, then chunk by chunk the chunk's client, the
\* list of sent chunks, and the packet.
ListOutOfRange(k) ==
    /\ tkPc = "idle"
    /\ (loaded[k] \cup toSend[k]) \ View[pos[k]] # {}
    /\ loaded' = [loaded EXCEPT ![k] = @ \cap View[pos[k]]]
    /\ toSend' = [toSend EXCEPT ![k] = @ \cap View[pos[k]]]
    /\ IF OutOfRange(k) = {} THEN TickEnds
       ELSE TickGoesTo("remove", k, None, OutOfRange(k))
    /\ UNCHANGED <<chunkVars, sent, playerVars, seen, sendInfo, senderVars, lightingVars,
                   boundVars, raced>>

RemoveChunkClient ==
    /\ tkPc = "remove"
    /\ \E c \in tkRemove :
          /\ loadedBy' = [loadedBy EXCEPT ![c] = @ \ {tkClient}]
          /\ TickGoesTo("unsend", tkClient, c, tkRemove \ {c})
    /\ UNCHANGED <<presence, lit, pending, blocks, listVars, playerVars, seen, sendInfo,
                   senderVars, lightingVars, boundVars, raced>>

UnlistSent ==
    /\ tkPc = "unsend"
    /\ sent' = [sent EXCEPT ![tkClient] = @ \ {tkChunk}]
    /\ TickGoesTo("unload", tkClient, tkChunk, tkRemove)
    /\ raced' = raced \cup {<<k, tkChunk>> : k \in {q \in {tkClient} : InFlight(q, tkChunk)}}
    /\ UNCHANGED <<chunkVars, loaded, toSend, playerVars, seen, sendInfo, senderVars,
                   lightingVars, boundVars>>

SendUnloadChunk ==
    /\ tkPc = "unload"
    /\ seen' = [seen EXCEPT ![tkClient] = [seen[tkClient] EXCEPT ![tkChunk] = None]]
    /\ IF tkRemove = {} THEN TickEnds ELSE TickGoesTo("remove", tkClient, None, tkRemove)
    /\ raced' = raced \cup {<<k, tkChunk>> : k \in {q \in {tkClient} : InFlight(q, tkChunk)}}
    /\ UNCHANGED <<chunkVars, listVars, playerVars, sendInfo, senderVars, lightingVars,
                   boundVars>>

-----------------------------------------------------------------------------
(* Chunks: data coming in, block changes, unloading, regeneration *)

\* cChunkMap::SetChunkData for a queued chunk.  The file may hold its light; a chunk
\* that is generated again has new blocks.
SetChunkData(c) ==
    /\ tkPc = "idle"
    /\ presence[c] = "cpQueued"
    /\ presence' = [presence EXCEPT ![c] = "cpPresent"]
    /\ \E valid \in BOOLEAN : lit' = [lit EXCEPT ![c] = valid]
    /\ pending' = [pending EXCEPT ![c] = FALSE]
    /\ TickGoesTo("announce", None, c, {})
    /\ UNCHANGED <<loadedBy, blocks, listVars, playerVars, seen, sendInfo, senderVars,
                   lightingVars, boundVars, raced>>

\* TickQueuedChunkDataSets: "If a client is requesting this chunk, send it to them".
\* DoWithChunk skips a chunk that is not valid.
AnnounceChunk ==
    /\ tkPc = "announce"
    /\ QueueSendChunkTo(tkChunk, IF IsPresent(tkChunk) THEN loadedBy[tkChunk] ELSE {})
    /\ TickEnds
    /\ UNCHANGED <<chunkVars, listVars, playerVars, seen, senderVars, lightingVars,
                   boundVars, raced>>

\* cChunk::FastSetBlock, on any thread.  Some changes need new light.
FastSetBlock(c) ==
    /\ IsPresent(c)
    /\ changes < MaxChanges
    /\ changes' = changes + 1
    /\ blocks' = [blocks EXCEPT ![c] = @ + 1]
    /\ pending' = [pending EXCEPT ![c] = TRUE]
    /\ \E valid \in {lit[c], FALSE} : lit' = [lit EXCEPT ![c] = valid]
    /\ raced' = raced \cup {<<k, c>> : k \in {q \in Clients : InFlight(q, c)}}
    /\ UNCHANGED <<presence, loadedBy, listVars, playerVars, seen, sendInfo, senderVars,
                   lightingVars, tickVars, moves, regenerated>>

\* Mutant: changes are held back until every client has the chunk.
BroadcastWhenAllSent(c) ==
    seen' = [k \in Clients |->
                IF k \in loadedBy[c] /\ (\A q \in loadedBy[c] : c \in sent[q])
                THEN [seen[k] EXCEPT ![c] = blocks[c]] ELSE seen[k]]

\* cClientHandle::SendBlockChanges: only to clients the chunk has been sent to.  (A client
\* that does not hold the chunk ignores the packet.)
SendBlockChanges(c) ==
    seen' = [k \in Clients |->
                IF k \in loadedBy[c] /\ c \in sent[k] /\ seen[k][c] # None
                THEN [seen[k] EXCEPT ![c] = blocks[c]] ELSE seen[k]]

\* The end of cChunkMap::Tick, under m_CSChunks.  The last pending change of a block holds
\* the block as it is now.
BroadcastPendingChanges(c) ==
    /\ tkPc = "idle"
    /\ pending[c]
    /\ SendBlockChanges(c)
    /\ pending' = [pending EXCEPT ![c] = FALSE]
    /\ UNCHANGED <<presence, lit, loadedBy, blocks, listVars, playerVars, sendInfo,
                   senderVars, lightingVars, tickVars, boundVars, raced>>

\* The same, when the pending changes are so many that the chunk is sent again.
ForceSendChunkTo(c) ==
    /\ tkPc = "idle"
    /\ pending[c]
    /\ AddWantedChunk(c, loadedBy[c])
    /\ QueueSendChunkTo(c, loadedBy[c])
    /\ pending' = [pending EXCEPT ![c] = FALSE]
    /\ UNCHANGED <<presence, lit, loadedBy, blocks, loaded, sent, playerVars, seen,
                   senderVars, lightingVars, tickVars, boundVars, raced>>

Stayed(c) == lightPending[c] > 0 \/ lightQueue[c] > 0 \/ ltChunk = c

\* Mutant: a chunk stay holds the chunk only until all its chunks are there.
UnloadableWhenReady(c) == IsPresent(c) /\ loadedBy[c] = {} /\ lightPending[c] = 0

\* No client and no chunk stay (the lighting thread's) holds the chunk; see ChunkPipeline
\* for the rest of CanUnload.
CanUnload(c) == IsPresent(c) /\ loadedBy[c] = {} /\ ~Stayed(c)

UnloadChunk(c) ==
    /\ tkPc = "idle"
    /\ CanUnload(c)
    /\ presence' = [presence EXCEPT ![c] = "absent"]
    /\ lit' = [lit EXCEPT ![c] = FALSE]
    /\ pending' = [pending EXCEPT ![c] = FALSE]
    /\ UNCHANGED <<loadedBy, blocks, listVars, playerVars, seen, sendInfo, senderVars,
                   lightingVars, tickVars, boundVars, raced>>

\* cChunk::MarkRegenerating, on any thread.  The new blocks are a new version.
MarkRegenerating(c) ==
    /\ changes < MaxChanges
    /\ IsPresent(c)
    /\ changes' = changes + 1
    /\ presence' = [presence EXCEPT ![c] = "cpQueued"]
    /\ blocks' = [blocks EXCEPT ![c] = @ + 1]
    /\ AddWantedChunk(c, loadedBy[c])
    /\ regenerated' = regenerated \cup {c}
    /\ raced' = raced \cup {<<k, c>> : k \in {q \in Clients : InFlight(q, c)}}
    /\ UNCHANGED <<lit, loadedBy, pending, loaded, sent, playerVars, seen, sendInfo,
                   senderVars, lightingVars, tickVars, moves>>

-----------------------------------------------------------------------------
(* cChunkSender's thread *)

TakeChunk(c) ==
    /\ sdPc = "idle"
    /\ sendInfo[c] # {}
    /\ sdChunk' = c /\ sdClients' = sendInfo[c]
    /\ sendInfo' = [sendInfo EXCEPT ![c] = {}]
    /\ sdPc' = "ask"
    /\ UNCHANGED <<chunkVars, listVars, playerVars, seen, sdData, sdClient, lightingVars,
                   tickVars, boundVars, raced>>

WantsSendChunk ==
    /\ sdPc = "ask"
    /\ LET wanting == {k \in sdClients : sdChunk \in toSend[k]}
       IN IF wanting = {}
             THEN SenderRests
             ELSE /\ sdPc' = "hasClients"
                  /\ sdClients' = wanting
                  /\ UNCHANGED <<sdChunk, sdData, sdClient>>
    /\ UNCHANGED <<chunkVars, listVars, playerVars, seen, sendInfo, lightingVars, tickVars,
                   boundVars, raced>>

SenderHasClients ==
    /\ sdPc = "hasClients"
    /\ IF loadedBy[sdChunk] # {} THEN SenderGoesTo("isValid") ELSE SenderRests
    /\ UNCHANGED <<chunkVars, listVars, playerVars, seen, sendInfo, lightingVars, tickVars,
                   boundVars, raced>>

\* "whoever needs it has queued it for loading / generating"
SenderIsValid ==
    /\ sdPc = "isValid"
    /\ IF IsPresent(sdChunk) THEN SenderGoesTo("isLit") ELSE SenderRests
    /\ UNCHANGED <<chunkVars, listVars, playerVars, seen, sendInfo, lightingVars, tickVars,
                   boundVars, raced>>

\* A chunk without light is queued for lighting, with a callback (cNotifyChunkSender).
\* The chunk stay holds it, and asks for it if it has gone meanwhile.
SenderIsLit ==
    /\ sdPc = "isLit"
    /\ \/ /\ lit[sdChunk]
          /\ SenderGoesTo("getData")
          /\ UNCHANGED <<presence, lightPending>>
       \/ /\ ~lit[sdChunk]
          /\ SenderRests
          /\ lightPending' = [lightPending EXCEPT ![sdChunk] = @ + 1]
          /\ presence' = IF IsPresent(sdChunk) THEN presence
                         ELSE [presence EXCEPT ![sdChunk] = "cpQueued"]
    /\ UNCHANGED <<lit, loadedBy, pending, blocks, listVars, playerVars, seen, sendInfo,
                   lightQueue, ltPc, ltChunk, tickVars, boundVars, raced>>

SenderGetData ==
    /\ sdPc = "getData"
    /\ IF IsPresent(sdChunk)
          THEN /\ sdPc' = "next" /\ sdData' = blocks[sdChunk]
               /\ UNCHANGED <<sdChunk, sdClients, sdClient>>
          ELSE SenderRests
    /\ UNCHANGED <<chunkVars, listVars, playerVars, seen, sendInfo, lightingVars, tickVars,
                   boundVars, raced>>

\* cClientHandle::SendChunkData refuses a chunk the client no longer wants.
EraseWanted ==
    /\ sdPc = "next"
    /\ \E k \in sdClients :
          \/ /\ sdChunk \in toSend[k]
             /\ toSend' = [toSend EXCEPT ![k] = @ \ {sdChunk}]
             /\ sdPc' = "packet" /\ sdClient' = k
             /\ UNCHANGED <<sdChunk, sdClients, sdData>>
          \/ /\ sdChunk \notin toSend[k]
             /\ UNCHANGED toSend
             /\ IF sdClients = {k} THEN SenderRests
                ELSE sdClients' = sdClients \ {k} /\ UNCHANGED <<sdPc, sdChunk, sdData, sdClient>>
    /\ UNCHANGED <<chunkVars, loaded, sent, playerVars, seen, sendInfo, lightingVars,
                   tickVars, boundVars, raced>>

SendChunkPacket ==
    /\ sdPc = "packet"
    /\ seen' = [seen EXCEPT ![sdClient] = [seen[sdClient] EXCEPT ![sdChunk] = sdData]]
    /\ SenderGoesTo("listed")
    /\ UNCHANGED <<chunkVars, listVars, playerVars, sendInfo, lightingVars, tickVars,
                   boundVars, raced>>

ListSent ==
    /\ sdPc = "listed"
    /\ sent' = [sent EXCEPT ![sdClient] = @ \cup {sdChunk}]
    /\ IF sdClients = {sdClient} THEN SenderRests
       ELSE /\ sdPc' = "next" /\ sdClients' = sdClients \ {sdClient} /\ sdClient' = None
            /\ UNCHANGED <<sdChunk, sdData>>
    /\ UNCHANGED <<chunkVars, loaded, toSend, playerVars, seen, sendInfo, lightingVars,
                   tickVars, boundVars, raced>>

-----------------------------------------------------------------------------
(* cLightingThread *)

\* QueueChunkStay, when the last of the chunk and its neighbours is there.
LightingChunkStayReady(c) ==
    /\ lightPending[c] > 0
    /\ IsPresent(c)
    /\ lightPending' = [lightPending EXCEPT ![c] = @ - 1]
    /\ lightQueue' = [lightQueue EXCEPT ![c] = @ + 1]
    /\ UNCHANGED <<chunkVars, listVars, playerVars, seen, sendInfo, senderVars, ltPc, ltChunk,
                   tickVars, boundVars, raced>>

\* A chunk that is lit meanwhile goes straight to the callback.
TakeLightJob(c) ==
    /\ ltPc = "idle"
    /\ lightQueue[c] > 0
    /\ lightQueue' = [lightQueue EXCEPT ![c] = @ - 1]
    /\ ltChunk' = c
    /\ ltPc' = IF lit[c] THEN "callback" ELSE "read"
    /\ UNCHANGED <<chunkVars, listVars, playerVars, seen, sendInfo, senderVars, lightPending,
                   tickVars, boundVars, raced>>

\* Where the chunk is not there, VERIFY stops the server.
ReadChunks ==
    /\ ltPc = "read"
    /\ IsPresent(ltChunk)
    /\ ltPc' = "calculate"
    /\ UNCHANGED <<chunkVars, listVars, playerVars, seen, sendInfo, senderVars, lightQueues,
                   ltChunk, tickVars, boundVars, raced>>

ChunkLighted ==
    /\ ltPc = "calculate"
    /\ lit' = [lit EXCEPT ![ltChunk] = TRUE]
    /\ ltPc' = "callback"
    /\ UNCHANGED <<presence, loadedBy, pending, blocks, listVars, playerVars, seen, sendInfo,
                   senderVars, lightQueues, ltChunk, tickVars, boundVars, raced>>

\* Mutant: the sender is not told that the chunk is lit now.
ForgetChunkSender ==
    /\ ltPc = "callback"
    /\ ltPc' = "idle" /\ ltChunk' = None
    /\ UNCHANGED <<chunkVars, listVars, playerVars, seen, sendInfo, senderVars, lightQueues,
                   tickVars, boundVars, raced>>

NotifyChunkSender ==
    /\ ltPc = "callback"
    /\ QueueSendChunkTo(ltChunk, IF IsPresent(ltChunk) THEN loadedBy[ltChunk] ELSE {})
    /\ ltPc' = "idle" /\ ltChunk' = None
    /\ UNCHANGED <<chunkVars, listVars, playerVars, seen, senderVars, lightQueues, tickVars,
                   boundVars, raced>>

-----------------------------------------------------------------------------
PlayerSteps ==
    \E k \in Clients :
        \/ CheckPlayerChunk(k)
        \/ \E c \in Coords : MovePlayer(k, c)

StreamSteps ==
    \/ \E k \in Clients, c \in Coords : AddChunkClient(k, c)
    \/ ListChunk \/ SendChunkTo

UnloadSteps ==
    \/ \E k \in Clients : ListOutOfRange(k)
    \/ RemoveChunkClient \/ UnlistSent \/ SendUnloadChunk

DataSteps == (\E c \in Coords : SetChunkData(c)) \/ AnnounceChunk

BlockSteps ==
    \E c \in Coords :
        FastSetBlock(c) \/ BroadcastPendingChanges(c) \/ ForceSendChunkTo(c)

SenderSteps ==
    \/ \E c \in Coords : TakeChunk(c)
    \/ WantsSendChunk \/ SenderHasClients \/ SenderIsValid \/ SenderIsLit \/ SenderGetData
    \/ EraseWanted \/ SendChunkPacket \/ ListSent

LightingSteps ==
    \/ \E c \in Coords : LightingChunkStayReady(c) \/ TakeLightJob(c)
    \/ ReadChunks \/ ChunkLighted \/ NotifyChunkSender

Next ==
    \/ PlayerSteps
    \/ StreamSteps
    \/ UnloadSteps
    \/ DataSteps
    \/ BlockSteps
    \/ \E c \in Coords : UnloadChunk(c) \/ MarkRegenerating(c)
    \/ SenderSteps
    \/ LightingSteps

Spec == Init /\ [][Next]_vars

\* Each thread goes on, the tick thread to the end of its calls, and a queued chunk
\* arrives (ChunkPipeline, QueuedGetsLoaded).
Fairness ==
    /\ WF_vars(ListChunk \/ SendChunkTo \/ RemoveChunkClient \/ UnlistSent \/ SendUnloadChunk)
    /\ WF_vars(DataSteps)
    /\ WF_vars(SenderSteps)
    /\ WF_vars(LightingSteps)

FairSpec == Spec /\ Fairness

-----------------------------------------------------------------------------
(* Properties *)

ChunkTypes ==
    /\ presence \in [Coords -> {"absent", "cpQueued", "cpPresent"}]
    /\ lit \in [Coords -> BOOLEAN] /\ pending \in [Coords -> BOOLEAN]
    /\ loadedBy \in [Coords -> SUBSET Clients] /\ blocks \in [Coords -> Nat]

ClientTypes ==
    /\ pos \in [Clients -> Coords] /\ cached \in [Clients -> Coords \cup {None}]
    /\ loaded \in [Clients -> SUBSET Coords]
    /\ toSend \in [Clients -> SUBSET Coords] /\ sent \in [Clients -> SUBSET Coords]
    /\ seen \in [Clients -> [Coords -> Nat \cup {None}]]

SenderTypes ==
    /\ sendInfo \in [Coords -> SUBSET Clients]
    /\ sdPc \in SenderPc /\ sdClients \subseteq Clients
    /\ sdChunk \in IF sdPc = "idle" THEN {None} ELSE Coords
    /\ sdClient \in IF sdPc \in {"packet", "listed"} THEN sdClients ELSE {None}
    /\ sdData \in IF sdPc \in {"next", "packet", "listed"} THEN Nat ELSE {None}

LightTypes ==
    /\ lightPending \in [Coords -> Nat] /\ lightQueue \in [Coords -> Nat]
    /\ ltPc \in {"idle", "read", "calculate", "callback"}
    /\ ltChunk \in IF ltPc = "idle" THEN {None} ELSE Coords

TickTypes ==
    /\ tkPc \in TickPc /\ tkRemove \subseteq Coords
    /\ tkClient \in IF tkPc \in {"idle", "announce"} THEN {None} ELSE Clients
    /\ tkChunk \in IF tkPc \in {"idle", "remove"} THEN {None} ELSE Coords
    /\ tkRemove # {} => tkPc \in {"remove", "unsend", "unload"}

HistoryTypes ==
    /\ moves \in Nat /\ changes \in Nat
    /\ raced \subseteq Clients \X Coords /\ regenerated \subseteq Coords

TypeOK ==
    /\ ChunkTypes /\ ClientTypes /\ SenderTypes /\ LightTypes /\ TickTypes
    /\ HistoryTypes

\* Somebody will look after the chunk c that k waits for: it is queued for k, the sender
\* is at it, its data or its light is still to come.
WillBeSent(k, c) ==
    \/ k \in sendInfo[c]
    \/ sdChunk = c /\ k \in sdClients
    \/ tkChunk = c /\ (tkPc = "announce" \/ (tkPc = "queue" /\ tkClient = k))
    \/ presence[c] = "cpQueued"
    \/ Stayed(c)

\* Every early return of cChunkSender::SendChunk leaves the chunk to someone else who will
\* queue it again: no client waits for a chunk that nobody will send.
WantedWillBeSent ==
    \A k \in Clients : \A c \in toSend[k] \cap loaded[k] : WillBeSent(k, c)

\* A chunk on a client's list of loaded chunks has that client, so that it hears of every
\* change; and has no client that does not list it (or the chunk would never unload).
ListsAgree ==
    \A k \in Clients, c \in Coords :
        (c \in loaded[k]) # (k \in loadedBy[c]) =>
            tkClient = k /\ (tkChunk = c \/ c \in tkRemove)

\* m_PendingSendBlocks "need to be sent to all clients": once nothing is pending or on its
\* way, a client that has the chunk shows its blocks.
UpToDate(k, c) ==
    c \in loaded[k] \cap sent[k] /\ c \notin toSend[k] /\ ~InFlight(k, c) /\ ~pending[c] =>
        seen[k][c] = blocks[c]

\* Chunk.h:443, for every client and chunk.
ClientSeesBlocks == \A k \in Clients, c \in Coords : UpToDate(k, c)

\* The same, but for chunks that changed, or were unloaded, while a copy was on its way.
ClientSeesBlocksUnlessRaced ==
    \A k \in Clients, c \in Coords : <<k, c>> \notin raced => UpToDate(k, c)

\* ClientHandle.h:543: when m_CachedSentChunk is where the player stands, "this must be a
\* sent chunk and a member of m_SentChunks".
CachedIsSent == \A k \in Clients : cached[k] = pos[k] => cached[k] \in sent[k]

\* LightingThread.cpp:340, VERIFY: a chunk stay keeps its chunks, so what is to be lit is
\* there to be read.
LightReadsPresent == ltPc = "read" => IsPresent(ltChunk)

\* The same, but for chunks that were regenerated.
LightReadsPresentUnlessRegenerated ==
    ltPc = "read" /\ ltChunk \notin regenerated => IsPresent(ltChunk)

\* A chunk in the client's view that was listed for it is sent, unless the player goes away.
LoadedGetsSent ==
    \A k \in Clients, c \in Coords : c \in loaded[k] ~> c \in sent[k] \/ c \notin loaded[k]
=============================================================================
