------------------------ MODULE ChunkStreamingProofs ------------------------
(***************************************************************************)
(* Theorems about ChunkStreaming, for every value of its constants: any    *)
(* chunks, clients, views, moves and changes.                              *)
(***************************************************************************)
EXTENDS ChunkStreaming, TLAPS

USE DEF chunkVars, listVars, playerVars, senderVars, lightQueues, lightingVars, tickVars,
        boundVars

-----------------------------------------------------------------------------
(* Type correctness *)

\* The initial state is well typed.
LEMMA TypeInit == Init => TypeOK
<1> SUFFICES ASSUME Init PROVE TypeOK
    OBVIOUS
<1> USE CoordsAssumption DEF Init
<1>1. ChunkTypes
    BY DEF ChunkTypes
<1>2. ClientTypes
    BY DEF ClientTypes
<1>3. SenderTypes /\ LightTypes
    BY DEF SenderTypes, SenderPc, LightTypes
<1>4. TickTypes /\ HistoryTypes
    BY DEF TickTypes, TickPc, HistoryTypes
<1> QED BY <1>1, <1>2, <1>3, <1>4 DEF TypeOK

\* Every step keeps the types.
LEMMA TypeStep == TypeOK /\ [Next]_vars => TypeOK'
<1> SUFFICES ASSUME TypeOK, [Next]_vars PROVE TypeOK'
    OBVIOUS
<1> USE CoordsAssumption
<1>1. ASSUME NEW k \in Clients, NEW c \in Coords, MovePlayer(k, c) PROVE TypeOK'
  <2>1. ClientTypes'
    BY <1>1 DEF TypeOK, ClientTypes, MovePlayer
  <2>2. HistoryTypes'
    BY <1>1 DEF TypeOK, HistoryTypes, MovePlayer
  <2>3. UNCHANGED <<presence, lit, loadedBy, pending, blocks, sendInfo, sdPc, sdChunk,
                sdClients, sdData, sdClient, lightPending, lightQueue, ltPc, ltChunk,
                tkPc, tkClient, tkChunk, tkRemove>>
    BY <1>1 DEF MovePlayer
  <2> QED BY <2>1, <2>2, <2>3 DEF TypeOK, ChunkTypes, SenderTypes, LightTypes, TickTypes
<1>2. ASSUME NEW k \in Clients, CheckPlayerChunk(k) PROVE TypeOK'
  <2>1. ClientTypes'
    BY <1>2 DEF TypeOK, ClientTypes, CheckPlayerChunk
  <2>2. UNCHANGED <<presence, lit, loadedBy, pending, blocks, sendInfo, sdPc, sdChunk,
                sdClients, sdData, sdClient, lightPending, lightQueue, ltPc, ltChunk,
                tkPc, tkClient, tkChunk, tkRemove, moves, changes, raced, regenerated>>
    BY <1>2 DEF CheckPlayerChunk
  <2> QED BY <2>1, <2>2 DEF TypeOK, ChunkTypes, SenderTypes, LightTypes, TickTypes,
      HistoryTypes
<1>3. ASSUME NEW k \in Clients, NEW c \in Coords, AddChunkClient(k, c) PROVE TypeOK'
  <2>1. ChunkTypes'
    BY <1>3 DEF TypeOK, ChunkTypes, AddChunkClient
  <2>2. TickTypes'
    BY <1>3 DEF TypeOK, TickTypes, AddChunkClient, TickGoesTo, TickPc
  <2>3. UNCHANGED <<pos, cached, loaded, toSend, sent, seen, sendInfo, sdPc, sdChunk,
                sdClients, sdData, sdClient, lightPending, lightQueue, ltPc, ltChunk,
                moves, changes, raced, regenerated>>
    BY <1>3 DEF AddChunkClient
  <2> QED BY <2>1, <2>2, <2>3 DEF TypeOK, ClientTypes, SenderTypes, LightTypes,
      HistoryTypes
<1>4. ASSUME ListChunk PROVE TypeOK'
  <2>1. ClientTypes'
    BY <1>4 DEF TypeOK, ClientTypes, ListChunk, TickTypes
  <2>2. TickTypes'
    BY <1>4 DEF TypeOK, TickTypes, ListChunk, TickGoesTo, TickPc
  <2>3. UNCHANGED <<presence, lit, loadedBy, pending, blocks, sendInfo, sdPc, sdChunk,
                sdClients, sdData, sdClient, lightPending, lightQueue, ltPc, ltChunk,
                moves, changes, raced, regenerated>>
    BY <1>4 DEF ListChunk
  <2> QED BY <2>1, <2>2, <2>3 DEF TypeOK, ChunkTypes, SenderTypes, LightTypes,
      HistoryTypes
<1>5. ASSUME SendChunkTo PROVE TypeOK'
  <2>1. SenderTypes'
    BY <1>5 DEF TypeOK, SenderTypes, SendChunkTo, QueueSendChunkTo, TickTypes
  <2>2. TickTypes'
    BY <1>5 DEF TypeOK, TickTypes, SendChunkTo, TickGoesTo, TickEnds, TickPc
  <2>3. UNCHANGED <<presence, lit, loadedBy, pending, blocks, pos, cached, loaded, toSend,
                sent, seen, lightPending, lightQueue, ltPc, ltChunk, moves, changes,
                raced, regenerated>>
    BY <1>5 DEF SendChunkTo
  <2> QED BY <2>1, <2>2, <2>3 DEF TypeOK, ChunkTypes, ClientTypes, LightTypes,
      HistoryTypes
<1>6. ASSUME NEW k \in Clients, ListOutOfRange(k) PROVE TypeOK'
  <2>1. ClientTypes'
    BY <1>6 DEF TypeOK, ClientTypes, ListOutOfRange
  <2>2. TickTypes'
    BY <1>6 DEF TypeOK, TickTypes, ListOutOfRange, TickGoesTo, TickEnds, TickPc,
        OutOfRange, ClientTypes
  <2>3. UNCHANGED <<presence, lit, loadedBy, pending, blocks, sendInfo, sdPc, sdChunk,
                sdClients, sdData, sdClient, lightPending, lightQueue, ltPc, ltChunk,
                moves, changes, raced, regenerated>>
    BY <1>6 DEF ListOutOfRange
  <2> QED BY <2>1, <2>2, <2>3 DEF TypeOK, ChunkTypes, SenderTypes, LightTypes,
      HistoryTypes
<1>7. ASSUME RemoveChunkClient PROVE TypeOK'
  <2>1. ChunkTypes'
    BY <1>7 DEF TypeOK, ChunkTypes, RemoveChunkClient, TickTypes
  <2>2. TickTypes'
    BY <1>7 DEF TypeOK, TickTypes, RemoveChunkClient, TickGoesTo, TickPc
  <2>3. UNCHANGED <<pos, cached, loaded, toSend, sent, seen, sendInfo, sdPc, sdChunk,
                sdClients, sdData, sdClient, lightPending, lightQueue, ltPc, ltChunk,
                moves, changes, raced, regenerated>>
    BY <1>7 DEF RemoveChunkClient
  <2> QED BY <2>1, <2>2, <2>3 DEF TypeOK, ClientTypes, SenderTypes, LightTypes,
      HistoryTypes
<1>8. ASSUME UnlistSent PROVE TypeOK'
  <2>1. ClientTypes'
    BY <1>8 DEF TypeOK, ClientTypes, UnlistSent
  <2>2. TickTypes'
    BY <1>8 DEF TypeOK, TickTypes, UnlistSent, TickGoesTo, TickPc
  <2>3. HistoryTypes'
    BY <1>8 DEF TypeOK, HistoryTypes, UnlistSent, TickTypes
  <2>4. UNCHANGED <<presence, lit, loadedBy, pending, blocks, sendInfo, sdPc, sdChunk,
                sdClients, sdData, sdClient, lightPending, lightQueue, ltPc, ltChunk>>
    BY <1>8 DEF UnlistSent
  <2> QED BY <2>1, <2>2, <2>3, <2>4 DEF TypeOK, ChunkTypes, SenderTypes, LightTypes
<1>9. ASSUME SendUnloadChunk PROVE TypeOK'
  <2>1. ClientTypes'
    BY <1>9 DEF TypeOK, ClientTypes, SendUnloadChunk
  <2>2. TickTypes'
    BY <1>9 DEF TypeOK, TickTypes, SendUnloadChunk, TickGoesTo, TickEnds, TickPc
  <2>3. HistoryTypes'
    BY <1>9 DEF TypeOK, HistoryTypes, SendUnloadChunk, TickTypes
  <2>4. UNCHANGED <<presence, lit, loadedBy, pending, blocks, sendInfo, sdPc, sdChunk,
                sdClients, sdData, sdClient, lightPending, lightQueue, ltPc, ltChunk>>
    BY <1>9 DEF SendUnloadChunk
  <2> QED BY <2>1, <2>2, <2>3, <2>4 DEF TypeOK, ChunkTypes, SenderTypes, LightTypes
<1>10. ASSUME NEW c \in Coords, SetChunkData(c) PROVE TypeOK'
  <2>1. ChunkTypes'
    BY <1>10 DEF TypeOK, ChunkTypes, SetChunkData
  <2>2. TickTypes'
    BY <1>10 DEF TypeOK, TickTypes, SetChunkData, TickGoesTo, TickPc
  <2>3. UNCHANGED <<pos, cached, loaded, toSend, sent, seen, sendInfo, sdPc, sdChunk,
                sdClients, sdData, sdClient, lightPending, lightQueue, ltPc, ltChunk,
                moves, changes, raced, regenerated>>
    BY <1>10 DEF SetChunkData
  <2> QED BY <2>1, <2>2, <2>3 DEF TypeOK, ClientTypes, SenderTypes, LightTypes,
      HistoryTypes
<1>11. ASSUME AnnounceChunk PROVE TypeOK'
  <2>1. SenderTypes'
    BY <1>11 DEF TypeOK, SenderTypes, AnnounceChunk, QueueSendChunkTo, ChunkTypes,
        TickTypes
  <2>2. TickTypes'
    BY <1>11 DEF TypeOK, TickTypes, AnnounceChunk, TickGoesTo, TickEnds, TickPc
  <2>3. UNCHANGED <<presence, lit, loadedBy, pending, blocks, pos, cached, loaded, toSend,
                sent, seen, lightPending, lightQueue, ltPc, ltChunk, moves, changes,
                raced, regenerated>>
    BY <1>11 DEF AnnounceChunk
  <2> QED BY <2>1, <2>2, <2>3 DEF TypeOK, ChunkTypes, ClientTypes, LightTypes,
      HistoryTypes
<1>12. ASSUME NEW c \in Coords, FastSetBlock(c) PROVE TypeOK'
  <2>1. ChunkTypes'
    <3>1. PICK valid \in {lit[c], FALSE} : lit' = [lit EXCEPT ![c] = valid]
      BY <1>12 DEF FastSetBlock
    <3>2. valid \in BOOLEAN
      BY DEF TypeOK, ChunkTypes
    <3> QED BY <1>12, <3>1, <3>2 DEF TypeOK, ChunkTypes, FastSetBlock
  <2>2. HistoryTypes'
    BY <1>12 DEF TypeOK, HistoryTypes, FastSetBlock
  <2>3. UNCHANGED <<pos, cached, loaded, toSend, sent, seen, sendInfo, sdPc, sdChunk,
                sdClients, sdData, sdClient, lightPending, lightQueue, ltPc, ltChunk,
                tkPc, tkClient, tkChunk, tkRemove>>
    BY <1>12 DEF FastSetBlock
  <2> QED BY <2>1, <2>2, <2>3 DEF TypeOK, ClientTypes, SenderTypes, LightTypes, TickTypes
<1>13. ASSUME NEW c \in Coords, BroadcastPendingChanges(c) PROVE TypeOK'
  <2>1. ChunkTypes'
    BY <1>13 DEF TypeOK, ChunkTypes, BroadcastPendingChanges
  <2>2. ClientTypes'
    BY <1>13 DEF TypeOK, ClientTypes, BroadcastPendingChanges, SendBlockChanges,
        ChunkTypes
  <2>3. UNCHANGED <<sendInfo, sdPc, sdChunk, sdClients, sdData, sdClient, lightPending,
                lightQueue, ltPc, ltChunk, tkPc, tkClient, tkChunk, tkRemove, moves,
                changes, raced, regenerated>>
    BY <1>13 DEF BroadcastPendingChanges
  <2> QED BY <2>1, <2>2, <2>3 DEF TypeOK, SenderTypes, LightTypes, TickTypes, HistoryTypes
<1>14. ASSUME NEW c \in Coords, ForceSendChunkTo(c) PROVE TypeOK'
  <2>1. ChunkTypes'
    BY <1>14 DEF TypeOK, ChunkTypes, ForceSendChunkTo
  <2>2. ClientTypes'
    BY <1>14 DEF TypeOK, ClientTypes, ForceSendChunkTo, AddWantedChunk
  <2>3. SenderTypes'
    BY <1>14 DEF TypeOK, SenderTypes, ForceSendChunkTo, QueueSendChunkTo, ChunkTypes
  <2>4. UNCHANGED <<lightPending, lightQueue, ltPc, ltChunk, tkPc, tkClient, tkChunk,
                tkRemove, moves, changes, raced, regenerated>>
    BY <1>14 DEF ForceSendChunkTo
  <2> QED BY <2>1, <2>2, <2>3, <2>4 DEF TypeOK, LightTypes, TickTypes, HistoryTypes
<1>15. ASSUME NEW c \in Coords, UnloadChunk(c) PROVE TypeOK'
  <2>1. ChunkTypes'
    BY <1>15 DEF TypeOK, ChunkTypes, UnloadChunk
  <2>2. UNCHANGED <<pos, cached, loaded, toSend, sent, seen, sendInfo, sdPc, sdChunk,
                sdClients, sdData, sdClient, lightPending, lightQueue, ltPc, ltChunk,
                tkPc, tkClient, tkChunk, tkRemove, moves, changes, raced, regenerated>>
    BY <1>15 DEF UnloadChunk
  <2> QED BY <2>1, <2>2 DEF TypeOK, ClientTypes, SenderTypes, LightTypes, TickTypes,
      HistoryTypes
<1>16. ASSUME NEW c \in Coords, MarkRegenerating(c) PROVE TypeOK'
  <2>1. ChunkTypes'
    BY <1>16 DEF TypeOK, ChunkTypes, MarkRegenerating
  <2>2. ClientTypes'
    BY <1>16 DEF TypeOK, ClientTypes, MarkRegenerating, AddWantedChunk
  <2>3. HistoryTypes'
    BY <1>16 DEF TypeOK, HistoryTypes, MarkRegenerating
  <2>4. UNCHANGED <<sendInfo, sdPc, sdChunk, sdClients, sdData, sdClient, lightPending,
                lightQueue, ltPc, ltChunk, tkPc, tkClient, tkChunk, tkRemove>>
    BY <1>16 DEF MarkRegenerating
  <2> QED BY <2>1, <2>2, <2>3, <2>4 DEF TypeOK, SenderTypes, LightTypes, TickTypes
<1>17. ASSUME NEW c \in Coords, TakeChunk(c) PROVE TypeOK'
  <2>1. SenderTypes'
    BY <1>17 DEF TypeOK, SenderTypes, TakeChunk, SenderPc
  <2>2. UNCHANGED <<presence, lit, loadedBy, pending, blocks, pos, cached, loaded, toSend,
                sent, seen, lightPending, lightQueue, ltPc, ltChunk, tkPc, tkClient,
                tkChunk, tkRemove, moves, changes, raced, regenerated>>
    BY <1>17 DEF TakeChunk
  <2> QED BY <2>1, <2>2 DEF TypeOK, ChunkTypes, ClientTypes, LightTypes, TickTypes,
      HistoryTypes
<1>18. ASSUME WantsSendChunk PROVE TypeOK'
  <2>1. SenderTypes'
    BY <1>18 DEF TypeOK, SenderTypes, WantsSendChunk, SenderGoesTo, SenderRests, SenderPc
  <2>2. UNCHANGED <<presence, lit, loadedBy, pending, blocks, pos, cached, loaded, toSend,
                sent, seen, lightPending, lightQueue, ltPc, ltChunk, tkPc, tkClient,
                tkChunk, tkRemove, moves, changes, raced, regenerated>>
    BY <1>18 DEF WantsSendChunk
  <2> QED BY <2>1, <2>2 DEF TypeOK, ChunkTypes, ClientTypes, LightTypes, TickTypes,
      HistoryTypes
<1>19. ASSUME SenderHasClients PROVE TypeOK'
  <2>1. SenderTypes'
    BY <1>19 DEF TypeOK, SenderTypes, SenderHasClients, SenderGoesTo, SenderRests,
        SenderPc
  <2>2. UNCHANGED <<presence, lit, loadedBy, pending, blocks, pos, cached, loaded, toSend,
                sent, seen, lightPending, lightQueue, ltPc, ltChunk, tkPc, tkClient,
                tkChunk, tkRemove, moves, changes, raced, regenerated>>
    BY <1>19 DEF SenderHasClients
  <2> QED BY <2>1, <2>2 DEF TypeOK, ChunkTypes, ClientTypes, LightTypes, TickTypes,
      HistoryTypes
<1>20. ASSUME SenderIsValid PROVE TypeOK'
  <2>1. SenderTypes'
    BY <1>20 DEF TypeOK, SenderTypes, SenderIsValid, SenderGoesTo, SenderRests, SenderPc
  <2>2. UNCHANGED <<presence, lit, loadedBy, pending, blocks, pos, cached, loaded, toSend,
                sent, seen, lightPending, lightQueue, ltPc, ltChunk, tkPc, tkClient,
                tkChunk, tkRemove, moves, changes, raced, regenerated>>
    BY <1>20 DEF SenderIsValid
  <2> QED BY <2>1, <2>2 DEF TypeOK, ChunkTypes, ClientTypes, LightTypes, TickTypes,
      HistoryTypes
<1>21. ASSUME SenderIsLit PROVE TypeOK'
  <2>1. ChunkTypes'
    BY <1>21 DEF TypeOK, ChunkTypes, SenderIsLit, SenderTypes
  <2>2. SenderTypes'
    BY <1>21 DEF TypeOK, SenderTypes, SenderIsLit, SenderGoesTo, SenderRests, SenderPc
  <2>3. LightTypes'
    BY <1>21 DEF TypeOK, LightTypes, SenderIsLit, SenderTypes
  <2>4. UNCHANGED <<pos, cached, loaded, toSend, sent, seen, tkPc, tkClient, tkChunk,
                tkRemove, moves, changes, raced, regenerated>>
    BY <1>21 DEF SenderIsLit
  <2> QED BY <2>1, <2>2, <2>3, <2>4 DEF TypeOK, ClientTypes, TickTypes, HistoryTypes
<1>22. ASSUME SenderGetData PROVE TypeOK'
  <2>1. SenderTypes'
    BY <1>22 DEF TypeOK, SenderTypes, SenderGetData, SenderGoesTo, SenderRests, SenderPc,
        ChunkTypes
  <2>2. UNCHANGED <<presence, lit, loadedBy, pending, blocks, pos, cached, loaded, toSend,
                sent, seen, lightPending, lightQueue, ltPc, ltChunk, tkPc, tkClient,
                tkChunk, tkRemove, moves, changes, raced, regenerated>>
    BY <1>22 DEF SenderGetData
  <2> QED BY <2>1, <2>2 DEF TypeOK, ChunkTypes, ClientTypes, LightTypes, TickTypes,
      HistoryTypes
<1>23. ASSUME EraseWanted PROVE TypeOK'
  <2>1. ClientTypes'
    BY <1>23 DEF TypeOK, ClientTypes, EraseWanted
  <2>2. SenderTypes'
    BY <1>23 DEF TypeOK, SenderTypes, EraseWanted, SenderGoesTo, SenderRests, SenderPc
  <2>3. UNCHANGED <<presence, lit, loadedBy, pending, blocks, lightPending, lightQueue,
                ltPc, ltChunk, tkPc, tkClient, tkChunk, tkRemove, moves, changes, raced,
                regenerated>>
    BY <1>23 DEF EraseWanted
  <2> QED BY <2>1, <2>2, <2>3 DEF TypeOK, ChunkTypes, LightTypes, TickTypes, HistoryTypes
<1>24. ASSUME SendChunkPacket PROVE TypeOK'
  <2>1. ClientTypes'
    BY <1>24 DEF TypeOK, ClientTypes, SendChunkPacket, SenderTypes
  <2>2. SenderTypes'
    BY <1>24 DEF TypeOK, SenderTypes, SendChunkPacket, SenderGoesTo, SenderRests, SenderPc
  <2>3. UNCHANGED <<presence, lit, loadedBy, pending, blocks, lightPending, lightQueue,
                ltPc, ltChunk, tkPc, tkClient, tkChunk, tkRemove, moves, changes, raced,
                regenerated>>
    BY <1>24 DEF SendChunkPacket
  <2> QED BY <2>1, <2>2, <2>3 DEF TypeOK, ChunkTypes, LightTypes, TickTypes, HistoryTypes
<1>25. ASSUME ListSent PROVE TypeOK'
  <2>1. ClientTypes'
    BY <1>25 DEF TypeOK, ClientTypes, ListSent, SenderTypes
  <2>2. SenderTypes'
    BY <1>25 DEF TypeOK, SenderTypes, ListSent, SenderGoesTo, SenderRests, SenderPc
  <2>3. UNCHANGED <<presence, lit, loadedBy, pending, blocks, lightPending, lightQueue,
                ltPc, ltChunk, tkPc, tkClient, tkChunk, tkRemove, moves, changes, raced,
                regenerated>>
    BY <1>25 DEF ListSent
  <2> QED BY <2>1, <2>2, <2>3 DEF TypeOK, ChunkTypes, LightTypes, TickTypes, HistoryTypes
<1>26. ASSUME NEW c \in Coords, LightingChunkStayReady(c) PROVE TypeOK'
  <2>1. LightTypes'
    BY <1>26 DEF TypeOK, LightTypes, LightingChunkStayReady
  <2>2. UNCHANGED <<presence, lit, loadedBy, pending, blocks, pos, cached, loaded, toSend,
                sent, seen, sendInfo, sdPc, sdChunk, sdClients, sdData, sdClient, tkPc,
                tkClient, tkChunk, tkRemove, moves, changes, raced, regenerated>>
    BY <1>26 DEF LightingChunkStayReady
  <2> QED BY <2>1, <2>2 DEF TypeOK, ChunkTypes, ClientTypes, SenderTypes, TickTypes,
      HistoryTypes
<1>27. ASSUME NEW c \in Coords, TakeLightJob(c) PROVE TypeOK'
  <2>1. LightTypes'
    BY <1>27 DEF TypeOK, LightTypes, TakeLightJob
  <2>2. UNCHANGED <<presence, lit, loadedBy, pending, blocks, pos, cached, loaded, toSend,
                sent, seen, sendInfo, sdPc, sdChunk, sdClients, sdData, sdClient, tkPc,
                tkClient, tkChunk, tkRemove, moves, changes, raced, regenerated>>
    BY <1>27 DEF TakeLightJob
  <2> QED BY <2>1, <2>2 DEF TypeOK, ChunkTypes, ClientTypes, SenderTypes, TickTypes,
      HistoryTypes
<1>28. ASSUME ReadChunks PROVE TypeOK'
  <2>1. LightTypes'
    BY <1>28 DEF TypeOK, LightTypes, ReadChunks
  <2>2. UNCHANGED <<presence, lit, loadedBy, pending, blocks, pos, cached, loaded, toSend,
                sent, seen, sendInfo, sdPc, sdChunk, sdClients, sdData, sdClient, tkPc,
                tkClient, tkChunk, tkRemove, moves, changes, raced, regenerated>>
    BY <1>28 DEF ReadChunks
  <2> QED BY <2>1, <2>2 DEF TypeOK, ChunkTypes, ClientTypes, SenderTypes, TickTypes,
      HistoryTypes
<1>29. ASSUME ChunkLighted PROVE TypeOK'
  <2>1. ChunkTypes'
    BY <1>29 DEF TypeOK, ChunkTypes, ChunkLighted
  <2>2. LightTypes'
    BY <1>29 DEF TypeOK, LightTypes, ChunkLighted
  <2>3. UNCHANGED <<pos, cached, loaded, toSend, sent, seen, sendInfo, sdPc, sdChunk,
                sdClients, sdData, sdClient, tkPc, tkClient, tkChunk, tkRemove, moves,
                changes, raced, regenerated>>
    BY <1>29 DEF ChunkLighted
  <2> QED BY <2>1, <2>2, <2>3 DEF TypeOK, ClientTypes, SenderTypes, TickTypes,
      HistoryTypes
<1>30. ASSUME NotifyChunkSender PROVE TypeOK'
  <2>1. SenderTypes'
    BY <1>30 DEF TypeOK, SenderTypes, NotifyChunkSender, QueueSendChunkTo, ChunkTypes,
        LightTypes
  <2>2. LightTypes'
    BY <1>30 DEF TypeOK, LightTypes, NotifyChunkSender
  <2>3. UNCHANGED <<presence, lit, loadedBy, pending, blocks, pos, cached, loaded, toSend,
                sent, seen, tkPc, tkClient, tkChunk, tkRemove, moves, changes, raced,
                regenerated>>
    BY <1>30 DEF NotifyChunkSender
  <2> QED BY <2>1, <2>2, <2>3 DEF TypeOK, ChunkTypes, ClientTypes, TickTypes, HistoryTypes
<1>31. CASE UNCHANGED vars
    BY <1>31 DEF vars, TypeOK, ChunkTypes, ClientTypes, SenderTypes, LightTypes,
        TickTypes, HistoryTypes
<1> QED BY <1>1, <1>2, <1>3, <1>4, <1>5, <1>6, <1>7, <1>8, <1>9, <1>10, <1>11, <1>12,
    <1>13, <1>14, <1>15, <1>16, <1>17, <1>18, <1>19, <1>20, <1>21, <1>22, <1>23, <1>24,
    <1>25, <1>26, <1>27, <1>28, <1>29, <1>30, <1>31
    DEF Next, PlayerSteps, StreamSteps, UnloadSteps, DataSteps, BlockSteps, SenderSteps,
    LightingSteps

\* Whoever is queued, listed or on its way is a client, a chunk or a thread's local variable
\* where the thread is at work on it, and none else.
THEOREM TypeCorrect == Spec => []TypeOK
BY TypeInit, TypeStep, PTL DEF Spec

-----------------------------------------------------------------------------
(* A client's list of chunks and the chunks' lists of clients *)

\* A listed chunk has the client; a client that does not list the chunk is about to list it,
\* or still to be taken from it.
LoadedHeld == \A k \in Clients : \A c \in loaded[k] : k \in loadedBy[c]
HeldLoaded ==
    \A k \in Clients, c \in Coords :
        k \in loadedBy[c] /\ c \notin loaded[k] =>
            tkClient = k /\ ((tkPc = "list" /\ tkChunk = c) \/ c \in tkRemove)
ToListHeld == tkPc = "list" => tkClient \in loadedBy[tkChunk]
RemovedUnlisted == \A c \in tkRemove : c \notin loaded[tkClient]

AgreeInv == LoadedHeld /\ HeldLoaded /\ ToListHeld /\ RemovedUnlisted

LEMMA AgreeInit == Init => AgreeInv
BY DEF Init, AgreeInv, LoadedHeld, HeldLoaded, ToListHeld, RemovedUnlisted

\* Only the tick thread changes these lists.
TickSteps ==
    \/ StreamSteps \/ UnloadSteps \/ DataSteps

LEMMA TickAlone ==
    ASSUME [Next]_vars, ~TickSteps
    PROVE  UNCHANGED <<loaded, loadedBy, tickVars>>
<1>1. CASE PlayerSteps
    BY <1>1 DEF PlayerSteps, MovePlayer, CheckPlayerChunk
<1>2. CASE BlockSteps
    BY <1>2 DEF BlockSteps, FastSetBlock, BroadcastPendingChanges, ForceSendChunkTo
<1>3. CASE \E c \in Coords : UnloadChunk(c) \/ MarkRegenerating(c)
    BY <1>3 DEF UnloadChunk, MarkRegenerating
<1>4. CASE SenderSteps
    BY <1>4 DEF SenderSteps, TakeChunk, WantsSendChunk, SenderHasClients, SenderIsValid,
        SenderIsLit, SenderGetData, EraseWanted, SendChunkPacket, ListSent
<1>5. CASE LightingSteps
    BY <1>5 DEF LightingSteps, LightingChunkStayReady, TakeLightJob, ReadChunks,
        ChunkLighted, NotifyChunkSender
<1>6. CASE UNCHANGED vars
    BY <1>6 DEF vars
<1> QED BY <1>1, <1>2, <1>3, <1>4, <1>5, <1>6 DEF Next, TickSteps

LEMMA AgreeStep == TypeOK /\ AgreeInv /\ [Next]_vars => AgreeInv'
<1> SUFFICES ASSUME TypeOK, AgreeInv, [Next]_vars PROVE AgreeInv'
    OBVIOUS
<1> USE CoordsAssumption
<1>0. ChunkTypes /\ ClientTypes /\ TickTypes
    BY DEF TypeOK
<1>1. ASSUME NEW k \in Clients, NEW c \in Coords, AddChunkClient(k, c) PROVE AgreeInv'
  <2>1. /\ tkPc = "idle" /\ c \notin loaded[k]
        /\ loadedBy' = [loadedBy EXCEPT ![c] = @ \cup {k}]
        /\ tkPc' = "list" /\ tkClient' = k /\ tkChunk' = c /\ tkRemove' = {}
        /\ UNCHANGED loaded
    BY <1>1 DEF AddChunkClient, TickGoesTo
  <2>2. loadedBy'[c] = loadedBy[c] \cup {k} /\ \A d \in Coords \ {c} : loadedBy'[d] = loadedBy[d]
    BY <1>0, <2>1 DEF ChunkTypes
  <2>3. \A q \in Clients : tkClient # q
    BY <1>0, <2>1 DEF TickTypes
  <2>4. LoadedHeld' /\ HeldLoaded'
    BY <1>0, <2>1, <2>2, <2>3 DEF AgreeInv, LoadedHeld, HeldLoaded, ClientTypes
  <2> QED BY <2>1, <2>2, <2>4 DEF AgreeInv, ToListHeld, RemovedUnlisted
<1>2. CASE ListChunk
  <2>1. /\ tkPc = "list" /\ tkClient \in Clients /\ tkChunk \in Coords /\ tkRemove = {}
        /\ loaded' = [loaded EXCEPT ![tkClient] = @ \cup {tkChunk}]
        /\ tkPc' = "queue" /\ tkRemove' = {}
        /\ UNCHANGED <<loadedBy, tkClient, tkChunk>>
    BY <1>0, <1>2 DEF ListChunk, TickGoesTo, TickTypes
  <2>2. /\ loaded'[tkClient] = loaded[tkClient] \cup {tkChunk}
        /\ \A k \in Clients \ {tkClient} : loaded'[k] = loaded[k]
    BY <1>0, <2>1 DEF ClientTypes
  <2>3. LoadedHeld'
    BY <2>1, <2>2 DEF AgreeInv, LoadedHeld, ToListHeld
  <2>4. HeldLoaded'
    BY <2>1, <2>2 DEF AgreeInv, HeldLoaded
  <2> QED BY <2>1, <2>3, <2>4 DEF AgreeInv, ToListHeld, RemovedUnlisted
<1>3. CASE SendChunkTo \/ AnnounceChunk
  <2>1. /\ tkPc # "list" /\ tkRemove = {} /\ tkPc' = "idle" /\ tkRemove' = {}
        /\ UNCHANGED <<loaded, loadedBy>>
    BY <1>0, <1>3 DEF SendChunkTo, AnnounceChunk, TickEnds, TickGoesTo, TickTypes
  <2> QED BY <2>1 DEF AgreeInv, LoadedHeld, HeldLoaded, ToListHeld, RemovedUnlisted
<1>4. ASSUME NEW c \in Coords, SetChunkData(c) PROVE AgreeInv'
  <2>1. /\ tkPc = "idle" /\ tkRemove = {} /\ tkPc' = "announce" /\ tkRemove' = {}
        /\ UNCHANGED <<loaded, loadedBy>>
    BY <1>0, <1>4 DEF SetChunkData, TickGoesTo, TickTypes
  <2> QED BY <2>1 DEF AgreeInv, LoadedHeld, HeldLoaded, ToListHeld, RemovedUnlisted
<1>5. ASSUME NEW k \in Clients, ListOutOfRange(k) PROVE AgreeInv'
  <2>1. /\ tkPc = "idle" /\ tkRemove = {} /\ tkPc' \in {"idle", "remove"}
        /\ loaded' = [loaded EXCEPT ![k] = @ \cap View[pos[k]]]
        /\ tkRemove' = OutOfRange(k) /\ (tkRemove' # {} => tkClient' = k)
        /\ UNCHANGED loadedBy
    BY <1>0, <1>5 DEF ListOutOfRange, TickGoesTo, TickEnds, TickTypes
  <2>2. /\ loaded'[k] = loaded[k] \cap View[pos[k]]
        /\ \A q \in Clients \ {k} : loaded'[q] = loaded[q]
    BY <1>0, <2>1 DEF ClientTypes
  <2>3. LoadedHeld'
    BY <2>1, <2>2 DEF AgreeInv, LoadedHeld
  <2>4. \A q \in Clients : tkClient # q
    BY <1>0, <2>1 DEF TickTypes
  <2>5. HeldLoaded'
    BY <2>1, <2>2, <2>4 DEF AgreeInv, HeldLoaded, OutOfRange
  <2>6. RemovedUnlisted'
    BY <2>1, <2>2 DEF RemovedUnlisted, OutOfRange
  <2> QED BY <2>1, <2>3, <2>5, <2>6 DEF AgreeInv, ToListHeld
<1>6. CASE RemoveChunkClient
  <2>1. PICK c \in tkRemove :
          /\ tkPc = "remove" /\ tkPc' = "unsend"
          /\ loadedBy' = [loadedBy EXCEPT ![c] = @ \ {tkClient}]
          /\ tkRemove' = tkRemove \ {c}
          /\ UNCHANGED <<loaded, tkClient>>
    BY <1>6 DEF RemoveChunkClient, TickGoesTo
  <2>2. c \in Coords /\ tkClient \in Clients
    BY <1>0, <2>1 DEF TickTypes
  <2>3. loadedBy'[c] = loadedBy[c] \ {tkClient} /\ \A d \in Coords \ {c} : loadedBy'[d] = loadedBy[d]
    BY <1>0, <2>1, <2>2 DEF ChunkTypes
  <2>4. LoadedHeld'
    BY <1>0, <2>1, <2>2, <2>3 DEF AgreeInv, LoadedHeld, RemovedUnlisted, ClientTypes
  <2>5. HeldLoaded'
    BY <2>1, <2>3 DEF AgreeInv, HeldLoaded
  <2> QED BY <2>1, <2>4, <2>5 DEF AgreeInv, ToListHeld, RemovedUnlisted
<1>7. CASE UnlistSent \/ SendUnloadChunk
  <2>1. /\ tkPc \in {"unsend", "unload"} /\ tkPc' # "list" /\ tkRemove' = tkRemove
        /\ tkRemove # {} => tkClient' = tkClient
        /\ UNCHANGED <<loaded, loadedBy>>
    BY <1>7 DEF UnlistSent, SendUnloadChunk, TickGoesTo, TickEnds
  <2>2. HeldLoaded'
    BY <2>1 DEF AgreeInv, HeldLoaded
  <2> QED BY <2>1, <2>2 DEF AgreeInv, LoadedHeld, ToListHeld, RemovedUnlisted
<1>8. CASE ~TickSteps
    BY <1>8, TickAlone DEF AgreeInv, LoadedHeld, HeldLoaded, ToListHeld, RemovedUnlisted
<1> QED BY <1>1, <1>2, <1>3, <1>4, <1>5, <1>6, <1>7, <1>8
    DEF TickSteps, StreamSteps, UnloadSteps, DataSteps

\* What is on a client's list hears of every change, and what is not is let go, whichever
\* chunks the client listed and unlisted before: they disagree only inside the call of the
\* tick thread that is changing both.
THEOREM ListsAlwaysAgree == Spec => []ListsAgree
<1>1. TypeOK /\ AgreeInv => ListsAgree
    BY DEF TypeOK, TickTypes, AgreeInv, LoadedHeld, HeldLoaded, ListsAgree
<1> QED BY <1>1, AgreeInit, AgreeStep, TypeCorrect, PTL DEF Spec

-----------------------------------------------------------------------------
(* A chunk that is wanted will be sent *)

\* A chunk that has a client is there, or queued.
HeldInv == \A c \in Coords : loadedBy[c] # {} => presence[c] # "absent"

\* As WillBeSent, but the sender will not come again to the client whose turn it is.
Awaited(k, c) ==
    \/ k \in sendInfo[c]
    \/ sdChunk = c /\ k \in sdClients \ {sdClient}
    \/ tkChunk = c /\ (tkPc = "announce" \/ (tkPc = "queue" /\ tkClient = k))
    \/ presence[c] = "cpQueued"
    \/ Stayed(c)

AwaitedInv == \A k \in Clients : \A c \in toSend[k] \cap loaded[k] : Awaited(k, c)

LEMMA HeldInit == Init => HeldInv /\ AwaitedInv
BY DEF Init, HeldInv, AwaitedInv

LEMMA HeldStep == TypeOK /\ HeldInv /\ [Next]_vars => HeldInv'
<1> SUFFICES ASSUME TypeOK, HeldInv, [Next]_vars,
                    NEW c \in Coords, loadedBy'[c] # {}
             PROVE  presence'[c] # "absent"
    BY DEF HeldInv
<1>0. ChunkTypes /\ TickTypes
    BY DEF TypeOK
<1>1. ASSUME NEW k \in Clients, NEW d \in Coords, AddChunkClient(k, d)
      PROVE  presence'[c] # "absent"
    BY <1>0, <1>1 DEF AddChunkClient, HeldInv, ChunkTypes, IsPresent
<1>2. CASE RemoveChunkClient
    BY <1>0, <1>2 DEF RemoveChunkClient, HeldInv, ChunkTypes, TickTypes
<1>3. ASSUME NEW d \in Coords, SetChunkData(d) \/ MarkRegenerating(d) \/ UnloadChunk(d)
      PROVE  presence'[c] # "absent"
    BY <1>0, <1>3 DEF SetChunkData, MarkRegenerating, UnloadChunk, CanUnload, HeldInv,
        ChunkTypes
<1>4. CASE SenderIsLit
    BY <1>0, <1>4 DEF SenderIsLit, HeldInv, ChunkTypes
<1>5. CASE UNCHANGED <<presence, loadedBy>>
    BY <1>5 DEF HeldInv
<1>6. CASE \/ PlayerSteps \/ ListChunk \/ SendChunkTo \/ AnnounceChunk
           \/ (\E k \in Clients : ListOutOfRange(k)) \/ UnlistSent \/ SendUnloadChunk
           \/ BlockSteps \/ LightingSteps \/ UNCHANGED vars
  <2>1. CASE PlayerSteps \/ BlockSteps
      BY <1>5, <2>1 DEF PlayerSteps, MovePlayer, CheckPlayerChunk, BlockSteps, FastSetBlock,
          BroadcastPendingChanges, ForceSendChunkTo
  <2>2. CASE LightingSteps \/ UNCHANGED vars
      BY <1>5, <2>2 DEF LightingSteps, LightingChunkStayReady, TakeLightJob, ReadChunks,
          ChunkLighted, NotifyChunkSender, vars
  <2> QED BY <1>5, <1>6, <2>1, <2>2 DEF ListChunk, SendChunkTo, AnnounceChunk, ListOutOfRange,
          UnlistSent, SendUnloadChunk
<1>7. CASE SenderSteps /\ ~SenderIsLit
    BY <1>5, <1>7 DEF SenderSteps, TakeChunk, WantsSendChunk, SenderHasClients, SenderIsValid,
        SenderGetData, EraseWanted, SendChunkPacket, ListSent
<1> QED BY <1>1, <1>2, <1>3, <1>4, <1>6, <1>7
    DEF Next, StreamSteps, UnloadSteps, DataSteps

\* Every early return of the sender, and every step that makes a client want a chunk, finds
\* the chunk somebody's care.
LEMMA AwaitedStep == TypeOK /\ LoadedHeld /\ HeldInv /\ AwaitedInv /\ [Next]_vars => AwaitedInv'
<1> SUFFICES ASSUME TypeOK, LoadedHeld, HeldInv, AwaitedInv, [Next]_vars,
                    NEW k \in Clients, NEW c \in Coords, c \in toSend'[k], c \in loaded'[k]
             PROVE  Awaited(k, c)'
  <2>1. TypeOK /\ [Next]_vars => ClientTypes'
    BY TypeStep DEF TypeOK
  <2> QED BY <2>1 DEF AwaitedInv, ClientTypes
<1> USE CoordsAssumption
<1>0. ChunkTypes /\ ClientTypes /\ SenderTypes /\ LightTypes /\ TickTypes
    BY DEF TypeOK
<1>1. c \in toSend[k] /\ c \in loaded[k] => Awaited(k, c)
    BY DEF AwaitedInv
<1>2. c \in loaded[k] => loadedBy[c] # {} /\ k \in loadedBy[c] /\ presence[c] # "absent"
    BY DEF LoadedHeld, HeldInv
<1>3. ~IsPresent(c) /\ c \in loaded[k] => presence[c] = "cpQueued"
    BY <1>0, <1>2 DEF IsPresent, ChunkTypes
(* What the client wants *)
<1>4. CASE PlayerSteps
    BY <1>1, <1>4 DEF PlayerSteps, MovePlayer, CheckPlayerChunk, Awaited, Stayed
<1>5. ASSUME NEW q \in Clients, NEW d \in Coords, AddChunkClient(q, d) PROVE Awaited(k, c)'
  <2>1. tkPc = "idle" /\ UNCHANGED <<listVars, sendInfo, senderVars, lightingVars>>
    BY <1>5 DEF AddChunkClient
  <2>2. presence[c] = "cpQueued" => presence'[c] = "cpQueued"
    BY <1>0, <1>5 DEF AddChunkClient, ChunkTypes
  <2> QED BY <1>1, <2>1, <2>2 DEF Awaited, Stayed
<1>6. CASE ListChunk
  <2>1. (c \in toSend[k] /\ c \in loaded[k]) \/ (k = tkClient /\ c = tkChunk)
    BY <1>0, <1>6 DEF ListChunk, ClientTypes
  <2>2. tkPc = "list" /\ tkPc' = "queue" /\ tkClient' = tkClient /\ tkChunk' = tkChunk
    BY <1>6 DEF ListChunk, TickGoesTo
  <2> QED BY <1>1, <1>6, <2>1, <2>2 DEF ListChunk, Awaited, Stayed
<1>7. CASE SendChunkTo
  <2>1. /\ UNCHANGED <<chunkVars, listVars, senderVars, lightingVars>>
        /\ tkPc = "queue" /\ sendInfo[c] \subseteq sendInfo'[c]
        /\ c = tkChunk /\ k = tkClient => k \in sendInfo'[c]
    BY <1>0, <1>7 DEF SendChunkTo, QueueSendChunkTo, SenderTypes
  <2> QED BY <1>1, <2>1 DEF Awaited, Stayed
<1>8. CASE AnnounceChunk
  <2>1. /\ UNCHANGED <<chunkVars, listVars, senderVars, lightingVars>>
        /\ tkPc = "announce" /\ sendInfo[c] \subseteq sendInfo'[c]
        /\ c = tkChunk /\ IsPresent(c) => loadedBy[c] \subseteq sendInfo'[c]
    BY <1>0, <1>8 DEF AnnounceChunk, QueueSendChunkTo, SenderTypes
  <2> QED BY <1>1, <1>2, <1>3, <2>1 DEF Awaited, Stayed
<1>9. CASE UnloadSteps
  <2>1. /\ UNCHANGED <<presence, sendInfo, senderVars, lightingVars>>
        /\ tkPc \notin {"announce", "queue"}
    BY <1>9 DEF UnloadSteps, ListOutOfRange, RemoveChunkClient, UnlistSent, SendUnloadChunk
  <2>2. c \in toSend[k] /\ c \in loaded[k]
    BY <1>0, <1>9 DEF UnloadSteps, ListOutOfRange, RemoveChunkClient, UnlistSent,
        SendUnloadChunk, ClientTypes
  <2> QED BY <1>1, <2>1, <2>2 DEF Awaited, Stayed
<1>10. ASSUME NEW d \in Coords, SetChunkData(d) PROVE Awaited(k, c)'
  <2>1. /\ UNCHANGED <<listVars, sendInfo, senderVars, lightingVars>>
        /\ tkPc = "idle" /\ tkPc' = "announce" /\ tkChunk' = d
        /\ c # d => presence'[c] = presence[c]
    BY <1>0, <1>10 DEF SetChunkData, TickGoesTo, ChunkTypes
  <2> QED BY <1>1, <2>1 DEF Awaited, Stayed
<1>11. ASSUME NEW d \in Coords, FastSetBlock(d) \/ BroadcastPendingChanges(d)
       PROVE  Awaited(k, c)'
    BY <1>1, <1>11 DEF FastSetBlock, BroadcastPendingChanges, Awaited, Stayed
<1>12. ASSUME NEW d \in Coords, ForceSendChunkTo(d) PROVE Awaited(k, c)'
  <2>1. /\ UNCHANGED <<presence, loadedBy, loaded, senderVars, lightingVars, tickVars>>
        /\ sendInfo[c] \subseteq sendInfo'[c]
        /\ c = d => loadedBy[c] \subseteq sendInfo'[c]
        /\ c # d => c \in toSend[k]
    BY <1>0, <1>12 DEF ForceSendChunkTo, QueueSendChunkTo, AddWantedChunk, SenderTypes
  <2> QED BY <1>1, <1>2, <2>1 DEF Awaited, Stayed
<1>13. ASSUME NEW d \in Coords, UnloadChunk(d) PROVE Awaited(k, c)'
  <2>1. /\ UNCHANGED <<listVars, sendInfo, senderVars, lightingVars, tickVars>>
        /\ IsPresent(d) /\ (c # d => presence'[c] = presence[c])
    BY <1>0, <1>13 DEF UnloadChunk, CanUnload, ChunkTypes
  <2> QED BY <1>1, <2>1 DEF Awaited, Stayed, IsPresent
<1>14. ASSUME NEW d \in Coords, MarkRegenerating(d) PROVE Awaited(k, c)'
  <2>1. /\ UNCHANGED <<loaded, sendInfo, senderVars, lightingVars, tickVars>>
        /\ c = d => presence'[c] = "cpQueued"
        /\ c # d => presence'[c] = presence[c] /\ c \in toSend[k]
    BY <1>0, <1>14 DEF MarkRegenerating, AddWantedChunk, ChunkTypes
  <2> QED BY <1>1, <2>1 DEF Awaited, Stayed
(* What the sender does *)
<1>15. ASSUME NEW d \in Coords, TakeChunk(d) PROVE Awaited(k, c)'
  <2>1. /\ UNCHANGED <<presence, listVars, lightingVars, tickVars>>
        /\ sdPc = "idle" /\ sdChunk' = d /\ sdClients' = sendInfo[d] /\ sdClient' = sdClient
        /\ c # d => sendInfo'[c] = sendInfo[c]
    BY <1>0, <1>15 DEF TakeChunk, SenderTypes
  <2> QED BY <1>0, <1>1, <2>1 DEF Awaited, Stayed, SenderTypes
<1>16. CASE WantsSendChunk
  <2>1. /\ UNCHANGED <<presence, listVars, sendInfo, lightingVars, tickVars>>
        /\ sdClient = None /\ c \in toSend[k] /\ c \in loaded[k]
    BY <1>0, <1>16 DEF WantsSendChunk, SenderTypes
  <2>2. sdChunk = c /\ k \in sdClients =>
            sdChunk' = c /\ k \in sdClients' /\ sdClient' = None
    BY <1>16, <2>1 DEF WantsSendChunk
  <2> QED BY <1>1, <2>1, <2>2 DEF Awaited, Stayed
<1>17. CASE SenderHasClients
  <2>1. /\ UNCHANGED <<presence, listVars, sendInfo, lightingVars, tickVars>>
        /\ c \in toSend[k] /\ c \in loaded[k]
    BY <1>17 DEF SenderHasClients
  <2>2. c = sdChunk => UNCHANGED <<sdChunk, sdClients, sdClient>>
    BY <1>2, <1>17, <2>1 DEF SenderHasClients, SenderGoesTo
  <2> QED BY <1>1, <2>1, <2>2 DEF Awaited, Stayed
<1>18. CASE SenderIsValid \/ SenderGetData
  <2>1. /\ UNCHANGED <<presence, listVars, sendInfo, lightingVars, tickVars>>
        /\ c \in toSend[k] /\ c \in loaded[k]
    BY <1>18 DEF SenderIsValid, SenderGetData
  <2>2. c = sdChunk => presence[c] = "cpQueued" \/ UNCHANGED <<sdChunk, sdClients, sdClient>>
    BY <1>3, <1>18, <2>1 DEF SenderIsValid, SenderGetData, SenderGoesTo
  <2> QED BY <1>1, <2>1, <2>2 DEF Awaited, Stayed
<1>19. CASE SenderIsLit
  <2>1. /\ UNCHANGED <<listVars, sendInfo, lightQueue, ltChunk, tickVars>>
        /\ c \in toSend[k] /\ c \in loaded[k]
    BY <1>19 DEF SenderIsLit
  <2>2. CASE lit[sdChunk]
    <3>1. UNCHANGED <<presence, lightPending, sdChunk, sdClients, sdClient>>
      BY <1>19, <2>2 DEF SenderIsLit, SenderGoesTo
    <3> QED BY <1>1, <2>1, <3>1 DEF Awaited, Stayed
  <2>3. CASE ~lit[sdChunk]
    <3>1. presence[c] = "cpQueued" => presence'[c] = "cpQueued"
      BY <1>0, <1>19, <2>3 DEF SenderIsLit, ChunkTypes
    <3>2. sdChunk \in Coords /\ lightPending' = [lightPending EXCEPT ![sdChunk] = @ + 1]
      BY <1>0, <1>19, <2>3 DEF SenderIsLit, SenderTypes
    <3>3. /\ c = sdChunk => lightPending'[c] > 0
          /\ c # sdChunk => lightPending'[c] = lightPending[c]
      BY <1>0, <3>2 DEF LightTypes
    <3> QED BY <1>1, <2>1, <3>1, <3>3 DEF Awaited, Stayed
  <2> QED BY <2>2, <2>3
<1>20. CASE EraseWanted
  <2>1. PICK q \in sdClients :
          \/ /\ sdChunk \in toSend[q]
             /\ toSend' = [toSend EXCEPT ![q] = @ \ {sdChunk}]
             /\ sdClient' = q /\ UNCHANGED <<sdChunk, sdClients>>
          \/ /\ sdChunk \notin toSend[q] /\ UNCHANGED toSend
             /\ sdClients' = sdClients \ {q}
             /\ sdClients' # {} => UNCHANGED <<sdChunk, sdClient>>
    BY <1>20 DEF EraseWanted, SenderRests
  <2>2. /\ UNCHANGED <<presence, loaded, sendInfo, lightingVars, tickVars>>
        /\ sdClient = None /\ c \in toSend[k] /\ (c = sdChunk => k # q \/ c \notin toSend[q])
    BY <1>0, <1>20, <2>1 DEF EraseWanted, SenderTypes, ClientTypes
  <2>3. c = sdChunk /\ k \in sdClients => sdChunk' = c /\ k \in sdClients' \ {sdClient'}
    BY <1>0, <2>1, <2>2 DEF ClientTypes
  <2> QED BY <1>1, <2>2, <2>3 DEF Awaited, Stayed
<1>21. CASE SendChunkPacket \/ ListSent
  <2>1. /\ UNCHANGED <<presence, loaded, toSend, sendInfo, lightingVars, tickVars>>
        /\ c = sdChunk /\ k \in sdClients \ {sdClient} =>
               sdChunk' = c /\ k \in sdClients' \ {sdClient'}
    BY <1>0, <1>21 DEF SendChunkPacket, ListSent, SenderGoesTo, SenderRests
  <2> QED BY <1>1, <2>1 DEF Awaited, Stayed
(* What the lighting thread does *)
<1>22. ASSUME NEW d \in Coords, LightingChunkStayReady(d) PROVE Awaited(k, c)'
  <2>1. /\ UNCHANGED <<presence, listVars, sendInfo, senderVars, ltChunk, tickVars>>
        /\ IF c = d THEN lightQueue'[c] > 0
           ELSE lightQueue'[c] = lightQueue[c] /\ lightPending'[c] = lightPending[c]
    BY <1>0, <1>22 DEF LightingChunkStayReady, LightTypes
  <2> QED BY <1>1, <2>1 DEF Awaited, Stayed
<1>23. ASSUME NEW d \in Coords, TakeLightJob(d) PROVE Awaited(k, c)'
  <2>1. /\ UNCHANGED <<presence, listVars, sendInfo, senderVars, lightPending, tickVars>>
        /\ ltChunk = None /\ ltChunk' = d
        /\ c # d => lightQueue'[c] = lightQueue[c]
    BY <1>0, <1>23 DEF TakeLightJob, LightTypes
  <2> QED BY <1>1, <2>1 DEF Awaited, Stayed
<1>24. CASE ReadChunks \/ ChunkLighted \/ UNCHANGED vars
    BY <1>1, <1>24 DEF ReadChunks, ChunkLighted, Awaited, Stayed, vars
<1>25. CASE NotifyChunkSender
  <2>1. /\ UNCHANGED <<chunkVars, listVars, senderVars, lightQueues, tickVars>>
        /\ sendInfo[c] \subseteq sendInfo'[c]
        /\ c = ltChunk /\ IsPresent(c) => loadedBy[c] \subseteq sendInfo'[c]
    BY <1>0, <1>25 DEF NotifyChunkSender, QueueSendChunkTo, SenderTypes
  <2> QED BY <1>1, <1>2, <1>3, <2>1 DEF Awaited, Stayed
<1> QED
  <2>1. CASE StreamSteps \/ DataSteps
    BY <2>1, <1>5, <1>6, <1>7, <1>8, <1>10 DEF StreamSteps, DataSteps
  <2>2. CASE BlockSteps \/ \E d \in Coords : UnloadChunk(d) \/ MarkRegenerating(d)
    BY <2>2, <1>11, <1>12, <1>13, <1>14 DEF BlockSteps
  <2>3. CASE SenderSteps
    BY <2>3, <1>15, <1>16, <1>17, <1>18, <1>19, <1>20, <1>21 DEF SenderSteps
  <2>4. CASE LightingSteps
    BY <2>4, <1>22, <1>23, <1>24, <1>25 DEF LightingSteps
  <2> QED BY <1>4, <1>9, <1>24, <2>1, <2>2, <2>3, <2>4 DEF Next

\* No early return of the sender, no regeneration and no lost neighbour leaves a client
\* waiting for a chunk it lists: somebody always has it queued.
THEOREM WantedAlwaysSent == Spec => []WantedWillBeSent
<1>1. AwaitedInv => WantedWillBeSent
    BY DEF AwaitedInv, Awaited, WantedWillBeSent, WillBeSent
<1> QED BY <1>1, HeldInit, HeldStep, AwaitedStep, AgreeInit, AgreeStep, TypeCorrect, PTL
    DEF Spec, AgreeInv

-----------------------------------------------------------------------------
(* A client shows the blocks the chunk has *)

\* The clients the sender has asked, and has not come to, want the chunk still, if they list it.
WantedInv ==
    sdPc \notin {"idle", "ask"} =>
        \A k \in sdClients \ {sdClient} : sdChunk \in loaded[k] => sdChunk \in toSend[k]

\* The tick thread unloads a chunk from a client that is not the chunk's any more.
GoneInv == tkPc \in {"unsend", "unload"} => tkClient \notin loadedBy[tkChunk]

\* The sender's copy, and what it has just sent, is what the chunk is, unless raced.
CopiedInv ==
    \A k \in Clients, c \in Coords :
        InFlight(k, c) /\ <<k, c>> \notin raced => sdData = blocks[c]
PacketInv ==
    sdPc = "listed" /\ <<sdClient, sdChunk>> \notin raced =>
        seen[sdClient][sdChunk] = blocks[sdChunk]

\* A client that has a chunk shows it, and as it is, unless a change is pending.
Shows(k, c) ==
    c \in loaded[k] \cap sent[k] /\ c \notin toSend[k] /\ ~InFlight(k, c) =>
        /\ seen[k][c] # None
        /\ ~pending[c] \/ ~IsPresent(c) => seen[k][c] = blocks[c]

ShowsInv == \A k \in Clients, c \in Coords : <<k, c>> \notin raced => Shows(k, c)

SeenInv == WantedInv /\ GoneInv /\ CopiedInv /\ PacketInv /\ ShowsInv

LEMMA SeenInit == Init => SeenInv
BY DEF Init, SeenInv, WantedInv, GoneInv, CopiedInv, PacketInv, ShowsInv, Shows, InFlight

\* The sender's clients want its chunk until their turn comes: a listed chunk comes off the
\* list of wanted ones in the sender only.
LEMMA WantedStep == TypeOK /\ WantedInv /\ [Next]_vars => WantedInv'
<1> SUFFICES ASSUME TypeOK, WantedInv, [Next]_vars, sdPc' \notin {"idle", "ask"},
                    NEW k \in sdClients', k # sdClient', sdChunk' \in loaded'[k]
             PROVE  sdChunk' \in toSend'[k]
    BY DEF WantedInv
<1>0. ClientTypes /\ SenderTypes /\ TickTypes /\ k \in Clients /\ sdChunk' \in Coords
  <2>1. SenderTypes'
    BY TypeStep DEF TypeOK
  <2> QED BY <2>1 DEF TypeOK, SenderTypes
<1> USE CoordsAssumption
(* Steps of the sender *)
<1>1. CASE WantsSendChunk
    BY <1>1 DEF WantsSendChunk, SenderRests
<1>2. CASE SenderHasClients \/ SenderIsValid \/ SenderIsLit \/ SenderGetData \/ SendChunkPacket
  <2>1. sdPc \notin {"idle", "ask"} /\ UNCHANGED <<loaded, toSend, sdChunk, sdClients, sdClient>>
    BY <1>2 DEF SenderHasClients, SenderIsValid, SenderIsLit, SenderGetData, SendChunkPacket,
        SenderGoesTo, SenderRests
  <2> QED BY <2>1 DEF WantedInv
<1>3. CASE EraseWanted
  <2>1. PICK q \in sdClients :
          /\ sdChunk' = sdChunk /\ sdPc = "next"
          /\ \/ /\ toSend' = [toSend EXCEPT ![q] = @ \ {sdChunk}]
                /\ sdClient' = q /\ sdClients' = sdClients
             \/ UNCHANGED toSend /\ sdClients' = sdClients \ {q}
    BY <1>3 DEF EraseWanted, SenderRests
  <2>2. loaded' = loaded /\ sdClient = None
    BY <1>0, <1>3 DEF EraseWanted, SenderTypes
  <2>3. sdChunk \in toSend[k]
    BY <1>0, <2>1, <2>2 DEF WantedInv
  <2> QED BY <1>0, <2>1, <2>3 DEF ClientTypes
<1>4. CASE ListSent
    BY <1>4 DEF ListSent, SenderRests, WantedInv
<1>5. CASE (\E d \in Coords : TakeChunk(d))
    BY <1>5 DEF TakeChunk
(* Steps of the tick thread *)
<1>6. ASSUME UNCHANGED senderVars,
             sdChunk \in loaded'[k] => sdChunk \in loaded[k] \/ sdChunk \in toSend'[k],
             sdChunk \in loaded'[k] /\ sdChunk \in toSend[k] => sdChunk \in toSend'[k]
      PROVE  sdChunk' \in toSend'[k]
    BY <1>6 DEF WantedInv
<1>7. CASE ListChunk
    BY <1>0, <1>6, <1>7 DEF ListChunk, ClientTypes
<1>8. CASE \E q \in Clients : ListOutOfRange(q)
    BY <1>0, <1>6, <1>8 DEF ListOutOfRange, ClientTypes
<1>9. CASE \E d \in Coords : MarkRegenerating(d) \/ ForceSendChunkTo(d)
    BY <1>0, <1>6, <1>9 DEF MarkRegenerating, ForceSendChunkTo, AddWantedChunk
<1>10. CASE UNCHANGED <<senderVars, loaded, toSend>>
    BY <1>6, <1>10
<1> QED
  <2>1. CASE PlayerSteps
    BY <1>10, <2>1 DEF PlayerSteps, MovePlayer, CheckPlayerChunk
  <2>2. CASE StreamSteps \/ DataSteps
    BY <1>7, <1>10, <2>2 DEF StreamSteps, AddChunkClient, SendChunkTo, DataSteps, SetChunkData,
        AnnounceChunk
  <2>3. CASE UnloadSteps
    BY <1>8, <1>10, <2>3 DEF UnloadSteps, RemoveChunkClient, UnlistSent, SendUnloadChunk
  <2>4. CASE BlockSteps \/ \E d \in Coords : UnloadChunk(d) \/ MarkRegenerating(d)
    BY <1>9, <1>10, <2>4 DEF BlockSteps, FastSetBlock, BroadcastPendingChanges, UnloadChunk
  <2>5. CASE SenderSteps
    BY <1>1, <1>2, <1>3, <1>4, <1>5, <2>5 DEF SenderSteps
  <2>6. CASE LightingSteps
    BY <1>10, <2>6 DEF LightingSteps, LightingChunkStayReady, TakeLightJob, ReadChunks,
        ChunkLighted, NotifyChunkSender
  <2> QED BY <1>10, <2>1, <2>2, <2>3, <2>4, <2>5, <2>6 DEF Next, vars

LEMMA GoneStep == TypeOK /\ GoneInv /\ [Next]_vars => GoneInv'
<1> SUFFICES ASSUME TypeOK, GoneInv, [Next]_vars PROVE GoneInv'
    OBVIOUS
<1>0. ChunkTypes /\ TickTypes
    BY DEF TypeOK
<1>1. CASE StreamSteps \/ DataSteps
    BY <1>1 DEF StreamSteps, DataSteps, AddChunkClient, ListChunk, SendChunkTo, SetChunkData,
        AnnounceChunk, TickGoesTo, TickEnds, GoneInv
<1>2. CASE UnloadSteps
  <2>1. CASE RemoveChunkClient
    <3>1. PICK c \in tkRemove :
            /\ loadedBy' = [loadedBy EXCEPT ![c] = @ \ {tkClient}]
            /\ tkClient' = tkClient /\ tkChunk' = c
      BY <2>1 DEF RemoveChunkClient, TickGoesTo
    <3> QED BY <1>0, <3>1 DEF GoneInv, ChunkTypes, TickTypes
  <2> QED BY <1>2, <2>1 DEF UnloadSteps, ListOutOfRange, UnlistSent, SendUnloadChunk,
          TickGoesTo, TickEnds, GoneInv
<1> QED BY <1>1, <1>2, TickAlone DEF TickSteps, GoneInv

\* The blocks change under the sender's copy only where the chunk has raced.
LEMMA CopiedStep == TypeOK /\ CopiedInv /\ [Next]_vars => CopiedInv'
<1> SUFFICES ASSUME TypeOK, CopiedInv, [Next]_vars,
                    NEW k \in Clients, NEW c \in Coords, InFlight(k, c)', <<k, c>> \notin raced'
             PROVE  sdData' = blocks'[c]
    BY DEF CopiedInv
<1>0. ChunkTypes /\ SenderTypes
    BY DEF TypeOK
<1>1. CASE SenderGetData
    BY <1>1 DEF SenderGetData, SenderRests, InFlight
<1>2. ASSUME InFlight(k, c), <<k, c>> \notin raced, sdData' = sdData, blocks'[c] = blocks[c]
      PROVE  sdData' = blocks'[c]
    BY <1>2 DEF CopiedInv
<1>3. CASE SenderSteps /\ ~SenderGetData
  <2>1. raced' = raced /\ blocks' = blocks
    BY <1>3 DEF SenderSteps, TakeChunk, WantsSendChunk, SenderHasClients, SenderIsValid,
        SenderIsLit, EraseWanted, SendChunkPacket, ListSent
  <2>2. InFlight(k, c) /\ sdData' = sdData
    BY <1>3 DEF SenderSteps, TakeChunk, WantsSendChunk, SenderHasClients, SenderIsValid,
        SenderIsLit, EraseWanted, SendChunkPacket, ListSent, SenderGoesTo, SenderRests, InFlight
  <2> QED BY <1>2, <2>1, <2>2
<1>4. ASSUME NEW d \in Coords, FastSetBlock(d) \/ MarkRegenerating(d) PROVE sdData' = blocks'[c]
  <2>1. /\ UNCHANGED senderVars
        /\ blocks' = [blocks EXCEPT ![d] = @ + 1]
        /\ raced' = raced \cup {<<q, d>> : q \in {q \in Clients : InFlight(q, d)}}
    BY <1>4 DEF FastSetBlock, MarkRegenerating
  <2>2. InFlight(k, c)
    BY <2>1 DEF InFlight
  <2>3. c # d /\ <<k, c>> \notin raced
    BY <2>1, <2>2
  <2> QED BY <1>0, <1>2, <2>1, <2>2, <2>3 DEF ChunkTypes
<1>5. CASE UNCHANGED <<senderVars, blocks>> /\ raced \subseteq raced'
    BY <1>2, <1>5 DEF InFlight
<1> QED
  <2>1. CASE PlayerSteps \/ StreamSteps \/ DataSteps
    BY <1>5, <2>1 DEF PlayerSteps, MovePlayer, CheckPlayerChunk, StreamSteps, AddChunkClient,
        ListChunk, SendChunkTo, DataSteps, SetChunkData, AnnounceChunk
  <2>2. CASE UnloadSteps
    BY <1>5, <2>2 DEF UnloadSteps, ListOutOfRange, RemoveChunkClient, UnlistSent, SendUnloadChunk
  <2>3. CASE BlockSteps \/ \E d \in Coords : UnloadChunk(d) \/ MarkRegenerating(d)
    BY <1>4, <1>5, <2>3 DEF BlockSteps, BroadcastPendingChanges, ForceSendChunkTo, UnloadChunk
  <2>4. CASE LightingSteps
    BY <1>5, <2>4 DEF LightingSteps, LightingChunkStayReady, TakeLightJob, ReadChunks,
        ChunkLighted, NotifyChunkSender
  <2> QED BY <1>1, <1>3, <1>5, <2>1, <2>2, <2>3, <2>4 DEF Next, vars

\* What the sender has just sent is what the client shows, and the chunk is, unless raced.
LEMMA PacketStep == TypeOK /\ CopiedInv /\ PacketInv /\ [Next]_vars => PacketInv'
<1> SUFFICES ASSUME TypeOK, CopiedInv, PacketInv, [Next]_vars,
                    sdPc' = "listed", <<sdClient', sdChunk'>> \notin raced'
             PROVE  seen'[sdClient'][sdChunk'] = blocks'[sdChunk']
    BY DEF PacketInv
<1>0. ChunkTypes /\ ClientTypes /\ SenderTypes /\ TickTypes
    BY DEF TypeOK
<1>1. CASE SendChunkPacket
  <2>1. /\ sdPc = "packet" /\ sdClient \in sdClients /\ sdClient \in Clients /\ sdChunk \in Coords
        /\ seen' = [seen EXCEPT ![sdClient] = [seen[sdClient] EXCEPT ![sdChunk] = sdData]]
        /\ UNCHANGED <<sdClient, sdChunk, blocks, raced>>
    BY <1>0, <1>1 DEF SendChunkPacket, SenderGoesTo, SenderTypes
  <2>2. sdData = blocks[sdChunk]
    BY <2>1 DEF CopiedInv, InFlight
  <2> QED BY <1>0, <2>1, <2>2 DEF ClientTypes
<1>2. CASE SenderSteps /\ ~SendChunkPacket
  <2> FALSE
    BY <1>2 DEF SenderSteps, TakeChunk, WantsSendChunk, SenderHasClients, SenderIsValid,
        SenderIsLit, SenderGetData, EraseWanted, ListSent, SenderGoesTo, SenderRests
  <2> QED OBVIOUS
<1>3. ASSUME UNCHANGED senderVars
      PROVE  /\ sdPc = "listed" /\ sdClient \in Clients /\ sdChunk \in Coords
             /\ InFlight(sdClient, sdChunk)
    BY <1>0, <1>3 DEF SenderTypes, InFlight
<1>4. ASSUME UNCHANGED senderVars, raced \subseteq raced', blocks' = blocks,
             seen'[sdClient][sdChunk] \in {seen[sdClient][sdChunk], blocks[sdChunk]}
      PROVE  seen'[sdClient'][sdChunk'] = blocks'[sdChunk']
    BY <1>4 DEF PacketInv
<1>5. ASSUME NEW d \in Coords, FastSetBlock(d) \/ MarkRegenerating(d)
      PROVE  seen'[sdClient'][sdChunk'] = blocks'[sdChunk']
  <2>1. /\ UNCHANGED <<senderVars, seen>>
        /\ blocks' = [blocks EXCEPT ![d] = @ + 1]
        /\ raced' = raced \cup {<<q, d>> : q \in {q \in Clients : InFlight(q, d)}}
    BY <1>5 DEF FastSetBlock, MarkRegenerating
  <2>2. sdChunk # d /\ <<sdClient, sdChunk>> \notin raced
    BY <1>3, <2>1
  <2> QED BY <1>0, <1>3, <2>1, <2>2 DEF PacketInv, ChunkTypes
<1>6. ASSUME NEW d \in Coords, BroadcastPendingChanges(d)
      PROVE  seen'[sdClient'][sdChunk'] = blocks'[sdChunk']
  <2>1. /\ UNCHANGED <<senderVars, raced, blocks>>
        /\ seen' = [k \in Clients |->
                       IF k \in loadedBy[d] /\ d \in sent[k] /\ seen[k][d] # None
                       THEN [seen[k] EXCEPT ![d] = blocks[d]] ELSE seen[k]]
    BY <1>6 DEF BroadcastPendingChanges, SendBlockChanges
  <2>2. sdClient \in Clients /\ sdChunk \in Coords
    BY <1>3, <2>1
  <2>3. seen'[sdClient] \in {seen[sdClient], [seen[sdClient] EXCEPT ![d] = blocks[d]]}
    BY <2>1, <2>2
  <2> QED BY <1>0, <1>4, <2>1, <2>2, <2>3 DEF ClientTypes
<1>7. CASE SendUnloadChunk
  <2>1. /\ UNCHANGED <<senderVars, blocks>> /\ tkClient \in Clients /\ tkChunk \in Coords
        /\ seen' = [seen EXCEPT ![tkClient] = [seen[tkClient] EXCEPT ![tkChunk] = None]]
        /\ raced' = raced \cup {<<k, tkChunk>> : k \in {q \in {tkClient} : InFlight(q, tkChunk)}}
    BY <1>0, <1>7 DEF SendUnloadChunk, TickTypes
  <2>2. ~(tkClient = sdClient /\ tkChunk = sdChunk)
    BY <1>3, <2>1
  <2>3. seen'[sdClient][sdChunk] = seen[sdClient][sdChunk]
    BY <1>0, <1>3, <2>1, <2>2 DEF ClientTypes
  <2> QED BY <1>4, <2>1, <2>3
<1>8. CASE UNCHANGED <<senderVars, blocks, seen>> /\ raced \subseteq raced'
    BY <1>4, <1>8
<1> QED
  <2>1. CASE PlayerSteps \/ StreamSteps \/ DataSteps
    BY <1>8, <2>1 DEF PlayerSteps, MovePlayer, CheckPlayerChunk, StreamSteps, AddChunkClient,
        ListChunk, SendChunkTo, DataSteps, SetChunkData, AnnounceChunk
  <2>2. CASE UnloadSteps
    BY <1>7, <1>8, <2>2 DEF UnloadSteps, ListOutOfRange, RemoveChunkClient, UnlistSent
  <2>3. CASE BlockSteps \/ \E d \in Coords : UnloadChunk(d) \/ MarkRegenerating(d)
    BY <1>5, <1>6, <1>8, <2>3 DEF BlockSteps, ForceSendChunkTo, UnloadChunk
  <2>4. CASE LightingSteps
    BY <1>8, <2>4 DEF LightingSteps, LightingChunkStayReady, TakeLightJob, ReadChunks,
        ChunkLighted, NotifyChunkSender
  <2> QED BY <1>1, <1>2, <1>8, <2>1, <2>2, <2>3, <2>4 DEF Next, vars

\* A client gets every change in the packets of changes, or as the chunk sent again.
LEMMA ShowsStep ==
    TypeOK /\ LoadedHeld /\ SeenInv /\ [Next]_vars => ShowsInv'
<1> SUFFICES ASSUME TypeOK, LoadedHeld, SeenInv, [Next]_vars,
                    NEW k \in Clients, NEW c \in Coords, <<k, c>> \notin raced',
                    c \in loaded'[k], c \in sent'[k], c \notin toSend'[k], ~InFlight(k, c)'
             PROVE  /\ seen'[k][c] # None
                    /\ ~pending'[c] \/ ~IsPresent(c)' => seen'[k][c] = blocks'[c]
    BY DEF ShowsInv, Shows
<1> DEFINE Goal == /\ seen'[k][c] # None
                   /\ ~pending'[c] \/ ~IsPresent(c)' => seen'[k][c] = blocks'[c]
<1> SUFFICES Goal
    OBVIOUS
<1> USE CoordsAssumption
<1>0. ChunkTypes /\ ClientTypes /\ SenderTypes /\ TickTypes
    BY DEF TypeOK
<1>1. <<k, c>> \notin raced /\ c \in loaded[k] /\ c \in sent[k] /\ c \notin toSend[k]
        /\ ~InFlight(k, c)
      => seen[k][c] # None /\ (~pending[c] \/ ~IsPresent(c) => seen[k][c] = blocks[c])
    BY DEF SeenInv, ShowsInv, Shows
<1>2. c \in loaded[k] => k \in loadedBy[c]
    BY DEF LoadedHeld
<1>3. ASSUME raced \subseteq raced', UNCHANGED <<seen, pending, blocks>>,
             IsPresent(c)' <=> IsPresent(c),
             c \in loaded[k], c \in sent[k], c \notin toSend[k], ~InFlight(k, c)
      PROVE  Goal
    BY <1>1, <1>3
(* The tick thread: players and their lists *)
<1>4. CASE PlayerSteps
    BY <1>3, <1>4 DEF PlayerSteps, MovePlayer, CheckPlayerChunk, IsPresent, InFlight
<1>5. ASSUME NEW q \in Clients, NEW d \in Coords, AddChunkClient(q, d) PROVE Goal
  <2>1. UNCHANGED <<pending, blocks, listVars, seen, senderVars, raced>>
    BY <1>5 DEF AddChunkClient
  <2>2. IsPresent(c)' <=> IsPresent(c)
    BY <1>0, <1>5 DEF AddChunkClient, ChunkTypes, IsPresent
  <2> QED BY <1>3, <2>1, <2>2 DEF InFlight
<1>6. CASE ListChunk
  <2>1. UNCHANGED <<chunkVars, sent, seen, senderVars, raced>>
    BY <1>6 DEF ListChunk
  <2>2. c \in loaded[k] /\ c \notin toSend[k]
    BY <1>0, <1>6 DEF ListChunk, ClientTypes
  <2> QED BY <1>3, <2>1, <2>2 DEF InFlight, IsPresent
<1>7. CASE SendChunkTo \/ AnnounceChunk \/ RemoveChunkClient
    BY <1>3, <1>7 DEF SendChunkTo, AnnounceChunk, RemoveChunkClient, InFlight, IsPresent
<1>8. ASSUME NEW q \in Clients, ListOutOfRange(q) PROVE Goal
  <2>1. UNCHANGED <<chunkVars, sent, seen, senderVars, raced>>
    BY <1>8 DEF ListOutOfRange
  <2>2. c \in loaded[k] /\ c \notin toSend[k]
    BY <1>0, <1>8 DEF ListOutOfRange, ClientTypes
  <2> QED BY <1>3, <2>1, <2>2 DEF InFlight, IsPresent
<1>9. CASE UnlistSent
  <2>1. UNCHANGED <<chunkVars, loaded, toSend, seen, senderVars>> /\ raced \subseteq raced'
    BY <1>9 DEF UnlistSent
  <2>2. c \in sent[k]
    BY <1>0, <1>9 DEF UnlistSent, ClientTypes
  <2> QED BY <1>3, <2>1, <2>2 DEF InFlight, IsPresent
<1>10. CASE SendUnloadChunk
  <2>1. /\ UNCHANGED <<chunkVars, listVars, senderVars>> /\ raced \subseteq raced'
        /\ tkPc = "unload" /\ tkClient \in Clients /\ tkChunk \in Coords
        /\ seen' = [seen EXCEPT ![tkClient] = [seen[tkClient] EXCEPT ![tkChunk] = None]]
    BY <1>0, <1>10 DEF SendUnloadChunk, TickTypes
  <2>2. ~(k = tkClient /\ c = tkChunk)
    BY <1>2, <2>1 DEF SeenInv, GoneInv
  <2>3. seen'[k][c] = seen[k][c]
    BY <1>0, <2>1, <2>2 DEF ClientTypes
  <2> QED BY <1>1, <2>1, <2>3 DEF InFlight, IsPresent
(* Chunks *)
<1>11. ASSUME NEW d \in Coords, SetChunkData(d) PROVE Goal
  <2>1. UNCHANGED <<blocks, listVars, seen, senderVars, raced>>
    BY <1>11 DEF SetChunkData
  <2>2. /\ c = d => ~IsPresent(c)
        /\ c # d => pending'[c] = pending[c] /\ presence'[c] = presence[c]
    BY <1>0, <1>11 DEF SetChunkData, ChunkTypes, IsPresent
  <2> QED BY <1>1, <2>1, <2>2 DEF InFlight, IsPresent
<1>12. ASSUME NEW d \in Coords, FastSetBlock(d) PROVE Goal
  <2>1. /\ UNCHANGED <<presence, listVars, seen, senderVars>> /\ raced \subseteq raced'
        /\ IsPresent(d)
    BY <1>12 DEF FastSetBlock
  <2>2. /\ c = d => pending'[c]
        /\ c # d => pending'[c] = pending[c] /\ blocks'[c] = blocks[c]
    BY <1>0, <1>12 DEF FastSetBlock, ChunkTypes
  <2> QED BY <1>1, <2>1, <2>2 DEF InFlight, IsPresent
<1>13. ASSUME NEW d \in Coords, BroadcastPendingChanges(d) PROVE Goal
  <2>1. /\ UNCHANGED <<presence, blocks, listVars, senderVars, raced>>
        /\ seen' = [q \in Clients |->
                       IF q \in loadedBy[d] /\ d \in sent[q] /\ seen[q][d] # None
                       THEN [seen[q] EXCEPT ![d] = blocks[d]] ELSE seen[q]]
        /\ pending' = [pending EXCEPT ![d] = FALSE]
    BY <1>13 DEF BroadcastPendingChanges, SendBlockChanges
  <2>2. /\ seen[k][c] # None
        /\ ~pending[c] \/ ~IsPresent(c) => seen[k][c] = blocks[c]
    BY <1>1, <2>1 DEF InFlight
  <2>3. CASE c = d
    <3>1. seen'[k] = [seen[k] EXCEPT ![c] = blocks[c]]
      BY <1>2, <2>1, <2>2, <2>3
    <3>2. seen'[k][c] = blocks[c] /\ blocks[c] # None
      BY <1>0, <3>1 DEF ClientTypes, ChunkTypes
    <3> QED BY <2>1, <3>2
  <2>4. CASE c # d
    <3>1. pending'[c] = pending[c]
      BY <1>0, <2>1, <2>4 DEF ChunkTypes
    <3>2. seen'[k] \in {seen[k], [seen[k] EXCEPT ![d] = blocks[d]]}
      BY <2>1
    <3>3. seen'[k][c] = seen[k][c]
      BY <1>0, <2>4, <3>2 DEF ClientTypes
    <3> QED BY <2>1, <2>2, <3>1, <3>3 DEF IsPresent
  <2> QED BY <2>3, <2>4
<1>14. ASSUME NEW d \in Coords, ForceSendChunkTo(d) PROVE Goal
  <2>1. UNCHANGED <<presence, loadedBy, blocks, loaded, sent, seen, senderVars, raced>>
    BY <1>14 DEF ForceSendChunkTo
  <2>2. c # d /\ c \notin toSend[k] /\ pending'[c] = pending[c]
    BY <1>0, <1>2, <1>14, <2>1 DEF ForceSendChunkTo, AddWantedChunk, ChunkTypes
  <2> QED BY <1>1, <2>1, <2>2 DEF InFlight, IsPresent
<1>15. ASSUME NEW d \in Coords, UnloadChunk(d) PROVE Goal
  <2>1. UNCHANGED <<loadedBy, blocks, listVars, seen, senderVars, raced>> /\ loadedBy[d] = {}
    BY <1>15 DEF UnloadChunk, CanUnload
  <2>2. c # d
    BY <1>2, <2>1
  <2>3. pending'[c] = pending[c] /\ presence'[c] = presence[c]
    BY <1>0, <1>15, <2>2 DEF UnloadChunk, ChunkTypes
  <2> QED BY <1>1, <2>1, <2>3 DEF InFlight, IsPresent
<1>16. ASSUME NEW d \in Coords, MarkRegenerating(d) PROVE Goal
  <2>1. /\ UNCHANGED <<loadedBy, pending, loaded, sent, seen, senderVars>>
        /\ raced \subseteq raced'
    BY <1>16 DEF MarkRegenerating
  <2>2. c # d /\ c \notin toSend[k]
    BY <1>2, <1>16, <2>1 DEF MarkRegenerating, AddWantedChunk
  <2>3. presence'[c] = presence[c] /\ blocks'[c] = blocks[c]
    BY <1>0, <1>16, <2>2 DEF MarkRegenerating, ChunkTypes
  <2> QED BY <1>1, <2>1, <2>2, <2>3 DEF InFlight, IsPresent
(* The sender *)
<1>17. CASE (\E d \in Coords : TakeChunk(d)) \/ WantsSendChunk \/ SenderHasClients
            \/ SenderIsValid \/ SenderGetData
  <2>1. UNCHANGED <<chunkVars, listVars, seen, raced>> /\ ~InFlight(k, c)
    BY <1>17 DEF TakeChunk, WantsSendChunk, SenderHasClients, SenderIsValid, SenderGetData,
        InFlight
  <2> QED BY <1>3, <2>1 DEF IsPresent
<1>18. CASE SenderIsLit
  <2>1. UNCHANGED <<pending, blocks, listVars, seen, raced>> /\ ~InFlight(k, c)
    BY <1>18 DEF SenderIsLit, InFlight
  <2>2. IsPresent(c)' <=> IsPresent(c)
    BY <1>0, <1>18 DEF SenderIsLit, ChunkTypes, IsPresent
  <2> QED BY <1>3, <2>1, <2>2
<1>19. CASE EraseWanted
  <2>1. UNCHANGED <<chunkVars, loaded, sent, seen, raced>> /\ sdPc = "next" /\ sdClient = None
    BY <1>0, <1>19 DEF EraseWanted, SenderTypes
  <2>2. PICK q \in sdClients :
          \/ /\ toSend' = [toSend EXCEPT ![q] = @ \ {sdChunk}]
             /\ sdPc' = "packet" /\ UNCHANGED <<sdChunk, sdClients>>
          \/ /\ sdChunk \notin toSend[q] /\ UNCHANGED toSend
             /\ IF sdClients = {q} THEN TRUE
                ELSE /\ sdClients' = sdClients \ {q}
                     /\ UNCHANGED <<sdPc, sdChunk>>
    BY <1>19 DEF EraseWanted
  <2>3. ~(k = q /\ c = sdChunk)
    <3>1. sdChunk \in loaded[q] => sdChunk \in toSend[q]
      BY <1>0, <2>1, <2>2 DEF SeenInv, WantedInv, SenderTypes
    <3> QED BY <2>1, <2>2, <3>1 DEF InFlight
  <2>4. c \notin toSend[k]
    BY <1>0, <2>2, <2>3 DEF ClientTypes
  <2>5. ~InFlight(k, c)
    BY <2>1, <2>2, <2>3 DEF InFlight
  <2> QED BY <1>3, <2>1, <2>4, <2>5 DEF IsPresent
<1>20. CASE SendChunkPacket
  <2>1. /\ UNCHANGED <<chunkVars, listVars, sdChunk, sdClients, raced>>
        /\ sdPc = "packet" /\ sdPc' = "listed"
        /\ sdClient \in sdClients /\ sdClient \in Clients /\ sdChunk \in Coords
        /\ seen' = [seen EXCEPT ![sdClient] = [seen[sdClient] EXCEPT ![sdChunk] = sdData]]
    BY <1>0, <1>20 DEF SendChunkPacket, SenderGoesTo, SenderTypes
  <2>2. ~(k = sdClient /\ c = sdChunk) /\ ~InFlight(k, c)
    BY <2>1 DEF InFlight
  <2>3. seen'[k][c] = seen[k][c]
    BY <1>0, <2>1, <2>2 DEF ClientTypes
  <2> QED BY <1>1, <2>1, <2>2, <2>3 DEF IsPresent
<1>21. CASE ListSent
  <2>1. /\ UNCHANGED <<chunkVars, loaded, toSend, seen, raced>> /\ sdPc = "listed"
        /\ sent' = [sent EXCEPT ![sdClient] = @ \cup {sdChunk}]
        /\ IF sdClients = {sdClient} THEN TRUE
           ELSE sdPc' = "next" /\ sdClients' = sdClients \ {sdClient} /\ sdChunk' = sdChunk
    BY <1>21 DEF ListSent
  <2>2. CASE k = sdClient /\ c = sdChunk
    <3>1. seen[k][c] = blocks[c]
      BY <2>1, <2>2 DEF SeenInv, PacketInv
    <3> QED BY <1>0, <2>1, <3>1 DEF ChunkTypes
  <2>3. CASE ~(k = sdClient /\ c = sdChunk)
    <3>1. c \in sent[k] /\ ~InFlight(k, c)
      BY <1>0, <2>1, <2>3 DEF ClientTypes, InFlight
    <3> QED BY <1>3, <2>1, <3>1 DEF IsPresent
  <2> QED BY <2>2, <2>3
<1>22. CASE LightingSteps \/ UNCHANGED vars
    BY <1>3, <1>22 DEF LightingSteps, LightingChunkStayReady, TakeLightJob, ReadChunks,
        ChunkLighted, NotifyChunkSender, vars, InFlight, IsPresent
<1> QED
  <2>1. CASE StreamSteps \/ DataSteps \/ UnloadSteps
    BY <2>1, <1>5, <1>6, <1>7, <1>8, <1>9, <1>10, <1>11 DEF StreamSteps, DataSteps, UnloadSteps
  <2>2. CASE BlockSteps \/ \E d \in Coords : UnloadChunk(d) \/ MarkRegenerating(d)
    BY <2>2, <1>12, <1>13, <1>14, <1>15, <1>16 DEF BlockSteps
  <2>3. CASE SenderSteps
    BY <2>3, <1>17, <1>18, <1>19, <1>20, <1>21 DEF SenderSteps
  <2> QED BY <1>4, <1>22, <2>1, <2>2, <2>3 DEF Next

\* Once nothing is pending and no copy is on its way, a client shows the blocks of every chunk
\* it has, in spite of all the changes, regenerations and unloadings in between, unless one of
\* them came while a copy was on its way.
THEOREM SeenUnlessRaced == Spec => []ClientSeesBlocksUnlessRaced
<1>1. ShowsInv => ClientSeesBlocksUnlessRaced
    BY DEF ShowsInv, Shows, ClientSeesBlocksUnlessRaced, UpToDate
<1>2. TypeOK /\ AgreeInv /\ SeenInv /\ [Next]_vars => SeenInv'
    BY WantedStep, GoneStep, CopiedStep, PacketStep, ShowsStep DEF SeenInv, AgreeInv
<1>3. SeenInv => ShowsInv
    BY DEF SeenInv
<1> QED BY <1>1, <1>2, <1>3, SeenInit, AgreeInit, AgreeStep, TypeCorrect, PTL DEF Spec

-----------------------------------------------------------------------------
(* What is to be lit is there *)

\* The chunks queued for lighting, and the one about to be read, are there.
LightInv ==
    \A c \in Coords \ regenerated :
        lightQueue[c] > 0 \/ (ltPc = "read" /\ ltChunk = c) => IsPresent(c)

LEMMA LightInit == Init => LightInv
BY DEF Init, LightInv

LEMMA LightStep == TypeOK /\ LightInv /\ [Next]_vars => LightInv'
<1> SUFFICES ASSUME TypeOK, LightInv, [Next]_vars, NEW c \in Coords, c \notin regenerated',
                    lightQueue'[c] > 0 \/ (ltPc' = "read" /\ ltChunk' = c)
             PROVE  IsPresent(c)'
    BY DEF LightInv
<1> USE CoordsAssumption DEF IsPresent
<1>0. ChunkTypes /\ LightTypes
    BY DEF TypeOK
<1>1. c \notin regenerated /\ (lightQueue[c] > 0 \/ (ltPc = "read" /\ ltChunk = c))
      => presence[c] = "cpPresent"
    BY DEF LightInv
<1>2. ASSUME NEW d \in Coords, LightingChunkStayReady(d) PROVE presence'[c] = "cpPresent"
    BY <1>0, <1>1, <1>2 DEF LightingChunkStayReady, LightTypes
<1>3. ASSUME NEW d \in Coords, TakeLightJob(d) PROVE presence'[c] = "cpPresent"
    BY <1>0, <1>1, <1>3 DEF TakeLightJob, LightTypes
<1>4. CASE ReadChunks \/ ChunkLighted \/ NotifyChunkSender
    BY <1>1, <1>4 DEF ReadChunks, ChunkLighted, NotifyChunkSender
<1>5. ASSUME NEW d \in Coords, UnloadChunk(d) PROVE presence'[c] = "cpPresent"
  <2>1. UNCHANGED <<regenerated, lightQueue, ltPc, ltChunk>> /\ ~Stayed(d)
    BY <1>5 DEF UnloadChunk, CanUnload
  <2>2. c # d
    BY <1>0, <2>1 DEF Stayed, LightTypes
  <2> QED BY <1>0, <1>1, <1>5, <2>1, <2>2 DEF UnloadChunk, ChunkTypes
<1>6. ASSUME NEW d \in Coords, MarkRegenerating(d) PROVE presence'[c] = "cpPresent"
    BY <1>0, <1>1, <1>6 DEF MarkRegenerating, ChunkTypes
<1>7. ASSUME NEW q \in Clients, NEW d \in Coords, AddChunkClient(q, d)
      PROVE  presence'[c] = "cpPresent"
    BY <1>0, <1>1, <1>7 DEF AddChunkClient, ChunkTypes
<1>8. ASSUME NEW d \in Coords, SetChunkData(d) PROVE presence'[c] = "cpPresent"
    BY <1>0, <1>1, <1>8 DEF SetChunkData, ChunkTypes
<1>9. CASE SenderIsLit
    BY <1>0, <1>1, <1>9 DEF SenderIsLit, ChunkTypes
<1>10. CASE UNCHANGED <<presence, regenerated, lightQueue, ltPc, ltChunk>>
    BY <1>1, <1>10
<1> QED
  <2>1. CASE PlayerSteps \/ BlockSteps \/ UNCHANGED vars
    BY <1>10, <2>1 DEF PlayerSteps, MovePlayer, CheckPlayerChunk, BlockSteps, FastSetBlock,
        BroadcastPendingChanges, ForceSendChunkTo, vars
  <2>2. CASE StreamSteps \/ DataSteps \/ UnloadSteps
    BY <1>7, <1>8, <1>10, <2>2 DEF StreamSteps, ListChunk, SendChunkTo, DataSteps, AnnounceChunk,
        UnloadSteps, ListOutOfRange, RemoveChunkClient, UnlistSent, SendUnloadChunk
  <2>3. CASE SenderSteps
    BY <1>9, <1>10, <2>3 DEF SenderSteps, TakeChunk, WantsSendChunk, SenderHasClients,
        SenderIsValid, SenderGetData, EraseWanted, SendChunkPacket, ListSent
  <2>4. CASE LightingSteps
    BY <1>2, <1>3, <1>4, <2>4 DEF LightingSteps
  <2> QED BY <1>5, <1>6, <2>1, <2>2, <2>3, <2>4 DEF Next

\* The chunk stay keeps what is queued for lighting until it is lit, so that the lighting
\* thread's VERIFY stands, but for chunks that are generated again.
THEOREM LightReadsUnlessRegenerated == Spec => []LightReadsPresentUnlessRegenerated
<1>1. TypeOK /\ LightInv => LightReadsPresentUnlessRegenerated
    BY DEF TypeOK, LightTypes, LightInv, LightReadsPresentUnlessRegenerated
<1> QED BY <1>1, LightInit, LightStep, TypeCorrect, PTL DEF Spec

=============================================================================
