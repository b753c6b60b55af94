--------------------------- MODULE WorldStopProofs ---------------------------
(***************************************************************************)
(* Theorems about WorldStop, for any number of chunks: types and locks, no *)
(* thread sleeps on work, and what was queued for saving is written, or    *)
(* refused, before the world has stopped.                                  *)
(***************************************************************************)
EXTENDS WorldStop, TLAPS

USE DEF eventVars, threadVars, lockVars, stayVars, saveVars, queueVars, Threads, Actors

-----------------------------------------------------------------------------
(* Types and locks *)

\* A thread that is at work has a chunk to work on.
ItemsAreChunks ==
    /\ at["light"] \in {"work", "disable"} => item["light"] \in Chunks
    /\ at["gen"] = "work" => item["gen"] \in Chunks
    /\ at["send"] \in {"work", "make", "enable", "queue"} => item["send"] \in Chunks
    /\ at["store"] = "write" => item["store"] \in unwritten

TypeInv == TypeOK /\ ItemsAreChunks

LEMMA TypeInit == Init => TypeInv
<1> SUFFICES ASSUME Init PROVE TypeInv
    OBVIOUS
<1>1. removed \in BOOLEAN /\ more \in BOOLEAN /\ broken \in BOOLEAN
    BY DEF Init
<1>2. at \in [Threads -> Places] /\ item \in [Threads -> Chunks \cup {None}]
    BY DEF Init, Places
<1>3. stays \in [Chunks -> StayStates] /\ stop \in Stops
    BY DEF Init, StayStates, Stops
<1>4. \A t \in Threads : at[t] \in {"test", "check"}
    BY DEF Init
<1>5. ItemsAreChunks
    BY <1>4 DEF ItemsAreChunks
<1> QED
    BY <1>1, <1>2, <1>3, <1>4, <1>5, StopAssumption DEF Init, TypeInv, TypeOK

LEMMA TypeTick ==
    ASSUME TypeInv, Tick
    PROVE  TypeInv'
<1> USE DEF TypeInv, TypeOK, ItemsAreChunks
<1>1. CASE EndTick
    BY <1>1 DEF EndTick, Test, Move, Places
<1>2. ASSUME NEW c \in Chunks, QueueSend(c) PROVE TypeInv'
    BY <1>2, StopAssumption DEF QueueSend, Request, Wake
<1>3. ASSUME NEW c \in Chunks, QueueSave(c) PROVE TypeInv'
    BY <1>3, StopAssumption DEF QueueSave, Request, Wake
<1>5. ASSUME NEW c \in Chunks, QueueLoad(c) PROVE TypeInv'
    BY <1>5, StopAssumption DEF QueueLoad, Request, Wake
<1>4. ASSUME NEW c \in Chunks, SetChunkData(c) PROVE TypeInv'
    BY <1>4 DEF SetChunkData, Wake, StayStates
<1> QED BY <1>1, <1>2, <1>3, <1>4, <1>5 DEF Tick

LEMMA TypeLight ==
    ASSUME TypeInv, Light
    PROVE  TypeInv'
<1> USE DEF TypeInv, TypeOK, ItemsAreChunks, Places, Move
<1>1. CASE CheckLight
    BY <1>1 DEF CheckLight
<1>2. CASE WaitLight
    BY <1>2 DEF WaitLight, Wait
<1>3. CASE TestLight
    BY <1>3 DEF TestLight, Test
<1>4. CASE TakeLight
    BY <1>4 DEF TakeLight, Take, Queued, StayStates
<1>5. CASE LightChunk
    BY <1>5 DEF LightChunk, Wake
<1>6. CASE DisableTaken
    BY <1>6 DEF DisableTaken, Take, StayStates
<1> QED BY <1>1, <1>2, <1>3, <1>4, <1>5, <1>6 DEF Light

LEMMA TypeGen ==
    ASSUME TypeInv, Gen
    PROVE  TypeInv'
<1> USE DEF TypeInv, TypeOK, ItemsAreChunks, Places, Move
<1>1. CASE CheckGen
    BY <1>1 DEF CheckGen, Take
<1>2. CASE WaitGen
    BY <1>2 DEF WaitGen, Test
<1>3. CASE Generate
    BY <1>3 DEF Generate, Take
<1> QED BY <1>1, <1>2, <1>3 DEF Gen

LEMMA TypeSend ==
    ASSUME TypeInv, Send
    PROVE  TypeInv'
<1> USE DEF TypeInv, TypeOK, ItemsAreChunks, Places, Move
<1>1. CASE TestSend
    BY <1>1 DEF TestSend, Test
<1>2. CASE WaitSend
    BY <1>2 DEF WaitSend, Wait
<1>3. CASE TakeSend
    BY <1>3 DEF TakeSend, Take
<1>4. CASE SendChunk
    BY <1>4 DEF SendChunk, Take
<1>5. CASE QueueChunk
    BY <1>5 DEF QueueChunk, StayStates
<1>6. CASE Enable
    BY <1>6 DEF Enable, StayStates, Wake
<1>7. CASE QueueChunkStay
    BY <1>7 DEF QueueChunkStay, StayStates, Wake
<1> QED BY <1>1, <1>2, <1>3, <1>4, <1>5, <1>6, <1>7 DEF Send

LEMMA TypeStore ==
    ASSUME TypeInv, Store
    PROVE  TypeInv'
<1> USE DEF TypeInv, TypeOK, ItemsAreChunks, Places, Move
<1>1. CASE TestStore
    <2>1. more' \in BOOLEAN
        BY <1>1 DEF TestStore
    <2> QED BY <1>1, <2>1 DEF TestStore, Test
<1>2. CASE WaitStore
    BY <1>2 DEF WaitStore, Wait
<1>3. CASE LoadOneChunk
    <2>1. waking' \in [Actors -> Threads \cup {None}] /\ event' \subseteq Threads
          /\ more' \in BOOLEAN
        BY <1>3 DEF LoadOneChunk, Wake
    <2> QED BY <1>3, <2>1 DEF LoadOneChunk
<1>4. CASE TakeSave
    <2>1. more' \in BOOLEAN /\ removed' \in BOOLEAN
        BY <1>4 DEF TakeSave
    <2> QED BY <1>4, <2>1 DEF TakeSave, Take
<1>5. CASE WriteChunk
    <2>1. (saves \cup refused)' \subseteq unwritten' /\ unwritten' \subseteq Chunks
        BY <1>5 DEF WriteChunk, Take
    <2> QED BY <1>5, <2>1 DEF WriteChunk, Take
<1> QED BY <1>1, <1>2, <1>3, <1>4, <1>5 DEF Store

LEMMA TypeStop ==
    ASSUME TypeInv, StopTick \/ GoOnStopping
    PROVE  TypeInv'
<1> USE DEF TypeInv, TypeOK, ItemsAreChunks, Stops, Goto
<1>1. CASE StopTick
    BY <1>1 DEF StopTick, Tell
<1>2. CASE LockLight
    BY <1>2 DEF LockLight
<1>3. ASSUME NEW c \in Chunks, DisableStay(c) PROVE TypeInv'
    BY <1>3 DEF DisableStay, StayStates
<1>4. CASE StopLight
    BY <1>4 DEF StopLight, Tell, Wake
<1>5. CASE StopGen
    BY <1>5 DEF StopGen, Tell, Wake
<1>6. CASE StopSend
    BY <1>6 DEF StopSend, Tell, Wake
<1>7. CASE ClearLoads
    BY <1>7 DEF ClearLoads
<1>8. CASE BlockTillEmpty
    BY <1>8 DEF BlockTillEmpty
<1>9. CASE StopStore
    BY <1>9 DEF StopStore, Tell, Wake
<1>10. CASE Stopped
    BY <1>10 DEF Stopped
<1> QED
    BY <1>1, <1>2, <1>3, <1>4, <1>5, <1>6, <1>7, <1>8, <1>9, <1>10 DEF GoOnStopping

LEMMA TypeStep == TypeInv /\ [Next]_vars => TypeInv'
<1> SUFFICES ASSUME TypeInv, [Next]_vars PROVE TypeInv'
    OBVIOUS
<1>1. CASE UNCHANGED vars
    BY <1>1 DEF vars, TypeInv, TypeOK, ItemsAreChunks
<1>2. ASSUME NEW a \in Actors, Set(a) PROVE TypeInv'
    BY <1>2 DEF Set, Free, TypeInv, TypeOK, ItemsAreChunks
<1> QED
    BY <1>1, <1>2, TypeTick, TypeLight, TypeGen, TypeSend, TypeStore, TypeStop DEF Next

\* At every moment the chunk map's lock is held over several steps by the chunk sender inside
\* AddChunkStay only, and the lighting thread's by cLightingThread::Stop only; a thread has
\* ended only if it was told to; every queue holds chunks.
THEOREM TypesAndLocks == Spec => []TypeOK
<1>1. Spec => []TypeInv
    BY TypeInit, TypeStep, PTL DEF Spec
<1>2. TypeInv => TypeOK
    BY DEF TypeInv
<1> QED BY <1>1, <1>2, PTL

-----------------------------------------------------------------------------
(* No lost wake-ups *)

\* A thread is told to end, or given work, and then woken, by an actor that does nothing else
\* in between; from then on it takes its event once only, and on the way on which it ends or
\* looks at its queue.  The sender and the storage look at their queues at the end of a round
\* and test m_ShouldTerminate before they wait: what is queued in between sets the event.  The
\* storage looks for a chunk to load first: one that is queued before it looks for one to save
\* is found in the next round, or sets the event.
LightWakes ==
    /\ "light" \in terminate /\ at["light"] \notin {"test", "ended"} => Woken("light")
    /\ at["light"] = "wait" /\ Queued # {} => Woken("light")
GenWakes == at["gen"] = "wait" /\ (gens # {} \/ "gen" \in terminate) => Woken("gen")
SendWakes ==
    /\ at["send"] = "wait" /\ "send" \in terminate => Woken("send")
    /\ at["send"] \in {"test", "wait"} /\ sends # {} => Woken("send")
StoreWakes ==
    /\ at["store"] = "wait" /\ "store" \in terminate => Woken("store")
    /\ at["store"] \in {"test", "wait"} /\ saves \cup loads # {} => Woken("store")
    /\ at["store"] = "save" /\ ~more /\ loads # {} => Woken("store")
StopWakes == stop = "drainWait" /\ saves = {} => removed

WakeInv == LightWakes /\ GenWakes /\ SendWakes /\ StoreWakes /\ StopWakes

LEMMA WakeInit == Init => WakeInv
BY DEF Init, WakeInv, LightWakes, GenWakes, SendWakes, StoreWakes, StopWakes, Queued

\* Who is woken stays so until it takes its event, and whoever wakes another does not give up
\* one it has yet to wake.
LEMMA WokenSame == UNCHANGED eventVars => \A t \in Threads : Woken(t)' = Woken(t)
BY DEF Woken

LEMMA WokenBy ==
    ASSUME TypeInv, NEW a \in Actors, NEW t \in Threads, Free(a), Wake(a, t)
    PROVE  Woken(t)' /\ \A u \in Threads : Woken(u) => Woken(u)'
BY StopAssumption DEF TypeInv, TypeOK, Woken, Wake, Free

LEMMA WokenButOne ==
    ASSUME NEW t, event' = event \ {t}, UNCHANGED waking
    PROVE  \A u \in Threads \ {t} : Woken(u)' = Woken(u)
BY DEF Woken

LEMMA WokenSet ==
    ASSUME TypeInv, NEW a \in Actors, Set(a)
    PROVE  \A t \in Threads : Woken(t) => Woken(t)'
BY DEF TypeInv, TypeOK, Woken, Set, Free

LEMMA WakeTick ==
    ASSUME TypeInv, WakeInv, Tick
    PROVE  WakeInv'
<1> USE DEF TypeInv, TypeOK, WakeInv, LightWakes, GenWakes, SendWakes, StoreWakes, StopWakes,
            Move, Take, Test, Queued
<1>0. Free("tick")
    BY DEF Tick
<1>1. CASE EndTick
    BY <1>1, WokenSame DEF EndTick
<1>2. ASSUME NEW c \in Chunks, QueueSend(c) PROVE WakeInv'
    <2>1. Wake("tick", "send")
        BY <1>2 DEF QueueSend, Request
    <2>2. Woken("send")' /\ \A u \in Threads : Woken(u) => Woken(u)'
        BY <1>0, <2>1, WokenBy
    <2> QED BY <1>2, <2>2 DEF QueueSend, Request
<1>3. ASSUME NEW c \in Chunks, QueueSave(c) PROVE WakeInv'
    <2>1. Wake("tick", "store")
        BY <1>3 DEF QueueSave, Request
    <2>2. Woken("store")' /\ \A u \in Threads : Woken(u) => Woken(u)'
        BY <1>0, <2>1, WokenBy
    <2> QED BY <1>3, <2>2 DEF QueueSave, Request
<1>4. ASSUME NEW c \in Chunks, QueueLoad(c) PROVE WakeInv'
    <2>1. Wake("tick", "store")
        BY <1>4 DEF QueueLoad, Request
    <2>2. Woken("store")' /\ \A u \in Threads : Woken(u) => Woken(u)'
        BY <1>0, <2>1, WokenBy
    <2> QED BY <1>4, <2>2 DEF QueueLoad, Request
<1>5. ASSUME NEW c \in Chunks, SetChunkData(c) PROVE WakeInv'
    <2>1. CASE Wake("tick", "light")
        <3>1. Woken("light")' /\ \A u \in Threads : Woken(u) => Woken(u)'
            BY <1>0, <2>1, WokenBy
        <3> QED BY <1>5, <3>1 DEF SetChunkData
    <2>2. CASE UNCHANGED <<stays, eventVars>>
        BY <1>5, <2>2, WokenSame DEF SetChunkData
    <2> QED BY <1>5, <2>1, <2>2 DEF SetChunkData
<1> HIDE DEF TypeInv, TypeOK, WakeInv
<1> QED
    BY <1>1, <1>2, <1>3, <1>4, <1>5 DEF Tick

LEMMA WakeLight ==
    ASSUME TypeInv, WakeInv, Light
    PROVE  WakeInv'
<1> USE DEF TypeInv, TypeOK, WakeInv, LightWakes, GenWakes, SendWakes, StoreWakes, StopWakes,
            Move, Take, Test, Queued
<1>0. Free("light")
    BY DEF Light
<1>1. CASE CheckLight
    BY <1>1, WokenSame DEF CheckLight
<1>2. CASE WaitLight
    BY <1>2, WokenButOne DEF WaitLight, Wait
<1>3. CASE TestLight
    BY <1>3, WokenSame DEF TestLight
<1>4. CASE TakeLight
    BY <1>4, WokenSame DEF TakeLight
<1>5. CASE LightChunk
    <2>1. Wake("light", "send")
        BY <1>5 DEF LightChunk
    <2>2. Woken("send")' /\ \A u \in Threads : Woken(u) => Woken(u)'
        BY <1>0, <2>1, WokenBy
    <2> QED BY <1>5, <2>2 DEF LightChunk
<1>6. CASE DisableTaken
    BY <1>6, WokenSame DEF DisableTaken
<1> HIDE DEF TypeInv, TypeOK, WakeInv
<1> QED
    BY <1>1, <1>2, <1>3, <1>4, <1>5, <1>6 DEF Light

LEMMA WakeGen ==
    ASSUME TypeInv, WakeInv, Gen
    PROVE  WakeInv'
<1> USE DEF TypeInv, TypeOK, WakeInv, LightWakes, GenWakes, SendWakes, StoreWakes, StopWakes,
            Move, Take, Test, Queued
<1>0. Free("gen")
    BY DEF Gen
<1>1. CASE CheckGen
    BY <1>1, WokenSame DEF CheckGen
<1>2. CASE WaitGen
    BY <1>2, WokenButOne DEF WaitGen, Wait
<1>3. CASE Generate
    BY <1>3, WokenSame DEF Generate
<1> HIDE DEF TypeInv, TypeOK, WakeInv
<1> QED
    BY <1>1, <1>2, <1>3 DEF Gen

LEMMA WakeSend ==
    ASSUME TypeInv, WakeInv, Send
    PROVE  WakeInv'
<1> USE DEF TypeInv, TypeOK, WakeInv, LightWakes, GenWakes, SendWakes, StoreWakes, StopWakes,
            Move, Take, Test, Queued
<1>0. Free("send")
    BY DEF Send
<1>1. CASE TestSend
    BY <1>1, WokenSame DEF TestSend
<1>2. CASE WaitSend
    BY <1>2, WokenButOne DEF WaitSend, Wait
<1>3. CASE TakeSend
    BY <1>3, WokenSame DEF TakeSend
<1>4. CASE SendChunk
    BY <1>4, WokenSame DEF SendChunk
<1>5. CASE QueueChunk
    BY <1>5, WokenSame DEF QueueChunk
<1>6. CASE Enable
    <2>1. CASE Wake("send", "store")
        <3>1. Woken("store")' /\ \A u \in Threads : Woken(u) => Woken(u)'
            BY <1>0, <2>1, WokenBy
        <3> QED BY <1>6, <3>1 DEF Enable
    <2>2. CASE UNCHANGED <<loads, eventVars>>
        BY <1>6, <2>2, WokenSame DEF Enable
    <2> QED BY <1>6, <2>1, <2>2 DEF Enable
<1>7. CASE QueueChunkStay
    <2>1. Wake("send", "light")
        BY <1>7 DEF QueueChunkStay
    <2>2. Woken("light")' /\ \A u \in Threads : Woken(u) => Woken(u)'
        BY <1>0, <2>1, WokenBy
    <2> QED BY <1>7, <2>2 DEF QueueChunkStay
<1> HIDE DEF TypeInv, TypeOK, WakeInv
<1> QED
    BY <1>1, <1>2, <1>3, <1>4, <1>5, <1>6, <1>7 DEF Send

LEMMA WakeStore ==
    ASSUME TypeInv, WakeInv, Store
    PROVE  WakeInv'
<1> USE DEF TypeInv, TypeOK, WakeInv, LightWakes, GenWakes, SendWakes, StoreWakes, StopWakes,
            Move, Take, Test, Queued
<1>0. Free("store")
    BY DEF Store
<1>1. CASE TestStore
    BY <1>1, WokenSame DEF TestStore
<1>2. CASE WaitStore
    BY <1>2, WokenButOne DEF WaitStore, Wait
<1>3. CASE LoadOneChunk
    <2>1. CASE Wake("store", "gen")
        <3>1. Woken("gen")' /\ \A u \in Threads : Woken(u) => Woken(u)'
            BY <1>0, <2>1, WokenBy
        <3> QED BY <1>3, <3>1 DEF LoadOneChunk
    <2>2. CASE UNCHANGED <<gens, eventVars>>
        BY <1>3, <2>2, WokenSame DEF LoadOneChunk
    <2> QED BY <1>3, <2>1, <2>2 DEF LoadOneChunk
<1>4. CASE TakeSave
    BY <1>4, WokenSame DEF TakeSave
<1>5. CASE WriteChunk
    BY <1>5, WokenSame DEF WriteChunk
<1> HIDE DEF TypeInv, TypeOK, WakeInv
<1> QED
    BY <1>1, <1>2, <1>3, <1>4, <1>5 DEF Store

\* The steps of cWorld::Stop.
LEMMA WakeStop ==
    ASSUME TypeInv, WakeInv, StopTick \/ GoOnStopping
    PROVE  WakeInv'
<1> USE DEF TypeInv, TypeOK, WakeInv, LightWakes, GenWakes, SendWakes, StoreWakes, StopWakes,
            Goto, Tell, Queued
<1>1. CASE StopTick
    BY <1>1, WokenSame DEF StopTick
<1>2. CASE LockLight
    BY <1>2, WokenSame DEF LockLight
<1>3. ASSUME NEW c \in Chunks, DisableStay(c) PROVE WakeInv'
    BY <1>3, WokenSame DEF DisableStay
<1>4. CASE Free("stop") /\ StopLight
    <2>1. Wake("stop", "light")
        BY <1>4 DEF StopLight
    <2>2. Woken("light")' /\ \A u \in Threads : Woken(u) => Woken(u)'
        BY <1>4, <2>1, WokenBy
    <2> QED BY <1>4, <2>2 DEF StopLight
<1>5. CASE Free("stop") /\ StopGen
    <2>1. Wake("stop", "gen")
        BY <1>5 DEF StopGen
    <2>2. Woken("gen")' /\ \A u \in Threads : Woken(u) => Woken(u)'
        BY <1>5, <2>1, WokenBy
    <2> QED BY <1>5, <2>2 DEF StopGen
<1>6. CASE Free("stop") /\ StopSend
    <2>1. Wake("stop", "send")
        BY <1>6 DEF StopSend
    <2>2. Woken("send")' /\ \A u \in Threads : Woken(u) => Woken(u)'
        BY <1>6, <2>1, WokenBy
    <2> QED BY <1>6, <2>2 DEF StopSend
<1>7. CASE ClearLoads
    BY <1>7, WokenSame DEF ClearLoads
<1>8. CASE BlockTillEmpty
    BY <1>8, WokenSame DEF BlockTillEmpty
<1>9. CASE Free("stop") /\ StopStore
    <2>1. Wake("stop", "store")
        BY <1>9 DEF StopStore
    <2>2. Woken("store")' /\ \A u \in Threads : Woken(u) => Woken(u)'
        BY <1>9, <2>1, WokenBy
    <2> QED BY <1>9, <2>2 DEF StopStore
<1>10. CASE Stopped
    BY <1>10, WokenSame DEF Stopped
<1> HIDE DEF TypeInv, TypeOK, WakeInv
<1> QED
    BY <1>1, <1>2, <1>3, <1>4, <1>5, <1>6, <1>7, <1>8, <1>9, <1>10 DEF GoOnStopping

LEMMA WakeStep == TypeInv /\ WakeInv /\ [Next]_vars => WakeInv'
<1> SUFFICES ASSUME TypeInv, WakeInv, [Next]_vars PROVE WakeInv'
    OBVIOUS
<1>1. CASE UNCHANGED vars
    BY <1>1 DEF vars, WakeInv, LightWakes, GenWakes, SendWakes, StoreWakes, StopWakes, Queued,
                Woken
<1>2. ASSUME NEW a \in Actors, Set(a) PROVE WakeInv'
    <2>1. UNCHANGED <<at, terminate, stop, stays, sends, loads, saves, gens, more, removed>>
        BY <1>2 DEF Set
    <2>2. \A t \in Threads : Woken(t) => Woken(t)'
        BY <1>2, WokenSet
    <2> QED
        BY <2>1, <2>2 DEF WakeInv, LightWakes, GenWakes, SendWakes, StoreWakes, StopWakes, Queued
<1> QED BY <1>1, <1>2, WakeTick, WakeLight, WakeGen, WakeSend, WakeStore, WakeStop DEF Next

\* Whatever the threads ask of each other and whenever the world is stopped, none of them, nor
\* the one that stops it, waits for an event that nobody has set or is about to set, while
\* there is work for it or it is told to end; although whoever gives it the work sets the event
\* in a step of its own.
THEOREM WakeUpsKept == Spec => []NoLostWakeUp
<1>1. Spec => [](TypeInv /\ WakeInv)
    BY TypeInit, TypeStep, WakeInit, WakeStep, PTL DEF Spec
<1>2. WakeInv => NoLostWakeUp
    BY DEF WakeInv, LightWakes, GenWakes, SendWakes, StoreWakes, StopWakes, NoLostWakeUp
<1> QED BY <1>1, <1>2, PTL

-----------------------------------------------------------------------------
(* What was queued for saving is written *)

\* A chunk not yet written is in the queue, or the storage thread is writing it, or has refused
\* to.
UnwrittenFollows ==
    \A c \in unwritten :
        c \in saves \/ c \in refused \/ (at["store"] = "write" /\ item["store"] = c)

\* cWorld::Stop goes on from the tick thread only when that has ended, and nothing else queues
\* chunks for saving: once the save queue is empty it stays so, and then the storage thread ends.
StopFollows ==
    /\ stop \notin {"run", "tick"} => at["tick"] = "ended"
    /\ stop \in {"store", "stopped"} => saves = {}
    /\ stop = "stopped" => at["store"] = "ended"

SavesInv == UnwrittenFollows /\ StopFollows

LEMMA SavesInit == Init => SavesInv
BY DEF Init, SavesInv, UnwrittenFollows, StopFollows

\* The steps of the threads that work.
LEMMA SavesThreads ==
    ASSUME TypeInv, SavesInv, Tick \/ Light \/ Gen \/ Send \/ Store
    PROVE  SavesInv'
<1> USE DEF TypeInv, TypeOK, SavesInv, UnwrittenFollows, StopFollows, Move, Take, Test, Wait, Wake
<1>1. CASE EndTick
    BY <1>1 DEF EndTick
<1>2. ASSUME NEW c \in Chunks, QueueSend(c) PROVE SavesInv'
    BY <1>2 DEF QueueSend, Request
<1>3. ASSUME NEW c \in Chunks, QueueSave(c) PROVE SavesInv'
    BY <1>3 DEF QueueSave, Request
<1>26. ASSUME NEW c \in Chunks, QueueLoad(c) PROVE SavesInv'
    BY <1>26 DEF QueueLoad, Request
<1>4. ASSUME NEW c \in Chunks, SetChunkData(c) PROVE SavesInv'
    BY <1>4 DEF SetChunkData
<1>5. CASE CheckLight
    BY <1>5 DEF CheckLight
<1>6. CASE WaitLight
    BY <1>6 DEF WaitLight
<1>7. CASE TestLight
    BY <1>7 DEF TestLight
<1>8. CASE TakeLight
    BY <1>8 DEF TakeLight
<1>9. CASE LightChunk
    BY <1>9 DEF LightChunk
<1>10. CASE DisableTaken
    BY <1>10 DEF DisableTaken
<1>11. CASE CheckGen
    BY <1>11 DEF CheckGen
<1>12. CASE WaitGen
    BY <1>12 DEF WaitGen
<1>13. CASE Generate
    BY <1>13 DEF Generate
<1>14. CASE TestSend
    BY <1>14 DEF TestSend
<1>15. CASE WaitSend
    BY <1>15 DEF WaitSend
<1>16. CASE TakeSend
    BY <1>16 DEF TakeSend
<1>17. CASE SendChunk
    BY <1>17 DEF SendChunk
<1>18. CASE QueueChunk
    BY <1>18 DEF QueueChunk
<1>19. CASE Enable
    BY <1>19 DEF Enable
<1>20. CASE QueueChunkStay
    BY <1>20 DEF QueueChunkStay
<1>21. CASE TestStore
    BY <1>21 DEF TestStore
<1>22. CASE WaitStore
    BY <1>22 DEF WaitStore
<1>23. CASE LoadOneChunk
    BY <1>23 DEF LoadOneChunk
<1>24. CASE TakeSave
    BY <1>24 DEF TakeSave
<1>25. CASE WriteChunk
    BY <1>25 DEF WriteChunk
<1> HIDE DEF TypeInv, TypeOK, SavesInv
<1> QED
    BY <1>1, <1>2, <1>3, <1>4, <1>5, <1>6, <1>7, <1>8, <1>9, <1>10, <1>11, <1>12, <1>13, <1>14,
       <1>15, <1>16, <1>17, <1>18, <1>19, <1>20, <1>21, <1>22, <1>23, <1>24, <1>25, <1>26
    DEF Tick, Light, Gen, Send, Store

\* The steps of cWorld::Stop, none of which touches the save queue or the tick thread.
LEMMA SavesStop ==
    ASSUME TypeInv, SavesInv, StopTick \/ GoOnStopping
    PROVE  SavesInv'
<1> USE DEF TypeInv, TypeOK, SavesInv, UnwrittenFollows, StopFollows, Goto
<1>1. CASE StopTick
    BY <1>1 DEF StopTick
<1>2. CASE LockLight
    BY <1>2 DEF LockLight
<1>3. ASSUME NEW c \in Chunks, DisableStay(c) PROVE SavesInv'
    BY <1>3 DEF DisableStay
<1>4. CASE StopLight
    BY <1>4 DEF StopLight
<1>5. CASE StopGen
    BY <1>5 DEF StopGen
<1>6. CASE StopSend
    BY <1>6 DEF StopSend
<1>7. CASE ClearLoads
    BY <1>7 DEF ClearLoads
<1>8. CASE BlockTillEmpty
    BY <1>8 DEF BlockTillEmpty
<1>9. CASE StopStore
    BY <1>9 DEF StopStore
<1>10. CASE Stopped
    BY <1>10 DEF Stopped
<1> HIDE DEF TypeInv, TypeOK, SavesInv
<1> QED
    BY <1>1, <1>2, <1>3, <1>4, <1>5, <1>6, <1>7, <1>8, <1>9, <1>10 DEF GoOnStopping

LEMMA SavesStep == TypeInv /\ SavesInv /\ [Next]_vars => SavesInv'
<1> SUFFICES ASSUME TypeInv, SavesInv, [Next]_vars PROVE SavesInv'
    OBVIOUS
<1>1. CASE UNCHANGED vars
    BY <1>1 DEF vars, SavesInv, UnwrittenFollows, StopFollows
<1>2. ASSUME NEW a \in Actors, Set(a) PROVE SavesInv'
    BY <1>2 DEF Set, SavesInv, UnwrittenFollows, StopFollows
<1> QED BY <1>1, <1>2, SavesThreads, SavesStop DEF Next

\* However many chunks SaveAllChunks has queued, and wherever the storage thread is when the
\* world is stopped, cWorld::Stop does not end before each of them is written, the last one
\* too, or was refused after it was queued for the last time.
THEOREM AllWritten == Spec => []SavesAreWrittenUnlessRefused
<1>1. Spec => [](TypeInv /\ SavesInv)
    BY TypeInit, TypeStep, SavesInit, SavesStep, PTL DEF Spec
<1>2. SavesInv => SavesAreWrittenUnlessRefused
    BY DEF SavesInv, UnwrittenFollows, StopFollows, SavesAreWrittenUnlessRefused
<1> QED BY <1>1, <1>2, PTL
=============================================================================
