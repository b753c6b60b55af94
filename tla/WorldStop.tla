------------------------------ MODULE WorldStop ------------------------------
(***************************************************************************)
(* The threads of a world, their queues and events, and cWorld::Stop,      *)
(* which ends them one after the other: the tick thread, the lighting      *)
(* thread, the generator, the chunk sender, the storage.                   *)
(*                                                                         *)
(* A cEvent is a flag: Wait waits until it is set and resets it.  Whoever  *)
(* puts something into a queue, or tells a thread to end, sets the event   *)
(* in a step of its own, when the queue's lock is free again.  Of the      *)
(* locks, the chunk map's (m_CSChunks) and the lighting thread's (m_CS)    *)
(* are variables, because there is code that takes the one while it holds  *)
(* the other; the steps that need a lock for themselves only are atomic.   *)
(*                                                                         *)
(* A chunk stay has the name of the chunk it is to light.                  *)
(***************************************************************************)
EXTENDS Naturals, FiniteSets

CONSTANTS
    Chunks,
    None,
    MaxRequests         \* bound: what the tick thread asks of the others

Threads == {"tick", "light", "gen", "send", "store"}
Actors == Threads \cup {"stop"}     \* and the one that stops the world

ASSUME StopAssumption == None \notin Chunks \cup Threads /\ MaxRequests \in Nat

VARIABLES
    at,                 \* where each thread is; "ended" when it has returned
    item,               \* what it is working on
    event,              \* the threads whose event is set
    waking,             \* the thread whose event an actor is about to set
    terminate,          \* the threads whose m_ShouldTerminate is set
    stop,               \* where cWorld::Stop is
    removed,            \* m_evtRemoved of the save queue
    chunksLock, lightLock,  \* who holds the lock over several steps
    stays,              \* the chunk stays, by state
    around,             \* chunks that are there with all their neighbours
    arrived,            \* chunks in m_SetChunkDataQueue
    lit,                \* chunks with valid light
    sends, loads, saves, gens,  \* the queues of the sender, the storage, the generator
    more,               \* Success in the storage's loop
    unwritten,          \* history: chunks queued for saving since they were last written
    refused,            \* history: of these, the ones that were not valid, or not saved
    requests,           \* calls counted against MaxRequests
    broken              \* a chunk stay was disabled, and deleted, before it was enabled

eventVars  == <<event, waking>>
threadVars == <<at, item, eventVars, terminate, stop>>
lockVars   == <<chunksLock, lightLock>>
stayVars   == <<stays, around, arrived, lit>>
saveVars   == <<saves, unwritten, refused>>
queueVars  == <<sends, loads, saveVars, gens, more, requests, removed>>
vars == <<threadVars, lockVars, stayVars, queueVars, broken>>

Places == {"check", "wait", "test", "take", "work", "disable", "make", "enable", "queue",
           "loop", "load", "save", "write", "ended"}
Stops == {"run", "tick", "stays", "light", "gen", "send", "drain", "drainWait", "store",
          "stopped"}

\* A stay is made and put into m_PendingQueue; is enabled; is moved to m_Queue; is taken
\* by the lighting thread.
StayStates == {"none", "made", "enabled", "queued", "taken"}
Pending == {c \in Chunks : stays[c] \in {"made", "enabled"}}
Queued  == {c \in Chunks : stays[c] = "queued"}

-----------------------------------------------------------------------------
Init ==
    /\ at = [t \in Threads |-> IF t \in {"send", "store"} THEN "test" ELSE "check"]
    /\ item = [t \in Threads |-> None]
    /\ event = {} /\ waking = [a \in Actors |-> None]
    /\ terminate = {} /\ stop = "run" /\ removed = FALSE
    /\ chunksLock = None /\ lightLock = None
    /\ stays = [c \in Chunks |-> "none"] /\ around \in SUBSET Chunks
    /\ arrived = {} /\ lit = {}
    /\ sends = {} /\ loads = {} /\ saves = {} /\ gens = {}
    /\ more = FALSE /\ unwritten = {} /\ refused = {} /\ requests = 0 /\ broken = FALSE

\* Thread t goes from p to q.
Move(t, p, q) == at[t] = p /\ at' = [at EXCEPT ![t] = q]
Take(t, p, q, c) == Move(t, p, q) /\ item' = [item EXCEPT ![t] = c]

\* cEvent::Wait
Wait(t, p, q) == t \in event /\ Move(t, p, q) /\ event' = event \ {t} /\ UNCHANGED waking

\* Actor a goes on to wake thread t, and does nothing else before it has.
Wake(a, t) == waking' = [waking EXCEPT ![a] = t] /\ UNCHANGED event
Free(a) == waking[a] = None

\* cEvent::Set
Set(a) ==
    /\ ~Free(a)
    /\ event' = event \cup {waking[a]} /\ waking' = [waking EXCEPT ![a] = None]
    /\ UNCHANGED <<at, item, terminate, stop, lockVars, stayVars, queueVars, broken>>

\* cIsThread: the test of m_ShouldTerminate, after which the thread returns.
Test(t, p, q) == Move(t, p, IF t \in terminate THEN "ended" ELSE q)

-----------------------------------------------------------------------------
(* The tick thread *)

\* Neither there nor on its way: cpInvalid, which GetChunk makes cpQueued.
Absent(c) == c \notin around \cup arrived \cup loads \cup gens \cup {item["gen"]}

Request == at["tick"] = "check" /\ requests < MaxRequests /\ requests' = requests + 1

\* Mutant: the event is not set.
QueueSendSilently(c) ==
    /\ Request
    /\ sends' = sends \cup {c}
    /\ UNCHANGED <<at, item, eventVars, terminate, stop, lockVars, stayVars>>
    /\ UNCHANGED <<loads, saveVars, gens, more, removed, broken>>

\* StreamNextChunks: QueueSendChunkTo.
QueueSend(c) ==
    /\ Request
    /\ sends' = sends \cup {c} /\ Wake("tick", "send")
    /\ UNCHANGED <<at, item, terminate, stop, lockVars, stayVars>>
    /\ UNCHANGED <<loads, saveVars, gens, more, removed, broken>>

\* SaveAllChunks: QueueSaveChunk.
QueueSave(c) ==
    /\ Request /\ chunksLock = None
    /\ saves' = saves \cup {c} /\ Wake("tick", "store")
    /\ unwritten' = unwritten \cup {c} /\ refused' = refused \ {c}
    /\ UNCHANGED <<at, item, terminate, stop, lockVars, stayVars>>
    /\ UNCHANGED <<sends, loads, gens, more, removed, broken>>

\* Mutant: the event is not set.
QueueLoadSilently(c) ==
    /\ Request /\ Absent(c) /\ chunksLock = None
    /\ loads' = loads \cup {c}
    /\ UNCHANGED <<at, item, eventVars, terminate, stop, lockVars, stayVars>>
    /\ UNCHANGED <<sends, saveVars, gens, more, removed, broken>>

\* Whatever asks for a chunk that is not there: GetChunk, QueueLoadChunk.
QueueLoad(c) ==
    /\ Request /\ Absent(c) /\ chunksLock = None
    /\ loads' = loads \cup {c} /\ Wake("tick", "store")
    /\ UNCHANGED <<at, item, terminate, stop, lockVars, stayVars>>
    /\ UNCHANGED <<sends, saveVars, gens, more, removed, broken>>

\* TickQueuedChunkDataSets: a chunk with its neighbours is there, the stay that waits for
\* it is told, which moves it from m_PendingQueue to m_Queue.
SetChunkData(c) ==
    /\ at["tick"] = "check" /\ c \in arrived /\ chunksLock = None /\ lightLock = None
    /\ arrived' = arrived \ {c} /\ around' = around \cup {c}
    /\ IF stays[c] = "enabled"
       THEN stays' = [stays EXCEPT ![c] = "queued"] /\ Wake("tick", "light")
       ELSE UNCHANGED <<stays, eventVars>>
    /\ UNCHANGED <<at, item, terminate, stop, lockVars, lit, queueVars, broken>>

EndTick ==
    /\ "tick" \in terminate /\ Test("tick", "check", "check")
    /\ UNCHANGED <<item, eventVars, terminate, stop, lockVars, stayVars, queueVars, broken>>

Tick ==
    /\ Free("tick")
    /\ \/ EndTick
       \/ \E c \in Chunks : QueueSend(c) \/ QueueSave(c) \/ QueueLoad(c) \/ SetChunkData(c)

-----------------------------------------------------------------------------
(* The lighting thread: cLightingThread::Execute *)

CheckLight ==
    /\ lightLock = None
    /\ Move("light", "check", IF Queued = {} THEN "wait" ELSE "test")
    /\ UNCHANGED <<item, eventVars, terminate, stop, lockVars, stayVars, queueVars, broken>>

WaitLight ==
    /\ Wait("light", "wait", "test")
    /\ UNCHANGED <<item, terminate, stop, lockVars, stayVars, queueVars, broken>>

TestLight ==
    /\ Test("light", "test", "take")
    /\ UNCHANGED <<item, eventVars, terminate, stop, lockVars, stayVars, queueVars, broken>>

TakeLight ==
    /\ lightLock = None
    /\ \/ /\ Queued = {} /\ Move("light", "take", "check")
          /\ UNCHANGED <<item, stays>>
       \/ \E c \in Queued :
              /\ Take("light", "take", "work", c)
              /\ stays' = [stays EXCEPT ![c] = "taken"]
    /\ UNCHANGED <<eventVars, terminate, stop, lockVars, around, arrived, lit, queueVars, broken>>

\* LightChunk, and the callback: cNotifyChunkSender has the chunk sent again.
LightChunk ==
    /\ chunksLock = None
    /\ Move("light", "work", "disable")
    /\ lit' = lit \cup {item["light"]}
    /\ sends' = sends \cup {item["light"]} /\ Wake("light", "send")
    /\ UNCHANGED <<item, terminate, stop, lockVars, stays, around, arrived>>
    /\ UNCHANGED <<loads, saveVars, gens, more, requests, removed, broken>>

DisableTaken ==
    /\ chunksLock = None
    /\ Take("light", "disable", "check", None)
    /\ stays' = [stays EXCEPT ![item["light"]] = "none"]
    /\ UNCHANGED <<eventVars, terminate, stop, lockVars, around, arrived, lit, queueVars, broken>>

Light ==
    /\ Free("light")
    /\ CheckLight \/ WaitLight \/ TestLight \/ TakeLight \/ LightChunk \/ DisableTaken

-----------------------------------------------------------------------------
(* The generator: cChunkGeneratorThread::Execute *)

CheckGen ==
    /\ \/ "gen" \in terminate /\ Move("gen", "check", "ended") /\ UNCHANGED <<item, gens>>
       \/ /\ "gen" \notin terminate
          /\ \/ gens = {} /\ Move("gen", "check", "wait") /\ UNCHANGED <<item, gens>>
             \/ \E c \in gens : Take("gen", "check", "work", c) /\ gens' = gens \ {c}
    /\ UNCHANGED <<eventVars, terminate, stop, lockVars, stayVars>>
    /\ UNCHANGED <<sends, loads, saveVars, more, requests, removed, broken>>

WaitGen ==
    /\ "gen" \in event /\ event' = event \ {"gen"} /\ UNCHANGED waking
    /\ Test("gen", "wait", "check")
    /\ UNCHANGED <<item, terminate, stop, lockVars, stayVars, queueVars, broken>>

Generate ==
    /\ chunksLock = None
    /\ Take("gen", "work", "check", None)
    /\ arrived' = arrived \cup {item["gen"]}
    /\ UNCHANGED <<eventVars, terminate, stop, lockVars, stays, around, lit, queueVars, broken>>

Gen == Free("gen") /\ (CheckGen \/ WaitGen \/ Generate)

-----------------------------------------------------------------------------
(* The chunk sender: cChunkSender::Execute, which empties its queue before it ends *)

TestSend ==
    /\ Test("send", "test", "wait")
    /\ UNCHANGED <<item, eventVars, terminate, stop, lockVars, stayVars, queueVars, broken>>

WaitSend ==
    /\ Wait("send", "wait", "take")
    /\ UNCHANGED <<item, terminate, stop, lockVars, stayVars, queueVars, broken>>

TakeSend ==
    /\ \/ sends = {} /\ Move("send", "take", "test") /\ UNCHANGED <<item, sends>>
       \/ \E c \in sends : Take("send", "take", "work", c) /\ sends' = sends \ {c}
    /\ UNCHANGED <<eventVars, terminate, stop, lockVars, stayVars>>
    /\ UNCHANGED <<loads, saveVars, gens, more, requests, removed, broken>>

\* SendChunk sends the chunk, or finds that nobody wants it; or has it lighted first.
SendChunk ==
    /\ chunksLock = None
    /\ \/ Take("send", "work", "take", None)
       \/ /\ Move("send", "work", "make") /\ UNCHANGED item
          /\ item["send"] \notin lit /\ stays[item["send"]] = "none"
    /\ UNCHANGED <<eventVars, terminate, stop, lockVars, stayVars, queueVars, broken>>

\* cLightingThread::QueueChunk: the stay goes into m_PendingQueue ...
QueueChunk ==
    /\ lightLock = None
    /\ Move("send", "make", "enable")
    /\ stays' = [stays EXCEPT ![item["send"]] = "made"]
    /\ UNCHANGED <<item, eventVars, terminate, stop, lockVars, around, arrived, lit>>
    /\ UNCHANGED <<queueVars, broken>>

\* ... and is enabled: AddChunkStay takes the chunk map's lock, and keeps it if all chunks
\* are there already and the stay is to be queued.  The others are loaded, if they are not
\* being loaded or generated.
Enable ==
    /\ at["send"] = "enable" /\ chunksLock = None
    /\ LET c == item["send"]
       IN  /\ stays' = [stays EXCEPT ![c] = "enabled"]
           /\ IF c \in around
              THEN /\ Move("send", "enable", "queue") /\ chunksLock' = "send"
                   /\ UNCHANGED <<loads, eventVars>>
              ELSE /\ Move("send", "enable", "take") /\ UNCHANGED chunksLock
                   /\ IF Absent(c) THEN loads' = loads \cup {c} /\ Wake("send", "store")
                                   ELSE UNCHANGED <<loads, eventVars>>
    /\ UNCHANGED <<item, terminate, stop, lightLock, around, arrived, lit, broken>>
    /\ UNCHANGED <<sends, saveVars, gens, more, requests, removed>>

\* QueueChunkStay, within AddChunkStay: the lighting thread's lock under the chunk map's.
QueueChunkStay ==
    /\ lightLock = None
    /\ Move("send", "queue", "take") /\ chunksLock' = None /\ Wake("send", "light")
    /\ stays' = [stays EXCEPT ![item["send"]] = "queued"]
    /\ UNCHANGED <<item, terminate, stop, lightLock, around, arrived, lit, queueVars, broken>>

Send ==
    /\ Free("send")
    /\ \/ TestSend \/ WaitSend \/ TakeSend \/ SendChunk
       \/ QueueChunk \/ Enable \/ QueueChunkStay

-----------------------------------------------------------------------------
(* The storage: cWorldStorage::Execute, one load and one save at a time *)

TestStore ==
    /\ \/ Test("store", "test", "wait") /\ UNCHANGED more
       \/ Test("store", "loop", "load") /\ more' = FALSE
    /\ UNCHANGED <<item, eventVars, terminate, stop, lockVars, stayVars, broken>>
    /\ UNCHANGED <<sends, loads, saveVars, gens, requests, removed>>

WaitStore ==
    /\ Wait("store", "wait", "loop")
    /\ UNCHANGED <<item, terminate, stop, lockVars, stayVars, queueVars, broken>>

\* LoadOneChunk; what is not stored is generated.
LoadOneChunk ==
    /\ chunksLock = None
    /\ Move("store", "load", "save")
    /\ \/ loads = {} /\ UNCHANGED <<loads, more, arrived, gens, eventVars>>
       \/ \E c \in loads :
              /\ loads' = loads \ {c} /\ more' = TRUE
              /\ \/ arrived' = arrived \cup {c} /\ UNCHANGED <<gens, eventVars>>
                 \/ gens' = gens \cup {c} /\ Wake("store", "gen") /\ UNCHANGED arrived
    /\ UNCHANGED <<item, terminate, stop, lockVars, stays, around, lit, broken>>
    /\ UNCHANGED <<sends, saveVars, requests, removed>>

\* SaveOneChunk takes a chunk from the queue ...
TakeSave ==
    /\ \/ /\ saves = {} /\ Move("store", "save", IF more THEN "loop" ELSE "test")
          /\ UNCHANGED <<item, saves, removed, more>>
       \/ \E c \in saves :
              /\ Take("store", "save", "write", c)
              /\ saves' = saves \ {c} /\ removed' = TRUE /\ more' = TRUE
    /\ UNCHANGED <<eventVars, terminate, stop, lockVars, stayVars, broken>>
    /\ UNCHANGED <<sends, loads, gens, unwritten, refused, requests>>

\* ... and writes it, if it is still valid and the schema does not fail; if not, nobody
\* tries again.  It may have been queued once more meanwhile.
WriteChunk ==
    /\ chunksLock = None
    /\ Take("store", "write", "loop", None)
    /\ LET done == {item["store"]} \ saves
       IN  \/ unwritten' = unwritten \ done /\ refused' = refused \ done
           \/ refused' = refused \cup done /\ UNCHANGED unwritten
    /\ UNCHANGED <<eventVars, terminate, stop, lockVars, stayVars, broken>>
    /\ UNCHANGED <<sends, loads, saves, gens, more, requests, removed>>

Store ==
    /\ Free("store")
    /\ TestStore \/ WaitStore \/ LoadOneChunk \/ TakeSave \/ WriteChunk

-----------------------------------------------------------------------------
(* cWorld::Stop *)

Goto(p, q) == stop = p /\ stop' = q
Tell(t) == terminate' = terminate \cup {t}

\* m_TickThread.Stop, which has no event to set.
StopTick ==
    /\ Goto("run", "tick") /\ Tell("tick")
    /\ UNCHANGED <<at, item, eventVars, lockVars, stayVars, queueVars, broken>>

\* m_Lighting.Stop, after the tick thread has ended: all stays that are not being worked on
\* are disabled and deleted under the lighting thread's lock.
LockLight ==
    /\ at["tick"] = "ended" /\ lightLock = None
    /\ Goto("tick", "stays") /\ lightLock' = "stop"
    /\ UNCHANGED <<at, item, eventVars, terminate, chunksLock, stayVars, queueVars, broken>>

DisableStay(c) ==
    /\ stop = "stays" /\ c \in Pending \cup Queued
    /\ IF stays[c] = "made"
       THEN broken' = TRUE
       ELSE chunksLock = None /\ UNCHANGED broken
    /\ stays' = [stays EXCEPT ![c] = "none"]
    /\ UNCHANGED <<threadVars, lockVars, around, arrived, lit, queueVars>>

StopLight ==
    /\ Goto("stays", "light") /\ Pending \cup Queued = {}
    /\ lightLock' = None /\ Tell("light") /\ Wake("stop", "light")
    /\ UNCHANGED <<at, item, chunksLock, stayVars, queueVars, broken>>

\* Mutant: the event is not set.
StopGenSilently ==
    /\ at["light"] = "ended" /\ Goto("light", "gen")
    /\ Tell("gen")
    /\ UNCHANGED <<at, item, eventVars, lockVars, stayVars, queueVars, broken>>

StopGen ==
    /\ at["light"] = "ended" /\ Goto("light", "gen")
    /\ Tell("gen") /\ Wake("stop", "gen")
    /\ UNCHANGED <<at, item, lockVars, stayVars, queueVars, broken>>

StopSend ==
    /\ at["gen"] = "ended" /\ Goto("gen", "send")
    /\ Tell("send") /\ Wake("stop", "send")
    /\ UNCHANGED <<at, item, lockVars, stayVars, queueVars, broken>>

\* Mutant: the thread is told without a wait for its queue.
ClearAndStop ==
    /\ at["send"] = "ended" /\ Goto("send", "store")
    /\ loads' = {} /\ Tell("store") /\ Wake("stop", "store")
    /\ UNCHANGED <<at, item, lockVars, stayVars, broken>>
    /\ UNCHANGED <<sends, saveVars, gens, more, requests, removed>>

\* m_Storage.Stop: WaitForFinish clears the load queue, ...
ClearLoads ==
    /\ at["send"] = "ended" /\ Goto("send", "drain")
    /\ loads' = {}
    /\ UNCHANGED <<at, item, eventVars, terminate, lockVars, stayVars, broken>>
    /\ UNCHANGED <<sends, saveVars, gens, more, requests, removed>>

\* ... waits until the save queue is empty (BlockTillEmpty), woken by m_evtRemoved, ...
BlockTillEmpty ==
    /\ \/ Goto("drain", "drainWait") /\ saves # {} /\ UNCHANGED removed
       \/ Goto("drainWait", "drain") /\ removed /\ removed' = FALSE
    /\ UNCHANGED <<at, item, eventVars, terminate, lockVars, stayVars, broken>>
    /\ UNCHANGED <<sends, loads, saveVars, gens, more, requests>>

\* ... and then for the thread.
StopStore ==
    /\ Goto("drain", "store") /\ saves = {}
    /\ Tell("store") /\ Wake("stop", "store")
    /\ UNCHANGED <<at, item, lockVars, stayVars, queueVars, broken>>

Stopped ==
    /\ at["store"] = "ended" /\ Goto("store", "stopped")
    /\ UNCHANGED <<at, item, eventVars, terminate, lockVars, stayVars, queueVars, broken>>

GoOnStopping ==
    /\ Free("stop")
    /\ \/ LockLight \/ StopLight \/ StopGen \/ StopSend \/ ClearLoads \/ BlockTillEmpty
       \/ StopStore \/ Stopped \/ \E c \in Chunks : DisableStay(c)

Next ==
    /\ ~broken
    /\ \/ Tick \/ Light \/ Gen \/ Send \/ Store \/ StopTick \/ GoOnStopping
       \/ \E a \in Actors : Set(a)

Spec == Init /\ [][Next]_vars

\* As long as a thread can go on, one does, the one that stops the world included once it has
\* begun.  What the tick thread asks for is up to it; the world need not be stopped.
GoOn ==
    \/ Light \/ Gen \/ Send \/ Store \/ GoOnStopping \/ (Free("tick") /\ EndTick)
    \/ \E a \in Actors : Set(a)
FairSpec == Spec /\ WF_vars(~broken /\ GoOn)

-----------------------------------------------------------------------------
(* Properties *)

\* Types, and who holds which lock where.
TypeOK ==
    /\ at \in [Threads -> Places] /\ stop \in Stops
    /\ item \in [Threads -> Chunks \cup {None}] /\ stays \in [Chunks -> StayStates]
    /\ event \cup terminate \subseteq Threads
    /\ around \cup arrived \cup lit \cup sends \cup loads \cup gens \subseteq Chunks
    /\ waking \in [Actors -> Threads \cup {None}]
    /\ saves \cup refused \subseteq unwritten /\ unwritten \subseteq Chunks
    /\ removed \in BOOLEAN /\ more \in BOOLEAN /\ broken \in BOOLEAN
    /\ requests \in 0..MaxRequests
    /\ chunksLock = IF at["send"] = "queue" THEN "send" ELSE None
    /\ lightLock = IF stop = "stays" THEN "stop" ELSE None
    /\ \A t \in Threads : at[t] = "ended" => t \in terminate

\* Its event is set, or somebody is about to set it.
Woken(t) == t \in event \/ \E a \in Actors : waking[a] = t

\* Nobody sleeps on work: a thread that waits for its event while its queue has something,
\* or while it is told to end, will find the event set, as soon as those that put something
\* into the queue have gone on; so will the one that waits for the save queue to get empty.
\* The storage has one event for its two queues.
NoLostWakeUp ==
    /\ at["light"] = "wait" /\ (Queued # {} \/ "light" \in terminate) => Woken("light")
    /\ at["gen"] = "wait" /\ (gens # {} \/ "gen" \in terminate) => Woken("gen")
    /\ at["send"] = "wait" /\ (sends # {} \/ "send" \in terminate) => Woken("send")
    /\ at["store"] = "wait" /\ (saves \cup loads # {} \/ "store" \in terminate)
          => Woken("store")
    /\ stop = "drainWait" /\ saves = {} => removed

\* Every chunk that was queued for saving is in its file when the world has stopped, the
\* last one too, which is taken from the queue before it is written; unless the storage
\* found it not valid, or could not save it, after it was queued for the last time.
SavesAreWrittenUnlessRefused == stop = "stopped" => unwritten \subseteq refused /\ saves = {}

\* The two locks, taken in either order: Lighting.Stop waits for the chunk map's, the chunk
\* sender in AddChunkStay for the lighting thread's.
LocksCrossed == chunksLock = "send" /\ lightLock = "stop"

\* A world that is being stopped will be; unless Lighting.Stop meets a chunk stay that the
\* chunk sender is enabling.
StopEndsUnlessMet == stop = "tick" ~> (stop = "stopped" \/ broken \/ LocksCrossed)

\* A chunk that is queued for sending is taken up, although the sender also waits for locks;
\* only when the sender is told to end may its queue be left as it is.
SendIsTaken ==
    \A c \in Chunks : c \in sends ~> (c \notin sends \/ "send" \in terminate
                                      \/ broken \/ LocksCrossed)
=============================================================================
