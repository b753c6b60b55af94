---------------------------- MODULE PlayerWorlds ----------------------------
(***************************************************************************)
(* A player's way through the server: the connection, the login, one world *)
(* after another, and out again.                                           *)
(*                                                                         *)
(* Four kinds of threads take part.  The network thread opens connections  *)
(* and may close one at any moment; the authenticator answers; the server  *)
(* thread ticks the clients that are in no world yet; each world's thread  *)
(* ticks its own players, in phases.  A world is left only by a task that  *)
(* runs at the end of the tick: the one that moves a player to another     *)
(* world, or the one that destroys him.                                    *)
(*                                                                         *)
(* The login ends in a hand-over, after which the thread that finished it  *)
(* goes on with the client for a while, beside the world's.                *)
(*                                                                         *)
(* All players of a world stand in one chunk, the one they appear in.      *)
(***************************************************************************)
EXTENDS Integers, SequencesExt, FiniteSets

CONSTANTS
    Clients,            \* client handles; each is one connection
    Configures,         \* those of 1.20.2 and later, which finish their login in two stages
    Worlds,
    None,
    MaxPlayers,         \* m_MaxPlayers
    CountRange,         \* m_PlayerCount, a size_t, wraps round at this number
    MaxWarps            \* bound: calls of MoveToWorld

ASSUME PlayersAssumption ==
    /\ Configures \subseteq Clients /\ None \notin Worlds \cup Clients
    /\ MaxPlayers \in Nat \ {0}
    /\ IsFiniteSet(Clients)
    /\ CountRange \in Nat \ {0} /\ CountRange > Cardinality(Clients)
    /\ MaxWarps \in Nat

VARIABLES
    session,            \* m_State of each client handle
    clients,            \* m_Clients: the handles that the server thread ticks
    toRemove,           \* m_ClientsToRemove
    asked,              \* clients in the authenticator's queue
    temp,               \* clients with an m_temp_player
    joining,            \* the client whose FinishAuthenticate or ServerTick goes on after it was
                        \* handed over, under m_CSClients
    refused,            \* history: clients whose player a plugin would not let appear
    count,              \* m_PlayerCount
    queue,              \* m_EntitiesToAdd of each world
    chunk,              \* the players in the chunk map of each world
    players,            \* m_Players of each world
    world,              \* m_World of each player
    ticking,            \* players with IsTicking
    warp,               \* m_WorldChangeInfo.m_NewWorld of each player
    tasks,              \* m_Tasks of each world, and those its tick has taken from there ...
    due,                \* ... which are so many, the first ones
    twice,              \* history: players for whom two threads called MoveToWorld at once
    phase, todo,        \* where each world is in its tick, and the players still to be handled
    clearing,           \* the player whose m_NewWorld the world's thread is about to reset
    wanted,             \* worlds whose chunk some client has asked for
    valid,              \* worlds whose chunk is valid
    aborted,            \* the process has died: in VERIFY, or of a null m_NewWorld
    warps,              \* calls of MoveToWorld
    raced               \* history: players whose client was destroyed during a warp

handVars  == <<toRemove, joining, refused>>
loginVars == <<clients, asked, temp, handVars>>
placeVars == <<queue, chunk, players, world, ticking, count>>
warpVars  == <<warp, tasks, due, twice, clearing, warps>>
tickVars  == <<phase, todo, wanted, valid>>
vars == <<session, loginVars, placeVars, warpVars, tickVars, aborted, raced>>

States == {"unborn", "connected", "authenticating", "downloading", "playing", "destroyed"}
Phases == {"in", "clients", "chunks", "tasks"}
Tasks == [kind : {"warp", "destroy"}, of : Clients]

Live(k) == session[k] \notin {"unborn", "destroyed"}
Inside(k, w) == k \in queue[w] \cup chunk[w]
InWorld(k) == \E w \in Worlds : Inside(k, w)

-----------------------------------------------------------------------------
Init ==
    /\ session = [k \in Clients |-> "unborn"]
    /\ clients = {} /\ toRemove = {} /\ asked = {} /\ temp = {} /\ count = 0
    /\ joining = None /\ refused = {}
    /\ queue = [w \in Worlds |-> {}] /\ chunk = queue /\ players = queue /\ todo = queue
    /\ world = [k \in Clients |-> None] /\ warp = world /\ ticking = {}
    /\ tasks = [w \in Worlds |-> <<>>] /\ due = [w \in Worlds |-> 0] /\ twice = {}
    /\ phase = [w \in Worlds |-> "in"]
    /\ clearing = [w \in Worlds |-> None]
    /\ wanted = {} /\ valid \in SUBSET Worlds
    /\ aborted = FALSE /\ warps = 0 /\ raced = {}

-----------------------------------------------------------------------------
(* The network thread *)

\* cClientHandle::Destroy, whoever calls it: SetState lets only the first one through.
Destroy(k) == session' = [session EXCEPT ![k] = "destroyed"]

\* cServer::OnConnectionAccepted, under m_CSClients.
OnConnectionAccepted(k) ==
    /\ joining = None
    /\ session[k] = "unborn"
    /\ session' = [session EXCEPT ![k] = "connected"]
    /\ clients' = clients \cup {k}
    /\ UNCHANGED <<handVars, asked, temp, placeVars, warpVars, tickVars>>

\* OnRemoteClosed and OnError
SocketClosed(k) ==
    /\ Live(k)
    /\ Destroy(k)
    /\ UNCHANGED <<loginVars, placeVars, warpVars, tickVars>>

-----------------------------------------------------------------------------
(* The login *)

\* Mutant: without ClientMovedToWorld.
FinishWithoutMoving(k, w) ==
    /\ count' = (count + 1) % CountRange
    /\ session' = IF session[k] = "destroyed" THEN session
                  ELSE [session EXCEPT ![k] = "downloading"]
    /\ joining' = k
    /\ world' = [world EXCEPT ![k] = w]
    /\ queue' = [queue EXCEPT ![w] = @ \cup {k}]
    /\ UNCHANGED <<toRemove, refused, chunk, players, ticking>>

\* FinishAuthenticate, with player k of world w: PlayerCreated, ClientMovedToWorld, SetState
\* (which leaves a destroyed client so), and cEntity::Initialize, which hands him over, unless
\* a plugin forbids it.  In that case he is deleted, and what follows reads a freed object;
\* only the outcome in which the process lives is followed.
FinishAuthenticate(k, w) ==
    /\ count' = (count + 1) % CountRange
    /\ toRemove' = toRemove \cup {k}
    /\ session' = IF session[k] = "destroyed" THEN session
                  ELSE [session EXCEPT ![k] = "downloading"]
    /\ joining' = k
    /\ \/ /\ world' = [world EXCEPT ![k] = w]
          /\ queue' = [queue EXCEPT ![w] = @ \cup {k}]
          /\ UNCHANGED refused
       \/ refused' = refused \cup {k} /\ UNCHANGED <<world, queue>>
    /\ UNCHANGED <<chunk, players, ticking>>

\* Mutant: every client is left to finish its login itself.
AuthenticateLater(k) ==
    IF session[k] # "authenticating"
    THEN UNCHANGED <<session, temp, handVars, placeVars>>
    ELSE temp' = temp \cup {k} /\ UNCHANGED <<session, handVars, placeVars>>

\* Authenticate: the client's player is made; the later protocols then configure.
Authenticate(k) ==
    IF session[k] # "authenticating"
    THEN UNCHANGED <<session, temp, handVars, placeVars>>
    ELSE IF k \in Configures
         THEN temp' = temp \cup {k} /\ UNCHANGED <<session, handVars, placeVars>>
         ELSE (\E w \in Worlds : FinishAuthenticate(k, w)) /\ UNCHANGED temp

\* Mutant: the check is made without a look at the count.
AuthenticateAnyway(k) ==
    /\ joining = None
    /\ k \in asked
    /\ asked' = asked \ {k}
    /\ Authenticate(k)
    /\ UNCHANGED <<clients, warpVars, tickVars>>

\* cServer::AuthenticateUser (or KickUser, when the account is refused), on the
\* authenticator's thread and under m_CSClients.
AuthenticateUser(k) ==
    /\ joining = None
    /\ k \in asked
    /\ asked' = asked \ {k}
    /\ \/ /\ count < MaxPlayers
          /\ IF k \in clients THEN Authenticate(k)
             ELSE UNCHANGED <<session, temp, handVars, placeVars>>
       \/ /\ IF k \in clients THEN Destroy(k) ELSE UNCHANGED session
          /\ UNCHANGED <<temp, handVars, placeVars>>
    /\ UNCHANGED <<clients, warpVars, tickVars>>

\* What ServerTick's ProcessProtocolIn may do: nothing, refuse the login, send it to the
\* authenticator, or finish it.
ServerTickIn(k) ==
    \/ UNCHANGED <<session, asked, temp, handVars, placeVars>>
    \/ /\ session[k] = "connected"
       /\ session' = [session EXCEPT ![k] = "authenticating"]
       /\ asked' = asked \cup {k}
       /\ UNCHANGED <<temp, handVars, placeVars>>
    \/ /\ k \in temp
       /\ temp' = temp \ {k}
       /\ \E w \in Worlds : FinishAuthenticate(k, w)
       /\ UNCHANGED asked
    \/ Live(k) /\ Destroy(k) /\ UNCHANGED <<asked, temp, handVars, placeVars>>

\* cServer::TickClients, one client of it: those that have moved to a world are left out,
\* those that are destroyed are dropped, once ServerTick has returned.
ServerTick(k) ==
    /\ joining = None
    /\ k \in clients \ toRemove
    /\ ServerTickIn(k)
    /\ clients' = IF session'[k] = "destroyed" /\ joining' = None
                  THEN clients \ {k} ELSE clients
    /\ UNCHANGED <<warpVars, tickVars>>

\* ... and its beginning.
RemoveMoved ==
    /\ joining = None
    /\ toRemove # {}
    /\ clients' = clients \ toRemove
    /\ toRemove' = {}
    /\ UNCHANGED <<session, asked, temp, joining, refused, placeVars, warpVars, tickVars>>

-----------------------------------------------------------------------------
(* A world's tick *)

At(w, p) == phase[w] = p
Goto(w, p) == phase' = [phase EXCEPT ![w] = p]

\* The next player of a phase, and the phase that follows.
Handle(w, p, k) == At(w, p) /\ k \in todo[w] /\ todo' = [todo EXCEPT ![w] = @ \ {k}]
EndPhase(w, p, next, who) ==
    At(w, p) /\ todo[w] = {} /\ Goto(w, next) /\ todo' = [todo EXCEPT ![w] = who]

AddTask(w, kind, k) == tasks' = [tasks EXCEPT ![w] = Append(@, [kind |-> kind, of |-> k])]

\* The server's thread goes on with k's packets after it has handed k over: until it is
\* done, the world's thread may tick k too.
TickedTwice(k) == joining = k /\ k \in Configures

\* Mutant: a task for each call.
MoveEachTime(k, w) ==
    /\ warps < MaxWarps /\ warps' = warps + 1
    /\ warp' = [warp EXCEPT ![k] = w]
    /\ AddTask(world[k], "warp", k)
    /\ UNCHANGED <<twice, clearing, due>>

\* cEntity::MoveToWorld: the last call decides where to, the first one queues the task.
\* When two threads call it at once, both may find m_NewWorld null.
MoveToWorld(k, w) ==
    /\ warps < MaxWarps /\ warps' = warps + 1
    /\ warp' = [warp EXCEPT ![k] = w]
    /\ \/ /\ IF warp[k] = None THEN AddTask(world[k], "warp", k) ELSE UNCHANGED tasks
          /\ UNCHANGED twice
       \/ /\ TickedTwice(k) /\ warp[k] # None
          /\ AddTask(world[k], "warp", k)
          /\ twice' = twice \cup {k}
    /\ UNCHANGED <<clearing, due>>

\* What the server's thread still does for a client that it has handed over: the packets
\* that are left, which may move the player or be something to kick him for.
ServerTickOn(k) ==
    /\ TickedTwice(k)
    /\ \/ Live(k) /\ Destroy(k) /\ UNCHANGED warpVars
       \/ InWorld(k) /\ (\E v \in Worlds : MoveToWorld(k, v)) /\ UNCHANGED session
    /\ UNCHANGED <<loginVars, placeVars, tickVars>>

\* FinishAuthenticate returns, and ServerTick if it was called from there: a destroyed
\* client is dropped now.
HandedOver(k) ==
    /\ joining = k /\ joining' = None
    /\ clients' = IF k \in Configures /\ session[k] = "destroyed" THEN clients \ {k} ELSE clients
    /\ UNCHANGED <<session, asked, temp, toRemove, refused, placeVars, warpVars, tickVars>>

\* What the client has sent: nothing, a command that moves him, or something to kick him
\* for.  What it sent before it was destroyed is handled all the same.
ProcessProtocolIn(w, k) ==
    /\ Handle(w, "in", k)
    /\ \/ UNCHANGED <<session, warpVars>>
       \/ (\E v \in Worlds : MoveToWorld(k, v)) /\ UNCHANGED session
       \/ Live(k) /\ Destroy(k) /\ UNCHANGED warpVars
    /\ UNCHANGED <<loginVars, placeVars, phase, wanted, valid>>

EndProcessProtocolIn(w) ==
    /\ EndPhase(w, "in", "clients", players[w])
    /\ UNCHANGED <<session, loginVars, placeVars, warpVars, wanted, valid>>

\* cClientHandle::Tick: the time-out, the change to csPlaying once the chunk is there, and
\* StreamNextChunks, which asks for the chunk.
TickClient(w, k) ==
    /\ Handle(w, "clients", k)
    /\ \/ ~Live(k) /\ UNCHANGED <<session, wanted>>
       \/ Live(k) /\ Destroy(k) /\ UNCHANGED wanted
       \/ /\ Live(k)
          /\ wanted' = wanted \cup {w}
          /\ \/ UNCHANGED session
             \/ /\ w \in valid /\ k \in chunk[w] /\ session[k] = "downloading"
                /\ session' = [session EXCEPT ![k] = "playing"]
    /\ UNCHANGED <<loginVars, placeVars, warpVars, phase, valid>>

\* TickQueuedChunkDataSets may bring the chunk, if it was asked for.
EndTickClients(w) ==
    /\ \/ UNCHANGED valid
       \/ w \in wanted \ valid /\ valid' = valid \cup {w}
    /\ EndPhase(w, "clients", "chunks", IF w \in valid' THEN chunk[w] ELSE {})
    /\ UNCHANGED <<session, loginVars, placeVars, warpVars, wanted>>

\* cPlayer::Tick, called from cChunk::Tick: it destroys the player of a destroyed client,
\* and may move one who plays, through a portal, unless he is on his way already.
TickPlayer(w, k) ==
    /\ Handle(w, "chunks", k)
    /\ \/ UNCHANGED <<ticking, warpVars>> /\ (k \notin ticking \/ session[k] # "destroyed")
       \/ /\ k \in ticking /\ session[k] = "destroyed"
          /\ ticking' = ticking \ {k}
          /\ AddTask(world[k], "destroy", k)
          /\ UNCHANGED <<warp, due, twice, clearing, warps>>
       \/ /\ k \in ticking /\ session[k] = "playing" /\ warp[k] = None
          /\ \E v \in Worlds : MoveToWorld(k, v)
          /\ UNCHANGED ticking
    /\ UNCHANGED <<session, loginVars, queue, chunk, players, world, count, phase, wanted, valid>>

\* Mutant: those who are added are not ticked.
AddIdleEntities(w) ==
    /\ EndPhase(w, "chunks", "tasks", {})
    /\ queue' = [queue EXCEPT ![w] = {}]
    /\ chunk' = [chunk EXCEPT ![w] = @ \cup queue[w]]
    /\ players' = [players EXCEPT ![w] = @ \cup queue[w]]
    /\ due' = [due EXCEPT ![w] = Len(tasks[w])]
    /\ UNCHANGED <<session, loginVars, world, ticking, count, wanted, valid>>
    /\ UNCHANGED <<warp, tasks, twice, clearing, warps>>

\* TickQueuedEntityAdditions, once all players are ticked; then TickQueuedTasks takes the
\* tasks that are queued by now.
AddEntities(w) ==
    /\ EndPhase(w, "chunks", "tasks", {})
    /\ queue' = [queue EXCEPT ![w] = {}]
    /\ chunk' = [chunk EXCEPT ![w] = @ \cup queue[w]]
    /\ players' = [players EXCEPT ![w] = @ \cup queue[w]]
    /\ ticking' = ticking \cup queue[w]
    /\ due' = [due EXCEPT ![w] = Len(tasks[w])]
    /\ UNCHANGED <<session, loginVars, world, count, wanted, valid>>
    /\ UNCHANGED <<warp, tasks, twice, clearing, warps>>

\* Mutant: the player stays in m_Players.
RemoveFromChunk(w, k) ==
    /\ UNCHANGED players
    /\ chunk' = [chunk EXCEPT ![w] = @ \ {k}]
    /\ count' = IF k \in chunk[w] /\ session[k] = "destroyed"
                THEN (count + CountRange - 1) % CountRange ELSE count

\* Mutant: everyone who leaves a world is counted as gone.
RemoveAndCount(w, k) ==
    /\ players' = [players EXCEPT ![w] = @ \ {k}]
    /\ chunk' = [chunk EXCEPT ![w] = @ \ {k}]
    /\ count' = (count + CountRange - 1) % CountRange

\* cWorld::RemoveEntity, of a player who is inside.  OnRemoveFromWorld, if he was in a
\* chunk, counts the player of a destroyed client as gone.
RemoveEntity(w, k) ==
    /\ players' = [players EXCEPT ![w] = @ \ {k}]
    /\ chunk' = [chunk EXCEPT ![w] = @ \ {k}]
    /\ count' = IF k \in chunk[w] /\ session[k] = "destroyed"
                THEN (count + CountRange - 1) % CountRange ELSE count

\* TickQueuedTasks runs a task of the given kind, for player k: any of those it has taken,
\* as std::partition keeps no order.
Task(w, kind, k) ==
    /\ At(w, "tasks") /\ clearing[w] = None
    /\ \E i \in 1..due[w] : /\ tasks[w][i] = [kind |-> kind, of |-> k]
                            /\ tasks' = [tasks EXCEPT ![w] = RemoveAt(@, i)]
    /\ due' = [due EXCEPT ![w] = @ - 1]
    /\ UNCHANGED twice

\* DoWithEntityByID looks into valid chunks only.
Findable(w, k) == k \in queue[w] \/ (k \in chunk[w] /\ w \in valid)

\* Mutant: without SetWorld.
MoveWithoutWorld(w, k) ==
    /\ Task(w, "warp", k) /\ Findable(w, k)
    /\ clearing' = [clearing EXCEPT ![w] = k]
    /\ aborted' = (warp[k] = None)
    /\ IF warp[k] \in {None, w}
       THEN UNCHANGED placeVars
       ELSE /\ RemoveEntity(w, k)
            /\ ticking' = ticking \ {k}
            /\ UNCHANGED world
            /\ queue' = [queue EXCEPT ![w] = @ \ {k}, ![warp[k]] = @ \cup {k}]
    /\ UNCHANGED <<session, loginVars, warp, warps, tickVars>>

\* DoMoveToWorld: out of world w, into the queue of the other.  m_NewWorld is reset after
\* that, when the other world may have the player already; a second task of his would find
\* it null, and the process would die of it.
DoMoveToWorld(w, k) ==
    /\ Task(w, "warp", k) /\ Findable(w, k)
    /\ clearing' = [clearing EXCEPT ![w] = k]
    /\ aborted' = (warp[k] = None)
    /\ IF warp[k] \in {None, w}
       THEN UNCHANGED placeVars
       ELSE /\ RemoveEntity(w, k)
            /\ ticking' = ticking \ {k}
            /\ world' = [world EXCEPT ![k] = warp[k]]
            /\ queue' = [queue EXCEPT ![w] = @ \ {k}, ![warp[k]] = @ \cup {k}]
    /\ UNCHANGED <<session, loginVars, warp, warps, tickVars>>

ResetNewWorld(w) ==
    /\ clearing[w] # None
    /\ warp' = [warp EXCEPT ![clearing[w]] = None]
    /\ clearing' = [clearing EXCEPT ![w] = None]
    /\ UNCHANGED <<session, loginVars, placeVars, tasks, due, twice, warps, tickVars, aborted>>

\* The task does not find the player: he is gone, or his chunk is not valid yet.
WarpMissed(w, k) ==
    /\ Task(w, "warp", k) /\ ~Findable(w, k)
    /\ UNCHANGED <<session, loginVars, placeVars, warp, clearing, warps, tickVars, aborted>>

\* The task of cEntity::Destroy: VERIFY(RemoveEntity(...)).
RemoveDestroyed(w, k) ==
    /\ Task(w, "destroy", k)
    /\ IF Inside(k, w)
       THEN /\ RemoveEntity(w, k)
            /\ queue' = [queue EXCEPT ![w] = @ \ {k}]
            /\ UNCHANGED aborted
       ELSE aborted' = TRUE /\ UNCHANGED <<queue, chunk, players, count>>
    /\ UNCHANGED <<session, loginVars, world, ticking, warp, clearing, warps, tickVars>>

\* The end of the tick; every ten seconds the chunk is unloaded if nobody is in it.
EndTick(w) ==
    /\ clearing[w] = None /\ due[w] = 0
    /\ EndPhase(w, "tasks", "in", players[w])
    /\ \/ UNCHANGED <<wanted, valid>>
       \/ chunk[w] = {} /\ w \in valid /\ valid' = valid \ {w} /\ wanted' = wanted \ {w}
    /\ UNCHANGED <<session, loginVars, placeVars, warpVars>>

-----------------------------------------------------------------------------
Network(k) == OnConnectionAccepted(k) \/ SocketClosed(k)

WorldTick(w) ==
    \/ \E k \in Clients :
           \/ ProcessProtocolIn(w, k) \/ TickClient(w, k) \/ TickPlayer(w, k)
    \/ EndProcessProtocolIn(w) \/ EndTickClients(w)
    \/ AddEntities(w) \/ EndTick(w)

WorldTasks(w) ==
    \/ \E k \in Clients : DoMoveToWorld(w, k) \/ WarpMissed(w, k) \/ RemoveDestroyed(w, k)
    \/ ResetNewWorld(w)

\* What every step is part of: the process lives, and the history is kept.
Alive ==
    /\ ~aborted
    /\ raced' = raced \cup {k \in Clients : session'[k] = "destroyed" /\ warp'[k] # None}

World(w) == (WorldTick(w) /\ UNCHANGED aborted) \/ WorldTasks(w)
Others ==
    /\ \/ \E k \in Clients : \/ Network(k) \/ AuthenticateUser(k) \/ ServerTick(k)
                             \/ ServerTickOn(k) \/ HandedOver(k)
       \/ RemoveMoved
    /\ UNCHANGED aborted

Next == (Others \/ \E w \in Worlds : World(w)) /\ Alive

Spec == Init /\ [][Next]_vars

\* The worlds' threads keep on ticking.
FairSpec == Spec /\ \A w \in Worlds : WF_vars(World(w) /\ Alive)

-----------------------------------------------------------------------------
(* Properties *)

\* Types.
TypeOK ==
    /\ session \in [Clients -> States]
    /\ clients \subseteq Clients /\ toRemove \subseteq Clients /\ asked \subseteq Clients
    /\ joining \in Clients \cup {None} /\ refused \subseteq Clients
    /\ ticking \subseteq Clients /\ raced \subseteq Clients /\ twice \subseteq Clients
    /\ temp \subseteq Configures /\ count \in 0..CountRange - 1
    /\ queue \in [Worlds -> SUBSET Clients] /\ chunk \in [Worlds -> SUBSET Clients]
    /\ players \in [Worlds -> SUBSET Clients] /\ todo \in [Worlds -> SUBSET Clients]
    /\ world \in [Clients -> Worlds \cup {None}] /\ warp \in [Clients -> Worlds \cup {None}]
    /\ tasks \in [Worlds -> Seq(Tasks)] /\ phase \in [Worlds -> Phases]
    /\ due \in [Worlds -> Nat] /\ \A w \in Worlds : due[w] <= Len(tasks[w])
    /\ clearing \in [Worlds -> Clients \cup {None}]
    /\ wanted \subseteq Worlds /\ valid \subseteq Worlds
    /\ aborted \in BOOLEAN /\ warps \in 0..MaxWarps

\* A player is in one world at most, in its queue or in its chunks, and m_World says which;
\* m_Players holds exactly those in the chunks, whom the world therefore may tick.
InOnePlace ==
    \A w \in Worlds :
        /\ players[w] = chunk[w] /\ queue[w] \cap chunk[w] = {}
        /\ todo[w] \subseteq players[w]
        /\ \A k \in Clients : Inside(k, w) => world[k] = w

\* A connected client is never left without a thread that ticks it: the server's until its
\* player is handed to a world, then that world's; and the server's begins no tick of it any
\* more.  The one in which the player was handed over may still go on (OneTickerAtATime).  A
\* player whom a plugin would not let appear leaves its client to nobody.
HasOneTickerUnlessJoining ==
    \A k \in Clients :
        /\ Live(k) => k \in clients \/ InWorld(k) \/ k \in refused
        /\ InWorld(k) \/ k \in refused => k \notin clients \ toRemove

\* m_PlayerCount is the number of players in the worlds, queues included, whatever order
\* joining, moving and leaving come in; unless a client was destroyed while its player was
\* on the way to another world.  Players whom a plugin would not let appear count for ever.
CountIsPlayersUnlessRaced ==
    raced = {} => count = Cardinality({k \in Clients : InWorld(k) \/ k \in refused})

\* Nobody whose protocol joins at once joins a full server: what the count says is what
\* the worlds hold, whoever moves or leaves meanwhile.
NoJoinWhenFullUnlessRaced ==
    [][\A k \in Clients \ Configures :
           raced = {} /\ ~InWorld(k) /\ InWorld(k)'
               => Cardinality({j \in Clients : InWorld(j) \/ j \in refused}) < MaxPlayers]_vars

\* Only one world change of a player is in flight at any time, however many calls of
\* MoveToWorld there are and in whatever order tasks run, unless two threads made calls at
\* once; and it is in the world he is in, unless his client was destroyed on the way.
OneWarpInFlightUnlessRaced ==
    \A k \in Clients \ twice :
        LET Ways(w) == {i \in DOMAIN tasks[w] : tasks[w][i] = [kind |-> "warp", of |-> k]}
            ways == UNION {{w} \X Ways(w) : w \in Worlds}
        IN  /\ Cardinality(ways) + Cardinality({w \in Worlds : clearing[w] = k}) <= 1
            /\ \A way \in ways : Inside(k, way[1]) \/ k \in raced

\* VERIFY in the task of cEntity::Destroy holds: the player is still in the world that he
\* was to be removed from.
DestroyFindsPlayer == ~aborted

\* ... unless a client was destroyed while its player was on the way to another world, or
\* two threads had moved a player at once.
DestroyFindsPlayerUnlessRaced == aborted => raced \cup twice # {}

\* No client is ticked by two threads.
OneTickerAtATime == \A k \in Clients, w \in Worlds : TickedTwice(k) => k \notin players[w]

\* m_MaxPlayers is not exceeded.
LimitKept == Cardinality({k \in Clients : InWorld(k)}) <= MaxPlayers

\* A player who is to go to another world has a task that takes him there.
WarpHasTask ==
    \A k \in Clients :
        warp[k] # None =>
            \E w \in Worlds :
                clearing[w] = k \/ \E i \in 1..Len(tasks[w]) : tasks[w][i].of = k

\* A player whose client is destroyed leaves the world.
DestroyedLeaves ==
    \A k \in Clients : (session[k] = "destroyed" /\ InWorld(k)) ~> (~InWorld(k) \/ aborted)

\* ... if his chunk is valid, so that he is ticked, and he was not on the way to another.
TickedLeavesUnlessRaced ==
    \A k \in Clients :
        (session[k] = "destroyed" /\ \E w \in valid : k \in chunk[w])
            ~> (~InWorld(k) \/ aborted \/ raced # {})
=============================================================================
