------------------------- MODULE PlayerWorldsProofs -------------------------
(***************************************************************************)
(* Theorems about PlayerWorlds, for any clients, protocols, worlds and     *)
(* numbers of moves: a player is in one world, the one m_World names; he   *)
(* is moved once at a time, unless two threads move him at once; no        *)
(* connected client is left without a thread that ticks it; and, as long   *)
(* as no client is destroyed while its player is on the way to another     *)
(* world, players are counted right, the limit is kept and whoever is to   *)
(* be removed from a world is there.                                       *)
(***************************************************************************)
EXTENDS PlayerWorlds, FiniteSetTheorems, SequenceTheorems, TLAPS

USE DEF loginVars, handVars, placeVars, warpVars, tickVars

-----------------------------------------------------------------------------
(* Types *)

\* m_PlayerCount stays in its range.
LEMMA CountType ==
    ASSUME count \in 0..CountRange - 1
    PROVE  /\ (count + 1) % CountRange \in 0..CountRange - 1
           /\ (count + CountRange - 1) % CountRange \in 0..CountRange - 1
<1>1. CountRange \in Nat /\ CountRange > 0 /\ count \in Nat
    BY PlayersAssumption
<1> QED BY <1>1

\* A sequence without its i-th element.
LEMMA Removed ==
    ASSUME NEW S, NEW s \in Seq(S), NEW i \in 1..Len(s)
    PROVE  /\ RemoveAt(s, i) \in Seq(S) /\ Len(RemoveAt(s, i)) = Len(s) - 1
           /\ \A j \in 1..Len(s) - 1 : RemoveAt(s, i)[j] = s[IF j < i THEN j ELSE j + 1]
<1>1. Len(s) \in Nat /\ i \in Nat /\ i >= 1 /\ i <= Len(s)
    OBVIOUS
<1> DEFINE a == SubSeq(s, 1, i - 1)
           b == SubSeq(s, i + 1, Len(s))
<1>2. /\ a \in Seq(S) /\ Len(a) = i - 1
      /\ \A j \in 1..i - 1 : a[j] = s[j]
    BY <1>1
<1>3. /\ b \in Seq(S) /\ Len(b) = Len(s) - i
      /\ \A j \in 1..Len(s) - i : b[j] = s[i + j]
    BY <1>1
<1>4. RemoveAt(s, i) = a \o b
    BY DEF RemoveAt
<1> HIDE DEF a, b
<1>5. /\ a \o b \in Seq(S) /\ Len(a \o b) = Len(s) - 1
      /\ \A j \in 1..Len(s) - 1 : (a \o b)[j] = IF j <= Len(a) THEN a[j] ELSE b[j - Len(a)]
    <2>1. /\ a \o b \in Seq(S) /\ Len(a \o b) = Len(a) + Len(b)
          /\ \A j \in 1..Len(a) + Len(b) : (a \o b)[j] = IF j <= Len(a) THEN a[j] ELSE b[j - Len(a)]
        BY <1>2, <1>3, ConcatProperties
    <2>2. Len(a) + Len(b) = Len(s) - 1
        BY <1>1, <1>2, <1>3
    <2> QED BY <2>1, <2>2
<1>6. ASSUME NEW j \in 1..Len(s) - 1
      PROVE  (a \o b)[j] = s[IF j < i THEN j ELSE j + 1]
    <2>1. CASE j < i
        BY <1>1, <1>2, <1>5, <2>1
    <2>2. CASE ~(j < i)
        <3>1. j - Len(a) \in 1..Len(s) - i /\ i + (j - Len(a)) = j + 1
            BY <1>1, <1>2, <2>2
        <3>2. b[j - Len(a)] = s[j + 1]
            BY <1>3, <3>1
        <3>3. ~(j <= Len(a))
            BY <1>1, <1>2, <2>2
        <3> QED BY <1>5, <2>2, <3>2, <3>3
    <2> QED BY <2>1, <2>2
<1> QED BY <1>4, <1>5, <1>6

\* A task that is added, a task that is taken.
LEMMA TaskTypes ==
    ASSUME tasks \in [Worlds -> Seq(Tasks)], due \in [Worlds -> Nat],
           \A w \in Worlds : due[w] <= Len(tasks[w])
    PROVE  /\ \A w : \A kind \in {"warp", "destroy"}, k \in Clients :
                  AddTask(w, kind, k) =>
                      /\ tasks' \in [Worlds -> Seq(Tasks)]
                      /\ \A v \in Worlds : due[v] <= Len(tasks'[v])
           /\ \A w \in Worlds : \A kind, k :
                  Task(w, kind, k) =>
                      /\ tasks' \in [Worlds -> Seq(Tasks)] /\ due' \in [Worlds -> Nat]
                      /\ \A v \in Worlds : due'[v] <= Len(tasks'[v])
<1>1. ASSUME NEW w, NEW kind \in {"warp", "destroy"}, NEW k \in Clients, AddTask(w, kind, k)
      PROVE  /\ tasks' \in [Worlds -> Seq(Tasks)]
             /\ \A v \in Worlds : due[v] <= Len(tasks'[v])
    <2>1. [kind |-> kind, of |-> k] \in Tasks
        BY DEF Tasks
    <2>2. \A q \in Seq(Tasks) : /\ Append(q, [kind |-> kind, of |-> k]) \in Seq(Tasks)
                                /\ Len(Append(q, [kind |-> kind, of |-> k])) = Len(q) + 1
        BY <2>1
    <2>3. \A v \in Worlds : \/ tasks'[v] = tasks[v]
                            \/ tasks'[v] = Append(tasks[v], [kind |-> kind, of |-> k])
        BY <1>1 DEF AddTask
    <2>4. tasks' \in [Worlds -> Seq(Tasks)]
        BY <1>1, <2>2 DEF AddTask
    <2>5. \A v \in Worlds : due[v] <= Len(tasks'[v])
        BY <2>2, <2>3
    <2> QED BY <2>4, <2>5
<1>2. ASSUME NEW w \in Worlds, NEW kind, NEW k, Task(w, kind, k)
      PROVE  /\ tasks' \in [Worlds -> Seq(Tasks)] /\ due' \in [Worlds -> Nat]
             /\ \A v \in Worlds : due'[v] <= Len(tasks'[v])
    <2>1. PICK i \in 1..due[w] : tasks' = [tasks EXCEPT ![w] = RemoveAt(tasks[w], i)]
        BY <1>2 DEF Task
    <2>2. i \in 1..Len(tasks[w]) /\ due[w] \in Nat /\ due[w] >= 1 /\ tasks[w] \in Seq(Tasks)
        OBVIOUS
    <2>3. RemoveAt(tasks[w], i) \in Seq(Tasks) /\ Len(RemoveAt(tasks[w], i)) = Len(tasks[w]) - 1
        BY <2>2, Removed
    <2>4. due' = [due EXCEPT ![w] = due[w] - 1]
        BY <1>2 DEF Task
    <2>5. \A v \in Worlds \ {w} : due'[v] = due[v] /\ tasks'[v] = tasks[v]
        BY <2>1, <2>4
    <2>6. due'[w] = due[w] - 1 /\ tasks'[w] = RemoveAt(tasks[w], i)
        BY <2>1, <2>4
    <2>7. due'[w] <= Len(tasks'[w])
        BY <2>2, <2>3, <2>6
    <2> QED BY <2>1, <2>2, <2>3, <2>4, <2>5, <2>7
<1> QED BY <1>1, <1>2

LEMMA InitTypes == Init => TypeOK
<1> SUFFICES ASSUME Init PROVE TypeOK
    OBVIOUS
<1>1. 0 \in 0..CountRange - 1 /\ 0 \in 0..MaxWarps
    BY PlayersAssumption
<1>2. \A w \in Worlds : tasks[w] \in Seq(Tasks)
    BY DEF Init
<1>3. /\ tasks \in [Worlds -> Seq(Tasks)] /\ due \in [Worlds -> Nat]
      /\ \A w \in Worlds : due[w] <= Len(tasks[w])
    BY <1>2 DEF Init
<1> QED BY <1>1, <1>3 DEF TypeOK, Init, States, Phases

\* A login that is finished, wherever it is.
LEMMA FinishTypes ==
    ASSUME TypeOK, NEW k \in Clients, NEW w \in Worlds, FinishAuthenticate(k, w)
    PROVE  /\ session' \in [Clients -> States] /\ toRemove' \subseteq Clients
           /\ count' \in 0..CountRange - 1 /\ queue' \in [Worlds -> SUBSET Clients]
           /\ world' \in [Clients -> Worlds \cup {None}] /\ ticking' \subseteq Clients
           /\ joining' \in Clients \cup {None} /\ refused' \subseteq Clients
           /\ chunk' = chunk /\ players' = players
<1>1. count' \in 0..CountRange - 1
    BY CountType DEF TypeOK, FinishAuthenticate
<1>2. queue' \in [Worlds -> SUBSET Clients] /\ world' \in [Clients -> Worlds \cup {None}]
    <2>1. queue \in [Worlds -> SUBSET Clients] /\ world \in [Clients -> Worlds \cup {None}]
        BY DEF TypeOK
    <2>2. CASE /\ queue' = [queue EXCEPT ![w] = @ \cup {k}]
               /\ world' = [world EXCEPT ![k] = w]
        BY <2>1, <2>2
    <2>3. CASE UNCHANGED <<queue, world>>
        BY <2>1, <2>3
    <2> QED BY <2>2, <2>3 DEF FinishAuthenticate
<1>3. session' \in [Clients -> States]
    <2>1. session \in [Clients -> States]
        BY DEF TypeOK
    <2>2. session' = session \/ session' = [session EXCEPT ![k] = "downloading"]
        BY DEF FinishAuthenticate
    <2> QED BY <2>1, <2>2 DEF States
<1> QED BY <1>1, <1>2, <1>3 DEF TypeOK, FinishAuthenticate

LEMMA RemoveTypes ==
    ASSUME TypeOK, NEW k \in Clients, NEW w \in Worlds, RemoveEntity(w, k)
    PROVE  /\ count' \in 0..CountRange - 1
           /\ chunk' \in [Worlds -> SUBSET Clients] /\ players' \in [Worlds -> SUBSET Clients]
<1>1. count' \in 0..CountRange - 1
    BY CountType DEF TypeOK, RemoveEntity
<1> QED BY <1>1 DEF TypeOK, RemoveEntity

LEMMA WarpTypes ==
    ASSUME TypeOK, NEW k \in Clients, NEW w \in Worlds, MoveToWorld(k, w)
    PROVE  /\ warp' \in [Clients -> Worlds \cup {None}] /\ tasks' \in [Worlds -> Seq(Tasks)]
           /\ due' = due /\ \A v \in Worlds : due[v] <= Len(tasks'[v])
           /\ clearing' = clearing /\ warps' \in 0..MaxWarps /\ twice' \subseteq Clients
<1>1. tasks' \in [Worlds -> Seq(Tasks)] /\ \A v \in Worlds : due[v] <= Len(tasks'[v])
    BY TaskTypes DEF TypeOK, MoveToWorld
<1>2. warps' \in 0..MaxWarps
    <2>1. warps \in Nat /\ MaxWarps \in Nat
        BY PlayersAssumption DEF TypeOK
    <2> QED BY <2>1 DEF MoveToWorld
<1> QED BY <1>1, <1>2 DEF TypeOK, MoveToWorld

\* The types of what a tick keeps for itself.
LEMMA PhaseTypes ==
    ASSUME TypeOK, NEW w \in Worlds
    PROVE  /\ \A p, k : Handle(w, p, k) => todo' \in [Worlds -> SUBSET Clients]
           /\ \A p, next \in Phases, who \in SUBSET Clients :
                  EndPhase(w, p, next, who) => /\ todo' \in [Worlds -> SUBSET Clients]
                                               /\ phase' \in [Worlds -> Phases]
<1>1. ASSUME NEW p, NEW k, Handle(w, p, k)
      PROVE  todo' \in [Worlds -> SUBSET Clients]
    BY <1>1 DEF TypeOK, Handle
<1>2. ASSUME NEW p, NEW next \in Phases, NEW who \in SUBSET Clients, EndPhase(w, p, next, who)
      PROVE  todo' \in [Worlds -> SUBSET Clients] /\ phase' \in [Worlds -> Phases]
    BY <1>2 DEF TypeOK, EndPhase, Goto
<1> QED BY <1>1, <1>2

LEMMA LoginTypes ==
    ASSUME TypeOK, NEW k \in Clients, OnConnectionAccepted(k) \/ SocketClosed(k)
                                      \/ AuthenticateUser(k) \/ ServerTick(k) \/ RemoveMoved
                                      \/ ServerTickOn(k) \/ HandedOver(k),
           UNCHANGED <<aborted>>, raced' \subseteq Clients
    PROVE  TypeOK'
<1>1. Destroy(k) => session' \in [Clients -> States]
    BY DEF TypeOK, Destroy, States
<1>2. CASE OnConnectionAccepted(k)
    BY <1>2 DEF TypeOK, OnConnectionAccepted, States
<1>3. CASE SocketClosed(k)
    BY <1>1, <1>3 DEF TypeOK, SocketClosed
<1>4. CASE AuthenticateUser(k)
    <2>1. UNCHANGED <<clients, warpVars, tickVars>> /\ asked' \subseteq Clients
        BY <1>4 DEF TypeOK, AuthenticateUser
    <2>2. CASE UNCHANGED <<temp, handVars, placeVars>> /\ session' \in [Clients -> States]
        BY <2>1, <2>2 DEF TypeOK
    <2>3. CASE Authenticate(k)
        <3>1. CASE UNCHANGED <<session, temp, handVars, placeVars>>
            BY <2>2, <3>1 DEF TypeOK
        <3>2. CASE /\ k \in Configures /\ temp' = temp \cup {k}
                   /\ UNCHANGED <<session, handVars, placeVars>>
            BY <2>1, <3>2 DEF TypeOK
        <3>3. ASSUME NEW w \in Worlds, FinishAuthenticate(k, w), UNCHANGED temp
              PROVE  TypeOK'
            BY <2>1, <3>3, FinishTypes DEF TypeOK
        <3> QED BY <2>3, <3>1, <3>2, <3>3 DEF Authenticate
    <2> QED BY <1>1, <1>4, <2>2, <2>3 DEF TypeOK, AuthenticateUser
<1>5. CASE ServerTick(k)
    <2>1. UNCHANGED <<warpVars, tickVars>> /\ clients' \subseteq Clients
        BY <1>5 DEF TypeOK, ServerTick
    <2>2. CASE UNCHANGED <<temp, handVars, placeVars>> /\ session' \in [Clients -> States]
               /\ asked' \subseteq Clients
        BY <2>1, <2>2 DEF TypeOK
    <2>3. ASSUME NEW w \in Worlds, FinishAuthenticate(k, w), temp' = temp \ {k}, UNCHANGED asked
          PROVE  TypeOK'
        BY <2>1, <2>3, FinishTypes DEF TypeOK
    <2>4. CASE /\ session' = [session EXCEPT ![k] = "authenticating"]
               /\ asked' = asked \cup {k} /\ UNCHANGED <<temp, handVars, placeVars>>
        BY <2>2, <2>4 DEF TypeOK, States
    <2> QED BY <1>1, <1>5, <2>2, <2>3, <2>4 DEF TypeOK, ServerTick, ServerTickIn
<1>6. CASE RemoveMoved
    BY <1>6 DEF TypeOK, RemoveMoved
<1>7. CASE ServerTickOn(k)
    <2>1. UNCHANGED <<loginVars, placeVars, tickVars>>
        BY <1>7 DEF ServerTickOn
    <2>2. CASE Destroy(k) /\ UNCHANGED warpVars
        BY <1>1, <2>1, <2>2 DEF TypeOK
    <2>3. ASSUME NEW v \in Worlds, MoveToWorld(k, v), UNCHANGED session
          PROVE  TypeOK'
        BY <2>1, <2>3, WarpTypes DEF TypeOK
    <2> QED BY <1>7, <2>2, <2>3 DEF ServerTickOn
<1>8. CASE HandedOver(k)
    BY <1>8 DEF TypeOK, HandedOver
<1> QED BY <1>2, <1>3, <1>4, <1>5, <1>6, <1>7, <1>8

LEMMA TickTypes ==
    ASSUME TypeOK, NEW w \in Worlds, WorldTick(w), UNCHANGED aborted, raced' \subseteq Clients
    PROVE  TypeOK'
<1> USE DEF Phases
<1>1. \A k \in Clients : Destroy(k) => session' \in [Clients -> States]
    BY DEF TypeOK, Destroy, States
<1>2. ASSUME NEW k \in Clients, ProcessProtocolIn(w, k)
      PROVE  TypeOK'
    <2>1. /\ UNCHANGED <<loginVars, placeVars, phase, wanted, valid>>
          /\ todo' \in [Worlds -> SUBSET Clients]
        BY <1>2, PhaseTypes DEF ProcessProtocolIn
    <2>2. CASE UNCHANGED warpVars /\ session' \in [Clients -> States]
        BY <2>1, <2>2 DEF TypeOK
    <2>3. ASSUME NEW v \in Worlds, MoveToWorld(k, v), UNCHANGED session
          PROVE  TypeOK'
        BY <2>1, <2>3, WarpTypes DEF TypeOK
    <2> QED BY <1>1, <1>2, <2>2, <2>3 DEF TypeOK, ProcessProtocolIn
<1>3. CASE EndProcessProtocolIn(w)
    <2>1. todo' \in [Worlds -> SUBSET Clients] /\ phase' \in [Worlds -> Phases]
        BY <1>3, PhaseTypes DEF TypeOK, EndProcessProtocolIn
    <2> QED BY <1>3, <2>1 DEF TypeOK, EndProcessProtocolIn
<1>4. ASSUME NEW k \in Clients, TickClient(w, k)
      PROVE  TypeOK'
    <2>1. /\ UNCHANGED <<loginVars, placeVars, warpVars, phase, valid>>
          /\ todo' \in [Worlds -> SUBSET Clients]
        BY <1>4, PhaseTypes DEF TickClient
    <2>2. session' \in [Clients -> States] /\ wanted' \subseteq Worlds
        <3>1. session \in [Clients -> States] /\ wanted \subseteq Worlds
            BY DEF TypeOK
        <3>2. /\ wanted' = wanted \/ wanted' = wanted \cup {w}
              /\ \/ session' = session \/ Destroy(k)
                 \/ session' = [session EXCEPT ![k] = "playing"]
            BY <1>4 DEF TickClient
        <3> QED BY <1>1, <3>1, <3>2 DEF States
    <2> QED BY <2>1, <2>2 DEF TypeOK
<1>5. CASE EndTickClients(w)
    <2>1. valid' \subseteq Worlds /\ (IF w \in valid' THEN chunk[w] ELSE {}) \in SUBSET Clients
        BY <1>5 DEF TypeOK, EndTickClients
    <2>2. todo' \in [Worlds -> SUBSET Clients] /\ phase' \in [Worlds -> Phases]
        BY <1>5, <2>1, PhaseTypes DEF EndTickClients
    <2> QED BY <1>5, <2>1, <2>2 DEF TypeOK, EndTickClients
<1>6. ASSUME NEW k \in Clients, TickPlayer(w, k)
      PROVE  TypeOK'
    <2>1. /\ UNCHANGED <<session, loginVars, queue, chunk, players, world, count, phase, wanted,
                         valid>>
          /\ todo' \in [Worlds -> SUBSET Clients]
        BY <1>6, PhaseTypes DEF TickPlayer
    <2>2. CASE UNCHANGED <<ticking, warpVars>>
        BY <2>1, <2>2 DEF TypeOK
    <2>3. CASE /\ ticking' = ticking \ {k} /\ AddTask(world[k], "destroy", k)
               /\ UNCHANGED <<warp, due, twice, clearing, warps>>
        <3>1. tasks' \in [Worlds -> Seq(Tasks)] /\ \A v \in Worlds : due[v] <= Len(tasks'[v])
            BY <2>3, TaskTypes DEF TypeOK
        <3> QED BY <2>1, <2>3, <3>1 DEF TypeOK
    <2>4. ASSUME NEW v \in Worlds, MoveToWorld(k, v), UNCHANGED ticking
          PROVE  TypeOK'
        BY <2>1, <2>4, WarpTypes DEF TypeOK
    <2> QED BY <1>6, <2>2, <2>3, <2>4 DEF TickPlayer
<1>7. CASE AddEntities(w)
    <2>1. todo' \in [Worlds -> SUBSET Clients] /\ phase' \in [Worlds -> Phases]
        BY <1>7, PhaseTypes DEF AddEntities
    <2>2. due' \in [Worlds -> Nat] /\ \A v \in Worlds : due'[v] <= Len(tasks'[v])
        <3>1. \A v \in Worlds : Len(tasks[v]) \in Nat
            BY DEF TypeOK
        <3> QED BY <1>7, <3>1 DEF TypeOK, AddEntities
    <2> QED BY <1>7, <2>1, <2>2 DEF TypeOK, AddEntities
<1>8. CASE EndTick(w)
    <2>1. todo' \in [Worlds -> SUBSET Clients] /\ phase' \in [Worlds -> Phases]
        BY <1>8, PhaseTypes DEF TypeOK, EndTick
    <2> QED BY <1>8, <2>1 DEF TypeOK, EndTick
<1> QED BY <1>2, <1>3, <1>4, <1>5, <1>6, <1>7, <1>8 DEF WorldTick

LEMMA TaskStepTypes ==
    ASSUME TypeOK, NEW w \in Worlds, WorldTasks(w), raced' \subseteq Clients
    PROVE  TypeOK'
<1>1. ASSUME NEW k \in Clients, DoMoveToWorld(w, k)
      PROVE  TypeOK'
    <2>1. /\ tasks' \in [Worlds -> Seq(Tasks)] /\ due' \in [Worlds -> Nat]
          /\ \A v \in Worlds : due'[v] <= Len(tasks'[v])
        BY <1>1, TaskTypes DEF TypeOK, DoMoveToWorld
    <2>4. /\ clearing' \in [Worlds -> Clients \cup {None}] /\ aborted' \in BOOLEAN
          /\ UNCHANGED <<session, loginVars, warp, warps, tickVars, twice>>
        BY <1>1 DEF TypeOK, DoMoveToWorld, Task
    <2>2. CASE UNCHANGED placeVars
        BY <2>1, <2>2, <2>4 DEF TypeOK
    <2>3. CASE /\ warp[k] \notin {None, w} /\ RemoveEntity(w, k) /\ ticking' = ticking \ {k}
               /\ world' = [world EXCEPT ![k] = warp[k]]
               /\ queue' = [queue EXCEPT ![w] = @ \ {k}, ![warp[k]] = @ \cup {k}]
        <3>1. queue' \in [Worlds -> SUBSET Clients] /\ world' \in [Clients -> Worlds \cup {None}]
            BY <2>3 DEF TypeOK
        <3> QED BY <2>1, <2>3, <2>4, <3>1, RemoveTypes DEF TypeOK
    <2> QED BY <1>1, <2>2, <2>3 DEF DoMoveToWorld
<1>2. CASE ResetNewWorld(w)
    BY <1>2 DEF TypeOK, ResetNewWorld
<1>3. ASSUME NEW k \in Clients, WarpMissed(w, k)
      PROVE  TypeOK'
    <2>1. /\ tasks' \in [Worlds -> Seq(Tasks)] /\ due' \in [Worlds -> Nat]
          /\ \A v \in Worlds : due'[v] <= Len(tasks'[v])
        BY <1>3, TaskTypes DEF TypeOK, WarpMissed
    <2> QED BY <1>3, <2>1 DEF TypeOK, WarpMissed, Task
<1>4. ASSUME NEW k \in Clients, RemoveDestroyed(w, k)
      PROVE  TypeOK'
    <2>1. /\ tasks' \in [Worlds -> Seq(Tasks)] /\ due' \in [Worlds -> Nat]
          /\ \A v \in Worlds : due'[v] <= Len(tasks'[v])
        BY <1>4, TaskTypes DEF TypeOK, RemoveDestroyed
    <2>4. UNCHANGED <<session, loginVars, world, ticking, warp, twice, clearing, warps, tickVars>>
        BY <1>4 DEF RemoveDestroyed, Task
    <2>2. CASE /\ RemoveEntity(w, k) /\ queue' = [queue EXCEPT ![w] = @ \ {k}]
               /\ UNCHANGED aborted
        BY <2>1, <2>2, <2>4, RemoveTypes DEF TypeOK
    <2>3. CASE aborted' = TRUE /\ UNCHANGED <<queue, chunk, players, count>>
        BY <2>1, <2>3, <2>4 DEF TypeOK
    <2> QED BY <1>4, <2>2, <2>3 DEF RemoveDestroyed
<1> QED BY <1>1, <1>2, <1>3, <1>4 DEF WorldTasks

LEMMA StepTypes ==
    ASSUME TypeOK, [Next]_vars
    PROVE  TypeOK'
<1>1. CASE UNCHANGED vars
    BY <1>1 DEF TypeOK, vars
<1>2. CASE Next
    <2>1. raced' \subseteq Clients
        BY <1>2 DEF TypeOK, Next, Alive
    <2>2. CASE Others
        <3>1. ASSUME NEW k \in Clients, UNCHANGED aborted,
                     \/ Network(k) \/ AuthenticateUser(k) \/ ServerTick(k)
                     \/ ServerTickOn(k) \/ HandedOver(k)
              PROVE  TypeOK'
            BY <2>1, <3>1, LoginTypes DEF Network
        <3>2. CASE RemoveMoved /\ UNCHANGED aborted
            BY <2>1, <3>2 DEF TypeOK, RemoveMoved
        <3> QED BY <2>2, <3>1, <3>2 DEF Others
    <2>3. ASSUME NEW w \in Worlds, World(w)
          PROVE  TypeOK'
        BY <2>1, <2>3, TickTypes, TaskStepTypes DEF World
    <2> QED BY <1>2, <2>2, <2>3 DEF Next
<1> QED BY <1>1, <1>2

\* Types (cServer, cClientHandle, cWorld and cEntity as far as a player's way goes).
THEOREM Types == Spec => []TypeOK
BY InitTypes, StepTypes, PTL DEF Spec

-----------------------------------------------------------------------------
(* The tasks of the worlds *)

IsTask(w, i, kind, k) == i \in 1..Len(tasks[w]) /\ tasks[w][i] = [kind |-> kind, of |-> k]

\* Only destroyed clients have their players destroyed.
Destroys ==
    \A w \in Worlds, k \in Clients, i \in Nat :
        IsTask(w, i, "destroy", k) => session[k] = "destroyed"

\* One task at most takes a player to another world, and none while one is being finished,
\* unless two threads have moved him at once.
OneWay ==
    \A k \in Clients \ twice, w, v \in Worlds :
        /\ \A i, j \in Nat : IsTask(w, i, "warp", k) /\ IsTask(v, j, "warp", k) => w = v /\ i = j
        /\ clearing[w] = k /\ clearing[v] = k => w = v
        /\ \A i \in Nat : clearing[w] = k => ~IsTask(v, i, "warp", k)

\* Until then m_NewWorld says where to.
HasDestination ==
    \A k \in Clients \ twice, w \in Worlds :
        /\ clearing[w] = k => warp[k] \in Worlds
        /\ \A i \in Nat : IsTask(w, i, "warp", k) => warp[k] \in Worlds

TaskInv == Destroys /\ OneWay /\ HasDestination

LEMMA AddedTask ==
    ASSUME TypeOK, NEW u, NEW kind, NEW k, AddTask(u, kind, k),
           NEW w \in Worlds, NEW i \in Nat, NEW d, NEW j, IsTask(w, i, d, j)'
    PROVE  IsTask(w, i, d, j) \/ (w = u /\ i = Len(tasks[u]) + 1 /\ d = kind /\ j = k)
<1> DEFINE t == [kind |-> kind, of |-> k]
<1>1. tasks[w] \in Seq(Tasks) /\ tasks' = [tasks EXCEPT ![u] = Append(tasks[u], t)]
    BY DEF TypeOK, AddTask
<1>2. CASE w # u
    <2>1. tasks'[w] = tasks[w]
        BY <1>1, <1>2 DEF TypeOK
    <2> QED BY <2>1 DEF IsTask
<1>3. CASE w = u
    <2>1. tasks'[w] = Append(tasks[w], t)
        BY <1>1, <1>3 DEF TypeOK
    <2>2. /\ Len(tasks[w]) \in Nat /\ Len(Append(tasks[w], t)) = Len(tasks[w]) + 1
          /\ Append(tasks[w], t)[Len(tasks[w]) + 1] = t
          /\ \A n \in 1..Len(tasks[w]) : Append(tasks[w], t)[n] = tasks[w][n]
        BY <1>1
    <2>3. i \in 1..Len(tasks[w]) + 1 /\ Append(tasks[w], t)[i] = [kind |-> d, of |-> j]
        BY <2>1, <2>2 DEF IsTask
    <2>4. CASE i \in 1..Len(tasks[w])
        BY <2>2, <2>3, <2>4 DEF IsTask
    <2>5. CASE i = Len(tasks[w]) + 1
        <3>1. [kind |-> kind, of |-> k] = [kind |-> d, of |-> j]
            BY <2>2, <2>3, <2>5
        <3>2. kind = d /\ k = j
            BY <3>1
        <3> QED BY <1>3, <2>5, <3>2
    <2> QED BY <2>2, <2>3, <2>4, <2>5
<1> QED BY <1>2, <1>3

\* Where the i-th task of world w was before the n-th of world u was taken.
Was(w, u, i, n) == IF w = u /\ i >= n THEN i + 1 ELSE i

LEMMA TakenTask ==
    ASSUME TypeOK, NEW u \in Worlds, NEW kind, NEW k, Task(u, kind, k)
    PROVE  /\ clearing[u] = None /\ twice' = twice
           /\ \E n \in Nat :
                 /\ IsTask(u, n, kind, k)
                 /\ \A w \in Worlds, i \in Nat : \A d, j :
                        IsTask(w, i, d, j)' => IsTask(w, Was(w, u, i, n), d, j)
<1>1. PICK n \in 1..due[u] : /\ tasks[u][n] = [kind |-> kind, of |-> k]
                             /\ tasks' = [tasks EXCEPT ![u] = RemoveAt(tasks[u], n)]
    BY DEF Task
<1>2. tasks[u] \in Seq(Tasks) /\ n \in 1..Len(tasks[u]) /\ n \in Nat
    BY DEF TypeOK
<1>3. /\ Len(RemoveAt(tasks[u], n)) = Len(tasks[u]) - 1 /\ Len(tasks[u]) \in Nat
      /\ \A i \in 1..Len(tasks[u]) - 1 :
             RemoveAt(tasks[u], n)[i] = tasks[u][IF i < n THEN i ELSE i + 1]
    BY <1>2, Removed
<1>4. IsTask(u, n, kind, k)
    BY <1>1, <1>2 DEF IsTask
<1>5. ASSUME NEW w \in Worlds, NEW i \in Nat, NEW d, NEW j, IsTask(w, i, d, j)'
      PROVE  IsTask(w, Was(w, u, i, n), d, j)
    <2>1. CASE w # u
        <3>1. tasks'[w] = tasks[w]
            BY <1>1, <2>1 DEF TypeOK
        <3> QED BY <1>5, <2>1, <3>1 DEF IsTask, Was
    <2>2. CASE w = u
        <3>1. tasks'[w] = RemoveAt(tasks[u], n)
            BY <1>1, <2>2 DEF TypeOK
        <3>2. i \in 1..Len(tasks[u]) - 1 /\ RemoveAt(tasks[u], n)[i] = [kind |-> d, of |-> j]
            BY <1>3, <1>5, <3>1 DEF IsTask
        <3>3. Was(w, u, i, n) = IF i < n THEN i ELSE i + 1
            BY <1>2, <2>2 DEF Was
        <3>4. Was(w, u, i, n) \in 1..Len(tasks[u]) /\ tasks[u][Was(w, u, i, n)] = [kind |-> d, of |-> j]
            BY <1>2, <1>3, <3>2, <3>3
        <3> QED BY <2>2, <3>4 DEF IsTask
    <2> QED BY <2>1, <2>2
<1> QED BY <1>2, <1>4, <1>5 DEF Task

\* A client that is destroyed stays so (cClientHandle::SetState).
LEMMA DestroyedStays ==
    ASSUME TypeOK, [Next]_vars, NEW k \in Clients, session[k] = "destroyed"
    PROVE  session'[k] = "destroyed"
<1> USE DEF TypeOK, Live, Destroy
<1>1. CASE UNCHANGED vars
    BY <1>1 DEF vars
<1>2. ASSUME NEW j \in Clients, NEW w \in Worlds, FinishAuthenticate(j, w)
      PROVE  session'[k] = "destroyed"
    BY <1>2 DEF FinishAuthenticate
<1>3. ASSUME NEW j \in Clients, Network(j)
      PROVE  session'[k] = "destroyed"
    BY <1>3 DEF Network, OnConnectionAccepted, SocketClosed
<1>4. ASSUME NEW j \in Clients, AuthenticateUser(j)
      PROVE  session'[k] = "destroyed"
    BY <1>2, <1>4 DEF AuthenticateUser, Authenticate
<1>5. ASSUME NEW j \in Clients, ServerTick(j)
      PROVE  session'[k] = "destroyed"
    BY <1>2, <1>5 DEF ServerTick, ServerTickIn
<1>6. CASE RemoveMoved
    BY <1>6 DEF RemoveMoved
<1>9. ASSUME NEW j \in Clients, ServerTickOn(j) \/ HandedOver(j)
      PROVE  session'[k] = "destroyed"
    BY <1>9 DEF ServerTickOn, HandedOver
<1>7. ASSUME NEW w \in Worlds, WorldTick(w)
      PROVE  session'[k] = "destroyed"
    BY <1>7 DEF WorldTick, ProcessProtocolIn, EndProcessProtocolIn, TickClient,
                EndTickClients, TickPlayer, AddEntities, EndTick
<1>8. ASSUME NEW w \in Worlds, WorldTasks(w)
      PROVE  session'[k] = "destroyed"
    BY <1>8 DEF WorldTasks, DoMoveToWorld, ResetNewWorld, WarpMissed, RemoveDestroyed
<1> QED BY <1>1, <1>3, <1>4, <1>5, <1>6, <1>7, <1>8, <1>9 DEF Next, Others, World

LEMMA InitTasks == Init => TaskInv
<1> SUFFICES ASSUME Init PROVE TaskInv
    OBVIOUS
<1>1. \A w \in Worlds, i \in Nat : \A d, k : ~IsTask(w, i, d, k)
    BY DEF Init, IsTask
<1>2. \A w \in Worlds, k \in Clients : clearing[w] # k
    BY PlayersAssumption DEF Init
<1> QED BY <1>1, <1>2 DEF TaskInv, Destroys, OneWay, HasDestination

\* A call of MoveToWorld.
LEMMA WarpCall ==
    ASSUME TypeOK, TaskInv, NEW c \in Clients, NEW u \in Worlds, MoveToWorld(c, u),
           \A k \in Clients : session[k] = "destroyed" => session'[k] = "destroyed"
    PROVE  TaskInv'
<1> USE DEF TaskInv, Destroys, OneWay, HasDestination
<1>1. /\ warp'[c] = u /\ \A k \in Clients \ {c} : warp'[k] = warp[k]
      /\ clearing' = clearing /\ twice \subseteq twice'
    BY DEF TypeOK, MoveToWorld
<1>2. CASE UNCHANGED tasks
    <2>1. \A w, i, d, k : IsTask(w, i, d, k)' <=> IsTask(w, i, d, k)
        BY <1>2 DEF IsTask
    <2> QED BY <1>1, <2>1
<1>3. CASE AddTask(world[c], "warp", c) /\ (warp[c] = None \/ c \in twice')
    <2>2. \A w \in Worlds, i \in Nat : \A d, k :
              IsTask(w, i, d, k)' =>
                  \/ IsTask(w, i, d, k)
                  \/ w = world[c] /\ i = Len(tasks[w]) + 1 /\ d = "warp" /\ k = c
        BY <1>3, AddedTask
    <2>3. c \notin twice' =>
              \A w \in Worlds : clearing[w] # c /\ \A i \in Nat : ~IsTask(w, i, "warp", c)
        BY <1>1, <1>3, PlayersAssumption
    <2>4. Destroys'
        BY <2>2
    <2>5. OneWay'
        <3>1. ASSUME NEW k \in Clients \ twice', NEW w \in Worlds, NEW v \in Worlds,
                     NEW i \in Nat, NEW j \in Nat,
                     IsTask(w, i, "warp", k)', IsTask(v, j, "warp", k)'
              PROVE  w = v /\ i = j
            BY <1>1, <2>2, <2>3, <3>1
        <3>2. ASSUME NEW k \in Clients \ twice', NEW w \in Worlds, NEW v \in Worlds, clearing[w] = k
              PROVE  /\ clearing[v] = k => w = v
                     /\ \A i \in Nat : ~IsTask(v, i, "warp", k)'
            BY <1>1, <2>2, <2>3, <3>2
        <3> QED BY <1>1, <3>1, <3>2
    <2>6. HasDestination'
        BY <1>1, <2>2
    <2> QED BY <2>4, <2>5, <2>6
<1>4. \/ UNCHANGED tasks
      \/ AddTask(world[c], "warp", c) /\ (warp[c] = None \/ c \in twice')
    <2>1. CASE IF warp[c] = None THEN AddTask(world[c], "warp", c) ELSE UNCHANGED tasks
        <3>1. CASE warp[c] = None
            <4>1. AddTask(world[c], "warp", c)
                BY <2>1, <3>1
            <4> QED BY <3>1, <4>1
        <3>2. CASE warp[c] # None
            BY <2>1, <3>2
        <3> QED BY <3>1, <3>2
    <2>2. CASE AddTask(world[c], "warp", c) /\ twice' = twice \cup {c}
        BY <2>2
    <2> QED BY <2>1, <2>2 DEF MoveToWorld
<1> QED BY <1>2, <1>3, <1>4

\* Nothing about the moves changes.
LEMMA TasksKept ==
    ASSUME TaskInv, UNCHANGED <<warp, tasks, twice, clearing>>,
           \A k \in Clients : session[k] = "destroyed" => session'[k] = "destroyed"
    PROVE  TaskInv'
<1>1. \A w, i, d, k : IsTask(w, i, d, k)' <=> IsTask(w, i, d, k)
    BY DEF IsTask
<1> QED BY <1>1 DEF TaskInv, Destroys, OneWay, HasDestination

LEMMA TaskDone ==
    ASSUME TypeOK, TaskInv, NEW w \in Worlds, WorldTasks(w)
    PROVE  TaskInv'
<1> USE DEF TaskInv, Destroys, OneWay, HasDestination
<1>1. ASSUME NEW c \in Clients, NEW kind, Task(w, kind, c), UNCHANGED <<session, warp>>,
             \/ UNCHANGED clearing
             \/ kind = "warp" /\ clearing' = [clearing EXCEPT ![w] = c]
      PROVE  TaskInv'
    <2>1. clearing[w] = None /\ twice' = twice
        BY <1>1, TakenTask
    <2>2. PICK n \in Nat :
              /\ IsTask(w, n, kind, c)
              /\ \A v \in Worlds, i \in Nat : \A d, k :
                     IsTask(v, i, d, k)' => IsTask(v, Was(v, w, i, n), d, k)
        BY <1>1, TakenTask
    <2>3. \A v \in Worlds, i \in Nat :
              /\ Was(v, w, i, n) \in Nat /\ (v = w => Was(v, w, i, n) # n)
              /\ \A j \in Nat : Was(v, w, i, n) = Was(v, w, j, n) => i = j
        BY DEF Was
    <2>4. \A v \in Worlds, k \in Clients :
              clearing'[v] = k => clearing[v] = k \/ (v = w /\ k = c /\ kind = "warp")
        BY <1>1 DEF TypeOK
    <2>5. /\ \A v \in Worlds \ {w} : clearing'[v] = clearing[v]
          /\ \A k \in Clients : clearing[w] # k
        BY <1>1, <2>1, PlayersAssumption DEF TypeOK
    <2>6. Destroys'
        <3>1. ASSUME NEW v \in Worlds, NEW k \in Clients, NEW i \in Nat, IsTask(v, i, "destroy", k)'
              PROVE  session[k] = "destroyed"
            <4>1. IsTask(v, Was(v, w, i, n), "destroy", k) /\ Was(v, w, i, n) \in Nat
                BY <2>2, <2>3, <3>1
            <4> QED BY <4>1
        <3> QED BY <1>1, <3>1
    <2>7. ASSUME NEW k \in Clients \ twice, NEW u \in Worlds, NEW v \in Worlds,
                 NEW i \in Nat, NEW j \in Nat,
                 IsTask(u, i, "warp", k)', IsTask(v, j, "warp", k)'
          PROVE  u = v /\ i = j
        <3>1. /\ IsTask(u, Was(u, w, i, n), "warp", k) /\ Was(u, w, i, n) \in Nat
              /\ IsTask(v, Was(v, w, j, n), "warp", k) /\ Was(v, w, j, n) \in Nat
            BY <2>2, <2>3, <2>7
        <3>2. u = v /\ Was(u, w, i, n) = Was(v, w, j, n)
            BY <3>1
        <3> QED BY <2>3, <3>2
    <2>8. ASSUME NEW k \in Clients \ twice, NEW u \in Worlds, NEW v \in Worlds, clearing'[u] = k
          PROVE  /\ clearing'[v] = k => u = v
                 /\ \A i \in Nat : ~IsTask(v, i, "warp", k)'
        <3>1. CASE clearing[u] = k
            <4>1. ASSUME NEW i \in Nat, IsTask(v, i, "warp", k)'
                  PROVE  FALSE
                <5>1. IsTask(v, Was(v, w, i, n), "warp", k) /\ Was(v, w, i, n) \in Nat
                    BY <2>2, <2>3, <4>1
                <5> QED BY <3>1, <5>1
            <4>2. clearing'[v] = k => clearing[v] = k
                BY <2>2, <2>4, <3>1
            <4> QED BY <3>1, <4>1, <4>2
        <3>2. CASE u = w /\ k = c /\ kind = "warp"
            <4>1. ASSUME NEW i \in Nat, IsTask(v, i, "warp", k)'
                  PROVE  FALSE
                <5>1. IsTask(v, Was(v, w, i, n), "warp", k) /\ Was(v, w, i, n) \in Nat
                    BY <2>2, <2>3, <4>1
                <5>2. v = w /\ Was(v, w, i, n) = n
                    BY <2>2, <3>2, <5>1
                <5> QED BY <2>3, <5>2
            <4>2. \A z \in Worlds : clearing[z] # c
                BY <2>2, <3>2
            <4> QED BY <2>4, <3>2, <4>1, <4>2
        <3> QED BY <2>4, <2>8, <3>1, <3>2
    <2>9. HasDestination'
        <3>1. ASSUME NEW k \in Clients \ twice, NEW v \in Worlds
              PROVE  /\ clearing'[v] = k => warp[k] \in Worlds
                     /\ \A i \in Nat : IsTask(v, i, "warp", k)' => warp[k] \in Worlds
            BY <2>2, <2>3, <2>4
        <3> QED BY <1>1, <2>1, <3>1
    <2> QED BY <2>1, <2>6, <2>7, <2>8, <2>9
<1>2. CASE ResetNewWorld(w)
    <2>1. PICK c \in Clients : c = clearing[w]
        BY <1>2 DEF ResetNewWorld, TypeOK
    <2>2. /\ UNCHANGED <<session, tasks, twice>>
          /\ \A k \in Clients \ {c} : warp'[k] = warp[k]
          /\ clearing'[w] = None /\ \A v \in Worlds \ {w} : clearing'[v] = clearing[v]
        BY <1>2, <2>1 DEF ResetNewWorld, TypeOK
    <2>3. \A v, i, d, k : IsTask(v, i, d, k)' <=> IsTask(v, i, d, k)
        BY <2>2 DEF IsTask
    <2>4. c \notin twice =>
              \A v \in Worlds : clearing'[v] # c /\ \A i \in Nat : ~IsTask(v, i, "warp", c)
        BY <2>1, <2>2, PlayersAssumption
    <2>5. \A v \in Worlds, k \in Clients : clearing'[v] = k => clearing[v] = k
        BY <2>2, PlayersAssumption
    <2> QED BY <2>2, <2>3, <2>4, <2>5
<1> QED BY <1>1, <1>2 DEF WorldTasks, DoMoveToWorld, WarpMissed, RemoveDestroyed

LEMMA StepTasks ==
    ASSUME TypeOK, TaskInv, [Next]_vars
    PROVE  TaskInv'
<1>1. \A k \in Clients : session[k] = "destroyed" => session'[k] = "destroyed"
    BY DestroyedStays
<1>2. CASE UNCHANGED <<warp, tasks, twice, clearing>>
    BY <1>1, <1>2, TasksKept
<1>3. ASSUME NEW w \in Worlds, WorldTick(w)
      PROVE  TaskInv'
    <2>1. ASSUME NEW k \in Clients, ProcessProtocolIn(w, k)
          PROVE  TaskInv'
        BY <1>1, <1>2, <2>1, WarpCall DEF ProcessProtocolIn
    <2>2. ASSUME NEW k \in Clients, TickPlayer(w, k)
          PROVE  TaskInv'
        <3>1. CASE /\ session[k] = "destroyed" /\ AddTask(world[k], "destroy", k)
                   /\ UNCHANGED <<warp, twice, clearing, session>>
            <4>1. \A v \in Worlds, i \in Nat : \A d, j :
                      IsTask(v, i, d, j)' => IsTask(v, i, d, j) \/ (d = "destroy" /\ j = k)
                BY <3>1, AddedTask
            <4> QED BY <3>1, <4>1 DEF TaskInv, Destroys, OneWay, HasDestination
        <3> QED BY <1>1, <1>2, <2>2, <3>1, WarpCall DEF TickPlayer
    <2>3. CASE EndProcessProtocolIn(w) \/ EndTickClients(w) \/ AddEntities(w) \/ EndTick(w)
               \/ \E k \in Clients : TickClient(w, k)
        BY <1>2, <2>3 DEF EndProcessProtocolIn, EndTickClients, AddEntities, EndTick, TickClient
    <2> QED BY <1>3, <2>1, <2>2, <2>3 DEF WorldTick
<1>4. CASE Others
    <2>1. ASSUME NEW k \in Clients, ServerTickOn(k)
          PROVE  TaskInv'
        BY <1>1, <1>2, <2>1, WarpCall DEF ServerTickOn
    <2>2. CASE ~\E k \in Clients : ServerTickOn(k)
        <3>1. UNCHANGED <<warp, tasks, twice, clearing>>
            BY <1>4, <2>2 DEF Others, Network, OnConnectionAccepted, SocketClosed,
                              AuthenticateUser, ServerTick, RemoveMoved, HandedOver
        <3> QED BY <1>2, <3>1
    <2> QED BY <2>1, <2>2
<1> QED BY <1>2, <1>3, <1>4, TaskDone DEF Next, World, vars

-----------------------------------------------------------------------------
(* Places and tickers *)

\* Nobody is waiting for his turn when the tasks run.
Restful == \A w \in Worlds : phase[w] = "tasks" => todo[w] = {}

\* Who is in a world, on his way there, or was refused, has logged in.
Joined ==
    \A k \in Clients : InWorld(k) \/ k \in toRemove \/ k \in refused =>
                           session[k] \in {"downloading", "playing", "destroyed"}

\* Who is taken off the server thread is in a world, or was refused.
Moved == \A k \in toRemove : Live(k) => InWorld(k) \/ k \in refused

\* ... never both.
Apart == \A k \in refused : ~InWorld(k)

PlaceInv == InOnePlace /\ Restful /\ Joined /\ Moved /\ Apart /\ HasOneTickerUnlessJoining

LEMMA InitPlaces == Init => PlaceInv
BY DEF Init, PlaceInv, InOnePlace, Restful, Joined, Moved, Apart, HasOneTickerUnlessJoining,
       Inside, InWorld, Live

\* A step that moves nobody: sessions go on as they may.
LEMMA Stays ==
    ASSUME TypeOK, PlaceInv, UNCHANGED <<queue, chunk, players, world, refused>>,
           \A w \in Worlds : todo'[w] \subseteq players[w],
           Restful',
           NEW gone, clients' = clients \ gone,
           \/ toRemove' = toRemove /\ \A k \in gone : ~Live(k)'
           \/ toRemove' = {} /\ gone = toRemove,
           \A k \in Clients :
               /\ Live(k)' => Live(k)
               /\ session[k] \in {"downloading", "playing", "destroyed"} =>
                      session'[k] \in {"downloading", "playing", "destroyed"}
    PROVE  PlaceInv'
<1>1. \A k, w : Inside(k, w)' <=> Inside(k, w)
    BY DEF Inside
<1>2. \A k : InWorld(k)' <=> InWorld(k)
    BY <1>1 DEF InWorld
<1>3. InOnePlace'
    BY <1>1 DEF PlaceInv, InOnePlace
<1>4. Joined' /\ Moved' /\ Apart'
    <2>1. toRemove' \subseteq toRemove /\ toRemove \subseteq Clients
        BY DEF TypeOK
    <2> QED BY <1>2, <2>1 DEF PlaceInv, Joined, Moved, Apart
<1>5. HasOneTickerUnlessJoining'
    BY <1>2 DEF PlaceInv, HasOneTickerUnlessJoining, Moved
<1> QED BY <1>3, <1>4, <1>5 DEF PlaceInv

\* A login is finished: the player enters world w, or is refused.
LEMMA Enters ==
    ASSUME TypeOK, PlaceInv, NEW k \in Clients, NEW w \in Worlds, FinishAuthenticate(k, w),
           ~InWorld(k), k \notin refused, UNCHANGED <<todo, phase, clients>>
    PROVE  PlaceInv'
<1>1. /\ UNCHANGED <<chunk, players>> /\ toRemove' = toRemove \cup {k}
      /\ session'[k] \in {"downloading", "destroyed"}
      /\ \A j \in Clients \ {k} : session'[j] = session[j]
    <2>1. session' = IF session[k] = "destroyed" THEN session
                     ELSE [session EXCEPT ![k] = "downloading"]
        BY DEF FinishAuthenticate
    <2>2. session \in [Clients -> States]
        BY DEF TypeOK
    <2>3. /\ session'[k] \in {"downloading", "destroyed"}
          /\ \A j \in Clients \ {k} : session'[j] = session[j]
        BY <2>1, <2>2
    <2> QED BY <2>3 DEF FinishAuthenticate
<1>2. \A j \in Clients \ {k} : Live(j)' <=> Live(j)
    BY <1>1 DEF Live
<1>3. Restful'
    BY DEF PlaceInv, Restful
<1>4. CASE /\ world' = [world EXCEPT ![k] = w] /\ queue' = [queue EXCEPT ![w] = @ \cup {k}]
           /\ UNCHANGED refused
    <2>1. /\ queue'[w] = queue[w] \cup {k} /\ \A v \in Worlds \ {w} : queue'[v] = queue[v]
          /\ world'[k] = w /\ \A j \in Clients \ {k} : world'[j] = world[j]
        BY <1>4 DEF TypeOK
    <2>2. \A v \in Worlds, j \in Clients : Inside(j, v)' <=> Inside(j, v) \/ (j = k /\ v = w)
        BY <1>1, <2>1 DEF Inside
    <2>3. \A j \in Clients : InWorld(j)' <=> InWorld(j) \/ j = k
        BY <2>2 DEF InWorld
    <2>4. \A v \in Worlds : k \notin queue[v] /\ k \notin chunk[v]
        BY DEF InWorld, Inside
    <2>5. InOnePlace'
        <3>1. ASSUME NEW v \in Worlds
              PROVE  /\ players'[v] = chunk'[v] /\ queue'[v] \cap chunk'[v] = {}
                     /\ todo'[v] \subseteq players'[v]
            BY <1>1, <2>1, <2>4 DEF PlaceInv, InOnePlace
        <3>2. ASSUME NEW v \in Worlds, NEW j \in Clients, Inside(j, v)'
              PROVE  world'[j] = v
            <4>1. CASE j = k
                BY <2>1, <2>2, <2>4, <3>2, <4>1 DEF Inside
            <4>2. CASE j # k
                BY <2>1, <2>2, <3>2, <4>2 DEF PlaceInv, InOnePlace
            <4> QED BY <4>1, <4>2
        <3> QED BY <3>1, <3>2 DEF InOnePlace
    <2>6. Joined' /\ Moved' /\ Apart'
        BY <1>1, <1>2, <1>4, <2>3 DEF PlaceInv, Joined, Moved, Apart, TypeOK
    <2>7. HasOneTickerUnlessJoining'
        BY <1>1, <1>2, <1>4, <2>3 DEF PlaceInv, HasOneTickerUnlessJoining
    <2> QED BY <1>3, <2>5, <2>6, <2>7 DEF PlaceInv
<1>5. CASE refused' = refused \cup {k} /\ UNCHANGED <<world, queue>>
    <2>1. \A v, j : Inside(j, v)' <=> Inside(j, v)
        BY <1>1, <1>5 DEF Inside
    <2>2. \A j : InWorld(j)' <=> InWorld(j)
        BY <2>1 DEF InWorld
    <2>3. InOnePlace'
        BY <1>1, <1>5, <2>1 DEF PlaceInv, InOnePlace
    <2>4. Joined' /\ Moved' /\ Apart'
        BY <1>1, <1>2, <1>5, <2>2 DEF PlaceInv, Joined, Moved, Apart, TypeOK
    <2>5. HasOneTickerUnlessJoining'
        BY <1>1, <1>2, <1>5, <2>2 DEF PlaceInv, HasOneTickerUnlessJoining
    <2> QED BY <1>3, <2>3, <2>4, <2>5 DEF PlaceInv
<1> QED BY <1>4, <1>5 DEF FinishAuthenticate

LEMMA LoginPlaces ==
    ASSUME TypeOK, PlaceInv, NEW k \in Clients,
           \/ Network(k) \/ AuthenticateUser(k) \/ ServerTick(k)
           \/ ServerTickOn(k) \/ HandedOver(k)
    PROVE  PlaceInv'
<1> USE DEF Live
<1>1. /\ UNCHANGED <<todo, phase>> /\ Restful'
      /\ \A w \in Worlds : todo'[w] \subseteq players[w]
    <2>1. UNCHANGED <<todo, phase>>
        BY DEF Network, OnConnectionAccepted, SocketClosed, AuthenticateUser, ServerTick,
               ServerTickOn, HandedOver
    <2> QED BY <2>1 DEF PlaceInv, InOnePlace, Restful
<1>2. CASE OnConnectionAccepted(k)
    <2>1. /\ UNCHANGED <<placeVars, toRemove, refused>> /\ clients' = clients \cup {k}
          /\ session[k] = "unborn" /\ session'[k] = "connected"
          /\ \A j \in Clients \ {k} : session'[j] = session[j]
        BY <1>2 DEF OnConnectionAccepted, TypeOK
    <2>2. ~InWorld(k) /\ k \notin toRemove /\ k \notin refused
        BY <2>1 DEF PlaceInv, Joined
    <2>3. \A j : InWorld(j)' <=> InWorld(j)
        BY <2>1 DEF InWorld, Inside
    <2>4. InOnePlace'
        BY <1>1, <2>1 DEF PlaceInv, InOnePlace, Inside
    <2>5. Joined' /\ Moved' /\ Apart'
        BY <2>1, <2>2, <2>3 DEF PlaceInv, Joined, Moved, Apart, TypeOK
    <2>6. HasOneTickerUnlessJoining'
        BY <2>1, <2>2, <2>3 DEF PlaceInv, HasOneTickerUnlessJoining
    <2> QED BY <1>1, <2>4, <2>5, <2>6 DEF PlaceInv
<1> DEFINE Still == UNCHANGED <<toRemove, refused, queue, chunk, players, world>>
           Drops(gone) == clients' = clients \ gone /\ \A j \in gone : session'[j] = "destroyed"
           Goes == \/ Destroy(k) \/ UNCHANGED session
                   \/ /\ session[k] = "connected"
                      /\ session' = [session EXCEPT ![k] = "authenticating"]
<1>3. ASSUME Still, NEW gone, Drops(gone), Goes
      PROVE  PlaceInv'
    <2>1. \A j \in Clients :
              /\ Live(j)' => Live(j)
              /\ session[j] \in {"downloading", "playing", "destroyed"} =>
                     session'[j] \in {"downloading", "playing", "destroyed"}
        <3>1. session \in [Clients -> States]
            BY DEF TypeOK
        <3> QED BY <1>3, <3>1 DEF Destroy
    <2>2. toRemove' = toRemove /\ \A j \in gone : ~Live(j)'
        BY <1>3
    <2>3. UNCHANGED <<queue, chunk, players, world, refused>>
        BY <1>3
    <2> HIDE DEF Live
    <2> QED BY <1>1, <1>3, <2>1, <2>2, <2>3, Stays
<1>4. ASSUME UNCHANGED <<clients, toRemove, refused, placeVars>>, Destroy(k) \/ UNCHANGED session
      PROVE  PlaceInv'
    <2>1. Still /\ Drops({}) /\ Goes
        BY <1>4
    <2> HIDE DEF Still, Drops, Goes
    <2> QED BY <1>3, <2>1
<1>5. CASE AuthenticateUser(k)
    <2>1. UNCHANGED clients
        BY <1>5 DEF AuthenticateUser
    <2>2. CASE Authenticate(k) /\ ~UNCHANGED <<session, temp, handVars, placeVars>>
        <3>1. CASE k \in Configures
            BY <1>4, <2>1, <2>2, <3>1 DEF Authenticate
        <3>2. CASE k \notin Configures
            <4>1. PICK w \in Worlds : FinishAuthenticate(k, w)
                BY <2>2, <3>2 DEF Authenticate
            <4>2. session[k] = "authenticating"
                BY <2>2 DEF Authenticate
            <4>3. ~InWorld(k) /\ k \notin refused
                BY <4>2 DEF PlaceInv, Joined
            <4> QED BY <1>1, <2>1, <4>1, <4>3, Enters
        <3> QED BY <3>1, <3>2
    <2>3. CASE UNCHANGED <<handVars, placeVars>> /\ (Destroy(k) \/ UNCHANGED session)
        BY <1>4, <2>1, <2>3
    <2> QED BY <1>5, <2>2, <2>3 DEF AuthenticateUser
<1>6. CASE ServerTick(k)
    <2>1. /\ k \in clients /\ k \notin toRemove /\ ServerTickIn(k) /\ joining = None
          /\ clients' = IF session'[k] = "destroyed" /\ joining' = None
                        THEN clients \ {k} ELSE clients
        BY <1>6 DEF ServerTick
    <2>2. ~InWorld(k) /\ k \notin refused
        BY <2>1 DEF PlaceInv, HasOneTickerUnlessJoining
    <2>3. ASSUME NEW w \in Worlds, FinishAuthenticate(k, w)
          PROVE  PlaceInv'
        <3>1. clients' = clients
            BY <2>1, <2>3, PlayersAssumption DEF FinishAuthenticate
        <3> QED BY <1>1, <2>2, <2>3, <3>1, Enters
    <2>4. ASSUME UNCHANGED <<handVars, placeVars>>,
                 Destroy(k) \/ UNCHANGED session
                 \/ (/\ session[k] = "connected"
                     /\ session' = [session EXCEPT ![k] = "authenticating"])
          PROVE  PlaceInv'
        <3>1. CASE session'[k] = "destroyed"
            <4>1. Still /\ Drops({k}) /\ Goes
                BY <2>1, <2>4, <3>1
            <4> HIDE DEF Still, Drops, Goes
            <4> QED BY <1>3, <4>1
        <3>2. CASE session'[k] # "destroyed"
            <4>1. Still /\ Drops({}) /\ Goes
                BY <2>1, <2>4, <3>2
            <4> HIDE DEF Still, Drops, Goes
            <4> QED BY <1>3, <4>1
        <3> QED BY <3>1, <3>2
    <2> QED BY <2>1, <2>3, <2>4 DEF ServerTickIn
<1>7. CASE ServerTickOn(k)
    BY <1>4, <1>7 DEF ServerTickOn
<1>8. CASE HandedOver(k)
    <2>1. Still /\ Goes
        BY <1>8 DEF HandedOver
    <2>2. CASE session[k] = "destroyed" /\ clients' = clients \ {k}
        <3>1. Drops({k})
            BY <1>8, <2>2 DEF HandedOver
        <3> HIDE DEF Still, Drops, Goes
        <3> QED BY <1>3, <2>1, <3>1
    <2>3. CASE clients' = clients
        <3>1. Drops({})
            BY <2>3
        <3> HIDE DEF Still, Drops, Goes
        <3> QED BY <1>3, <2>1, <3>1
    <2> QED BY <1>8, <2>2, <2>3 DEF HandedOver
<1> QED BY <1>2, <1>4, <1>5, <1>6, <1>7, <1>8 DEF Network, SocketClosed

LEMMA ServerPlaces ==
    ASSUME TypeOK, PlaceInv, RemoveMoved
    PROVE  PlaceInv'
<1>1. /\ UNCHANGED <<session, placeVars, tickVars, refused>>
      /\ toRemove' = {} /\ clients' = clients \ toRemove
    BY DEF RemoveMoved
<1>2. Restful' /\ \A w \in Worlds : todo'[w] \subseteq players[w]
    BY <1>1 DEF PlaceInv, InOnePlace, Restful
<1>3. \A j \in Clients :
          /\ Live(j)' => Live(j)
          /\ session[j] \in {"downloading", "playing", "destroyed"} =>
                 session'[j] \in {"downloading", "playing", "destroyed"}
    BY <1>1 DEF Live
<1>4. UNCHANGED <<queue, chunk, players, world, refused>>
    BY <1>1
<1> QED BY <1>1, <1>2, <1>3, <1>4, Stays

\* The players a phase still has to handle are players of the world.
LEMMA PhasePlaces ==
    ASSUME TypeOK, PlaceInv, NEW w \in Worlds
    PROVE  /\ \A p \in Phases \ {"tasks"} : \A k :
                  Handle(w, p, k) /\ UNCHANGED <<phase, players>> =>
                  Restful' /\ \A v \in Worlds : todo'[v] \subseteq players[v]
           /\ \A p, next \in Phases, who \in SUBSET players[w] :
                  /\ EndPhase(w, p, next, who) /\ (next = "tasks" => who = {})
                  => Restful' /\ \A v \in Worlds : todo'[v] \subseteq players[v]
<1>1. ASSUME NEW p \in Phases \ {"tasks"}, NEW k, Handle(w, p, k), UNCHANGED <<phase, players>>
      PROVE  Restful' /\ \A v \in Worlds : todo'[v] \subseteq players[v]
    BY <1>1 DEF Handle, At, TypeOK, PlaceInv, InOnePlace, Restful
<1>2. ASSUME NEW p \in Phases, NEW next \in Phases, NEW who \in SUBSET players[w],
             EndPhase(w, p, next, who), next = "tasks" => who = {}
      PROVE  Restful' /\ \A v \in Worlds : todo'[v] \subseteq players[v]
    BY <1>2 DEF EndPhase, Goto, TypeOK, PlaceInv, InOnePlace, Restful
<1> QED BY <1>1, <1>2

LEMMA TickPlaces ==
    ASSUME TypeOK, PlaceInv, NEW w \in Worlds, WorldTick(w)
    PROVE  PlaceInv'
<1> USE DEF Phases
<1>1. ASSUME UNCHANGED <<queue, chunk, players, world, toRemove, refused, clients>>,
             Restful', \A v \in Worlds : todo'[v] \subseteq players[v],
             \/ UNCHANGED session
             \/ \E k \in Clients : Destroy(k)
             \/ \E k \in Clients : /\ session[k] = "downloading"
                                   /\ session' = [session EXCEPT ![k] = "playing"]
      PROVE  PlaceInv'
    <2>1. \A j \in Clients :
              /\ Live(j)' => Live(j)
              /\ session[j] \in {"downloading", "playing", "destroyed"} =>
                     session'[j] \in {"downloading", "playing", "destroyed"}
        BY <1>1 DEF Destroy, TypeOK, Live
    <2>2. toRemove' = toRemove /\ clients' = clients \ {} /\ \A j \in {} : ~Live(j)'
        BY <1>1
    <2>3. UNCHANGED <<queue, chunk, players, world, refused>>
        BY <1>1
    <2> QED BY <1>1, <2>1, <2>2, <2>3, Stays
<1>2. ASSUME NEW k \in Clients, ProcessProtocolIn(w, k)
      PROVE  PlaceInv'
    <2>1. /\ Restful' /\ \A v \in Worlds : todo'[v] \subseteq players[v]
        BY <1>2, PhasePlaces DEF ProcessProtocolIn
    <2> QED BY <1>1, <1>2, <2>1 DEF ProcessProtocolIn
<1>3. CASE EndProcessProtocolIn(w)
    <2>1. /\ Restful' /\ \A v \in Worlds : todo'[v] \subseteq players[v]
        BY <1>3, PhasePlaces DEF EndProcessProtocolIn
    <2> QED BY <1>1, <1>3, <2>1 DEF EndProcessProtocolIn
<1>4. ASSUME NEW k \in Clients, TickClient(w, k)
      PROVE  PlaceInv'
    <2>1. /\ Restful' /\ \A v \in Worlds : todo'[v] \subseteq players[v]
        BY <1>4, PhasePlaces DEF TickClient
    <2> QED BY <1>1, <1>4, <2>1 DEF TickClient
<1>5. CASE EndTickClients(w)
    <2>1. (IF w \in valid' THEN chunk[w] ELSE {}) \in SUBSET players[w]
        BY DEF PlaceInv, InOnePlace
    <2>2. /\ Restful' /\ \A v \in Worlds : todo'[v] \subseteq players[v]
        BY <1>5, <2>1, PhasePlaces DEF EndTickClients
    <2> QED BY <1>1, <1>5, <2>2 DEF EndTickClients
<1>6. ASSUME NEW k \in Clients, TickPlayer(w, k)
      PROVE  PlaceInv'
    <2>1. /\ Restful' /\ \A v \in Worlds : todo'[v] \subseteq players[v]
        BY <1>6, PhasePlaces DEF TickPlayer
    <2> QED BY <1>1, <1>6, <2>1 DEF TickPlayer
<1>7. CASE AddEntities(w)
    <2>1. /\ Restful' /\ \A v \in Worlds : todo'[v] \subseteq players[v]
        BY <1>7, PhasePlaces DEF AddEntities
    <2>2. /\ queue'[w] = {} /\ \A v \in Worlds \ {w} : queue'[v] = queue[v]
          /\ chunk'[w] = chunk[w] \cup queue[w] /\ \A v \in Worlds \ {w} : chunk'[v] = chunk[v]
          /\ players'[w] = players[w] \cup queue[w]
          /\ \A v \in Worlds \ {w} : players'[v] = players[v]
          /\ UNCHANGED <<session, loginVars, world>>
        BY <1>7 DEF AddEntities, TypeOK
    <2>3. \A v \in Worlds : \A k : Inside(k, v)' <=> Inside(k, v)
        BY <2>2 DEF Inside
    <2>4. \A k : InWorld(k)' <=> InWorld(k)
        BY <2>3 DEF InWorld
    <2>5. InOnePlace'
        BY <2>1, <2>2, <2>3 DEF PlaceInv, InOnePlace
    <2>6. Joined' /\ Moved' /\ Apart' /\ HasOneTickerUnlessJoining'
        BY <2>2, <2>4 DEF PlaceInv, Joined, Moved, Apart, HasOneTickerUnlessJoining, Live
    <2> QED BY <2>1, <2>5, <2>6 DEF PlaceInv
<1>8. CASE EndTick(w)
    <2>1. /\ Restful' /\ \A v \in Worlds : todo'[v] \subseteq players[v]
        BY <1>8, PhasePlaces DEF EndTick
    <2> QED BY <1>1, <1>8, <2>1 DEF EndTick
<1> QED BY <1>2, <1>3, <1>4, <1>5, <1>6, <1>7, <1>8 DEF WorldTick

\* Player k leaves world w, for world to, or, if his client is destroyed, for none.
Leaving(k, w, to) ==
    /\ RemoveEntity(w, k)
    /\ \A v \in Worlds : queue'[v] = (queue[v] \ {k}) \cup {j \in {k} : v = to}
    /\ world' = [world EXCEPT ![k] = IF to = None THEN @ ELSE to]
    /\ to # w /\ (to = None => session[k] = "destroyed")

LEMMA Leaves ==
    ASSUME TypeOK, PlaceInv, NEW w \in Worlds, NEW k \in Clients, Inside(k, w),
           phase[w] = "tasks", UNCHANGED <<session, clients, toRemove, refused, todo, phase>>,
           NEW to \in Worlds \cup {None}, Leaving(k, w, to)
    PROVE  PlaceInv'
<1> USE DEF Leaving
<1>1. /\ chunk'[w] = chunk[w] \ {k} /\ \A v \in Worlds \ {w} : chunk'[v] = chunk[v]
      /\ players'[w] = players[w] \ {k} /\ \A v \in Worlds \ {w} : players'[v] = players[v]
    BY DEF RemoveEntity, TypeOK
<1>2. \A v \in Worlds \ {w} : ~Inside(k, v)
    BY DEF PlaceInv, InOnePlace
<1>3. \A v \in Worlds : k \notin chunk'[v]
    BY <1>1, <1>2 DEF Inside
<1>4. /\ \A v \in Worlds : Inside(k, v)' <=> v = to
      /\ \A j \in Clients \ {k}, v \in Worlds : Inside(j, v)' <=> Inside(j, v)
    BY <1>1, <1>3 DEF Inside
<1>5. /\ InWorld(k)' <=> to # None
      /\ \A j \in Clients \ {k} : InWorld(j)' <=> InWorld(j)
    BY <1>4, PlayersAssumption DEF InWorld
<1>6. InWorld(k)
    BY DEF InWorld
<1>7. InOnePlace'
    <2>1. ASSUME NEW v \in Worlds
          PROVE  /\ players'[v] = chunk'[v] /\ queue'[v] \cap chunk'[v] = {}
                 /\ todo'[v] \subseteq players'[v]
        <3>1. players[v] = chunk[v] /\ queue[v] \cap chunk[v] = {} /\ todo[v] \subseteq players[v]
            BY DEF PlaceInv, InOnePlace
        <3>2. chunk'[v] = chunk[v] \ {k} /\ players'[v] = players[v] \ {k}
            BY <1>1, <1>2, <3>1 DEF Inside
        <3>3. queue'[v] \cap chunk'[v] = {}
            BY <3>1, <3>2
        <3>4. k \notin todo[v]
            <4>1. CASE v = w
                BY <4>1 DEF PlaceInv, Restful
            <4>2. CASE v # w
                BY <1>2, <3>1, <4>2 DEF Inside
            <4> QED BY <4>1, <4>2
        <3> QED BY <3>1, <3>2, <3>3, <3>4
    <2>2. \A j \in Clients, v \in Worlds : Inside(j, v)' => world'[j] = v
        BY <1>4, PlayersAssumption DEF PlaceInv, InOnePlace, TypeOK
    <2> QED BY <2>1, <2>2 DEF InOnePlace
<1>8. Restful' /\ Joined'
    BY <1>5, <1>6 DEF PlaceInv, Restful, Joined
<1>9. Moved' /\ Apart' /\ HasOneTickerUnlessJoining'
    <2>1. toRemove \subseteq Clients /\ refused \subseteq Clients
        BY DEF TypeOK
    <2> QED BY <1>5, <1>6, <2>1 DEF PlaceInv, Moved, Apart, HasOneTickerUnlessJoining, Live
<1> QED BY <1>7, <1>8, <1>9 DEF PlaceInv

LEMMA TaskPlaces ==
    ASSUME TypeOK, PlaceInv, TaskInv, NEW w \in Worlds, WorldTasks(w)
    PROVE  PlaceInv'
<1>1. ASSUME UNCHANGED <<session, clients, toRemove, refused, queue, chunk, players, world, todo, phase>>
      PROVE  PlaceInv'
    BY <1>1 DEF PlaceInv, InOnePlace, Restful, Joined, Moved, Apart, HasOneTickerUnlessJoining,
                InWorld, Inside, Live
<1>2. ASSUME NEW k \in Clients, DoMoveToWorld(w, k)
      PROVE  PlaceInv'
    <2>1. /\ Task(w, "warp", k) /\ Findable(w, k) /\ phase[w] = "tasks"
          /\ UNCHANGED <<session, clients, toRemove, refused, todo, phase>>
        BY <1>2 DEF DoMoveToWorld, Task, At
    <2>3. Inside(k, w)
        BY <2>1 DEF Findable, Inside
    <2>4. CASE warp[k] \in {None, w}
        BY <1>1, <1>2, <2>1, <2>4 DEF DoMoveToWorld
    <2>5. CASE warp[k] \notin {None, w}
        <3>1. /\ RemoveEntity(w, k) /\ world' = [world EXCEPT ![k] = warp[k]]
              /\ queue' = [queue EXCEPT ![w] = @ \ {k}, ![warp[k]] = @ \cup {k}]
            BY <1>2, <2>5 DEF DoMoveToWorld
        <3>2. \A v \in Worlds \ {w} : k \notin queue[v]
            BY <2>3 DEF PlaceInv, InOnePlace, Inside
        <3>3. PICK to \in Worlds : to = warp[k]
            BY <2>5 DEF TypeOK
        <3>4. \A v \in Worlds : queue'[v] = (queue[v] \ {k}) \cup {j \in {k} : v = to}
            BY <2>5, <3>1, <3>2, <3>3 DEF TypeOK
        <3>5. to # None /\ to # w /\ world' = [world EXCEPT ![k] = IF to = None THEN @ ELSE to]
            BY <2>5, <3>1, <3>3, PlayersAssumption
        <3>6. Leaving(k, w, to)
            BY <3>1, <3>4, <3>5 DEF Leaving
        <3> QED BY <2>1, <2>3, <3>6, Leaves
    <2> QED BY <2>4, <2>5
<1>3. ASSUME NEW k \in Clients, RemoveDestroyed(w, k)
      PROVE  PlaceInv'
    <2>1. /\ Task(w, "destroy", k) /\ phase[w] = "tasks"
          /\ UNCHANGED <<session, clients, toRemove, refused, todo, phase, world>>
        BY <1>3 DEF RemoveDestroyed, Task, At
    <2>2. session[k] = "destroyed"
        BY <2>1, TakenTask DEF TaskInv, Destroys
    <2>3. CASE Inside(k, w)
        <3>1. RemoveEntity(w, k) /\ queue' = [queue EXCEPT ![w] = @ \ {k}]
            BY <1>3, <2>3 DEF RemoveDestroyed
        <3>2. \A v \in Worlds \ {w} : k \notin queue[v]
            BY <2>3 DEF PlaceInv, InOnePlace, Inside
        <3>3. PICK to : to = None
            OBVIOUS
        <3>4. \A v \in Worlds : queue'[v] = (queue[v] \ {k}) \cup {j \in {k} : v = to}
            BY <3>1, <3>2, <3>3, PlayersAssumption DEF TypeOK
        <3>5. to # w /\ to \in Worlds \cup {None}
              /\ world' = [world EXCEPT ![k] = IF to = None THEN @ ELSE to]
            BY <2>1, <3>3, PlayersAssumption DEF TypeOK
        <3>6. Leaving(k, w, to)
            BY <2>2, <3>1, <3>4, <3>5 DEF Leaving
        <3> QED BY <2>1, <2>3, <3>5, <3>6, Leaves
    <2>4. CASE ~Inside(k, w)
        BY <1>1, <1>3, <2>1, <2>4 DEF RemoveDestroyed
    <2> QED BY <2>3, <2>4
<1>4. ASSUME NEW k \in Clients, WarpMissed(w, k)
      PROVE  PlaceInv'
    BY <1>1, <1>4 DEF WarpMissed
<1>5. CASE ResetNewWorld(w)
    BY <1>1, <1>5 DEF ResetNewWorld
<1> QED BY <1>2, <1>3, <1>4, <1>5 DEF WorldTasks

LEMMA StepPlaces ==
    ASSUME TypeOK, PlaceInv, TaskInv, [Next]_vars
    PROVE  PlaceInv'
<1>1. CASE UNCHANGED vars
    BY <1>1 DEF vars, PlaceInv, InOnePlace, Restful, Joined, Moved, Apart,
                HasOneTickerUnlessJoining, InWorld, Inside, Live
<1>2. CASE Others
    BY <1>2, LoginPlaces, ServerPlaces DEF Others
<1>3. ASSUME NEW w \in Worlds, World(w)
      PROVE  PlaceInv'
    BY <1>3, TickPlaces, TaskPlaces DEF World
<1> QED BY <1>1, <1>2, <1>3 DEF Next

-----------------------------------------------------------------------------
(* Where the players are who are on their way *)

\* Whoever is destroyed on his way is recorded.
Recorded == \A k \in Clients : session[k] = "destroyed" /\ warp[k] # None => k \in raced

\* A player who is to be moved is in the world that will move him, unless his client was
\* destroyed: his two tasks may run in either order.
WarpsInside ==
    \A w \in Worlds, k \in Clients \ twice, i \in Nat :
        IsTask(w, i, "warp", k) => Inside(k, w) \/ k \in raced

OrderInv == Recorded /\ WarpsInside

LEMMA InitOrder == Init => OrderInv
<1> SUFFICES ASSUME Init PROVE OrderInv
    OBVIOUS
<1>1. \A w \in Worlds, i \in Nat : \A d, k : ~IsTask(w, i, d, k)
    BY DEF Init, IsTask
<1> QED BY <1>1 DEF OrderInv, Recorded, WarpsInside, Init

\* The tasks of player k disturb nobody else.
LEMMA Elsewhere ==
    ASSUME TypeOK, NEW w \in Worlds, NEW k \in Clients,
           DoMoveToWorld(w, k) \/ RemoveDestroyed(w, k)
    PROVE  \A j \in Clients \ {k}, v \in Worlds : Inside(j, v)' <=> Inside(j, v)
<1>1. CASE RemoveEntity(w, k) /\ queue' = [queue EXCEPT ![w] = @ \ {k}]
    BY <1>1 DEF RemoveEntity, Inside, TypeOK
<1>2. CASE RemoveEntity(w, k) /\ warp[k] \in Worlds
           /\ queue' = [queue EXCEPT ![w] = @ \ {k}, ![warp[k]] = @ \cup {k}]
    BY <1>2 DEF RemoveEntity, Inside, TypeOK
<1>3. CASE UNCHANGED <<queue, chunk>>
    BY <1>3 DEF Inside
<1>4. CASE DoMoveToWorld(w, k)
    <2>1. warp[k] \notin {None, w} => warp[k] \in Worlds
        BY DEF TypeOK
    <2> QED BY <1>2, <1>3, <1>4, <2>1 DEF DoMoveToWorld
<1> QED BY <1>1, <1>3, <1>4 DEF RemoveDestroyed

\* A player whose turn it is in a phase of world w is in w.
LEMMA HandledInside ==
    ASSUME TypeOK, PlaceInv, NEW w \in Worlds, NEW p, NEW k \in Clients, Handle(w, p, k)
    PROVE  k \in chunk[w] /\ Inside(k, w) /\ world[k] = w
BY DEF Handle, PlaceInv, InOnePlace, Inside

\* Nobody leaves, and the tasks that come are for players where they are.
LEMMA CalmOrder ==
    ASSUME TypeOK, OrderInv, Recorded', raced \subseteq raced', twice \subseteq twice',
           \/ UNCHANGED tasks
           \/ \E w \in Worlds, kind \in {"warp", "destroy"}, k \in Clients :
                 AddTask(w, kind, k) /\ Inside(k, w),
           \A w \in Worlds, k \in Clients : Inside(k, w) => Inside(k, w)'
    PROVE  OrderInv'
<1>1. CASE UNCHANGED tasks
    <2>1. \A w, i, d, k : IsTask(w, i, d, k)' <=> IsTask(w, i, d, k)
        BY <1>1 DEF IsTask
    <2> QED BY <2>1 DEF OrderInv, WarpsInside
<1>2. ASSUME NEW w \in Worlds, NEW kind \in {"warp", "destroy"}, NEW k \in Clients,
             AddTask(w, kind, k), Inside(k, w)
      PROVE  OrderInv'
    <2>1. \A v \in Worlds, i \in Nat : \A d, j :
              IsTask(v, i, d, j)' => IsTask(v, i, d, j) \/ (v = w /\ j = k)
        BY <1>2, AddedTask
    <2> QED BY <1>2, <2>1 DEF OrderInv, WarpsInside
<1> QED BY <1>1, <1>2

\* A task of world w is taken; player k may have left w since.
LEMMA TakeOrder ==
    ASSUME TypeOK, TaskInv, OrderInv, Recorded', raced \subseteq raced',
           NEW w \in Worlds, NEW kind \in {"warp", "destroy"}, NEW k \in Clients,
           Task(w, kind, k),
           \A j \in Clients, v \in Worlds : Inside(j, v) => Inside(j, v)' \/ (j = k /\ v = w)
    PROVE  OrderInv'
<1>1. PICK n \in Nat :
          /\ IsTask(w, n, kind, k)
          /\ \A v \in Worlds, i \in Nat : \A d, j :
                 IsTask(v, i, d, j)' => IsTask(v, Was(v, w, i, n), d, j)
    BY TakenTask
<1>2. twice' = twice
    BY TakenTask
<1>3. \A v \in Worlds, i \in Nat : Was(v, w, i, n) \in Nat /\ (v = w => Was(v, w, i, n) # n)
    BY DEF Was
<1>4. ASSUME NEW v \in Worlds, NEW j \in Clients \ twice, NEW i \in Nat, IsTask(v, i, "warp", j)'
      PROVE  Inside(j, v)' \/ j \in raced'
    <2>1. IsTask(v, Was(v, w, i, n), "warp", j) /\ Was(v, w, i, n) \in Nat
        BY <1>1, <1>3, <1>4
    <2>2. Inside(j, v) \/ j \in raced'
        BY <2>1 DEF OrderInv, WarpsInside
    <2>3. CASE j = k /\ v = w
        <3>1. CASE kind = "warp"
            <4>1. Was(v, w, i, n) = n
                BY <1>1, <2>1, <2>3, <3>1 DEF TaskInv, OneWay
            <4> QED BY <1>3, <2>3, <4>1
        <3>2. CASE kind = "destroy"
            <4>1. session[k] = "destroyed" /\ warp[k] \in Worlds
                BY <1>1, <2>1, <2>3, <3>2 DEF TaskInv, Destroys, HasDestination
            <4>2. k \in raced
                BY <4>1, PlayersAssumption DEF OrderInv, Recorded
            <4> QED BY <2>3, <4>2
        <3> QED BY <3>1, <3>2
    <2> QED BY <2>2, <2>3
<1> QED BY <1>2, <1>4 DEF OrderInv, WarpsInside

LEMMA StepOrder ==
    ASSUME TypeOK, TaskInv, PlaceInv, OrderInv, [Next]_vars
    PROVE  OrderInv'
<1>1. CASE UNCHANGED vars
    BY <1>1, CalmOrder DEF vars, Inside, OrderInv, Recorded
<1>2. CASE Next
    <2>1. Recorded' /\ raced \subseteq raced'
        BY <1>2 DEF Next, Alive, Recorded
    <2>2. ASSUME NEW k \in Clients, NEW v \in Worlds, MoveToWorld(k, v), InWorld(k),
                 UNCHANGED <<queue, chunk>>
          PROVE  OrderInv'
        <3>1. world[k] \in Worlds /\ Inside(k, world[k])
            BY <2>2 DEF PlaceInv, InOnePlace, InWorld
        <3>2. UNCHANGED tasks \/ AddTask(world[k], "warp", k)
            BY <2>2 DEF MoveToWorld
        <3>3. twice \subseteq twice'
            BY <2>2 DEF MoveToWorld
        <3> QED BY <2>1, <2>2, <3>1, <3>2, <3>3, CalmOrder DEF Inside
    <2>3. CASE Others
        <3>1. ASSUME NEW k \in Clients, ServerTickOn(k)
              PROVE  OrderInv'
            <4>1. CASE UNCHANGED <<tasks, twice, queue, chunk>>
                BY <2>1, <4>1, CalmOrder DEF Inside
            <4> QED BY <2>2, <3>1, <4>1 DEF ServerTickOn
        <3>2. CASE ~\E k \in Clients : ServerTickOn(k)
            <4>1. UNCHANGED <<tasks, twice>>
                BY <2>3, <3>2 DEF Others, Network, OnConnectionAccepted, SocketClosed,
                                  AuthenticateUser, ServerTick, RemoveMoved, HandedOver
            <4>2. ASSUME NEW k \in Clients, NEW w \in Worlds, FinishAuthenticate(k, w)
                  PROVE  \A v \in Worlds, j \in Clients : Inside(j, v) => Inside(j, v)'
                <5>1. \A v \in Worlds : queue[v] \subseteq queue'[v] /\ chunk'[v] = chunk[v]
                    <6>1. UNCHANGED chunk
                        BY <4>2 DEF FinishAuthenticate
                    <6>2. CASE queue' = [queue EXCEPT ![w] = @ \cup {k}]
                        BY <6>1, <6>2 DEF TypeOK
                    <6>3. CASE UNCHANGED queue
                        BY <6>1, <6>3
                    <6> QED BY <4>2, <6>2, <6>3 DEF FinishAuthenticate
                <5> QED BY <5>1 DEF Inside
            <4>3. CASE UNCHANGED <<queue, chunk>>
                BY <2>1, <4>1, <4>3, CalmOrder DEF Inside
            <4>4. \/ UNCHANGED <<queue, chunk>>
                  \/ \E k \in Clients, w \in Worlds : FinishAuthenticate(k, w)
                BY <2>3, <3>2 DEF Others, Network, OnConnectionAccepted, SocketClosed,
                                  AuthenticateUser, Authenticate, ServerTick, ServerTickIn,
                                  RemoveMoved, HandedOver
            <4> QED BY <2>1, <4>1, <4>2, <4>3, <4>4, CalmOrder
        <3> QED BY <3>1, <3>2
    <2>4. ASSUME NEW w \in Worlds, WorldTick(w)
          PROVE  OrderInv'
        <3>1. ASSUME UNCHANGED <<tasks, twice, queue, chunk>>
              PROVE  OrderInv'
            BY <2>1, <3>1, CalmOrder DEF Inside
        <3>2. ASSUME NEW k \in Clients, ProcessProtocolIn(w, k)
              PROVE  OrderInv'
            <4>1. InWorld(k) /\ UNCHANGED <<queue, chunk>>
                BY <3>2, HandledInside DEF ProcessProtocolIn, InWorld
            <4> QED BY <2>2, <3>1, <3>2, <4>1 DEF ProcessProtocolIn
        <3>3. ASSUME NEW k \in Clients, TickPlayer(w, k)
              PROVE  OrderInv'
            <4>1. /\ InWorld(k) /\ Inside(k, w) /\ world[k] = w
                  /\ UNCHANGED <<queue, chunk>>
                BY <3>3, HandledInside DEF TickPlayer, InWorld
            <4>2. CASE AddTask(w, "destroy", k) /\ UNCHANGED twice
                <5>1. \A v \in Worlds, j \in Clients : Inside(j, v) => Inside(j, v)'
                    BY <4>1 DEF Inside
                <5> QED BY <2>1, <4>1, <4>2, <5>1, CalmOrder
            <4> QED BY <2>2, <3>1, <3>3, <4>1, <4>2 DEF TickPlayer
        <3>4. CASE AddEntities(w)
            <4>1. \A v \in Worlds : \A k : Inside(k, v) => Inside(k, v)'
                BY <3>4 DEF AddEntities, Inside, TypeOK
            <4>2. UNCHANGED <<tasks, twice>>
                BY <3>4 DEF AddEntities
            <4> QED BY <2>1, <4>1, <4>2, CalmOrder
        <3>5. CASE EndProcessProtocolIn(w) \/ EndTickClients(w) \/ EndTick(w)
                   \/ \E k \in Clients : TickClient(w, k)
            BY <3>1, <3>5 DEF EndProcessProtocolIn, EndTickClients, EndTick, TickClient
        <3> QED BY <2>4, <3>2, <3>3, <3>4, <3>5 DEF WorldTick
    <2>5. ASSUME NEW w \in Worlds, WorldTasks(w)
          PROVE  OrderInv'
        <3>1. ASSUME NEW k \in Clients, DoMoveToWorld(w, k)
              PROVE  OrderInv'
            <4>1. Task(w, "warp", k)
                BY <3>1 DEF DoMoveToWorld
            <4>2. Inside(k, w)
                BY <3>1 DEF DoMoveToWorld, Findable, Inside
            <4>3. \A v \in Worlds \ {w} : ~Inside(k, v)
                BY <4>2 DEF PlaceInv, InOnePlace
            <4>4. \A j \in Clients, v \in Worlds : Inside(j, v) => Inside(j, v)' \/ (j = k /\ v = w)
                BY <3>1, <4>3, Elsewhere
            <4> QED BY <2>1, <4>1, <4>4, TakeOrder
        <3>2. ASSUME NEW k \in Clients, RemoveDestroyed(w, k)
              PROVE  OrderInv'
            <4>1. Task(w, "destroy", k)
                BY <3>2 DEF RemoveDestroyed
            <4>2. CASE Inside(k, w)
                <5>1. \A v \in Worlds \ {w} : ~Inside(k, v)
                    BY <4>2 DEF PlaceInv, InOnePlace
                <5>2. \A j \in Clients, v \in Worlds :
                          Inside(j, v) => Inside(j, v)' \/ (j = k /\ v = w)
                    BY <3>2, <5>1, Elsewhere
                <5> QED BY <2>1, <4>1, <5>2, TakeOrder
            <4>3. CASE ~Inside(k, w)
                <5>1. \A j \in Clients, v \in Worlds : Inside(j, v) => Inside(j, v)'
                    BY <3>2, <4>3 DEF RemoveDestroyed, Inside
                <5> QED BY <2>1, <4>1, <5>1, TakeOrder
            <4> QED BY <4>2, <4>3
        <3>3. ASSUME NEW k \in Clients, WarpMissed(w, k)
              PROVE  OrderInv'
            <4>1. Task(w, "warp", k) /\ UNCHANGED <<queue, chunk>>
                BY <3>3 DEF WarpMissed
            <4> QED BY <2>1, <4>1, TakeOrder DEF Inside
        <3>4. CASE ResetNewWorld(w)
            BY <2>1, <3>4, CalmOrder DEF ResetNewWorld, Inside
        <3> QED BY <2>5, <3>1, <3>2, <3>3, <3>4 DEF WorldTasks
    <2> QED BY <1>2, <2>3, <2>4, <2>5 DEF Next, World
<1> QED BY <1>1, <1>2

\* A call of MoveToWorld queues one task, or none.
LEMMA CallsTask ==
    ASSUME NEW k, NEW v, MoveToWorld(k, v)
    PROVE  AddTask(world[k], "warp", k) \/ UNCHANGED tasks
<1>1. CASE IF warp[k] = None THEN AddTask(world[k], "warp", k) ELSE UNCHANGED tasks
    <2>1. CASE warp[k] = None
        BY <1>1, <2>1
    <2>2. CASE warp[k] # None
        BY <1>1, <2>2
    <2> QED BY <2>1, <2>2
<1>2. CASE AddTask(world[k], "warp", k)
    BY <1>2
<1> QED BY <1>1, <1>2 DEF MoveToWorld

\* Who was moved twice at once is remembered.
LEMMA TwiceStays == Next => twice \subseteq twice'
<1> SUFFICES ASSUME Next PROVE twice \subseteq twice'
    OBVIOUS
<1>1. ASSUME NEW k, NEW v, MoveToWorld(k, v) PROVE twice \subseteq twice'
    BY <1>1 DEF MoveToWorld
<1>2. CASE Others
    BY <1>1, <1>2 DEF Others, Network, OnConnectionAccepted, SocketClosed, AuthenticateUser,
                      ServerTick, ServerTickOn, RemoveMoved, HandedOver
<1>3. ASSUME NEW w \in Worlds, WorldTick(w) PROVE twice \subseteq twice'
    BY <1>1, <1>3 DEF WorldTick, ProcessProtocolIn, EndProcessProtocolIn, TickClient,
                      EndTickClients, TickPlayer, AddEntities, EndTick
<1>4. ASSUME NEW w \in Worlds, WorldTasks(w) PROVE twice \subseteq twice'
    BY <1>4 DEF WorldTasks, DoMoveToWorld, WarpMissed, RemoveDestroyed, ResetNewWorld, Task
<1> QED BY <1>2, <1>3, <1>4 DEF Next, World

-----------------------------------------------------------------------------
(* Races *)

\* A player who did not race is destroyed once, and from the chunks of the world he is in.
DestroyedOnce ==
    \A k \in Clients \ raced, w, v \in Worlds, i, j \in Nat :
        IsTask(w, i, "destroy", k) =>
            /\ k \in chunk[w] /\ k \notin ticking
            /\ IsTask(v, j, "destroy", k) => v = w /\ j = i

RaceInv == DestroyedOnce /\ DestroyFindsPlayerUnlessRaced

LEMMA InitRaces == Init => RaceInv
<1> SUFFICES ASSUME Init PROVE RaceInv
    OBVIOUS
<1>1. \A w \in Worlds, i \in Nat : \A d, k : ~IsTask(w, i, d, k)
    BY DEF Init, IsTask
<1>2. DestroyFindsPlayerUnlessRaced
    BY DEF Init, DestroyFindsPlayerUnlessRaced
<1> QED BY <1>1, <1>2 DEF RaceInv, DestroyedOnce

\* No player is to be destroyed who was not before.
LEMMA CalmRaces ==
    ASSUME RaceInv, raced \subseteq raced',
           \A w \in Worlds, k \in Clients, i \in Nat :
               IsTask(w, i, "destroy", k)' => IsTask(w, i, "destroy", k),
           \A w \in Worlds, k \in Clients, i \in Nat :
               /\ k \notin raced' /\ IsTask(w, i, "destroy", k)'
               => (k \in chunk[w] => k \in chunk'[w]) /\ (k \in ticking' => k \in ticking)
    PROVE  DestroyedOnce'
BY DEF RaceInv, DestroyedOnce

\* Whoever is removed, the others stay in their chunks.
LEMMA KeepsChunks ==
    ASSUME TypeOK, NEW w, NEW k, RemoveEntity(w, k) \/ UNCHANGED chunk
    PROVE  \A v \in Worlds : chunk[v] \ {k} \subseteq chunk'[v]
BY DEF RemoveEntity, TypeOK

LEMMA StepRaces ==
    ASSUME TypeOK, TaskInv, PlaceInv, OrderInv, RaceInv, [Next]_vars
    PROVE  RaceInv'
<1>1. CASE UNCHANGED vars
    BY <1>1 DEF vars, RaceInv, DestroyedOnce, DestroyFindsPlayerUnlessRaced, IsTask
<1>2. ASSUME NEW w \in Worlds, NEW k \in Clients, NEW i \in Nat, IsTask(w, i, "destroy", k),
             k \notin raced
      PROVE  /\ k \in chunk[w] /\ k \notin ticking /\ InWorld(k) /\ session[k] = "destroyed"
             /\ \A v \in Worlds : k \notin queue[v]
             /\ \A v \in Worlds : k \in chunk[v] => v = w
    <2>1. k \in chunk[w] /\ k \notin ticking /\ session[k] = "destroyed"
        BY <1>2 DEF RaceInv, DestroyedOnce, TaskInv, Destroys
    <2> QED BY <2>1 DEF PlaceInv, InOnePlace, Inside, InWorld
<1>3. CASE Next
    <2>1. raced \subseteq raced' /\ twice \subseteq twice' /\ Recorded' /\ ~aborted
        BY <1>3, TwiceStays DEF Next, Alive, Recorded
    <2>2. ASSUME UNCHANGED tasks, UNCHANGED <<chunk, ticking>>
          PROVE  DestroyedOnce'
        <3>1. \A v, i, d, k : IsTask(v, i, d, k)' <=> IsTask(v, i, d, k)
            BY <2>2 DEF IsTask
        <3> QED BY <2>1, <2>2, <3>1, CalmRaces
    <2>3. ASSUME NEW k \in Clients, NEW v \in Worlds, MoveToWorld(k, v), UNCHANGED <<chunk, ticking>>
          PROVE  DestroyedOnce'
        <3>1. CASE AddTask(world[k], "warp", k)
            <4>1. \A u \in Worlds, j \in Clients, i \in Nat :
                      IsTask(u, i, "destroy", j)' => IsTask(u, i, "destroy", j)
                BY <3>1, AddedTask
            <4> QED BY <2>1, <2>3, <4>1, CalmRaces
        <3>2. AddTask(world[k], "warp", k) \/ UNCHANGED tasks
            BY <2>3, CallsTask
        <3> QED BY <2>2, <2>3, <3>1, <3>2
    <2>4. CASE Others
        <3>1. UNCHANGED <<chunk, ticking>> /\ UNCHANGED aborted
            BY <2>4 DEF Others, Network, OnConnectionAccepted, SocketClosed, AuthenticateUser,
                        Authenticate, ServerTick, ServerTickIn, ServerTickOn, HandedOver,
                        RemoveMoved, FinishAuthenticate
        <3>2. ASSUME NEW k \in Clients, ServerTickOn(k)
              PROVE  DestroyedOnce'
            BY <2>2, <2>3, <3>1, <3>2 DEF ServerTickOn
        <3>3. ASSUME ~\E k \in Clients : ServerTickOn(k)
              PROVE  DestroyedOnce'
            <4>1. UNCHANGED tasks
                BY <2>4, <3>3 DEF Others, Network, OnConnectionAccepted, SocketClosed,
                                  AuthenticateUser, ServerTick, RemoveMoved, HandedOver
            <4> QED BY <2>2, <3>1, <4>1
        <3> QED BY <2>1, <3>1, <3>2, <3>3 DEF RaceInv, DestroyFindsPlayerUnlessRaced
    <2>5. ASSUME NEW w \in Worlds, WorldTick(w), UNCHANGED aborted
          PROVE  RaceInv'
        <3>1. ASSUME NEW k \in Clients, Handle(w, "chunks", k), k \in ticking,
                     ticking' = ticking \ {k}, UNCHANGED chunk, AddTask(world[k], "destroy", k)
              PROVE  DestroyedOnce'
            <4>1. k \in chunk[w] /\ AddTask(w, "destroy", k)
                BY <3>1, HandledInside
            <4>2. \A v \in Worlds, i \in Nat : \A j :
                      IsTask(v, i, "destroy", j)' =>
                          \/ IsTask(v, i, "destroy", j)
                          \/ v = w /\ i = Len(tasks[w]) + 1 /\ j = k
                BY <4>1, AddedTask
            <4>3. k \notin raced => \A v \in Worlds, i \in Nat : ~IsTask(v, i, "destroy", k)
                BY <1>2, <3>1
            <4> QED BY <2>1, <3>1, <4>1, <4>2, <4>3 DEF RaceInv, DestroyedOnce
        <3>2. ASSUME AddEntities(w)
              PROVE  DestroyedOnce'
            <4>1. /\ UNCHANGED tasks /\ ticking' = ticking \cup queue[w]
                  /\ \A v \in Worlds : chunk[v] \subseteq chunk'[v]
                BY <3>2 DEF AddEntities, TypeOK
            <4>2. \A v, i, d, k : IsTask(v, i, d, k)' <=> IsTask(v, i, d, k)
                BY <4>1 DEF IsTask
            <4>3. \A v \in Worlds, k \in Clients, i \in Nat :
                      k \notin raced' /\ IsTask(v, i, "destroy", k)' => k \notin queue[w]
                BY <1>2, <2>1, <4>2
            <4>4. \A v \in Worlds, k \in Clients, i \in Nat :
                      /\ k \notin raced' /\ IsTask(v, i, "destroy", k)'
                      => (k \in chunk[v] => k \in chunk'[v]) /\ (k \in ticking' => k \in ticking)
                BY <4>1, <4>3
            <4>5. \A v \in Worlds, k \in Clients, i \in Nat :
                      IsTask(v, i, "destroy", k)' => IsTask(v, i, "destroy", k)
                BY <4>2
            <4> QED BY <2>1, <4>4, <4>5, CalmRaces
        <3>3. ASSUME NEW k \in Clients, ProcessProtocolIn(w, k)
              PROVE  DestroyedOnce'
            BY <2>2, <2>3, <3>3 DEF ProcessProtocolIn
        <3>4. ASSUME NEW k \in Clients, TickPlayer(w, k)
              PROVE  DestroyedOnce'
            <4>1. Handle(w, "chunks", k) /\ UNCHANGED chunk
                BY <3>4 DEF TickPlayer
            <4>2. CASE UNCHANGED <<ticking, warpVars>>
                BY <2>2, <4>1, <4>2
            <4>3. CASE UNCHANGED ticking /\ \E v \in Worlds : MoveToWorld(k, v)
                BY <2>3, <4>1, <4>3
            <4>4. CASE k \in ticking /\ ticking' = ticking \ {k} /\ AddTask(world[k], "destroy", k)
                BY <3>1, <4>1, <4>4
            <4> QED BY <3>4, <4>2, <4>3, <4>4 DEF TickPlayer
        <3>5. ASSUME EndProcessProtocolIn(w) \/ EndTickClients(w) \/ EndTick(w)
                     \/ \E k \in Clients : TickClient(w, k)
              PROVE  DestroyedOnce'
            BY <2>2, <3>5 DEF EndProcessProtocolIn, TickClient, EndTickClients, EndTick
        <3>6. DestroyedOnce'
            BY <2>5, <3>2, <3>3, <3>4, <3>5 DEF WorldTick
        <3> QED BY <2>1, <2>5, <3>6 DEF RaceInv, DestroyFindsPlayerUnlessRaced
    <2>6. ASSUME NEW w \in Worlds, NEW k \in Clients, NEW kind, Task(w, kind, k),
                 k \in raced' \/ kind = "destroy" \/ UNCHANGED chunk \/ session[k] # "destroyed",
                 ticking' \subseteq ticking,
                 \A v \in Worlds : chunk[v] \ {k} \subseteq chunk'[v]
          PROVE  DestroyedOnce'
        <3>1. PICK t \in Nat :
                  /\ IsTask(w, t, kind, k)
                  /\ \A v \in Worlds, i \in Nat : \A d, j :
                         IsTask(v, i, d, j)' => IsTask(v, Was(v, w, i, t), d, j)
            BY <2>6, TakenTask
        <3>2. ASSUME NEW j \in Clients, j \notin raced', NEW u \in Worlds, NEW v \in Worlds,
                     NEW n \in Nat, NEW m \in Nat, IsTask(u, n, "destroy", j)'
              PROVE  /\ j \in chunk'[u] /\ j \notin ticking'
                     /\ IsTask(v, m, "destroy", j)' => v = u /\ m = n
            <4> DEFINE a == Was(u, w, n, t)
            <4>1. /\ a \in Nat /\ IsTask(u, a, "destroy", j)
                  /\ u = w => a # t
                BY <3>1, <3>2 DEF Was
            <4>2. j \in chunk[u] /\ j \notin ticking
                BY <2>1, <3>2, <4>1 DEF RaceInv, DestroyedOnce
            <4>3. j \in chunk'[u] /\ j \notin ticking'
                <5>1. CASE j = k /\ kind = "destroy"
                    <6>1. u = w /\ a = t
                        BY <2>1, <3>1, <3>2, <4>1, <5>1 DEF RaceInv, DestroyedOnce
                    <6> QED BY <4>1, <6>1
                <5>2. CASE j # k \/ kind # "destroy"
                    <6>1. session[j] = "destroyed"
                        BY <4>1 DEF TaskInv, Destroys
                    <6> QED BY <2>6, <3>2, <4>2, <5>2, <6>1
                <5> QED BY <5>1, <5>2
            <4>4. ASSUME IsTask(v, m, "destroy", j)'
                  PROVE  v = u /\ m = n
                <5>1. Was(v, w, m, t) \in Nat /\ IsTask(v, Was(v, w, m, t), "destroy", j)
                    BY <3>1, <4>4 DEF Was
                <5>2. v = u /\ Was(v, w, m, t) = a
                    BY <2>1, <3>2, <4>1, <5>1 DEF RaceInv, DestroyedOnce
                <5> QED BY <5>2 DEF Was
            <4> QED BY <4>3, <4>4
        <3> QED BY <3>2 DEF DestroyedOnce
    <2>7. ASSUME NEW w \in Worlds, WorldTasks(w)
          PROVE  DestroyedOnce' /\ (aborted' => raced' \cup twice' # {})
        <3>1. ASSUME NEW k \in Clients, DoMoveToWorld(w, k)
              PROVE  DestroyedOnce' /\ (aborted' => raced' \cup twice' # {})
            <4>1. Task(w, "warp", k) /\ UNCHANGED <<session, warp>>
                BY <3>1 DEF DoMoveToWorld
            <4>2. \/ k \in raced' \/ session[k] # "destroyed"
                  \/ warp[k] = None /\ UNCHANGED chunk
                BY <2>1, <3>1, <4>1 DEF Recorded, DoMoveToWorld
            <4>5. aborted' => twice' # {}
                <5>1. PICK n \in Nat : IsTask(w, n, "warp", k)
                    BY <4>1, TakenTask
                <5>2. warp[k] = None => k \in twice
                    BY <5>1, PlayersAssumption DEF TaskInv, HasDestination
                <5> QED BY <2>1, <3>1, <5>2 DEF DoMoveToWorld
            <4>3. ticking' \subseteq ticking
                BY <3>1 DEF DoMoveToWorld
            <4>4. \A v \in Worlds : chunk[v] \ {k} \subseteq chunk'[v]
                BY <3>1, KeepsChunks DEF DoMoveToWorld
            <4> QED BY <2>6, <4>1, <4>2, <4>3, <4>4, <4>5
        <3>2. ASSUME NEW k \in Clients, RemoveDestroyed(w, k)
              PROVE  DestroyedOnce' /\ (aborted' => raced' \cup twice' # {})
            <4>1. Task(w, "destroy", k) /\ \E n \in Nat : IsTask(w, n, "destroy", k)
                BY <3>2, TakenTask DEF RemoveDestroyed
            <4>2. aborted' => raced' # {}
                BY <1>2, <2>1, <3>2, <4>1 DEF RemoveDestroyed, Inside
            <4>3. UNCHANGED ticking
                BY <3>2 DEF RemoveDestroyed
            <4>4. \A v \in Worlds : chunk[v] \ {k} \subseteq chunk'[v]
                BY <3>2, KeepsChunks DEF RemoveDestroyed
            <4> QED BY <2>6, <4>1, <4>2, <4>3, <4>4
        <3>3. ASSUME NEW k \in Clients, WarpMissed(w, k)
              PROVE  DestroyedOnce'
            BY <2>6, <3>3 DEF WarpMissed
        <3>4. ASSUME ResetNewWorld(w)
              PROVE  DestroyedOnce'
            <4>1. \A v, i, d, k : IsTask(v, i, d, k)' <=> IsTask(v, i, d, k)
                BY <3>4 DEF ResetNewWorld, IsTask
            <4> QED BY <2>1, <3>4, <4>1, CalmRaces DEF ResetNewWorld
        <3> QED BY <2>1, <2>7, <3>1, <3>2, <3>3, <3>4
                DEF WorldTasks, DoMoveToWorld, WarpMissed, ResetNewWorld
    <2>8. ASSUME NEW w \in Worlds, WorldTasks(w)
          PROVE  RaceInv'
        BY <2>1, <2>7, <2>8 DEF RaceInv, DestroyFindsPlayerUnlessRaced
    <2> QED BY <1>3, <2>4, <2>5, <2>8 DEF Next, World
<1> QED BY <1>1, <1>3

-----------------------------------------------------------------------------
(* The players that are counted *)

Population == {k \in Clients : InWorld(k) \/ k \in refused}

Joins(k) ==
    /\ k \notin Population /\ Population' = Population \cup {k}
    /\ count' = (count + 1) % CountRange
    /\ k \in Configures \/ count < MaxPlayers

Goes(k) ==
    /\ k \in Population /\ Population' = Population \ {k}
    /\ count' = (count + CountRange - 1) % CountRange

\* Unless somebody races, the population and m_PlayerCount change together.
LEMMA Populates ==
    ASSUME TypeOK, TaskInv, PlaceInv, OrderInv, RaceInv, Next, raced' = {}
    PROVE  \/ Population' = Population /\ count' = count
           \/ \E k \in Clients : Joins(k) \/ Goes(k)
<1>1. /\ raced = {} /\ ~aborted
      /\ \A k \in Clients : session'[k] = "destroyed" => warp'[k] = None
    BY DEF Next, Alive
<1>2. ASSUME NEW k \in Clients, NEW w \in Worlds, k \notin Population, FinishAuthenticate(k, w),
             k \in Configures \/ count < MaxPlayers
      PROVE  Joins(k)
    <2>1. Population' = Population \cup {k}
        <3>1. UNCHANGED chunk
            BY <1>2 DEF FinishAuthenticate
        <3>2. CASE queue' = [queue EXCEPT ![w] = @ \cup {k}] /\ UNCHANGED refused
            <4>1. \A j \in Clients, v \in Worlds :
                      Inside(j, v)' <=> Inside(j, v) \/ (j = k /\ v = w)
                BY <3>1, <3>2 DEF Inside, TypeOK
            <4> QED BY <3>2, <4>1 DEF Population, InWorld
        <3>3. CASE refused' = refused \cup {k} /\ UNCHANGED queue
            BY <3>1, <3>3 DEF Population, InWorld, Inside
        <3> QED BY <1>2, <3>2, <3>3 DEF FinishAuthenticate
    <2> QED BY <1>2, <2>1 DEF Joins, FinishAuthenticate
<1>3. ASSUME \A j \in Clients, v \in Worlds : Inside(j, v)' <=> Inside(j, v), UNCHANGED refused
      PROVE  Population' = Population
    BY <1>3 DEF Population, InWorld
<1>4. ASSUME NEW k \in Clients, AuthenticateUser(k)
      PROVE  (Population' = Population /\ count' = count) \/ Joins(k)
    <2>1. CASE UNCHANGED placeVars /\ UNCHANGED refused
        BY <1>3, <2>1 DEF Inside
    <2>2. CASE ~(UNCHANGED placeVars /\ UNCHANGED refused)
        <3>1. /\ Authenticate(k) /\ session[k] = "authenticating" /\ count < MaxPlayers
              /\ \E w \in Worlds : FinishAuthenticate(k, w)
            BY <1>4, <2>2 DEF AuthenticateUser, Authenticate
        <3>2. k \notin Population
            BY <3>1 DEF PlaceInv, Joined, Population
        <3> QED BY <1>2, <3>1, <3>2
    <2> QED BY <2>1, <2>2
<1>5. ASSUME NEW k \in Clients, ServerTick(k)
      PROVE  (Population' = Population /\ count' = count) \/ Joins(k)
    <2>1. CASE UNCHANGED placeVars /\ UNCHANGED refused
        BY <1>3, <2>1 DEF Inside
    <2>2. CASE ~(UNCHANGED placeVars /\ UNCHANGED refused)
        <3>1. k \in Configures /\ k \in clients \ toRemove
              /\ \E w \in Worlds : FinishAuthenticate(k, w)
            BY <1>5, <2>2 DEF ServerTick, ServerTickIn, TypeOK
        <3>2. k \notin Population
            BY <3>1 DEF PlaceInv, HasOneTickerUnlessJoining, Population
        <3> QED BY <1>2, <3>1, <3>2
    <2> QED BY <2>1, <2>2
<1>6. CASE Others
    <2>1. CASE UNCHANGED placeVars /\ UNCHANGED refused
        BY <1>3, <2>1 DEF Inside
    <2> QED BY <1>4, <1>5, <1>6, <2>1 DEF Others, Network, OnConnectionAccepted, SocketClosed,
                                          ServerTickOn, HandedOver, RemoveMoved
<1>7. ASSUME NEW w \in Worlds, WorldTick(w)
      PROVE  Population' = Population /\ count' = count
    <2>1. CASE UNCHANGED <<queue, chunk, count, refused>>
        BY <1>3, <2>1 DEF Inside
    <2>2. CASE AddEntities(w)
        <3>1. \A j \in Clients, v \in Worlds : Inside(j, v)' <=> Inside(j, v)
            BY <2>2 DEF AddEntities, Inside, TypeOK
        <3> QED BY <1>3, <2>2, <3>1 DEF AddEntities
    <2> QED BY <1>7, <2>1, <2>2
            DEF WorldTick, ProcessProtocolIn, EndProcessProtocolIn, TickClient, EndTickClients,
                TickPlayer, EndTick
<1>8. ASSUME NEW w \in Worlds, NEW k \in Clients, DoMoveToWorld(w, k)
      PROVE  Population' = Population /\ count' = count
    <2>1. UNCHANGED <<session, warp, refused>> /\ Inside(k, w)
        BY <1>8 DEF DoMoveToWorld, Findable, Inside
    <2>3. CASE UNCHANGED placeVars
        BY <1>3, <2>1, <2>3 DEF Inside
    <2>4. CASE warp[k] \notin {None, w}
        <3>0. warp[k] \in Worlds /\ session[k] # "destroyed"
            BY <1>1, <2>1, <2>4 DEF TypeOK
        <3>1. /\ RemoveEntity(w, k)
              /\ queue' = [queue EXCEPT ![w] = @ \ {k}, ![warp[k]] = @ \cup {k}]
            BY <1>8, <2>4 DEF DoMoveToWorld
        <3>2. count' = count
            BY <3>0, <3>1 DEF RemoveEntity
        <3>3. InWorld(k) /\ InWorld(k)'
            <4>1. k \in queue'[warp[k]]
                BY <3>0, <3>1 DEF TypeOK
            <4> QED BY <2>1, <3>0, <4>1 DEF InWorld, Inside
        <3>4. \A j \in Clients \ {k} : InWorld(j)' <=> InWorld(j)
            BY <1>8, Elsewhere DEF InWorld
        <3> QED BY <2>1, <3>2, <3>3, <3>4 DEF Population
    <2> QED BY <1>8, <2>3, <2>4 DEF DoMoveToWorld
<1>9. ASSUME NEW w \in Worlds, NEW k \in Clients, RemoveDestroyed(w, k)
      PROVE  Goes(k)
    <2>1. PICK n \in Nat : IsTask(w, n, "destroy", k)
        BY <1>9, TakenTask DEF RemoveDestroyed
    <2>2. k \in chunk[w] /\ session[k] = "destroyed"
        BY <1>1, <2>1 DEF RaceInv, DestroyedOnce, TaskInv, Destroys
    <2>3. RemoveEntity(w, k) /\ queue' = [queue EXCEPT ![w] = @ \ {k}]
        BY <1>9, <2>2 DEF RemoveDestroyed, Inside
    <2>4. count' = (count + CountRange - 1) % CountRange
        BY <2>2, <2>3 DEF RemoveEntity
    <2>5. InWorld(k) /\ ~InWorld(k)'
        <3>1. \A v \in Worlds \ {w} : ~Inside(k, v)
            BY <2>2 DEF PlaceInv, InOnePlace, Inside
        <3>2. \A v \in Worlds : ~Inside(k, v)'
            BY <2>3, <3>1 DEF RemoveEntity, Inside, TypeOK
        <3> QED BY <2>2, <3>2 DEF InWorld, Inside
    <2>6. \A j \in Clients \ {k} : InWorld(j)' <=> InWorld(j)
        BY <1>9, Elsewhere DEF InWorld
    <2>7. k \notin refused /\ UNCHANGED refused
        BY <1>9, <2>5 DEF PlaceInv, Apart, RemoveDestroyed
    <2> QED BY <2>4, <2>5, <2>6, <2>7 DEF Goes, Population
<1>10. ASSUME NEW w \in Worlds, WorldTasks(w), UNCHANGED <<queue, chunk, count, refused>>
       PROVE  Population' = Population /\ count' = count
    BY <1>3, <1>10 DEF Inside
<1> QED BY <1>6, <1>7, <1>8, <1>9, <1>10
        DEF Next, World, WorldTasks, WarpMissed, ResetNewWorld

LEMMA InitCount == Init => CountIsPlayersUnlessRaced
<1> SUFFICES ASSUME Init PROVE count = Cardinality(Population)
    BY DEF CountIsPlayersUnlessRaced, Population
<1>1. Population = {}
    BY DEF Init, Population, InWorld, Inside
<1> QED BY <1>1, FS_EmptySet DEF Init

\* The players are fewer than the numbers m_PlayerCount can hold: it does not wrap round.
LEMMA StepCount ==
    ASSUME TypeOK, TaskInv, PlaceInv, OrderInv, RaceInv, CountIsPlayersUnlessRaced,
           [Next]_vars
    PROVE  CountIsPlayersUnlessRaced'
<1>1. CASE UNCHANGED vars
    BY <1>1 DEF vars, CountIsPlayersUnlessRaced, InWorld, Inside
<1>2. CASE Next
    <2>1. SUFFICES ASSUME raced' = {} PROVE count' = Cardinality(Population')
        BY DEF CountIsPlayersUnlessRaced, Population
    <2>2. raced = {}
        BY <1>2, <2>1 DEF Next, Alive
    <2>3. count = Cardinality(Population)
        BY <2>2 DEF CountIsPlayersUnlessRaced, Population
    <2>4. /\ IsFiniteSet(Population) /\ IsFiniteSet(Population')
          /\ Cardinality(Population') <= Cardinality(Clients)
        BY PlayersAssumption, FS_Subset DEF Population
    <2>5. /\ count \in Nat /\ CountRange \in Nat /\ count < CountRange
          /\ Cardinality(Clients) < CountRange /\ Cardinality(Clients) \in Nat
        BY PlayersAssumption, FS_CardinalityType DEF TypeOK
    <2>6. ASSUME NEW k \in Clients, Joins(k)
          PROVE  count' = Cardinality(Population')
        <3>1. Cardinality(Population') = count + 1
            BY <2>3, <2>4, <2>6, FS_AddElement DEF Joins
        <3>2. count + 1 < CountRange
            BY <2>4, <2>5, <3>1
        <3>3. (count + 1) % CountRange = count + 1
            BY <2>5, <3>2
        <3> QED BY <2>6, <3>1, <3>3 DEF Joins
    <2>7. ASSUME NEW k \in Clients, Goes(k)
          PROVE  count' = Cardinality(Population')
        <3>1. Cardinality(Population') = count - 1
            BY <2>3, <2>4, <2>7, FS_RemoveElement DEF Goes
        <3>2. count >= 1
            BY <2>4, <2>5, <3>1, FS_CardinalityType
        <3>3. (count + CountRange - 1) % CountRange = count - 1
            BY <2>5, <3>2
        <3> QED BY <2>7, <3>1, <3>3 DEF Goes
    <2> QED BY <1>2, <2>1, <2>3, <2>6, <2>7, Populates
<1> QED BY <1>1, <1>2

\* Whoever joins, nobody else does.
LEMMA Appears ==
    ASSUME TypeOK, NEW j \in Clients, NEW w \in Worlds, FinishAuthenticate(j, w)
    PROVE  \A k \in Clients \ {j}, v \in Worlds : Inside(k, v)' => Inside(k, v)
<1>1. UNCHANGED chunk
    BY DEF FinishAuthenticate
<1>2. CASE queue' = [queue EXCEPT ![w] = @ \cup {j}]
    BY <1>1, <1>2 DEF Inside, TypeOK
<1>3. CASE UNCHANGED queue
    BY <1>1, <1>3 DEF Inside
<1> QED BY <1>2, <1>3 DEF FinishAuthenticate

\* Only the authenticator lets somebody in whose protocol joins at once.
LEMMA LetIn ==
    ASSUME TypeOK, TaskInv, PlaceInv, [Next]_vars,
           NEW k \in Clients \ Configures, ~InWorld(k), InWorld(k)'
    PROVE  count < MaxPlayers
<1>1. ~UNCHANGED <<queue, chunk>>
    BY DEF InWorld, Inside
<1>2. ASSUME NEW j \in Clients, NEW w \in Worlds, FinishAuthenticate(j, w)
      PROVE  j = k
    BY <1>2, Appears DEF InWorld
<1>3. ASSUME NEW j \in Clients, AuthenticateUser(j)
      PROVE  count < MaxPlayers
    BY <1>1, <1>3 DEF AuthenticateUser
<1>4. ASSUME NEW j \in Clients, ServerTick(j)
      PROVE  FALSE
    BY <1>1, <1>2, <1>4 DEF ServerTick, ServerTickIn, TypeOK
<1>5. ASSUME NEW w \in Worlds, WorldTick(w)
      PROVE  FALSE
    <2>1. AddEntities(w)
        BY <1>1, <1>5
        DEF WorldTick, ProcessProtocolIn, EndProcessProtocolIn, TickClient, EndTickClients,
            TickPlayer, EndTick
    <2> QED BY <2>1 DEF AddEntities, InWorld, Inside, TypeOK
<1>6. ASSUME NEW w \in Worlds, WorldTasks(w)
      PROVE  FALSE
    <2>1. PICK j \in Clients : DoMoveToWorld(w, j) \/ RemoveDestroyed(w, j)
        BY <1>1, <1>6 DEF WorldTasks, WarpMissed, ResetNewWorld
    <2>2. j = k
        BY <2>1, Elsewhere DEF InWorld
    <2>3. ~Inside(k, w)
        BY DEF InWorld
    <2> QED BY <1>1, <2>1, <2>2, <2>3 DEF DoMoveToWorld, RemoveDestroyed, Findable, Inside
<1> QED BY <1>1, <1>3, <1>4, <1>5, <1>6
        DEF Next, World, Others, Network, OnConnectionAccepted, SocketClosed, ServerTickOn,
            HandedOver, RemoveMoved, vars

-----------------------------------------------------------------------------
(* Theorems *)

PlayersInv == TypeOK /\ TaskInv /\ PlaceInv /\ OrderInv /\ RaceInv /\ CountIsPlayersUnlessRaced

LEMMA Invariant == Spec => []PlayersInv
<1>1. Init => PlayersInv
    BY InitTypes, InitTasks, InitPlaces, InitOrder, InitRaces, InitCount DEF PlayersInv
<1>2. PlayersInv /\ [Next]_vars => PlayersInv'
    BY StepTypes, StepTasks, StepPlaces, StepOrder, StepRaces, StepCount DEF PlayersInv
<1> QED BY <1>1, <1>2, PTL DEF Spec

\* A player is in one world at most, in its queue or its chunks, and m_World says which;
\* m_Players holds exactly those in the chunks (cWorld, cEntity, cPlayer).
THEOREM OnePlace == Spec => []InOnePlace
BY Invariant, PTL DEF PlayersInv, PlaceInv

\* A connected client always has a thread that ticks it: the server's, or that of the world
\* its player is in (cServer::TickClients, ClientMovedToWorld, cWorld); and the server's begins
\* no tick of a client that was handed over.  The tick in which it was handed over may still go
\* on beside the world's; and a client whose player was refused by a plugin has no thread.
THEOREM OneTicker == Spec => []HasOneTickerUnlessJoining
BY Invariant, PTL DEF PlayersInv, PlaceInv

\* Only one world change of a player is in flight, and in the world he is in, however often
\* cEntity::MoveToWorld is called and in whatever order a world runs its tasks.  Excepted are
\* players for whom two threads made calls at once, and the place of those whose client was
\* destroyed on the way.
THEOREM OneWarp == Spec => []OneWarpInFlightUnlessRaced
<1>1. ASSUME PlayersInv, NEW k \in Clients \ twice
      PROVE  LET Ways(w) == {i \in DOMAIN tasks[w] : tasks[w][i] = [kind |-> "warp", of |-> k]}
                 ways == UNION {{w} \X Ways(w) : w \in Worlds}
             IN  /\ Cardinality(ways) + Cardinality({w \in Worlds : clearing[w] = k}) <= 1
                 /\ \A way \in ways : Inside(k, way[1]) \/ k \in raced
    <2> DEFINE Ways(w) == {i \in DOMAIN tasks[w] : tasks[w][i] = [kind |-> "warp", of |-> k]}
               ways == UNION {{w} \X Ways(w) : w \in Worlds}
               ends == {w \in Worlds : clearing[w] = k}
    <2> USE <1>1 DEF PlayersInv, TaskInv, OneWay, OrderInv, WarpsInside
    <2>1. \A w \in Worlds : \A i \in Ways(w) : i \in Nat /\ IsTask(w, i, "warp", k)
        <3>1. \A w \in Worlds : DOMAIN tasks[w] = 1..Len(tasks[w])
            BY DEF TypeOK
        <3> QED BY <3>1 DEF IsTask
    <2>2. \A way \in ways : /\ way = <<way[1], way[2]>> /\ way[1] \in Worlds
                            /\ way[2] \in Ways(way[1])
        OBVIOUS
    <2>3. \A way \in ways : /\ way = <<way[1], way[2]>> /\ way[1] \in Worlds /\ way[2] \in Nat
                            /\ IsTask(way[1], way[2], "warp", k)
        BY <2>1, <2>2
    <2> HIDE DEF ways
    <2>4. \A way \in ways : Inside(k, way[1]) \/ k \in raced
        BY <2>3
    <2>5. \A u, v \in ways : u = v
        BY <2>3
    <2>6. \A u, v \in ends : u = v
        OBVIOUS
    <2>7. ways = {} \/ ends = {}
        BY <2>3
    <2>8. ASSUME NEW S, \A u, v \in S : u = v
          PROVE  Cardinality(S) \in {0, 1} /\ (S = {} => Cardinality(S) = 0)
        <3>1. CASE S = {}
            BY <3>1, FS_EmptySet
        <3>2. ASSUME NEW x \in S
              PROVE  Cardinality(S) = 1
            <4>1. S = {x}
                BY <2>8
            <4> QED BY <4>1, FS_Singleton
        <3> QED BY <3>1, <3>2
    <2>9. /\ Cardinality(ways) \in {0, 1} /\ (ways = {} => Cardinality(ways) = 0)
          /\ Cardinality(ends) \in {0, 1} /\ (ends = {} => Cardinality(ends) = 0)
        BY <2>5, <2>6, <2>8
    <2>10. Cardinality(ways) + Cardinality(ends) <= 1
        BY <2>7, <2>9
    <2> QED BY <2>4, <2>10 DEF ways
<1>2. PlayersInv => OneWarpInFlightUnlessRaced
    BY <1>1 DEF OneWarpInFlightUnlessRaced
<1> QED BY <1>2, Invariant, PTL

\* The process lives: VERIFY in the task of cEntity::Destroy holds, and no task finds
\* m_NewWorld null, unless a client was destroyed while its player was on the way to another
\* world, or two threads had moved a player at once.
THEOREM DestroyFindsPlayers == Spec => []DestroyFindsPlayerUnlessRaced
BY Invariant, PTL DEF PlayersInv, RaceInv

\* m_PlayerCount is the number of players in the worlds, and of those whom a plugin refused
\* (cServer::PlayerCreated, PlayerDestroyed), unless a client was destroyed on the way.
THEOREM CountRight == Spec => []CountIsPlayersUnlessRaced
BY Invariant, PTL DEF PlayersInv

\* Nobody whose protocol joins at once joins a full server (cServer::AuthenticateUser).
THEOREM NobodyOverLimit == Spec => NoJoinWhenFullUnlessRaced
<1> DEFINE Kept ==
        \A k \in Clients \ Configures :
            raced = {} /\ ~InWorld(k) /\ InWorld(k)'
                => Cardinality({j \in Clients : InWorld(j) \/ j \in refused}) < MaxPlayers
<1>1. ASSUME PlayersInv, [Next]_vars PROVE [Kept]_vars
    <2>1. ASSUME NEW k \in Clients \ Configures, raced = {}, ~InWorld(k), InWorld(k)'
          PROVE  Cardinality({j \in Clients : InWorld(j) \/ j \in refused}) < MaxPlayers
        <3>1. count < MaxPlayers
            BY <1>1, <2>1, LetIn DEF PlayersInv
        <3> QED BY <1>1, <2>1, <3>1 DEF PlayersInv, CountIsPlayersUnlessRaced
    <2> QED BY <2>1
<1>2. PlayersInv /\ [Next]_vars => [Kept]_vars
    BY <1>1
<1> QED BY <1>2, Invariant, PTL DEF Spec, NoJoinWhenFullUnlessRaced
=============================================================================
