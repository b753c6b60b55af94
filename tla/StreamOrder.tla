---------------------------- MODULE StreamOrder ----------------------------
(***************************************************************************)
(* Which chunks a client is given, and when that is said to be done:       *)
(* StreamNextChunks, called once per tick, walks the chunks around the     *)
(* player, those in the direction he looks first, and gives the client at  *)
(* most MaxStreamed that it has not got.  When it comes to the end of the  *)
(* walk it remembers the player's chunk, and does nothing until he is in   *)
(* another one.                                                            *)
(*                                                                         *)
(* All of this runs in the thread of the player's world.  The client's     *)
(* lists are one set here: ChunkStreaming has them in detail.              *)
(***************************************************************************)
EXTENDS Integers, FiniteSets, Sequences

CONSTANTS
    Start,              \* the chunk the player appears in
    Steps,              \* the ways he can move in one tick, in chunks
    Looks,              \* what he may look at: how far a chunk is that is 0, 1, ... chunks
                        \* ahead; the first is his own
    Views,              \* view distances
    MaxStreamed,        \* MAX_CHUNKS_STREAMED_PER_TICK
    UnloadTicks,        \* ticks between two rounds of UnloadOutOfRangeChunks
    None,
    MaxTurns            \* bound: moves, turns of the head, and so on

Chunks == Int \X Int

ASSUME StreamAssumption ==
    /\ Start \in Chunks /\ Steps \subseteq Chunks /\ None \notin Chunks
    /\ Views \subseteq Nat \ {0} /\ MaxTurns \in Nat
    /\ MaxStreamed \in Nat \ {0} /\ UnloadTicks \in Nat
    /\ \A look \in Looks :
          look \in Seq(Chunks) /\ Views \subseteq 1..Len(look) /\ look[1] = <<0, 0>>

VARIABLES
    pos,                \* the player's chunk
    border,             \* where in it: how far off the chunk is that the unloading takes for it
    look,               \* the direction he looks in
    view,               \* m_CurrentViewDistance
    loaded,             \* m_LoadedChunks and m_ChunksToSend
    done,               \* m_LastStreamedChunkX and Z; None for the bogus ones
    since,              \* m_TimeSinceLastUnloadCheck, in ticks
    turns               \* moves, turns, ...

vars == <<pos, border, look, view, loaded, done, since, turns>>

Plus(c, d) == <<c[1] + d[1], c[2] + d[2]>>
Abs(n) == IF n < 0 THEN -n ELSE n

\* The chunk c is not farther from p than the view distance.
Near(c, p) == Abs(c[1] - p[1]) <= view /\ Abs(c[2] - p[2]) <= view

\* FAST_FLOOR_DIV of a coordinate that has been cut off to an integer, instead of rounded
\* down: in the last block of a chunk of negative coordinates it is the next chunk.
Borders(p) == {b \in {0, 1} \X {0, 1} : \A i \in 1..2 : b[i] = 1 => p[i] < 0}

Around(p, d) == (p[1] - d .. p[1] + d) \X (p[2] - d .. p[2] + d)

-----------------------------------------------------------------------------
Init ==
    /\ pos = Start /\ border \in Borders(Start) /\ look \in Looks /\ view \in Views
    /\ loaded = {} /\ done = None /\ since = 0 /\ turns = 0

-----------------------------------------------------------------------------
(* The walk.  It has legs, and a leg has stops; a stop is one chunk, here twice, or two that *)
(* lie opposite each other.                                                                 *)

\* The order in which the offsets 0, 1, 2, 3, -1, -2, -3 are tried.
Offset(n) == IF n >= 4 THEN 3 - n ELSE n

\* High priority: 7 x 7 chunks around the one that is r chunks ahead.
Ahead(r, i) ==
    LET chunk == <<pos[1] + look[r + 1][1] + Offset((i - 1) \div 7),
                   pos[2] + look[r + 1][2] + Offset((i - 1) % 7)>>
    IN  <<chunk, chunk>>

\* Low priority: the squares around the player, from the center out to the edge, each by its
\* sides and then by what is left of its ends.
Square(d, i) ==
    LET Sides(z) == <<Plus(pos, <<d, z>>), Plus(pos, <<-d, z>>)>>
        Ends(x) == <<Plus(pos, <<x, d>>), Plus(pos, <<x, -d>>)>>
    IN  IF i <= 2 * d + 1 THEN Sides(i - 1 - d) ELSE Ends(i - 1 - 3 * d)

Legs == 2 * view + 1
Stop(n, i) == IF n <= view THEN Ahead(n - 1, i) ELSE Square(n - view - 1, i)
Stops(n) == IF n <= view THEN 49 ELSE IF n = view + 1 THEN 1 ELSE 4 * (n - view - 1)

\* At each stop the first chunk that the client has not got is streamed, if it is near (in a
\* square it is), until the tick has streamed as many as it may.
Visit(stop, walk) ==
    LET chunk == IF stop[1] \in walk.have THEN stop[2] ELSE stop[1]
    IN  IF walk.streamed < MaxStreamed /\ Near(chunk, pos) /\ chunk \notin walk.have
        THEN [have |-> walk.have \cup {chunk}, streamed |-> walk.streamed + 1]
        ELSE walk

\* What comes of a leg, and of the legs up to the n-th (the only member of the set).
Leg(n, walk) ==
    LET after[i \in 0..Stops(n)] ==
            IF i = 0 THEN {walk}
            ELSE {Visit(stop, before) : stop \in {Stop(n, i)}, before \in after[i - 1]}
    IN  after[Stops(n)]

Walks[n \in 0..Legs] ==
    IF n = 0 THEN {[have |-> loaded, streamed |-> 0]}
    ELSE UNION {Leg(n, walk) : walk \in Walks[n - 1]}

-----------------------------------------------------------------------------
(* Actions *)

\* Mutant: the mark is never set.
NeverMark ==
    IF done = pos THEN {[loaded |-> loaded, done |-> done]}
    ELSE {[loaded |-> walk.have, done |-> None] : walk \in Walks[Legs]}

\* StreamNextChunks: the lists it leaves, and the mark, which stays away if it has streamed
\* as many as it may: it returns in the middle of the walk, or at its very end.
StreamNextChunks ==
    IF done = pos THEN {[loaded |-> loaded, done |-> done]}
    ELSE {[loaded |-> walk.have, done |-> IF walk.streamed = MaxStreamed THEN None ELSE pos] :
              walk \in Walks[Legs]}

\* Tick: StreamNextChunks, and now and then UnloadOutOfRangeChunks.
Tick ==
    \E next \in StreamNextChunks :
        /\ loaded' = {c \in next.loaded : since = UnloadTicks => Near(c, Plus(pos, border))}
        /\ done' = next.done
        /\ since' = IF since = UnloadTicks THEN 0 ELSE since + 1
        /\ UNCHANGED <<pos, border, look, view, turns>>

Turn == turns < MaxTurns /\ turns' = turns + 1 /\ UNCHANGED since

Move(step) ==
    /\ Turn /\ pos' = Plus(pos, step) /\ border' \in Borders(pos')
    /\ UNCHANGED <<look, view, loaded, done>>
Look(l) == Turn /\ l # look /\ look' = l /\ UNCHANGED <<pos, border, view, loaded, done>>

\* Mutant: the walk is not begun again.
WidenView(v) ==
    Turn /\ v # view /\ view' = v /\ UNCHANGED <<pos, border, look, loaded, done>>

SetViewDistance(v) ==
    Turn /\ v # view /\ view' = v /\ done' = None /\ UNCHANGED <<pos, border, look, loaded>>

\* Mutant: the same.
LeaveWorld ==
    Turn /\ loaded' = {} /\ UNCHANGED <<pos, border, look, view, done>>

\* On the way to another world, where he may appear in the same chunk.
RemoveFromWorld ==
    Turn /\ loaded' = {} /\ done' = None /\ UNCHANGED <<pos, border, look, view>>

-----------------------------------------------------------------------------
Turned ==
    \/ \E step \in Steps : Move(step)
    \/ \E l \in Looks : Look(l)
    \/ \E v \in Views : SetViewDistance(v)
    \/ RemoveFromWorld

Next == Tick \/ Turned

Spec == Init /\ [][Next]_vars

\* The world ticks.
FairSpec == Spec /\ WF_vars(Tick)

-----------------------------------------------------------------------------
(* Properties *)

\* When the walk is said to be done, the client has the view, but for a few chunks: fewer
\* than a tick streams, and each opposite to one that it has.
DoneMeansLoadedButOpposites ==
    LET missing == Around(done, view) \ loaded
        Edge(i, c) == done[i] < 0 /\ c[i] - done[i] = -view
        West(x, z) == x < 0 /\ -x >= Abs(z) /\ Plus(done, <<-x, z>>) \in loaded
        North(x, z) == z < 0 /\ -z > Abs(x) /\ Plus(done, <<x, -z>>) \in loaded
        forgotten == {c \in missing : ~Edge(1, c) /\ ~Edge(2, c)}
    IN  done # None =>
            /\ Cardinality(forgotten) < MaxStreamed
            /\ \A c \in forgotten : LET x == c[1] - done[1]
                                        z == c[2] - done[2]
                                    IN  West(x, z) \/ North(x, z)

\* When the walk is said to be done, the client has the whole view.
DoneMeansLoaded == done # None => Around(done, view) \subseteq loaded

\* After each tick the client has, or is being given, the chunk its player stands in:
\* without it he is not let into the game.
OwnChunkGiven == [][turns' = turns => pos \in loaded']_vars

\* If the player stands still, the walk is done some time.
StandingIsDone == (turns = MaxTurns) ~> (done = pos)
=============================================================================
