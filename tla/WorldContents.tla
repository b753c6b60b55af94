--------------------------- MODULE WorldContents ----------------------------
(***************************************************************************)
(* What a world promises to those who live in it: every chunk has one      *)
(* content, generated once, which only they change.  Loading, saving and   *)
(* unloading chunks cannot be told from nothing happening.  Of some chunks *)
(* it may come to doubt, and from then on it promises nothing of these.    *)
(***************************************************************************)
EXTENDS Naturals

CONSTANTS Coords, Mobs, NotGenerated, Generated

VARIABLES
    world,              \* the content of every chunk, wherever it is kept
    doubted             \* the chunks nothing is promised of

Init ==
    /\ world = [c \in Coords |-> [blocks |-> NotGenerated, mobs |-> {}]]
    /\ doubted = {}

\* Nothing happens to the chunks outside S.
Kept(S) == \A d \in Coords \ (doubted' \cup S) : world'[d] = world[d]

\* Only blocks, or only mobs, of c change.
OnlyBlocks(c) == Kept({c}) /\ world'[c] = [world[c] EXCEPT !.blocks = world'[c].blocks]
OnlyMobs(c)   == Kept({c}) /\ world'[c] = [world[c] EXCEPT !.mobs = world'[c].mobs]

Generate(c) ==
    /\ world[c].blocks = NotGenerated
    /\ OnlyBlocks(c)
    /\ world'[c].blocks = Generated

\* Versions only grow: an earlier state of the blocks never comes back.
Change(c) ==
    /\ world[c].blocks # NotGenerated
    /\ OnlyBlocks(c)
    /\ world'[c].blocks > world[c].blocks

Spawn(c, m) ==
    /\ \A d \in Coords : m \notin world[d].mobs
    /\ OnlyMobs(c)
    /\ world'[c].mobs = world[c].mobs \cup {m}

Remove(c, m) ==
    /\ m \in world[c].mobs
    /\ OnlyMobs(c)
    /\ world'[c].mobs = world[c].mobs \ {m}

Next ==
    /\ doubted \subseteq doubted' /\ doubted' \subseteq Coords
    /\ world' = [c \in Coords |-> world'[c]]
    /\ \/ Kept({})
       \/ \E c \in Coords \ doubted' :
             \/ Generate(c)
             \/ Change(c)
             \/ \E m \in Mobs : Spawn(c, m) \/ Remove(c, m)

Spec == Init /\ [][Next]_<<world, doubted>>
=============================================================================
