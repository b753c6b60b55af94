---------------------------- MODULE MCStreamOrder ----------------------------
EXTENDS StreamOrder

\* Straight up, along an axis, and between two axes.
Up == [r \in 1..5 |-> <<0, 0>>]
North == [r \in 1..5 |-> <<0, 1 - r>>]
SouthEast == <<<<0, 0>>, <<0, 0>>, <<1, 1>>, <<2, 2>>, <<2, 2>>>>

Origin == <<-1, 0>>
Directions == {Up, North, SouthEast}
Ways == {<<1, 0>>, <<0, 1>>, <<-2, -1>>}
=============================================================================
