-------------------------- MODULE StreamOrderProofs --------------------------
(***************************************************************************)
(* Theorems about StreamOrder, for any view distances, directions, moves   *)
(* and limits: the player's own chunk is given to him at once, and when    *)
(* the walk is said to be done only the opposites of chunks that were      *)
(* streamed in it are missing.                                             *)
(***************************************************************************)
EXTENDS StreamOrder, FiniteSetTheorems, WellFoundedInduction, TLAPS

-----------------------------------------------------------------------------
(* Recursion and induction, by the least number *)

LEMMA Least ==
    ASSUME NEW T \in SUBSET Nat, T # {}
    PROVE  \E n \in T : \A m \in T : n <= m
<1> DEFINE R == {p \in Nat \X Nat : p[1] < p[2]}
<1>1. IsWellFoundedOn(R, Nat)
    BY NatLessThanWellFounded DEF OpToRel
<1>2. ASSUME NEW n \in T, NEW m \in T, ~(<<m, n>> \in R)
      PROVE  n <= m
    BY <1>2
<1> HIDE DEF R
<1>3. \E n \in T : \A m \in T : ~(<<m, n>> \in R)
    BY <1>1, WFMin
<1> QED BY <1>2, <1>3

\* The recursion within a leg, and its solution.
Visits(n, i, walks) == {Visit(stop, before) : stop \in {Stop(n, i)}, before \in walks}

Runs(after, n, walk, k) ==
    after = [i \in 0..k |-> IF i = 0 THEN {walk} ELSE Visits(n, i, after[i - 1])]

LEMMA LegRuns ==
    ASSUME NEW n \in Nat, NEW walk, NEW k \in Nat
    PROVE  \E after : Runs(after, n, walk, k)
<1> DEFINE T == {m \in Nat : ~\E after : Runs(after, n, walk, m)}
<1>1. SUFFICES ASSUME T # {} PROVE FALSE
    BY Zenon
<1>2. PICK m \in T : \A j \in T : m <= j
    BY <1>1, Least
<1>3. CASE m = 0
  <2> DEFINE f == [i \in 0..m |-> {walk}]
             g == [i \in 0..m |-> IF i = 0 THEN {walk} ELSE Visits(n, i, f[i - 1])]
  <2>1. f = g
    BY <1>3
  <2> QED BY <2>1, Zenon DEF Runs
<1>4. CASE m # 0
  <2>1. m - 1 \in Nat /\ m - 1 \notin T
    BY <1>2, <1>4
  <2>2. PICK f : Runs(f, n, walk, m - 1)
    BY <2>1, Zenon
  <2> DEFINE g == [i \in 0..m |-> IF i = m THEN Visits(n, m, f[m - 1]) ELSE f[i]]
             h == [i \in 0..m |-> IF i = 0 THEN {walk} ELSE Visits(n, i, g[i - 1])]
  <2>3. ASSUME NEW i \in 0..(m - 1)
        PROVE  f[i] = IF i = 0 THEN {walk} ELSE Visits(n, i, f[i - 1])
    BY <2>2 DEF Runs
  <2>4. ASSUME NEW i \in 0..m
        PROVE  g[i] = h[i]
    <3>1. CASE i = m
        BY <1>4, <2>1, <3>1
    <3>2. CASE i # m /\ i # 0
      <4>1. i \in 0..(m - 1) /\ i - 1 \in 0..(m - 1) /\ i - 1 \in 0..m /\ i - 1 # m
        BY <2>1, <3>2
      <4>2. g[i] = f[i] /\ g[i - 1] = f[i - 1]
        BY <3>2, <4>1
      <4> QED BY <2>3, <3>2, <4>1, <4>2
    <3>3. CASE i # m /\ i = 0
        BY <2>1, <2>3, <3>3
    <3> QED BY <3>1, <3>2, <3>3
  <2>5. g = h
    BY <2>4
  <2> QED BY <2>5, Zenon DEF Runs
<1> QED BY <1>3, <1>4

LEMMA LegIs ==
    ASSUME NEW n \in Nat, NEW walk, Stops(n) \in Nat
    PROVE  \E after : Runs(after, n, walk, Stops(n)) /\ Leg(n, walk) = after[Stops(n)]
<1> DEFINE A == CHOOSE after : Runs(after, n, walk, Stops(n))
<1>1. Runs(A, n, walk, Stops(n))
    BY LegRuns, Zenon
<1>2. Leg(n, walk) = A[Stops(n)]
    BY DEF Leg, Runs, Visits
<1> QED BY <1>1, <1>2, Zenon

\* The same for the legs.
NextLeg(n, walks) == UNION {Leg(n, walk) : walk \in walks}
Begun == [have |-> loaded, streamed |-> 0]

Goes(legs, k) ==
    legs = [n \in 0..k |-> IF n = 0 THEN {Begun} ELSE NextLeg(n, legs[n - 1])]

LEMMA WalkGoes ==
    ASSUME NEW k \in Nat
    PROVE  \E legs : Goes(legs, k)
<1> DEFINE T == {m \in Nat : ~\E legs : Goes(legs, m)}
<1>1. SUFFICES ASSUME T # {} PROVE FALSE
    BY Zenon
<1>2. PICK m \in T : \A j \in T : m <= j
    BY <1>1, Least
<1>3. CASE m = 0
  <2> DEFINE f == [n \in 0..m |-> {Begun}]
             g == [n \in 0..m |-> IF n = 0 THEN {Begun} ELSE NextLeg(n, f[n - 1])]
  <2>1. f = g
    BY <1>3
  <2> QED BY <2>1, Zenon DEF Goes
<1>4. CASE m # 0
  <2>1. m - 1 \in Nat /\ m - 1 \notin T
    BY <1>2, <1>4
  <2>2. PICK f : Goes(f, m - 1)
    BY <2>1, Zenon
  <2> DEFINE g == [n \in 0..m |-> IF n = m THEN NextLeg(m, f[m - 1]) ELSE f[n]]
             h == [n \in 0..m |-> IF n = 0 THEN {Begun} ELSE NextLeg(n, g[n - 1])]
  <2>3. ASSUME NEW n \in 0..(m - 1)
        PROVE  f[n] = IF n = 0 THEN {Begun} ELSE NextLeg(n, f[n - 1])
    BY <2>2 DEF Goes
  <2>4. ASSUME NEW n \in 0..m
        PROVE  g[n] = h[n]
    <3>1. CASE n = m
        BY <1>4, <2>1, <3>1
    <3>2. CASE n # m /\ n # 0
      <4>1. n \in 0..(m - 1) /\ n - 1 \in 0..(m - 1) /\ n - 1 \in 0..m /\ n - 1 # m
        BY <2>1, <3>2
      <4>2. g[n] = f[n] /\ g[n - 1] = f[n - 1]
        BY <3>2, <4>1
      <4> QED BY <2>3, <3>2, <4>1, <4>2
    <3>3. CASE n # m /\ n = 0
        BY <2>1, <2>3, <3>3
    <3> QED BY <3>1, <3>2, <3>3
  <2>5. g = h
    BY <2>4
  <2> QED BY <2>5, Zenon DEF Goes
<1> QED BY <1>3, <1>4

LEMMA WalksAre ==
    ASSUME Legs \in Nat
    PROVE  Goes(Walks, Legs)
<1> DEFINE W == CHOOSE legs : Goes(legs, Legs)
<1>1. Goes(W, Legs)
    BY WalkGoes, Zenon
<1>2. Walks = W
    BY DEF Walks, Goes, NextLeg, Begun
<1> QED BY <1>1, <1>2, Zenon
-----------------------------------------------------------------------------
(* The walk *)

OrderTypes ==
    /\ pos \in Chunks /\ border \in Borders(pos) /\ look \in Looks /\ view \in Views
    /\ done \in Chunks \cup {None} /\ since \in Nat /\ turns \in Nat

LEMMA ViewTypes ==
    ASSUME OrderTypes
    PROVE  /\ view \in Nat /\ view >= 1 /\ Legs \in Nat /\ Legs = 2 * view + 1
           /\ pos[1] \in Int /\ pos[2] \in Int /\ pos = <<pos[1], pos[2]>>
           /\ \A n \in 1..Legs : Stops(n) \in Nat
BY StreamAssumption DEF OrderTypes, Legs, Stops, Chunks

\* The stops of a square are near, and its first and second chunks opposites.
Pair(x1, z1, x2, z2) == <<Plus(pos, <<x1, z1>>), Plus(pos, <<x2, z2>>)>>

LEMMA SquareStops ==
    ASSUME OrderTypes, NEW d \in 0..view, NEW n, n = view + 1 + d
    PROVE  /\ n \in 1..Legs
           /\ Stops(n) = IF d = 0 THEN 1 ELSE 4 * d
           /\ \A z \in (-d)..d : /\ z + 1 + d \in 1..Stops(n)
                                /\ Stop(n, z + 1 + d) = Pair(d, z, -d, z)
           /\ \A x \in (1 - d)..(d - 1) : /\ x + 1 + 3 * d \in 1..Stops(n)
                                      /\ Stop(n, x + 1 + 3 * d) = Pair(x, d, x, -d)
           /\ \A i \in 1..Stops(n) :
                  \/ \E z \in (-d)..d : i = z + 1 + d
                  \/ \E x \in (1 - d)..(d - 1) : i = x + 1 + 3 * d
<1>1. /\ view \in Nat /\ d \in Nat /\ n \in 1..Legs /\ ~(n <= view) /\ n - view - 1 = d
    BY ViewTypes
<1>2. Stops(n) = IF d = 0 THEN 1 ELSE 4 * d
    BY <1>1 DEF Stops
<1>3. \A i : Stop(n, i) = Square(d, i)
    BY <1>1 DEF Stop
<1>4. ASSUME NEW z \in (-d)..d
      PROVE  z + 1 + d \in 1..Stops(n) /\ Stop(n, z + 1 + d) = Pair(d, z, -d, z)
  <2>1. /\ z \in Int /\ z + 1 + d <= 2 * d + 1 /\ (z + 1 + d) - 1 - d = z
        /\ z + 1 + d \in 1..Stops(n)
    BY <1>1, <1>2
  <2> QED BY <1>3, <2>1 DEF Square, Pair
<1>5. ASSUME NEW x \in (1 - d)..(d - 1)
      PROVE  x + 1 + 3 * d \in 1..Stops(n) /\ Stop(n, x + 1 + 3 * d) = Pair(x, d, x, -d)
  <2>1. /\ x \in Int /\ ~(x + 1 + 3 * d <= 2 * d + 1) /\ (x + 1 + 3 * d) - 1 - 3 * d = x
        /\ x + 1 + 3 * d \in 1..Stops(n)
    BY <1>1, <1>2
  <2> QED BY <1>3, <2>1 DEF Square, Pair
<1>6. ASSUME NEW i \in 1..Stops(n)
      PROVE  \/ \E z \in (-d)..d : i = z + 1 + d
             \/ \E x \in (1 - d)..(d - 1) : i = x + 1 + 3 * d
  <2>1. CASE i <= 2 * d + 1
    <3>1. i - 1 - d \in (-d)..d /\ i = (i - 1 - d) + 1 + d
        BY <1>1, <1>2, <2>1
    <3> QED BY <3>1
  <2>2. CASE ~(i <= 2 * d + 1)
    <3>1. i - 1 - 3 * d \in (1 - d)..(d - 1) /\ i = (i - 1 - 3 * d) + 1 + 3 * d
        BY <1>1, <1>2, <2>2
    <3> QED BY <3>1
  <2> QED BY <2>1, <2>2
<1> QED BY <1>1, <1>2, <1>4, <1>5, <1>6

LEMMA PairNear ==
    ASSUME OrderTypes, NEW x1 \in (-view)..view, NEW z1 \in (-view)..view,
           NEW x2 \in (-view)..view, NEW z2 \in (-view)..view
    PROVE  Near(Pair(x1, z1, x2, z2)[1], pos) /\ Near(Pair(x1, z1, x2, z2)[2], pos)
BY ViewTypes DEF Pair, Plus, Near, Abs

LEMMA SquareNear ==
    ASSUME OrderTypes, NEW n \in (view + 1)..Legs, NEW i \in 1..Stops(n)
    PROVE  Near(Stop(n, i)[1], pos) /\ Near(Stop(n, i)[2], pos)
<1> DEFINE d == n - view - 1
<1>1. d \in 0..view /\ d \in Nat /\ n = view + 1 + d /\ view \in Nat /\ -d \in (-view)..view
    BY ViewTypes
<1> HIDE DEF d
<1>2. CASE \E z \in (-d)..d : i = z + 1 + d
  <2>1. PICK z \in (-d)..d : i = z + 1 + d
    BY <1>2
  <2>2. z \in (-view)..view /\ d \in (-view)..view
    BY <1>1
  <2>3. Stop(n, i) = Pair(d, z, -d, z)
    BY <1>1, <2>1, SquareStops
  <2> QED BY <1>1, <2>2, <2>3, PairNear
<1>3. CASE \E x \in (1 - d)..(d - 1) : i = x + 1 + 3 * d
  <2>1. PICK x \in (1 - d)..(d - 1) : i = x + 1 + 3 * d
    BY <1>3
  <2>2. x \in (-view)..view /\ d \in (-view)..view
    BY <1>1
  <2>3. Stop(n, i) = Pair(x, d, x, -d)
    BY <1>1, <2>1, SquareStops
  <2> QED BY <1>1, <2>2, <2>3, PairNear
<1> QED BY <1>1, <1>2, <1>3, SquareStops

\* The walk begins with the player's chunk.
LEMMA FirstStop ==
    ASSUME OrderTypes
    PROVE  Stop(1, 1) = <<pos, pos>> /\ Near(pos, pos)
<1>1. /\ view \in Nat /\ 1 <= view /\ pos[1] \in Int /\ pos[2] \in Int
      /\ pos = <<pos[1], pos[2]>> /\ look[1] = <<0, 0>>
    BY ViewTypes, StreamAssumption DEF OrderTypes
<1>2. Offset((1 - 1) \div 7) = 0 /\ Offset((1 - 1) % 7) = 0 /\ (1 - 1) + 1 = 1
    BY DEF Offset
<1>3. Ahead(1 - 1, 1) = <<pos, pos>>
    BY <1>1, <1>2 DEF Ahead
<1> QED BY <1>1, <1>3 DEF Stop, Near, Abs

-----------------------------------------------------------------------------
(* What has been streamed *)

\* The chunks streamed in this tick are counted.
Counted(walk) ==
    /\ loaded \subseteq walk.have /\ walk.streamed \in 0..MaxStreamed
    /\ IsFiniteSet(walk.have \ loaded) /\ Cardinality(walk.have \ loaded) = walk.streamed

\* Of a stop that the walk has been at, the client has the first chunk, and the second one
\* too unless it is the first that has been streamed.
Visited(stop, walk) ==
    walk.streamed < MaxStreamed =>
        stop[1] \in walk.have /\ (stop[2] \in walk.have \/ stop[1] \notin loaded)

LEMMA VisitCounts ==
    ASSUME NEW stop, NEW walk, Counted(walk), NEW next, next = Visit(stop, walk)
    PROVE  /\ Counted(next) /\ walk.have \subseteq next.have
           /\ walk.streamed <= next.streamed
<1> DEFINE chunk == IF stop[1] \in walk.have THEN stop[2] ELSE stop[1]
<1>1. CASE walk.streamed < MaxStreamed /\ Near(chunk, pos) /\ chunk \notin walk.have
  <2>1. next.have = walk.have \cup {chunk} /\ next.streamed = walk.streamed + 1
    BY <1>1 DEF Visit
  <2>2. next.have \ loaded = (walk.have \ loaded) \cup {chunk} /\ chunk \notin walk.have \ loaded
    BY <1>1, <2>1 DEF Counted
  <2> HIDE DEF chunk
  <2> DEFINE new == walk.have \ loaded
  <2>3. IsFiniteSet(new) /\ chunk \notin new
    BY <2>2 DEF Counted
  <2> HIDE DEF new
  <2>4. IsFiniteSet(new \cup {chunk}) /\ Cardinality(new \cup {chunk}) = Cardinality(new) + 1
    BY <2>3, FS_AddElement
  <2>5. /\ IsFiniteSet(next.have \ loaded)
        /\ Cardinality(next.have \ loaded) = Cardinality(walk.have \ loaded) + 1
    BY <2>2, <2>4 DEF new
  <2> QED BY <1>1, <2>1, <2>5, StreamAssumption DEF Counted
<1>2. CASE ~(walk.streamed < MaxStreamed /\ Near(chunk, pos) /\ chunk \notin walk.have)
  <2>1. next = walk
    BY <1>2 DEF Visit
  <2> QED BY <2>1, StreamAssumption DEF Counted
<1> QED BY <1>1, <1>2

LEMMA VisitKeeps ==
    ASSUME NEW stop, NEW walk, NEW next, Visited(stop, walk),
           walk.have \subseteq next.have, walk.streamed <= next.streamed,
           walk.streamed \in Nat, next.streamed \in Nat
    PROVE  Visited(stop, next)
BY StreamAssumption DEF Visited

LEMMA VisitVisits ==
    ASSUME NEW stop, NEW walk, Counted(walk), Near(stop[1], pos), Near(stop[2], pos)
    PROVE  Visited(stop, Visit(stop, walk))
<1> DEFINE next == Visit(stop, walk)
<1>1. CASE walk.streamed < MaxStreamed /\ stop[1] \notin walk.have
  <2>1. next.have = walk.have \cup {stop[1]}
    BY <1>1 DEF Visit
  <2> QED BY <1>1, <2>1 DEF Visited, Counted
<1>2. CASE walk.streamed < MaxStreamed /\ stop[1] \in walk.have /\ stop[2] \notin walk.have
  <2>1. next.have = walk.have \cup {stop[2]}
    BY <1>2 DEF Visit
  <2> QED BY <1>2, <2>1 DEF Visited
<1>3. CASE walk.streamed < MaxStreamed /\ stop[1] \in walk.have /\ stop[2] \in walk.have
  <2>1. next = walk
    BY <1>3 DEF Visit
  <2> QED BY <1>3, <2>1 DEF Visited
<1>4. CASE ~(walk.streamed < MaxStreamed)
  <2>1. next = walk
    BY <1>4 DEF Visit
  <2> QED BY <1>4, <2>1 DEF Visited
<1> QED BY <1>1, <1>2, <1>3, <1>4

\* The walk is at the i-th stop of the n-th leg.
At(n, i, walk) ==
    /\ Counted(walk)
    /\ n = 1 /\ i = 0 => walk.streamed = 0
    /\ n > 1 \/ i > 0 => pos \in walk.have
    /\ \A m \in (view + 1)..n : \A j \in 1..(IF m < n THEN Stops(m) ELSE i) :
          Visited(Stop(m, j), walk)

LEMMA VisitAt ==
    ASSUME OrderTypes, NEW n \in 1..Legs, NEW i \in 1..Stops(n), NEW walk, At(n, i - 1, walk)
    PROVE  At(n, i, Visit(Stop(n, i), walk))
<1> DEFINE next == Visit(Stop(n, i), walk)
<1>1. /\ view \in Nat /\ view >= 1 /\ Legs \in Nat /\ n \in Nat /\ i \in Nat
      /\ Stops(n) \in Nat /\ n >= 1 /\ i >= 1
    BY ViewTypes
<1>2. /\ Counted(walk) /\ Counted(next) /\ walk.have \subseteq next.have
      /\ walk.streamed <= next.streamed /\ walk.streamed \in Nat /\ next.streamed \in Nat
  <2>1. /\ Counted(walk) /\ Counted(next) /\ walk.have \subseteq next.have
        /\ walk.streamed <= next.streamed
    BY VisitCounts DEF At
  <2> QED BY <2>1, StreamAssumption DEF Counted
<1>3. pos \in next.have
  <2>1. CASE n = 1 /\ i = 1
    <3>1. walk.streamed = 0 /\ walk.streamed < MaxStreamed
        BY <2>1, StreamAssumption DEF At
    <3>2. Stop(n, i) = <<pos, pos>> /\ Near(pos, pos)
        BY <2>1, FirstStop
    <3>3. Visited(<<pos, pos>>, Visit(<<pos, pos>>, walk))
        BY <1>2, <3>2, VisitVisits
    <3>4. CASE pos \in walk.have
        BY <1>2, <3>4
    <3>5. CASE pos \notin walk.have
        BY <3>1, <3>2, <3>5 DEF Visit
    <3> QED BY <3>4, <3>5
  <2>2. CASE ~(n = 1 /\ i = 1)
    BY <1>1, <1>2, <2>2 DEF At
  <2> QED BY <2>1, <2>2
<1>4. ASSUME NEW m \in (view + 1)..n, NEW j \in 1..(IF m < n THEN Stops(m) ELSE i)
      PROVE  Visited(Stop(m, j), next)
  <2>1. CASE m = n /\ j = i
    BY <1>1, <1>2, <2>1, SquareNear, VisitVisits
  <2>2. CASE ~(m = n /\ j = i)
    <3>1. j \in 1..(IF m < n THEN Stops(m) ELSE i - 1)
        BY <1>1, <2>2
    <3>2. Visited(Stop(m, j), walk)
        BY <3>1 DEF At
    <3> HIDE DEF next
    <3> QED BY <1>2, <3>2, VisitKeeps
  <2> QED BY <2>1, <2>2
<1> HIDE DEF next
<1>5. At(n, i, next)
    BY <1>1, <1>2, <1>3, <1>4 DEF At
<1> QED BY <1>5 DEF next

LEMMA LegAt ==
    ASSUME OrderTypes, NEW n \in 1..Legs, NEW walk, At(n, 0, walk), NEW end \in Leg(n, walk)
    PROVE  At(n + 1, 0, end)
<1>1. n \in Nat /\ Stops(n) \in Nat /\ view \in Nat /\ n >= 1
    BY ViewTypes
<1>2. PICK after : Runs(after, n, walk, Stops(n)) /\ Leg(n, walk) = after[Stops(n)]
    BY <1>1, LegIs
<1> DEFINE T == {i \in 0..Stops(n) : \E w \in after[i] : ~At(n, i, w)}
<1>3. ASSUME T # {} PROVE FALSE
  <2>1. T \in SUBSET Nat
    BY <1>1
  <2>2. PICK i \in T : \A j \in T : i <= j
    BY <1>3, <2>1, Least
  <2>3. PICK w \in after[i] : ~At(n, i, w)
    BY <2>2
  <2>4. i # 0
    BY <1>1, <1>2, <2>3 DEF Runs
  <2>5. i \in 1..Stops(n) /\ i - 1 \in 0..Stops(n) /\ i - 1 \notin T
    BY <1>1, <2>2, <2>4
  <2>6. after[i] = Visits(n, i, after[i - 1])
    BY <1>2, <2>4, <2>5 DEF Runs
  <2>7. PICK before \in after[i - 1] : w = Visit(Stop(n, i), before)
    BY <2>3, <2>6 DEF Visits
  <2>8. At(n, i - 1, before)
    BY <2>5
  <2> QED BY <2>3, <2>5, <2>7, <2>8, VisitAt
<1>4. At(n, Stops(n), end)
    BY <1>1, <1>2, <1>3
<1>5. n > 1 \/ Stops(n) > 0
    BY <1>1, ViewTypes DEF Stops
<1> QED BY <1>1, <1>4, <1>5 DEF At

LEMMA WalkAt ==
    ASSUME OrderTypes, NEW walk \in Walks[Legs]
    PROVE  At(Legs + 1, 0, walk)
<1>1. Legs \in Nat /\ view \in Nat
    BY ViewTypes
<1>2. Goes(Walks, Legs)
    BY <1>1, WalksAre
<1> DEFINE T == {n \in 0..Legs : \E w \in Walks[n] : ~At(n + 1, 0, w)}
<1>3. ASSUME T # {} PROVE FALSE
  <2>1. T \in SUBSET Nat
    BY <1>1
  <2>2. PICK n \in T : \A m \in T : n <= m
    BY <1>3, <2>1, Least
  <2>3. PICK w \in Walks[n] : ~At(n + 1, 0, w)
    BY <2>2
  <2>4. n # 0
    <3>1. SUFFICES ASSUME n = 0 PROVE FALSE
        OBVIOUS
    <3>2. w = Begun
        BY <1>1, <1>2, <2>3, <3>1 DEF Goes
    <3>3. Counted(Begun)
      <4>1. Begun.have = loaded /\ Begun.streamed = 0 /\ Begun.have \ loaded = {}
        BY DEF Begun
      <4>2. IsFiniteSet(Begun.have \ loaded) /\ Cardinality(Begun.have \ loaded) = 0
        BY <4>1, FS_EmptySet, Zenon
      <4> QED BY <4>1, <4>2, StreamAssumption DEF Counted
    <3>4. At(1, 0, Begun)
        BY <1>1, <3>3 DEF At, Begun, Stops
    <3> QED BY <2>3, <3>1, <3>2, <3>4
  <2>5. n \in 1..Legs /\ n - 1 \in 0..Legs /\ n - 1 \notin T /\ (n - 1) + 1 = n
    BY <1>1, <2>2, <2>4
  <2>6. Walks[n] = NextLeg(n, Walks[n - 1])
    BY <1>2, <2>4, <2>5 DEF Goes
  <2>7. PICK before \in Walks[n - 1] : w \in Leg(n, before)
    BY <2>3, <2>6 DEF NextLeg
  <2>8. At(n, 0, before)
    BY <2>5
  <2> QED BY <2>3, <2>5, <2>7, <2>8, LegAt
<1> QED BY <1>1, <1>3

-----------------------------------------------------------------------------
(* When the walk is done *)

\* Each chunk of the view is at a stop of a square: the first of it, or the opposite one.
West(c, p) == c[1] < p[1] /\ p[1] - c[1] >= Abs(c[2] - p[2])
North(c, p) == c[2] < p[2] /\ p[2] - c[2] > Abs(c[1] - p[1])

Opposite(c, p) ==
    IF West(c, p) THEN <<2 * p[1] - c[1], c[2]>> ELSE <<c[1], 2 * p[2] - c[2]>>

LEMMA ViewVisited ==
    ASSUME OrderTypes, NEW c \in Around(pos, view)
    PROVE  \E n \in (view + 1)..Legs : \E i \in 1..Stops(n) :
              \/ Stop(n, i)[1] = c
              \/ /\ Stop(n, i)[2] = c /\ Stop(n, i)[1] = Opposite(c, pos)
                 /\ West(c, pos) \/ North(c, pos)
<1> DEFINE x == c[1] - pos[1]
           z == c[2] - pos[2]
<1>1. /\ view \in Nat /\ Legs = 2 * view + 1 /\ pos[1] \in Int /\ pos[2] \in Int
      /\ x \in (-view)..view /\ z \in (-view)..view /\ c[1] \in Int /\ c[2] \in Int
      /\ c = <<pos[1] + x, pos[2] + z>>
    BY ViewTypes DEF Around
<1>2. CASE Abs(x) >= Abs(z)
  <2> DEFINE d == Abs(x)
  <2>1. d \in 0..view /\ z \in (-d)..d /\ view + 1 + d \in (view + 1)..Legs
    BY <1>1, <1>2 DEF Abs
  <2>2. z + 1 + d \in 1..Stops(view + 1 + d) /\ Stop(view + 1 + d, z + 1 + d) = Pair(d, z, -d, z)
    BY <2>1, SquareStops
  <2>3. CASE x >= 0
    <3>1. Pair(d, z, -d, z)[1] = c
        BY <1>1, <2>3 DEF Pair, Plus, Abs
    <3> QED BY <2>1, <2>2, <3>1
  <2>4. CASE x < 0
    <3>1. West(c, pos)
        BY <1>1, <1>2, <2>4 DEF West, Abs
    <3>2. Pair(d, z, -d, z)[2] = c /\ Pair(d, z, -d, z)[1] = Opposite(c, pos)
        BY <1>1, <2>4, <3>1 DEF Pair, Plus, Abs, Opposite
    <3> QED BY <2>1, <2>2, <3>1, <3>2
  <2> QED BY <1>1, <2>3, <2>4
<1>3. CASE Abs(x) < Abs(z)
  <2> DEFINE d == Abs(z)
  <2>1. d \in 0..view /\ x \in (1 - d)..(d - 1) /\ view + 1 + d \in (view + 1)..Legs
    BY <1>1, <1>3 DEF Abs
  <2>2. /\ x + 1 + 3 * d \in 1..Stops(view + 1 + d)
        /\ Stop(view + 1 + d, x + 1 + 3 * d) = Pair(x, d, x, -d)
    BY <2>1, SquareStops
  <2>3. CASE z >= 0
    <3>1. Pair(x, d, x, -d)[1] = c
        BY <1>1, <2>3 DEF Pair, Plus, Abs
    <3> QED BY <2>1, <2>2, <3>1
  <2>4. CASE z < 0
    <3>1. North(c, pos) /\ ~West(c, pos)
        BY <1>1, <1>3, <2>4 DEF North, West, Abs
    <3>2. Pair(x, d, x, -d)[2] = c /\ Pair(x, d, x, -d)[1] = Opposite(c, pos)
        BY <1>1, <2>4, <3>1 DEF Pair, Plus, Abs, Opposite
    <3> QED BY <2>1, <2>2, <3>1, <3>2
  <2> QED BY <1>1, <2>3, <2>4
<1> QED BY <1>1, <1>2, <1>3 DEF Abs

\* What the walk leaves out is the opposite of what it has streamed, so it is less than a tick
\* may stream.
LEMMA WalkLeaves ==
    ASSUME OrderTypes, NEW walk \in Walks[Legs], walk.streamed # MaxStreamed,
           NEW c \in Around(pos, view) \ walk.have
    PROVE  Opposite(c, pos) \in walk.have \ loaded /\ (West(c, pos) \/ North(c, pos))
<1>1. /\ view \in Nat /\ Legs = 2 * view + 1
      /\ \A n \in 1..Legs : Stops(n) \in Nat
    BY ViewTypes
<1>2. At(Legs + 1, 0, walk)
    BY WalkAt
<1>3. walk.streamed < MaxStreamed
    BY <1>2, StreamAssumption DEF At, Counted
<1>4. PICK n \in (view + 1)..Legs : \E i \in 1..Stops(n) :
              \/ Stop(n, i)[1] = c
              \/ /\ Stop(n, i)[2] = c /\ Stop(n, i)[1] = Opposite(c, pos)
                 /\ West(c, pos) \/ North(c, pos)
    BY ViewVisited
<1>5. PICK i \in 1..Stops(n) :
              \/ Stop(n, i)[1] = c
              \/ /\ Stop(n, i)[2] = c /\ Stop(n, i)[1] = Opposite(c, pos)
                 /\ West(c, pos) \/ North(c, pos)
    BY <1>4
<1>6. Visited(Stop(n, i), walk)
    BY <1>1, <1>2 DEF At
<1> QED BY <1>3, <1>5, <1>6 DEF Visited

LEMMA FewLeft ==
    ASSUME OrderTypes, NEW walk \in Walks[Legs], walk.streamed # MaxStreamed
    PROVE  /\ IsFiniteSet(Around(pos, view) \ walk.have)
           /\ Cardinality(Around(pos, view) \ walk.have) < MaxStreamed
<1> DEFINE left == Around(pos, view) \ walk.have
           new == walk.have \ loaded
           f == [c \in left |-> Opposite(c, pos)]
<1>1. /\ IsFiniteSet(new) /\ Cardinality(new) < MaxStreamed /\ Cardinality(new) \in Nat
    BY WalkAt, StreamAssumption DEF At, Counted
<1>2. ASSUME NEW c \in left
      PROVE  Opposite(c, pos) \in new
    BY WalkLeaves
<1>3. ASSUME NEW c \in left, NEW e \in left, Opposite(c, pos) = Opposite(e, pos)
      PROVE  c = e
  <2>1. (West(c, pos) \/ North(c, pos)) /\ (West(e, pos) \/ North(e, pos))
    BY WalkLeaves
  <2>2. /\ pos[1] \in Int /\ pos[2] \in Int
        /\ c[1] \in Int /\ c[2] \in Int /\ c = <<c[1], c[2]>>
        /\ e[1] \in Int /\ e[2] \in Int /\ e = <<e[1], e[2]>>
    BY ViewTypes DEF Around
  <2>3. CASE West(c, pos) /\ West(e, pos)
    BY <1>3, <2>2, <2>3 DEF Opposite
  <2>4. CASE ~West(c, pos) /\ ~West(e, pos)
    BY <1>3, <2>2, <2>4 DEF Opposite
  <2>5. CASE West(c, pos) /\ ~West(e, pos)
    BY <1>3, <2>1, <2>2, <2>5 DEF Opposite, West, North, Abs
  <2>6. CASE ~West(c, pos) /\ West(e, pos)
    BY <1>3, <2>1, <2>2, <2>6 DEF Opposite, West, North, Abs
  <2> QED BY <2>3, <2>4, <2>5, <2>6
<1> HIDE DEF left, new
<1>4. f \in Injection(left, new)
    BY <1>2, <1>3 DEF Injection, IsInjective
<1>5. IsFiniteSet(left) /\ Cardinality(left) <= Cardinality(new)
    BY <1>1, <1>4, FS_Injection
<1>6. Cardinality(left) \in Nat
    BY <1>5, FS_CardinalityType
<1> QED BY <1>1, <1>5, <1>6, StreamAssumption DEF left

-----------------------------------------------------------------------------
(* The invariant *)

\* At negative coordinates the unloading takes the edge of the view away.
Edge(c, p) == \E i \in 1..2 : p[i] < 0 /\ c[i] - p[i] = -view
Left(have, p) == {c \in Around(p, view) \ have : ~Edge(c, p)}

\* The client has the view around p, but for a few opposites.
Few(have, p) ==
    /\ p \in have
    /\ IsFiniteSet(Left(have, p)) /\ Cardinality(Left(have, p)) < MaxStreamed
    /\ \A c \in Left(have, p) :
          Opposite(c, p) \in have /\ (West(c, p) \/ North(c, p))

DoneInv == done # None => Few(loaded, done)

OrderInv == OrderTypes /\ DoneInv

LEMMA LeftShrinks ==
    ASSUME NEW S, NEW T \in SUBSET S, IsFiniteSet(S), Cardinality(S) < MaxStreamed
    PROVE  IsFiniteSet(T) /\ Cardinality(T) < MaxStreamed
<1>1. IsFiniteSet(T) /\ Cardinality(T) <= Cardinality(S)
    BY FS_Subset
<1>2. Cardinality(T) \in Nat /\ Cardinality(S) \in Nat
    BY <1>1, FS_CardinalityType
<1> QED BY <1>1, <1>2, StreamAssumption

LEMMA WalkFew ==
    ASSUME OrderTypes, NEW walk \in Walks[Legs], walk.streamed # MaxStreamed
    PROVE  Few(walk.have, pos)
<1>1. pos \in walk.have
    BY WalkAt, ViewTypes DEF At
<1>2. Left(walk.have, pos) \in SUBSET (Around(pos, view) \ walk.have)
    BY DEF Left
<1>3. IsFiniteSet(Left(walk.have, pos)) /\ Cardinality(Left(walk.have, pos)) < MaxStreamed
    BY <1>2, FewLeft, LeftShrinks
<1> QED BY <1>1, <1>2, <1>3, WalkLeaves DEF Few

\* Unloading takes away only what is out of the view or at its edge.
LEMMA Spared ==
    ASSUME OrderTypes, NEW c \in Around(pos, view), ~Edge(c, pos)
    PROVE  Near(c, Plus(pos, border))
<1>1. /\ view \in Nat /\ pos[1] \in Int /\ pos[2] \in Int /\ c[1] \in Int /\ c[2] \in Int
      /\ c[1] - pos[1] \in (-view)..view /\ c[2] - pos[2] \in (-view)..view
    BY ViewTypes DEF Around
<1>2. /\ border[1] \in {0, 1} /\ (border[1] = 1 => pos[1] < 0)
      /\ border[2] \in {0, 1} /\ (border[2] = 1 => pos[2] < 0)
    BY DEF OrderTypes, Borders
<1>3. /\ ~(pos[1] < 0 /\ c[1] - pos[1] = -view)
      /\ ~(pos[2] < 0 /\ c[2] - pos[2] = -view)
    BY DEF Edge
<1> QED BY <1>1, <1>2, <1>3 DEF Near, Plus, Abs

LEMMA OppositeInView ==
    ASSUME OrderTypes, NEW c \in Around(pos, view), ~Edge(c, pos), West(c, pos) \/ North(c, pos)
    PROVE  Opposite(c, pos) \in Around(pos, view) /\ ~Edge(Opposite(c, pos), pos)
<1>1. /\ view \in Nat /\ view >= 1
      /\ pos[1] \in Int /\ pos[2] \in Int /\ c[1] \in Int /\ c[2] \in Int
      /\ c[1] - pos[1] \in (-view)..view /\ c[2] - pos[2] \in (-view)..view
    BY ViewTypes DEF Around
<1>2. /\ ~(pos[1] < 0 /\ c[1] - pos[1] = -view)
      /\ ~(pos[2] < 0 /\ c[2] - pos[2] = -view)
    BY DEF Edge
<1>3. CASE West(c, pos)
  <2>1. Opposite(c, pos) = <<2 * pos[1] - c[1], c[2]>>
    BY <1>3 DEF Opposite
  <2> QED BY <1>1, <1>2, <1>3, <2>1 DEF West, Around, Edge
<1>4. CASE ~West(c, pos) /\ North(c, pos)
  <2>1. Opposite(c, pos) = <<c[1], 2 * pos[2] - c[2]>>
    BY <1>4 DEF Opposite
  <2> QED BY <1>1, <1>2, <1>4, <2>1 DEF North, Around, Edge
<1> QED BY <1>3, <1>4

LEMMA UnloadKeeps ==
    ASSUME OrderTypes, NEW have, Few(have, pos), NEW kept,
           kept = {c \in have : since = UnloadTicks => Near(c, Plus(pos, border))}
    PROVE  Few(kept, pos)
<1>1. ASSUME NEW c \in have, c \in Around(pos, view), ~Edge(c, pos)
      PROVE  c \in kept
    BY <1>1, Spared
<1>2. pos \in kept
  <2>1. pos \in Around(pos, view) /\ ~Edge(pos, pos)
    BY ViewTypes DEF Around, Edge
  <2> QED BY <1>1, <2>1 DEF Few
<1>3. Left(kept, pos) \in SUBSET Left(have, pos)
    BY <1>1 DEF Left
<1>4. IsFiniteSet(Left(kept, pos)) /\ Cardinality(Left(kept, pos)) < MaxStreamed
    BY <1>3, LeftShrinks DEF Few
<1>5. ASSUME NEW c \in Left(kept, pos)
      PROVE  Opposite(c, pos) \in kept /\ (West(c, pos) \/ North(c, pos))
  <2>1. Opposite(c, pos) \in have /\ (West(c, pos) \/ North(c, pos))
    BY <1>3 DEF Few
  <2>2. Opposite(c, pos) \in Around(pos, view) /\ ~Edge(Opposite(c, pos), pos)
    BY <2>1, OppositeInView DEF Left
  <2> QED BY <1>1, <2>1, <2>2
<1> QED BY <1>2, <1>4, <1>5 DEF Few

\* What a tick leaves.
LEMMA TickLeaves ==
    ASSUME OrderInv, Tick
    PROVE  pos \in loaded' /\ (done' = None \/ (done' = pos /\ Few(loaded', pos)))
<1>1. PICK next \in StreamNextChunks :
          /\ loaded' = {c \in next.loaded : since = UnloadTicks => Near(c, Plus(pos, border))}
          /\ done' = next.done
    BY DEF Tick
<1>2. CASE done = pos
  <2>1. next = [loaded |-> loaded, done |-> done]
    BY <1>2, Zenon DEF StreamNextChunks
  <2>2. Few(loaded, pos)
    BY <1>2, StreamAssumption DEF OrderInv, DoneInv, OrderTypes
  <2>3. Few(loaded', pos)
    BY <1>1, <2>1, <2>2, UnloadKeeps DEF OrderInv
  <2> QED BY <1>1, <1>2, <2>1, <2>3 DEF Few
<1>3. CASE done # pos
  <2>1. PICK walk \in Walks[Legs] :
            next = [loaded |-> walk.have,
                    done |-> IF walk.streamed = MaxStreamed THEN None ELSE pos]
    BY <1>3, Zenon DEF StreamNextChunks
  <2>2. pos \in loaded'
    <3>1. pos \in walk.have
        BY WalkAt, ViewTypes DEF At, OrderInv
    <3>2. pos \in Around(pos, view) /\ ~Edge(pos, pos)
        BY ViewTypes DEF Around, Edge, OrderInv
    <3>3. Near(pos, Plus(pos, border))
        BY <3>2, Spared DEF OrderInv
    <3> QED BY <1>1, <2>1, <3>1, <3>3
  <2>3. CASE walk.streamed # MaxStreamed
    <3>1. Few(walk.have, pos)
        BY <2>3, WalkFew DEF OrderInv
    <3>2. Few(loaded', pos)
        BY <1>1, <2>1, <3>1, UnloadKeeps DEF OrderInv
    <3>3. done' = pos
        BY <1>1, <2>1, <2>3
    <3> QED BY <2>2, <3>2, <3>3
  <2>4. CASE walk.streamed = MaxStreamed
    <3>1. done' = None
        BY <1>1, <2>1, <2>4
    <3> QED BY <2>2, <3>1
  <2> QED BY <2>3, <2>4
<1> QED BY <1>2, <1>3

LEMMA InitOrder == Init => OrderInv
<1> SUFFICES ASSUME Init PROVE OrderInv
    OBVIOUS
<1> QED BY StreamAssumption DEF Init, OrderInv, OrderTypes, DoneInv

LEMMA PlusChunk ==
    ASSUME NEW c \in Chunks, NEW d \in Chunks
    PROVE  Plus(c, d) \in Chunks
BY DEF Chunks, Plus

LEMMA StepOrder == OrderInv /\ [Next]_vars => OrderInv'
<1> SUFFICES ASSUME OrderInv, [Next]_vars PROVE OrderInv'
    OBVIOUS
<1>1. OrderTypes /\ DoneInv
    BY DEF OrderInv
<1>2. CASE Tick
  <2>1. OrderTypes'
    BY <1>1, <1>2, TickLeaves, StreamAssumption DEF Tick, OrderTypes
  <2>2. view' = view /\ pos' = pos
    BY <1>2 DEF Tick
  <2>3. DoneInv'
    BY <1>2, <2>2, TickLeaves DEF DoneInv, Few, Left, Edge
  <2> QED BY <2>1, <2>3 DEF OrderInv
<1>3. ASSUME NEW step \in Steps, Move(step)
      PROVE  OrderInv'
  <2>1. OrderTypes'
    BY <1>1, <1>3, PlusChunk, StreamAssumption DEF Move, Turn, OrderTypes
  <2>2. DoneInv'
    BY <1>1, <1>3 DEF Move, DoneInv, Few, Left, Edge
  <2> QED BY <2>1, <2>2 DEF OrderInv
<1>4. ASSUME NEW l \in Looks, Look(l)
      PROVE  OrderInv'
  <2>1. OrderTypes'
    BY <1>1, <1>4 DEF Look, Turn, OrderTypes
  <2>2. DoneInv'
    BY <1>1, <1>4 DEF Look, DoneInv, Few, Left, Edge
  <2> QED BY <2>1, <2>2 DEF OrderInv
<1>5. ASSUME NEW v \in Views, SetViewDistance(v)
      PROVE  OrderInv'
    BY <1>1, <1>5 DEF SetViewDistance, Turn, OrderInv, OrderTypes, DoneInv
<1>6. CASE RemoveFromWorld
    BY <1>1, <1>6 DEF RemoveFromWorld, Turn, OrderInv, OrderTypes, DoneInv
<1>7. CASE UNCHANGED vars
    BY <1>1, <1>7 DEF vars, OrderInv, OrderTypes, DoneInv, Few, Left, Edge
<1> QED BY <1>2, <1>3, <1>4, <1>5, <1>6, <1>7 DEF Next, Turned

LEMMA OrderAlways == Spec => []OrderInv
BY InitOrder, StepOrder, PTL DEF Spec

\* StreamNextChunks forgets a chunk only when it has streamed the one opposite (the || of
\* StreamIfUnloaded), fewer than MAX_CHUNKS_STREAMED_PER_TICK of them.
THEOREM DoneMeansLoadedAlmost == Spec => []DoneMeansLoadedButOpposites
<1>1. OrderInv => DoneMeansLoadedButOpposites
  <2> SUFFICES ASSUME OrderInv, done # None
               PROVE  DoneMeansLoadedButOpposites
    BY DEF DoneMeansLoadedButOpposites
  <2>1. Few(loaded, done) /\ done \in Chunks /\ view \in Nat
    BY ViewTypes DEF OrderInv, DoneInv, OrderTypes
  <2> DEFINE forgotten ==
                {c \in Around(done, view) \ loaded :
                    /\ ~(done[1] < 0 /\ c[1] - done[1] = -view)
                    /\ ~(done[2] < 0 /\ c[2] - done[2] = -view)}
  <2>2. forgotten = Left(loaded, done)
    BY DEF Left, Edge
  <2>3. Cardinality(forgotten) < MaxStreamed
    BY <2>1, <2>2 DEF Few
  <2>4. ASSUME NEW c \in forgotten
        PROVE  LET x == c[1] - done[1]
                   z == c[2] - done[2]
               IN  \/ x < 0 /\ -x >= Abs(z) /\ Plus(done, <<-x, z>>) \in loaded
                   \/ z < 0 /\ -z > Abs(x) /\ Plus(done, <<x, -z>>) \in loaded
    <3>1. /\ done[1] \in Int /\ done[2] \in Int /\ c[1] \in Int /\ c[2] \in Int
          /\ Opposite(c, done) \in loaded /\ (West(c, done) \/ North(c, done))
        BY <2>1, <2>2 DEF Few, Chunks, Around
    <3>2. CASE West(c, done)
        BY <3>1, <3>2 DEF West, Opposite, Plus, Abs
    <3>3. CASE ~West(c, done) /\ North(c, done)
        BY <3>1, <3>3 DEF North, Opposite, Plus, Abs
    <3> QED BY <3>1, <3>2, <3>3
  <2> HIDE DEF forgotten
  <2> QED BY <2>3, <2>4 DEF DoneMeansLoadedButOpposites, forgotten
<1> QED BY <1>1, OrderAlways, PTL

\* Each tick gives the client the chunk that its player stands in, the first of the walk, and
\* the unloading leaves it.
THEOREM OwnChunk == Spec => OwnChunkGiven
<1>1. OrderInv /\ [Next]_vars => [turns' = turns => pos \in loaded']_vars
  <2> SUFFICES ASSUME OrderInv, Next, turns' = turns
               PROVE  pos \in loaded'
    BY DEF OrderInv
  <2>1. CASE Tick
    BY <2>1, TickLeaves
  <2>2. CASE Turned
    BY <2>2 DEF Turned, Move, Look, SetViewDistance, RemoveFromWorld, Turn, OrderInv, OrderTypes
  <2> QED BY <2>1, <2>2 DEF Next
<1> QED BY <1>1, OrderAlways, PTL DEF Spec, OwnChunkGiven
=============================================================================
