--------------------------- MODULE ClientLinkProofs ---------------------------
(***************************************************************************)
(* Theorems about ClientLink, for any threads and any number of packets:   *)
(* what goes out is what was queued, in that order and decipherable,       *)
(* unless two threads flushed at once.                                     *)
(***************************************************************************)
EXTENDS ClientLink, SequenceTheorems, TLAPS

USE DEF clientVars, linkVars, history

Pieces == [of : Nat, last : BOOLEAN, dc : BOOLEAN, key : Nat]

-----------------------------------------------------------------------------
(* Sequences of pieces *)

Bare(p) == [p EXCEPT !.key = 0]

LEMMA Rekeyed ==
    ASSUME NEW p \in Pieces, NEW k \in Nat
    PROVE  /\ [p EXCEPT !.key = k] \in Pieces /\ [p EXCEPT !.key = k].key = k
           /\ Bare([p EXCEPT !.key = k]) = Bare(p)
BY DEF Pieces, Bare

\* The pieces of s, in clear, are those of q from the place n + 1 on.
Follows(s, n, q) == \A i \in 1..Len(s) : n + i \in 1..Len(q) /\ q[n + i] = Bare(s[i])

\* The pieces of s have the keys from n + 1 on.
Keyed(s, n) == \A i \in 1..Len(s) : s[i].key = n + i

LEMMA EmptyFollows ==
    ASSUME NEW n, NEW q PROVE Follows(<<>>, n, q) /\ Keyed(<<>>, n)
BY DEF Follows, Keyed

LEMMA QueueGrows ==
    ASSUME NEW q \in Seq(Pieces), NEW s, NEW n, NEW p, Follows(s, n, q)
    PROVE  Follows(s, n, Append(q, p))
BY DEF Follows

LEMMA AppendFollows ==
    ASSUME NEW q \in Seq(Pieces), NEW s \in Seq(Pieces), NEW n \in Nat, NEW p \in Pieces,
           p.key = 0, Follows(s, n, q), n + Len(s) = Len(q)
    PROVE  Follows(Append(s, p), n, Append(q, p))
<1>1. Bare(p) = p
    BY DEF Bare, Pieces
<1>2. /\ Len(Append(s, p)) = Len(s) + 1 /\ Len(Append(q, p)) = Len(q) + 1
      /\ Append(s, p)[Len(s) + 1] = p /\ Append(q, p)[Len(q) + 1] = p
      /\ \A i \in 1..Len(s) : Append(s, p)[i] = s[i]
    OBVIOUS
<1>3. Follows(s, n, Append(q, p))
    BY QueueGrows
<1> QED BY <1>1, <1>2, <1>3 DEF Follows

LEMMA ConcatFollows ==
    ASSUME NEW q \in Seq(Pieces), NEW s \in Seq(Pieces), NEW t \in Seq(Pieces), NEW n \in Nat,
           Follows(s, n, q), Keyed(s, n), Follows(t, n + Len(s), q), Keyed(t, n + Len(s))
    PROVE  Follows(s \o t, n, q) /\ Keyed(s \o t, n)
<1> SUFFICES ASSUME NEW i \in 1..Len(s \o t)
             PROVE  /\ n + i \in 1..Len(q) /\ q[n + i] = Bare((s \o t)[i])
                    /\ (s \o t)[i].key = n + i
    BY DEF Follows, Keyed
<1>1. /\ Len(s) \in Nat /\ Len(t) \in Nat /\ Len(s \o t) = Len(s) + Len(t)
      /\ (s \o t)[i] = IF i <= Len(s) THEN s[i] ELSE t[i - Len(s)]
    BY ConcatProperties
<1>2. CASE i <= Len(s)
    BY <1>1, <1>2 DEF Follows, Keyed
<1>3. CASE ~(i <= Len(s))
  <2>1. i - Len(s) \in 1..Len(t) /\ n + Len(s) + (i - Len(s)) = n + i
    BY <1>1, <1>3
  <2> QED BY <1>1, <1>3, <2>1 DEF Follows, Keyed
<1> QED BY <1>2, <1>3

\* k pieces from the front of t go to the end of s.
Split(s, t, k, s2, t2, q) ==
    /\ Len(s2) = Len(s) + k /\ Len(t2) = Len(t) - k
    /\ Follows(s2, 0, q) /\ Keyed(s2, 0)
    /\ Follows(t2, Len(s2), q) /\ Keyed(t2, Len(s2))

LEMMA SplitFollows ==
    ASSUME NEW q \in Seq(Pieces), NEW s \in Seq(Pieces), NEW t \in Seq(Pieces),
           NEW k \in 1..Len(t),
           Follows(s, 0, q), Keyed(s, 0), Follows(t, Len(s), q), Keyed(t, Len(s))
    PROVE  Split(s, t, k, s \o SubSeq(t, 1, k), SubSeq(t, k + 1, Len(t)), q)
<1> DEFINE s2 == s \o SubSeq(t, 1, k)
           t2 == SubSeq(t, k + 1, Len(t))
<1>1. Len(s) \in Nat /\ Len(t) \in Nat /\ k \in Nat /\ 1 <= k /\ k <= Len(t)
    OBVIOUS
<1>2. \A i \in 1..Len(t) : t[i] \in Pieces
    OBVIOUS
<1> DEFINE u == SubSeq(t, 1, k)
<1>3. u \in Seq(Pieces) /\ Len(u) = k /\ \A i \in 1..k : u[i] = t[i]
    BY <1>1, <1>2
<1>4. t2 \in Seq(Pieces) /\ Len(t2) = Len(t) - k /\ \A i \in 1..(Len(t) - k) : t2[i] = t[k + i]
    BY <1>1, <1>2
<1>5. s2 \in Seq(Pieces) /\ Len(s2) = Len(s) + k
    BY <1>1, <1>3, ConcatProperties
<1>6. Follows(u, 0 + Len(s), q) /\ Keyed(u, 0 + Len(s))
    BY <1>1, <1>3 DEF Follows, Keyed
<1>7. Follows(s2, 0, q) /\ Keyed(s2, 0)
    BY <1>3, <1>6, ConcatFollows
<1>8. ASSUME NEW i \in 1..Len(t2)
      PROVE  /\ Len(s2) + i \in 1..Len(q) /\ q[Len(s2) + i] = Bare(t2[i])
             /\ t2[i].key = Len(s2) + i
  <2>1. k + i \in 1..Len(t) /\ Len(s) + (k + i) = Len(s2) + i /\ t2[i] = t[k + i]
    BY <1>1, <1>4, <1>5
  <2> QED BY <2>1 DEF Follows, Keyed
<1>9. Follows(t2, Len(s2), q) /\ Keyed(t2, Len(s2))
    BY <1>8 DEF Follows, Keyed
<1> QED BY <1>4, <1>5, <1>7, <1>9 DEF Split

\* The encryptor changes the pieces' keys only, and numbers them on from where it was.
LEMMA EncryptedFollows ==
    ASSUME NEW data \in Seq(Pieces), cipher \in Nat
    PROVE  /\ Encrypted(data) \in Seq(Pieces) /\ Len(Encrypted(data)) = Len(data)
           /\ Keyed(Encrypted(data), cipher)
           /\ \A n, q : Follows(data, n, q) => Follows(Encrypted(data), n, q)
<1> DEFINE e == Encrypted(data)
<1>1. DOMAIN data = 1..Len(data) /\ Len(data) \in Nat /\ \A i \in 1..Len(data) : data[i] \in Pieces
    OBVIOUS
<1>2. \A i \in 1..Len(data) : e[i] = [data[i] EXCEPT !.key = cipher + i]
    BY <1>1 DEF Encrypted
<1>3. ASSUME NEW i \in 1..Len(data)
      PROVE  e[i] \in Pieces /\ Bare(e[i]) = Bare(data[i]) /\ e[i].key = cipher + i
  <2>1. data[i] \in Pieces /\ cipher + i \in Nat /\ e[i] = [data[i] EXCEPT !.key = cipher + i]
    BY <1>1, <1>2
  <2> QED BY <2>1, Rekeyed
<1>4. e \in [1..Len(data) -> Pieces]
    BY <1>1, <1>3 DEF Encrypted
<1>5. e \in Seq(Pieces)
    BY <1>1, <1>4, SeqDef
<1>6. Len(e) = Len(data)
    BY <1>1, <1>4, <1>5, LenProperties
<1> HIDE DEF e
<1> QED BY <1>3, <1>5, <1>6 DEF e, Follows, Keyed

-----------------------------------------------------------------------------
(* Types, and where the threads are *)

Flushing == {"lock", "send", "shut", "schedule", "reset"}
Places == {"idle", "body", "dcBody", "flag", "destroy", "link", "cipher", "write"} \cup Flushing

LinkTypes ==
    /\ at \in [Threads -> Places]
    /\ packer \in Threads \cup {None} /\ outLock \in Threads \cup {None}
    /\ cipher \in Nat /\ packets \in Nat
    /\ out \in Seq(Pieces) /\ flush \in [Flushers -> Seq(Pieces)] /\ output \in Seq(Pieces)
    /\ wire \in Seq(Pieces) /\ queued \in Seq(Pieces)

LEMMA Moves ==
    ASSUME LinkTypes, NEW t \in Threads, NEW from, NEW to \in Places, Move(t, from, to)
    PROVE  /\ at' \in [Threads -> Places] /\ at[t] = from /\ at'[t] = to
           /\ \A u \in Threads : u # t => at'[u] = at[u]
BY DEF Move, Goto, LinkTypes

LEMMA TheThreads ==
    /\ Server \in Flushers /\ World \in Flushers /\ Server # World
    /\ \A t \in Flushers : t \in Threads /\ t # Loop /\ (t = Server \/ t = World)
    /\ Loop \in Threads /\ None \notin Threads
BY LinkAssumption DEF Threads, Flushers

\* A piece is queued, or, once m_HasSentDC is set, is not.
LEMMA Queued ==
    ASSUME LinkTypes, NEW last \in BOOLEAN, NEW dc \in BOOLEAN, NEW p \in Nat,
           SendData(Piece(p, last, dc))
    PROVE  \/ sentDC /\ UNCHANGED <<out, queued>>
           \/ /\ ~sentDC /\ outLock = None
              /\ \E piece \in Pieces :
                    /\ piece.key = 0 /\ piece.last = last /\ piece.dc = dc
                    /\ out' = Append(out, piece) /\ queued' = Append(queued, piece)
              /\ out' \in Seq(Pieces) /\ queued' \in Seq(Pieces)
              /\ Len(out') = Len(out) + 1 /\ Len(queued') = Len(queued) + 1
<1> DEFINE piece == Piece(p, last, dc)
<1>1. piece \in Pieces /\ piece.key = 0 /\ piece.last = last /\ piece.dc = dc
    BY DEF Piece, Pieces
<1> HIDE DEF piece
<1>2. CASE sentDC
    BY <1>2 DEF SendData
<1>3. CASE ~sentDC
  <2>1. outLock = None /\ out' = Append(out, piece) /\ queued' = Append(queued, piece)
    BY <1>3 DEF SendData, piece
  <2> QED BY <1>1, <1>3, <2>1 DEF LinkTypes
<1> QED BY <1>2, <1>3

LEMMA TypesInit == Init => LinkTypes
BY TheThreads DEF Init, LinkTypes, Places

LEMMA TypesStep == LinkTypes /\ [Next]_vars => LinkTypes'
<1> SUFFICES ASSUME LinkTypes, [Next]_vars PROVE LinkTypes'
    OBVIOUS
<1> USE TheThreads DEF Places, Flushing
<1>1. ASSUME NEW t \in Threads, NEW dc \in BOOLEAN, SendPacket(t, dc) PROVE LinkTypes'
  <2>1. at' \in [Threads -> Places]
    BY <1>1, Moves DEF SendPacket
  <2>2. SendData(Piece(packets + 1, FALSE, dc))
    BY <1>1, Zenon DEF SendPacket
  <2>3. (UNCHANGED <<out, queued>>) \/ (out' \in Seq(Pieces) /\ queued' \in Seq(Pieces))
    <3>1. packets + 1 \in Nat
      BY DEF LinkTypes
    <3> QED BY <2>2, <3>1, Queued
  <2> QED BY <1>1, <2>1, <2>3 DEF SendPacket, LinkTypes
<1>2. ASSUME NEW t \in Threads, SendBody(t) PROVE LinkTypes'
  <2>1. at' \in [Threads -> Places]
    BY <1>2, Moves DEF SendBody
  <2>2. out' \in Seq(Pieces) /\ queued' \in Seq(Pieces)
    BY <1>2, Queued DEF SendBody, LinkTypes
  <2> QED BY <1>2, <2>1, <2>2 DEF SendBody, LinkTypes
<1>3. ASSUME NEW t \in Threads,
             SetHasSentDC(t) \/ Destroy(t) \/ DestroySilently(t) \/ ResetLink(t)
             \/ Shutdown(t) \/ ScheduleShutdown(t)
      PROVE  LinkTypes'
  <2>1. at' \in [Threads -> Places]
    BY <1>3, Moves DEF SetHasSentDC, Destroy, DestroySilently, ResetLink, Shutdown,
        ScheduleShutdown
  <2> QED BY <1>3, <2>1 DEF SetHasSentDC, Destroy, DestroySilently, ResetLink, Shutdown,
        ScheduleShutdown, LinkTypes
<1>4. ASSUME NEW t \in Threads, LockAndEncrypt(t) PROVE LinkTypes'
  <2>1. at' \in [Threads -> Places]
    BY <1>4, Moves DEF LockAndEncrypt
  <2>2. Encrypted(out) \in Seq(Pieces) /\ Len(out) \in Nat
    BY EncryptedFollows DEF LinkTypes
  <2> QED BY <1>4, <2>1, <2>2 DEF LockAndEncrypt, LinkTypes
<1>5. ASSUME NEW t \in Threads, SendRest(t) PROVE LinkTypes'
  <2>1. at' \in [Threads -> Places]
    BY <1>5, Moves DEF SendRest
  <2>2. output' \in Seq(Pieces)
    BY <1>5 DEF SendRest, LinkSend, LinkTypes
  <2> QED BY <1>5, <2>1, <2>2 DEF SendRest, LinkTypes
<1>6. ASSUME NEW t \in Flushers, SwapOutgoing(t) \/ CaptureLink(t) PROVE LinkTypes'
  <2>1. CASE SwapOutgoing(t)
    <3>1. at' \in [Threads -> Places]
      BY <2>1, Moves DEF SwapOutgoing
    <3>2. out' = <<>> /\ flush' = [flush EXCEPT ![t] = out]
      BY <2>1 DEF SwapOutgoing
    <3> QED BY <2>1, <3>1, <3>2, EmptySeq DEF SwapOutgoing, LinkTypes
  <2>2. CASE CaptureLink(t)
    <3>1. at' \in [Threads -> Places]
      BY <2>2, Moves DEF CaptureLink
    <3>2. flush' = flush \/ flush' = [flush EXCEPT ![t] = <<>>]
      BY <2>2 DEF CaptureLink
    <3>3. flush' \in [Flushers -> Seq(Pieces)]
      BY <3>2, EmptySeq DEF LinkTypes
    <3> QED BY <2>2, <3>1, <3>3 DEF CaptureLink, LinkTypes
  <2> QED BY <1>6, <2>1, <2>2
<1>7. ASSUME NEW t \in Flushers, EncryptOutgoing(t) PROVE LinkTypes'
  <2>1. at' \in [Threads -> Places]
    BY <1>7, Moves DEF EncryptOutgoing
  <2>2. Encrypted(flush[t]) \in Seq(Pieces) /\ Len(flush[t]) \in Nat
    BY EncryptedFollows DEF LinkTypes
  <2>3. flush' = [flush EXCEPT ![t] = Encrypted(flush[t])]
    BY <1>7 DEF EncryptOutgoing
  <2> QED BY <1>7, <2>1, <2>2, <2>3 DEF EncryptOutgoing, LinkTypes
<1>8. ASSUME NEW t \in Flushers, SendOutgoing(t) PROVE LinkTypes'
  <2>1. at' \in [Threads -> Places]
    BY <1>8, Moves DEF SendOutgoing
  <2>2. output' \in Seq(Pieces) /\ flush' \in [Flushers -> Seq(Pieces)]
    BY <1>8, EmptySeq DEF SendOutgoing, LinkSend, LinkTypes
  <2> QED BY <1>8, <2>1, <2>2 DEF SendOutgoing, LinkTypes
<1>9. CASE WriteSocket
  <2>1. PICK n \in 1..Len(output) : /\ wire' = wire \o SubSeq(output, 1, n)
                                    /\ output' = SubSeq(output, n + 1, Len(output))
    BY <1>9 DEF WriteSocket
  <2>2. wire' \in Seq(Pieces) /\ output' \in Seq(Pieces)
    BY <2>1 DEF LinkTypes
  <2> QED BY <1>9, <2>2 DEF WriteSocket, LinkTypes
<1>10. CASE WriteCallback \/ FinishAuthenticate \/ NothingOutgoing \/ UNCHANGED vars
    BY <1>10 DEF WriteCallback, FinishAuthenticate, NothingOutgoing, LinkTypes, vars
<1>11. CASE RemoteClosed
  <2>1. at' \in [Threads -> Places]
    BY <1>11, Moves DEF RemoteClosed
  <2> QED BY <1>11, <2>1 DEF RemoteClosed, LinkTypes
<1> QED BY <1>1, <1>2, <1>3, <1>4, <1>5, <1>6, <1>7, <1>8, <1>9, <1>10, <1>11
    DEF Next, Continue, ProcessProtocolOut, Threads

\* A thread is between the two pieces of a packet iff it holds m_CSPacket, and in the second
\* part of Destroy iff it holds m_CSOutgoingData.
LocksInv ==
    \A t \in Threads : /\ at[t] \in {"body", "dcBody"} <=> packer = t
                       /\ at[t] \in {"send", "shut", "schedule", "reset"} <=> outLock = t

\* One thread flushes and shuts down the link, once; those that tick the client have data to
\* flush inside ProcessProtocolOut only.
OnceInv ==
    /\ \A t \in Threads : at[t] \in Flushing =>
           destroyed /\ link /\ \A u \in Threads : at[u] \in Flushing => u = t
    /\ ~link => destroyed
TickerInv ==
    /\ \A t \in Threads : at[t] \in {"link", "cipher", "write"} => t \in Flushers
    /\ \A t \in Flushers : at[t] \in {"link", "cipher", "write"} <=> flush[t] # <<>>

ThreadInv == LocksInv /\ OnceInv /\ TickerInv

LEMMA ThreadInit == Init => ThreadInv
BY TheThreads DEF Init, ThreadInv, LocksInv, OnceInv, TickerInv, Flushing

LEMMA ThreadStep == LinkTypes /\ ThreadInv /\ [Next]_vars => ThreadInv'
<1> SUFFICES ASSUME LinkTypes, ThreadInv, [Next]_vars PROVE ThreadInv'
    OBVIOUS
<1> USE TheThreads DEF Places, Flushing, ThreadInv, LocksInv, OnceInv, TickerInv
<1>1. ASSUME NEW t \in Threads, NEW dc \in BOOLEAN, SendPacket(t, dc) PROVE ThreadInv'
  <2>1. /\ packer = None /\ packer' = t /\ UNCHANGED <<outLock, flush, destroyed, link>>
        /\ \E to \in {"body", "dcBody"} : Move(t, "idle", to)
    BY <1>1 DEF SendPacket
  <2> QED BY <2>1, Moves
<1>2. ASSUME NEW t \in Threads, SendBody(t) PROVE ThreadInv'
  <2>1. /\ packer' = None /\ UNCHANGED <<outLock, flush, destroyed, link>>
        /\ Move(t, "body", "idle") \/ Move(t, "dcBody", "flag")
    BY <1>2 DEF SendBody
  <2> QED BY <2>1, Moves
<1>3. ASSUME NEW t \in Threads, SetHasSentDC(t) \/ DestroySilently(t) PROVE ThreadInv'
  <2>1. /\ UNCHANGED <<packer, outLock, flush, destroyed, link>>
        /\ Move(t, "flag", "destroy") \/ Move(t, "idle", "destroy")
    BY <1>3 DEF SetHasSentDC, DestroySilently
  <2> QED BY <2>1, Moves
<1>4. ASSUME NEW t \in Threads, Destroy(t) PROVE ThreadInv'
  <2>1. /\ UNCHANGED <<packer, outLock, flush, link>> /\ destroyed'
        /\ IF destroyed THEN Move(t, "destroy", "idle") ELSE Move(t, "destroy", "lock")
    BY <1>4 DEF Destroy
  <2> QED BY <2>1, Moves
<1>5. ASSUME NEW t \in Threads, LockAndEncrypt(t) PROVE ThreadInv'
  <2>1. /\ UNCHANGED <<packer, flush, destroyed, link>>
        /\ outLock = None /\ outLock' = t /\ Move(t, "lock", "send")
    BY <1>5 DEF LockAndEncrypt
  <2> QED BY <2>1, Moves
<1>6. ASSUME NEW t \in Threads, SendRest(t) \/ Shutdown(t) \/ ScheduleShutdown(t) PROVE ThreadInv'
  <2>1. /\ UNCHANGED <<packer, outLock, flush, destroyed, link>>
        /\ \E from \in {"send", "shut", "schedule"}, to \in {"shut", "schedule", "reset"} :
               Move(t, from, to)
    BY <1>6 DEF SendRest, Shutdown, ScheduleShutdown
  <2> QED BY <2>1, Moves
<1>7. ASSUME NEW t \in Threads, ResetLink(t) PROVE ThreadInv'
  <2>1. /\ UNCHANGED <<packer, flush, destroyed>> /\ ~link' /\ outLock' = None
        /\ Move(t, "reset", "idle")
    BY <1>7 DEF ResetLink
  <2> QED BY <2>1, Moves
<1>8. ASSUME NEW t \in Flushers, SwapOutgoing(t) PROVE ThreadInv'
  <2>1. /\ UNCHANGED <<packer, outLock, destroyed, link>> /\ out # <<>>
        /\ flush' = [flush EXCEPT ![t] = out] /\ Move(t, "idle", "link")
    BY <1>8 DEF SwapOutgoing
  <2> QED BY <2>1, Moves DEF LinkTypes
<1>9. ASSUME NEW t \in Flushers, CaptureLink(t) PROVE ThreadInv'
  <2>1. /\ UNCHANGED <<packer, outLock, destroyed, link>>
        /\ \/ UNCHANGED flush /\ Move(t, "link", "cipher")
           \/ /\ flush'[t] = <<>> /\ \A u \in Flushers : u # t => flush'[u] = flush[u]
              /\ Move(t, "link", "idle")
    BY <1>9 DEF CaptureLink, LinkTypes
  <2>2. CASE UNCHANGED flush /\ Move(t, "link", "cipher")
    BY <2>1, <2>2, Moves
  <2>3. CASE ~(UNCHANGED flush /\ Move(t, "link", "cipher"))
    BY <2>1, <2>3, Moves
  <2> QED BY <2>2, <2>3
<1>10. ASSUME NEW t \in Flushers, EncryptOutgoing(t) PROVE ThreadInv'
  <2>1. /\ UNCHANGED <<packer, outLock, destroyed, link>> /\ Move(t, "cipher", "write")
        /\ flush' = [flush EXCEPT ![t] = Encrypted(flush[t])]
    BY <1>10 DEF EncryptOutgoing
  <2>2. flush[t] # <<>> /\ flush[t] \in Seq(Pieces)
    BY <2>1, Moves DEF LinkTypes
  <2>3. Encrypted(flush[t]) # <<>>
    BY <2>2, EncryptedFollows DEF LinkTypes
  <2>4. flush'[t] # <<>> /\ \A u \in Flushers : u # t => flush'[u] = flush[u]
    BY <2>1, <2>3 DEF LinkTypes
  <2> QED BY <2>1, <2>4, Moves
<1>11. ASSUME NEW t \in Flushers, SendOutgoing(t) PROVE ThreadInv'
  <2>1. /\ UNCHANGED <<packer, outLock, destroyed, link>> /\ Move(t, "write", "idle")
        /\ flush'[t] = <<>> /\ \A u \in Flushers : u # t => flush'[u] = flush[u]
    BY <1>11 DEF SendOutgoing, LinkTypes
  <2> QED BY <2>1, Moves
<1>12. CASE RemoteClosed
  <2>1. /\ UNCHANGED <<packer, outLock, flush, destroyed, link>> /\ Move(Loop, "idle", "destroy")
    BY <1>12 DEF RemoteClosed
  <2> QED BY <2>1, Moves
<1>13. CASE \/ WriteSocket \/ WriteCallback \/ FinishAuthenticate \/ NothingOutgoing
            \/ UNCHANGED vars
    BY <1>13 DEF WriteSocket, WriteCallback, FinishAuthenticate, NothingOutgoing, vars
<1> QED BY <1>1, <1>2, <1>3, <1>4, <1>5, <1>6, <1>7, <1>8, <1>9, <1>10, <1>11, <1>12, <1>13
    DEF Next, Continue, ProcessProtocolOut, Threads

-----------------------------------------------------------------------------
(* What the socket is shut down with *)

\* While Destroy flushes, nothing else is flushed, and two threads do not flush at once,
\* unless they met.
MetInv ==
    ~met => \A t \in Flushers :
                /\ outLock # None => flush[t] = <<>>
                /\ ~link => at[t] \notin {"cipher", "write"}
                /\ flush[t] # <<>> => \A u \in Flushers : flush[u] # <<>> => u = t

\* Destroy has sent the rest; the link is shut down after that only, when all is written.
Late == ~link \/ \E t \in Threads : at[t] \in {"shut", "schedule", "reset"}
FinInv ==
    /\ fin \/ shouldShutdown => Late
    /\ fin /\ ~met => output = <<>>

LEMMA FinInit == Init => MetInv /\ FinInv
BY TheThreads DEF Init, MetInv, FinInv

\* Whoever sends does so before Destroy has sent the rest, unless they met.
LEMMA SendsBefore ==
    ASSUME LinkTypes, ThreadInv, MetInv
    PROVE  /\ \A t \in Flushers : at[t] \in {"cipher", "write"} /\ ~met => ~Late /\ outLock = None
           /\ \A t \in Threads : at[t] \in {"lock", "send"} => ~Late
<1> USE TheThreads DEF ThreadInv
<1>1. ASSUME NEW t \in Threads, at[t] \in {"lock", "send"} PROVE ~Late
    BY <1>1 DEF Late, OnceInv, Flushing
<1>2. ASSUME NEW t \in Flushers, at[t] \in {"cipher", "write"}, ~met
      PROVE  ~Late /\ outLock = None
  <2>1. flush[t] # <<>> /\ outLock = None /\ link
    BY <1>2 DEF MetInv, TickerInv
  <2> QED BY <2>1 DEF Late, LocksInv
<1> QED BY <1>1, <1>2

LEMMA FinStep == LinkTypes /\ ThreadInv /\ MetInv /\ FinInv /\ [Next]_vars => (MetInv /\ FinInv)'
<1> SUFFICES ASSUME LinkTypes, ThreadInv, MetInv, FinInv, [Next]_vars PROVE (MetInv /\ FinInv)'
    OBVIOUS
<1> USE TheThreads DEF Places, Flushing
<1>0. LocksInv /\ OnceInv /\ TickerInv
    BY DEF ThreadInv
<1>1. ASSUME NEW t \in Threads,
             NEW from \in {"idle", "body", "dcBody", "flag", "destroy"},
             NEW to \in {"idle", "body", "dcBody", "flag", "destroy", "lock"},
             Move(t, from, to),
             UNCHANGED <<outLock, flush, link, met, fin, shouldShutdown, output>>
      PROVE  (MetInv /\ FinInv)'
  <2>1. /\ at[t] = from /\ at'[t] = to /\ \A u \in Threads : u # t => at'[u] = at[u]
    BY <1>1, Moves
  <2>2. Late' <=> Late
    BY <1>1, <2>1 DEF Late
  <2>3. \A u \in Flushers : at'[u] \in {"cipher", "write"} => at[u] \in {"cipher", "write"}
    BY <2>1
  <2> QED BY <1>1, <2>2, <2>3 DEF MetInv, FinInv
<1>2. ASSUME NEW t \in Threads, NEW dc \in BOOLEAN, SendPacket(t, dc) PROVE (MetInv /\ FinInv)'
    BY <1>1, <1>2 DEF SendPacket
<1>3. ASSUME NEW t \in Threads,
             SendBody(t) \/ SetHasSentDC(t) \/ Destroy(t) \/ DestroySilently(t)
      PROVE  (MetInv /\ FinInv)'
    BY <1>1, <1>3 DEF SendBody, SetHasSentDC, Destroy, DestroySilently
<1>4. CASE RemoteClosed
    BY <1>1, <1>4 DEF RemoteClosed
<1>5. ASSUME NEW t \in Threads, LockAndEncrypt(t) PROVE (MetInv /\ FinInv)'
  <2>1. /\ at[t] = "lock" /\ at'[t] = "send" /\ \A u \in Threads : u # t => at'[u] = at[u]
        /\ met' = (met \/ \E u \in Flushers : flush[u] # <<>>)
        /\ UNCHANGED <<flush, link, fin, shouldShutdown, output>>
    BY <1>5, Moves DEF LockAndEncrypt
  <2>2. ~Late /\ link /\ ~fin /\ ~shouldShutdown
    BY <1>0, <2>1, SendsBefore DEF OnceInv, FinInv
  <2> QED BY <2>1, <2>2 DEF MetInv, FinInv
<1>6. ASSUME NEW t \in Threads, SendRest(t) PROVE (MetInv /\ FinInv)'
  <2>1. /\ at[t] = "send" /\ at'[t] = "shut" /\ \A u \in Threads : u # t => at'[u] = at[u]
        /\ UNCHANGED <<outLock, flush, link, met, fin, shouldShutdown>>
    BY <1>6, Moves DEF SendRest
  <2>2. ~Late /\ ~fin /\ Late'
    BY <2>1, SendsBefore DEF FinInv, Late
  <2> QED BY <2>1, <2>2 DEF MetInv, FinInv
<1>7. ASSUME NEW t \in Threads, Shutdown(t) \/ ScheduleShutdown(t) PROVE (MetInv /\ FinInv)'
  <2>1. PICK from \in {"shut", "schedule"}, to \in {"schedule", "reset"} :
          /\ Move(t, from, to)
          /\ UNCHANGED <<outLock, flush, link, met, output>>
          /\ fin' => fin \/ output = <<>>
    BY <1>7 DEF Shutdown, ScheduleShutdown
  <2>2. at'[t] = to /\ at[t] = from /\ \A u \in Threads : u # t => at'[u] = at[u]
    BY <2>1, Moves
  <2>3. Late'
    BY <2>2 DEF Late
  <2> QED BY <2>1, <2>2, <2>3 DEF MetInv, FinInv
<1>8. ASSUME NEW t \in Threads, ResetLink(t) PROVE (MetInv /\ FinInv)'
  <2>1. /\ at[t] = "reset" /\ at'[t] = "idle" /\ \A u \in Threads : u # t => at'[u] = at[u]
        /\ UNCHANGED <<flush, met, fin, shouldShutdown, output>> /\ ~link' /\ outLock' = None
    BY <1>8, Moves DEF ResetLink
  <2>2. ~met => \A u \in Flushers : at[u] \notin {"cipher", "write"}
    <3>1. outLock = t
      BY <1>0, <2>1 DEF LocksInv
    <3> QED BY <1>0, <3>1 DEF MetInv, TickerInv
  <2> QED BY <2>1, <2>2 DEF MetInv, FinInv, Late
<1>9. ASSUME NEW t \in Flushers, SwapOutgoing(t) PROVE (MetInv /\ FinInv)'
  <2>1. /\ at[t] = "idle" /\ at'[t] = "link" /\ \A u \in Threads : u # t => at'[u] = at[u]
        /\ outLock = None /\ flush' = [flush EXCEPT ![t] = out] /\ met' = (met \/ Meets(t))
        /\ UNCHANGED <<outLock, link, fin, shouldShutdown, output>>
    BY <1>9, Moves DEF SwapOutgoing
  <2>2. Late' <=> Late
    BY <2>1 DEF Late
  <2>3. ~met' => ~met /\ \A u \in Flushers : u # t => flush'[u] = <<>>
    BY <2>1 DEF Meets, LinkTypes
  <2> QED BY <2>1, <2>2, <2>3 DEF MetInv, FinInv, LinkTypes
<1>10. ASSUME NEW t \in Flushers, CaptureLink(t) PROVE (MetInv /\ FinInv)'
  <2>1. PICK to \in {"cipher", "idle"} :
          /\ Move(t, "link", to) /\ (to = "cipher" => link)
          /\ flush' \in {flush, [flush EXCEPT ![t] = <<>>]}
          /\ UNCHANGED <<outLock, link, met, fin, shouldShutdown, output>>
    BY <1>10 DEF CaptureLink
  <2>2. at[t] = "link" /\ at'[t] = to /\ \A u \in Threads : u # t => at'[u] = at[u]
    BY <2>1, Moves
  <2>3. Late' <=> Late
    BY <2>1, <2>2 DEF Late
  <2>4. \A u \in Flushers : flush'[u] # <<>> => flush[u] # <<>>
    BY <2>1 DEF LinkTypes
  <2> QED BY <2>1, <2>2, <2>3, <2>4 DEF MetInv, FinInv
<1>11. ASSUME NEW t \in Flushers, EncryptOutgoing(t) PROVE (MetInv /\ FinInv)'
  <2>1. /\ at[t] = "cipher" /\ at'[t] = "write" /\ \A u \in Threads : u # t => at'[u] = at[u]
        /\ flush' = [flush EXCEPT ![t] = Encrypted(flush[t])]
        /\ UNCHANGED <<outLock, link, met, fin, shouldShutdown, output>>
    BY <1>11, Moves DEF EncryptOutgoing
  <2>2. Late' <=> Late
    BY <2>1 DEF Late
  <2>3. ~met => outLock = None /\ ~Late
    BY <2>1, SendsBefore
  <2>4. \A u \in Flushers : flush'[u] # <<>> => flush[u] # <<>>
    BY <1>0, <2>1 DEF TickerInv, LinkTypes
  <2> QED BY <2>1, <2>2, <2>3, <2>4 DEF MetInv, FinInv
<1>12. ASSUME NEW t \in Flushers, SendOutgoing(t) PROVE (MetInv /\ FinInv)'
  <2>1. /\ at[t] = "write" /\ at'[t] = "idle" /\ \A u \in Threads : u # t => at'[u] = at[u]
        /\ UNCHANGED <<outLock, link, met, fin, shouldShutdown>>
        /\ flush' = [flush EXCEPT ![t] = <<>>]
    BY <1>12, Moves DEF SendOutgoing
  <2>2. Late' <=> Late
    BY <2>1 DEF Late
  <2>3. ~met => ~Late
    BY <2>1, SendsBefore
  <2>4. \A u \in Flushers : flush'[u] # <<>> => flush[u] # <<>>
    BY <2>1 DEF LinkTypes
  <2> QED BY <2>1, <2>2, <2>3, <2>4 DEF MetInv, FinInv
<1>13. CASE WriteSocket
  <2>1. ~fin /\ UNCHANGED <<at, outLock, flush, link, met, fin, shouldShutdown>>
    BY <1>13 DEF WriteSocket
  <2> QED BY <2>1 DEF MetInv, FinInv, Late
<1>14. CASE WriteCallback
  <2>1. /\ UNCHANGED <<at, outLock, flush, link, met, shouldShutdown, output>>
        /\ fin' => fin \/ (output = <<>> /\ shouldShutdown)
    BY <1>14 DEF WriteCallback
  <2> QED BY <2>1 DEF MetInv, FinInv, Late
<1>15. CASE FinishAuthenticate \/ NothingOutgoing \/ UNCHANGED vars
    BY <1>15 DEF FinishAuthenticate, NothingOutgoing, vars, MetInv, FinInv, Late
<1> QED BY <1>2, <1>3, <1>4, <1>5, <1>6, <1>7, <1>8, <1>9, <1>10, <1>11, <1>12, <1>13, <1>14,
        <1>15
    DEF Next, Continue, ProcessProtocolOut, Threads

LEMMA Types == Spec => [](LinkTypes /\ ThreadInv)
BY TypesInit, TypesStep, ThreadInit, ThreadStep, PTL DEF Spec

\* The socket is shut down with nothing left in the link's buffer, whichever of the threads
\* destroys the client and when, unless two threads flushed at once.
THEOREM AllWrittenBeforeFin == Spec => []AllWrittenBeforeFinUnlessMet
<1>1. FinInv => AllWrittenBeforeFinUnlessMet
    BY DEF FinInv, AllWrittenBeforeFinUnlessMet
<1> QED BY <1>1, FinInit, FinStep, Types, PTL DEF Spec

-----------------------------------------------------------------------------
(* The order of the pieces *)

Sent == Len(wire) + Len(output)

\* What is being flushed by a thread that ticks the client, when only one does.
Flow == IF flush[Server] # <<>> THEN flush[Server] ELSE flush[World]
Writing == \E t \in Flushers : at[t] = "write"

LEMMA FlowType == LinkTypes => Flow \in Seq(Pieces)
BY TheThreads DEF Flow, LinkTypes

LEMMA NoFlow == (\A t \in Flushers : flush[t] = <<>>) => Flow = <<>>
BY TheThreads DEF Flow

LEMMA FlowIs ==
    ASSUME LinkTypes, ThreadInv, MetInv, ~met, NEW t \in Flushers, flush[t] # <<>>
    PROVE  /\ Flow = flush[t] /\ (Writing <=> at[t] = "write")
           /\ \A u \in Flushers : u # t => flush[u] = <<>> /\ at[u] # "write"
<1>1. \A u \in Flushers : u # t => flush[u] = <<>>
    BY DEF MetInv
<1>2. \A u \in Flushers : u # t => at[u] # "write"
    BY <1>1 DEF ThreadInv, TickerInv
<1> QED BY <1>1, <1>2, TheThreads DEF Flow, Writing

\* What is written, what the link has, what is being flushed and what waits are, in this order,
\* what was queued; the encryptor has got as far as the pieces given to the link, and those
\* that it has encrypted for it.
WireInv ==
    /\ Follows(wire, 0, queued) /\ Keyed(wire, 0)
    /\ Follows(output, Len(wire), queued) /\ Keyed(output, Len(wire))
RestInv ==
    /\ Follows(Flow, Sent, queued)
    /\ Follows(out, Sent + Len(Flow), queued)
    /\ Sent + Len(Flow) + Len(out) = Len(queued)
    /\ Writing => Keyed(Flow, Sent)
    /\ outLock # None => Keyed(out, Sent)
    /\ cipher = Sent + (IF Writing THEN Len(Flow) ELSE 0)
                     + (IF outLock # None THEN Len(out) ELSE 0)

OrderInv == ~met => WireInv /\ (~Late => RestInv)

LEMMA OrderInit == Init => OrderInv
<1> SUFFICES ASSUME Init PROVE WireInv /\ RestInv
    BY DEF OrderInv
<1>1. /\ wire = <<>> /\ output = <<>> /\ Flow = <<>> /\ out = <<>> /\ queued = <<>>
      /\ cipher = 0 /\ outLock = None /\ ~Writing
    BY TheThreads, NoFlow DEF Init, Writing
<1>2. Len(<<>>) = 0
    OBVIOUS
<1>3. WireInv
    BY <1>1, <1>2, EmptyFollows DEF WireInv
<1> QED BY <1>1, <1>2, <1>3, EmptyFollows DEF RestInv, Sent

\* A thread that moves elsewhere changes nothing about the pieces.
LEMMA MovesOn ==
    ASSUME LinkTypes, OrderInv, NEW t \in Threads, NEW from \in Places, NEW to \in Places,
           Move(t, from, to), to # "write", from # "write",
           from \in {"shut", "schedule", "reset"} =>
               to \in {"shut", "schedule", "reset"} \/ ~link',
           UNCHANGED <<wire, output, flush, out, queued, cipher, met>>,
           outLock' = outLock \/ ~link', link' => link
    PROVE  OrderInv'
<1>1. /\ at[t] = from /\ at'[t] = to /\ \A u \in Threads : u # t => at'[u] = at[u]
    BY Moves
<1>2. Late => Late'
    BY <1>1 DEF Late
<1>3. UNCHANGED Sent
    BY DEF Sent
<1>4. WireInv => WireInv'
    BY DEF WireInv
<1>5. ~Late' => outLock' = outLock
    BY DEF Late
<1>6. (Writing <=> Writing') /\ UNCHANGED Flow
    BY <1>1, TheThreads DEF Writing, Flow
<1>7. RestInv /\ outLock' = outLock => RestInv'
    BY <1>3, <1>6 DEF RestInv
<1> QED BY <1>2, <1>4, <1>5, <1>7 DEF OrderInv

LEMMA OrderStep ==
    LinkTypes /\ ThreadInv /\ MetInv /\ FinInv /\ OrderInv /\ [Next]_vars => OrderInv'
<1> SUFFICES ASSUME LinkTypes, ThreadInv, MetInv, FinInv, OrderInv, [Next]_vars, ~met'
             PROVE  WireInv' /\ (~Late' => RestInv')
    BY DEF OrderInv
<1> USE TheThreads DEF Places, Flushing
<1>0. LocksInv /\ OnceInv /\ TickerInv
    BY DEF ThreadInv
<1>a. /\ Len(wire) \in Nat /\ Len(output) \in Nat /\ Len(Flow) \in Nat /\ Len(out) \in Nat
      /\ Sent \in Nat /\ cipher \in Nat /\ Flow \in Seq(Pieces)
    BY FlowType DEF LinkTypes, Sent
<1>b. ~met => WireInv /\ (~Late => RestInv)
    BY DEF OrderInv
<1>c. ASSUME OrderInv' PROVE WireInv' /\ (~Late' => RestInv')
    BY <1>c DEF OrderInv
(* What is queued *)
<1>1. ASSUME NEW t \in Threads, NEW from \in {"idle", "body", "dcBody"},
             NEW to \in {"body", "dcBody", "idle", "flag"}, Move(t, from, to),
             NEW last \in BOOLEAN, NEW dc \in BOOLEAN, NEW p \in Nat,
             SendData(Piece(p, last, dc)),
             UNCHANGED <<outLock, wire, output, flush, cipher, met, link>>
      PROVE  WireInv' /\ (~Late' => RestInv')
  <2>1. CASE UNCHANGED <<out, queued>>
      BY <1>1, <1>c, <2>1, MovesOn
  <2>2. CASE ~UNCHANGED <<out, queued>>
    <3>1. PICK piece \in Pieces :
            /\ piece.key = 0 /\ outLock = None
            /\ out' = Append(out, piece) /\ queued' = Append(queued, piece)
            /\ Len(out') = Len(out) + 1 /\ Len(queued') = Len(queued) + 1
      BY <1>1, <2>2, Queued
    <3>2. \A s, n : Follows(s, n, queued) => Follows(s, n, queued')
      BY <3>1, QueueGrows DEF LinkTypes
    <3>3. WireInv' /\ (~Late => RestInv)
      BY <1>1, <1>b, <3>2 DEF WireInv
    <3>4. /\ at[t] = from /\ at'[t] = to /\ \A u \in Threads : u # t => at'[u] = at[u]
      BY <1>1, Moves
    <3>5. ASSUME ~Late' PROVE RestInv'
      <4>1. RestInv
        BY <1>1, <3>3, <3>4, <3>5 DEF Late
      <4>2. Sent' = Sent /\ (Writing' <=> Writing)
        BY <1>1, <3>4 DEF Sent, Writing
      <4>3. Follows(out', Sent + Len(Flow), queued')
        BY <1>a, <3>1, <4>1, AppendFollows DEF RestInv, LinkTypes
      <4>4. Follows(Flow, Sent, queued')
        BY <3>2, <4>1 DEF RestInv
      <4>5. outLock' = None /\ Flow' = Flow /\ cipher' = cipher
        BY <1>1, <3>1 DEF Flow
      <4>6. /\ Sent + Len(Flow) + Len(out) = Len(queued)
            /\ Writing => Keyed(Flow, Sent)
            /\ cipher = Sent + (IF Writing THEN Len(Flow) ELSE 0) + 0
        BY <3>1, <4>1 DEF RestInv
      <4>7. Sent + Len(Flow) + (Len(out) + 1) = Len(queued) + 1
        BY <1>a, <4>6
      <4> QED BY <3>1, <4>2, <4>3, <4>4, <4>5, <4>6, <4>7 DEF RestInv
    <3> QED BY <3>3, <3>5
  <2> QED BY <2>1, <2>2
<1>2. ASSUME NEW t \in Threads, NEW dc \in BOOLEAN, SendPacket(t, dc)
      PROVE  WireInv' /\ (~Late' => RestInv')
  <2>1. SendData(Piece(packets + 1, FALSE, dc))
    BY <1>2, Zenon DEF SendPacket
  <2>2. packets + 1 \in Nat
    BY DEF LinkTypes
  <2>3. /\ \E to \in {"body", "dcBody"} : Move(t, "idle", to)
        /\ UNCHANGED <<outLock, wire, output, flush, cipher, met, link>>
    BY <1>2 DEF SendPacket
  <2> QED BY <1>1, <2>1, <2>2, <2>3
<1>3. ASSUME NEW t \in Threads, SendBody(t) PROVE WireInv' /\ (~Late' => RestInv')
  <2>1. SendData(Piece(packets, TRUE, at[t] = "dcBody"))
    BY <1>3, Zenon DEF SendBody
  <2>2. packets \in Nat
    BY DEF LinkTypes
  <2>3. /\ Move(t, "body", "idle") \/ Move(t, "dcBody", "flag")
        /\ UNCHANGED <<outLock, wire, output, flush, cipher, met, link>>
    BY <1>3 DEF SendBody
  <2> QED BY <1>1, <2>1, <2>2, <2>3
(* What goes nowhere *)
<1>4. ASSUME NEW t \in Threads, SetHasSentDC(t) \/ DestroySilently(t)
      PROVE  WireInv' /\ (~Late' => RestInv')
    BY <1>4, <1>c, MovesOn DEF SetHasSentDC, DestroySilently
<1>5. ASSUME NEW t \in Threads, Destroy(t) PROVE WireInv' /\ (~Late' => RestInv')
    BY <1>5, <1>c, MovesOn DEF Destroy
<1>6. ASSUME NEW t \in Threads, Shutdown(t) \/ ScheduleShutdown(t)
      PROVE  WireInv' /\ (~Late' => RestInv')
    BY <1>6, <1>c, MovesOn DEF Shutdown, ScheduleShutdown
<1>7. ASSUME NEW t \in Threads, ResetLink(t) PROVE WireInv' /\ (~Late' => RestInv')
    BY <1>7, <1>c, MovesOn DEF ResetLink
<1>8. CASE RemoteClosed
    BY <1>8, <1>c, MovesOn DEF RemoteClosed
<1>9. CASE WriteCallback \/ FinishAuthenticate \/ NothingOutgoing \/ UNCHANGED vars
  <2>1. UNCHANGED <<at, link, outLock, wire, output, flush, out, queued, cipher, met>>
    BY <1>9 DEF WriteCallback, FinishAuthenticate, NothingOutgoing, vars
  <2> QED BY <1>b, <2>1 DEF WireInv, RestInv, Late, Sent, Flow, Writing
(* What Destroy sends *)
<1>10. ASSUME NEW t \in Threads, LockAndEncrypt(t) PROVE WireInv' /\ (~Late' => RestInv')
  <2>1. /\ at[t] = "lock" /\ at'[t] = "send" /\ \A u \in Threads : u # t => at'[u] = at[u]
        /\ outLock = None /\ outLock' = t /\ ~met /\ \A u \in Flushers : flush[u] = <<>>
        /\ out' = Encrypted(out) /\ cipher' = cipher + Len(out)
        /\ UNCHANGED <<wire, output, flush, queued, link>>
    BY <1>10, Moves DEF LockAndEncrypt
  <2>2. /\ WireInv /\ RestInv /\ ~Writing /\ ~Writing' /\ Flow = <<>> /\ Flow' = <<>>
    BY <1>0, <1>b, <2>1, SendsBefore, NoFlow DEF TickerInv, Writing, Flow
  <2>3. Len(Flow) = 0 /\ cipher = Sent /\ Sent' = Sent
    BY <1>a, <2>1, <2>2 DEF RestInv, Sent
  <2>4. /\ Len(out') = Len(out) /\ Keyed(out', Sent)
        /\ Follows(out', Sent + Len(Flow), queued)
    BY <1>a, <2>1, <2>2, <2>3, EncryptedFollows DEF RestInv, LinkTypes
  <2>5. RestInv'
    BY <1>a, <2>1, <2>2, <2>3, <2>4 DEF RestInv
  <2> QED BY <2>1, <2>2, <2>5 DEF WireInv
<1>11. ASSUME NEW t \in Threads, SendRest(t) PROVE WireInv' /\ (~Late' => RestInv')
  <2>1. /\ at[t] = "send" /\ at'[t] = "shut" /\ ~met
        /\ LinkSend(out) /\ UNCHANGED <<wire, queued>>
    BY <1>11, Moves DEF SendRest
  <2>2. WireInv /\ RestInv /\ ~shouldShutdown /\ Late'
    BY <1>b, <2>1, SendsBefore DEF FinInv, Late
  <2>3. outLock # None /\ Flow = <<>>
    BY <1>0, <2>1, NoFlow DEF LocksInv, MetInv
  <2>4. output' = output \o out
    BY <2>1, <2>2 DEF LinkSend
  <2>5. Follows(out, Len(wire) + Len(output), queued) /\ Keyed(out, Len(wire) + Len(output))
    BY <1>a, <2>2, <2>3 DEF RestInv, Sent
  <2>6. Follows(output', Len(wire), queued) /\ Keyed(output', Len(wire))
    BY <1>a, <2>2, <2>4, <2>5, ConcatFollows DEF WireInv, LinkTypes
  <2> QED BY <2>1, <2>2, <2>6 DEF WireInv
(* What a thread that ticks the client flushes *)
<1>12. ASSUME NEW t \in Flushers, SwapOutgoing(t) PROVE WireInv' /\ (~Late' => RestInv')
  <2>1. /\ at[t] = "idle" /\ at'[t] = "link" /\ \A u \in Threads : u # t => at'[u] = at[u]
        /\ outLock = None /\ flush' = [flush EXCEPT ![t] = out] /\ out' = <<>>
        /\ ~met /\ ~Meets(t)
        /\ UNCHANGED <<outLock, wire, output, queued, cipher, link>>
    BY <1>12, Moves DEF SwapOutgoing
  <2>2. \A u \in Flushers : flush[u] = <<>> /\ (u # t => flush'[u] = <<>>)
    BY <1>0, <2>1 DEF TickerInv, Meets, LinkTypes
  <2>3. /\ Late' <=> Late
        /\ Flow = <<>> /\ Flow' = out /\ ~Writing /\ ~Writing'
    BY <1>0, <2>1, <2>2 DEF Late, TickerInv, Flow, Writing, LinkTypes
  <2>4. WireInv' /\ (~Late' => RestInv)
    BY <1>b, <2>1, <2>3 DEF WireInv
  <2>5. Len(Flow) = 0 /\ Len(out') = 0 /\ Sent' = Sent
    BY <2>1, <2>3 DEF Sent
  <2>6. RestInv => RestInv'
    BY <1>a, <2>1, <2>3, <2>5, EmptyFollows DEF RestInv
  <2> QED BY <2>4, <2>6
<1>13. ASSUME NEW t \in Flushers, CaptureLink(t) PROVE WireInv' /\ (~Late' => RestInv')
  <2>1. /\ UNCHANGED <<outLock, wire, output, out, queued, cipher, met, link>>
        /\ \/ ~link
           \/ Move(t, "link", "cipher") /\ UNCHANGED flush
    BY <1>13, Moves DEF CaptureLink
  <2>2. CASE ~link
    BY <1>b, <2>1, <2>2 DEF WireInv, Late
  <2>3. CASE Move(t, "link", "cipher") /\ UNCHANGED flush
    BY <1>c, <2>1, <2>3, MovesOn
  <2> QED BY <2>1, <2>2, <2>3
<1>14. ASSUME NEW t \in Flushers, EncryptOutgoing(t) PROVE WireInv' /\ (~Late' => RestInv')
  <2>1. /\ at[t] = "cipher" /\ at'[t] = "write" /\ \A u \in Threads : u # t => at'[u] = at[u]
        /\ flush' = [flush EXCEPT ![t] = Encrypted(flush[t])] /\ cipher' = cipher + Len(flush[t])
        /\ UNCHANGED <<outLock, wire, output, out, queued, met, link>>
    BY <1>14, Moves DEF EncryptOutgoing
  <2>2. WireInv /\ RestInv /\ outLock = None
    BY <1>b, <2>1, SendsBefore
  <2>3. /\ Flow = flush[t] /\ ~Writing
        /\ \A u \in Flushers : u # t => flush[u] = <<>>
    BY <1>0, <2>1, FlowIs DEF TickerInv
  <2>4. Flow' = Encrypted(Flow) /\ Writing'
    BY <2>1, <2>3 DEF Flow, Writing, LinkTypes
  <2>5. cipher = Sent /\ Sent' = Sent
    BY <1>a, <2>1, <2>2, <2>3 DEF RestInv, Sent
  <2>6. Len(Flow') = Len(Flow) /\ Keyed(Flow', Sent) /\ Follows(Flow', Sent, queued)
    BY <1>a, <2>2, <2>4, <2>5, EncryptedFollows DEF RestInv
  <2>7. RestInv'
    BY <1>a, <2>1, <2>2, <2>3, <2>4, <2>5, <2>6 DEF RestInv
  <2> QED BY <2>1, <2>2, <2>7 DEF WireInv
<1>15. ASSUME NEW t \in Flushers, SendOutgoing(t) PROVE WireInv' /\ (~Late' => RestInv')
  <2>1. /\ at[t] = "write" /\ at'[t] = "idle" /\ \A u \in Threads : u # t => at'[u] = at[u]
        /\ LinkSend(flush[t]) /\ flush' = [flush EXCEPT ![t] = <<>>]
        /\ UNCHANGED <<outLock, wire, out, queued, cipher, met, link>>
    BY <1>15, Moves DEF SendOutgoing
  <2>2. WireInv /\ RestInv /\ outLock = None /\ ~shouldShutdown
    BY <1>b, <2>1, SendsBefore DEF FinInv
  <2>3. /\ Flow = flush[t] /\ Writing
        /\ \A u \in Flushers : u # t => flush[u] = <<>> /\ at[u] # "write"
    BY <1>0, <2>1, FlowIs DEF TickerInv
  <2>4. Flow' = <<>> /\ ~Writing'
    BY <2>1, <2>3 DEF Flow, Writing, LinkTypes
  <2>5. output' = output \o Flow /\ Len(output') = Len(output) + Len(Flow) /\ Len(Flow') = 0
    BY <1>a, <2>1, <2>2, <2>3, <2>4, ConcatProperties DEF LinkSend, LinkTypes
  <2>6. Follows(output', Len(wire), queued) /\ Keyed(output', Len(wire))
    BY <1>a, <2>2, <2>3, <2>5, ConcatFollows DEF WireInv, RestInv, LinkTypes, Sent
  <2>7. Sent' = Sent + Len(Flow)
    BY <1>a, <2>1, <2>5 DEF Sent
  <2>8. RestInv'
    BY <1>a, <2>1, <2>2, <2>3, <2>4, <2>5, <2>7, EmptyFollows DEF RestInv
  <2> QED BY <2>1, <2>2, <2>6, <2>8 DEF WireInv
(* What the network thread writes *)
<1>16. CASE WriteSocket
  <2>1. PICK n \in 1..Len(output) : /\ wire' = wire \o SubSeq(output, 1, n)
                                    /\ output' = SubSeq(output, n + 1, Len(output))
    BY <1>16 DEF WriteSocket
  <2>2. UNCHANGED <<at, link, outLock, Flow, Writing, out, queued, cipher, met>>
    BY <1>16 DEF WriteSocket, Flow, Writing
  <2>3. WireInv /\ (~Late' => RestInv)
    BY <1>b, <2>2 DEF Late
  <2>t. wire \in Seq(Pieces) /\ output \in Seq(Pieces) /\ queued \in Seq(Pieces)
    BY DEF LinkTypes
  <2>w. /\ Follows(wire, 0, queued) /\ Keyed(wire, 0)
        /\ Follows(output, Len(wire), queued) /\ Keyed(output, Len(wire))
    BY <2>3 DEF WireInv
  <2>s. Split(wire, output, n, wire', output', queued)
    BY <2>1, <2>t, <2>w, SplitFollows
  <2>4. /\ Len(wire') = Len(wire) + n /\ Len(output') = Len(output) - n
        /\ Follows(wire', 0, queued) /\ Keyed(wire', 0)
        /\ Follows(output', Len(wire'), queued) /\ Keyed(output', Len(wire'))
    BY <2>s DEF Split
  <2>5. Sent' = Sent
    BY <1>a, <2>4 DEF Sent
  <2>6. RestInv => RestInv'
    BY <2>2, <2>5 DEF RestInv
  <2> QED BY <2>2, <2>3, <2>4, <2>6 DEF WireInv
<1> QED BY <1>2, <1>3, <1>4, <1>5, <1>6, <1>7, <1>8, <1>9, <1>10, <1>11, <1>12, <1>13, <1>14,
        <1>15, <1>16
    DEF Next, Continue, ProcessProtocolOut, Threads

LEMMA Order == Spec => [](LinkTypes /\ OrderInv)
BY TypesInit, TypesStep, ThreadInit, ThreadStep, FinInit, FinStep, OrderInit, OrderStep, PTL
   DEF Spec

\* The peer can decrypt everything that reaches it, whichever threads queue, flush and destroy,
\* unless two threads flushed at once.
THEOREM WireDecrypts == Spec => []WireDecryptsUnlessMet
<1>1. LinkTypes /\ OrderInv => WireDecryptsUnlessMet
    BY DEF LinkTypes, OrderInv, WireInv, Keyed, WireDecryptsUnlessMet
<1> QED BY <1>1, Order, PTL

\* What reaches the peer are the first pieces that were queued, in that order: none is lost,
\* doubled or overtaken on its way through the buffers, unless two threads flushed at once.
THEOREM WireInOrder == Spec => []WireInOrderUnlessMet
<1> DEFINE bare == [i \in DOMAIN wire |-> [wire[i] EXCEPT !.key = 0]]
<1>1. ASSUME LinkTypes, OrderInv, ~met PROVE IsPrefix(bare, queued)
  <2>1. /\ Len(wire) \in Nat /\ DOMAIN wire = 1..Len(wire)
        /\ \A i \in 1..Len(wire) : wire[i] \in Pieces
    BY <1>1 DEF LinkTypes
  <2>2. \A i \in 1..Len(wire) : i \in 1..Len(queued) /\ bare[i] = queued[i]
    BY <1>1, <2>1 DEF OrderInv, WireInv, Follows, Bare
  <2>3. \A i \in 1..Len(queued) : queued[i] \in Pieces
    BY <1>1 DEF LinkTypes
  <2>4. bare \in [1..Len(wire) -> Pieces]
    BY <2>1, <2>2, <2>3
  <2>5. bare \in Seq(Pieces)
    BY <2>1, <2>4, SeqDef
  <2>6. Len(bare) = Len(wire)
    BY <2>1, <2>4, <2>5, LenProperties
  <2>7. Len(wire) <= Len(queued)
    <3>1. Len(queued) \in Nat
      BY <1>1 DEF LinkTypes
    <3>2. Len(wire) # 0 => Len(wire) \in 1..Len(wire)
      BY <2>1
    <3>3. Len(wire) # 0 => Len(wire) \in 1..Len(queued)
      BY <2>2, <3>2
    <3> QED BY <2>1, <3>1, <3>3
  <2> HIDE DEF bare
  <2> DEFINE s == SubSeq(bare, 1, Len(bare))
             q == SubSeq(queued, 1, Len(bare))
  <2>8. /\ s \in Seq(Pieces) /\ Len(s) = Len(bare) /\ \A i \in 1..Len(bare) : s[i] = bare[i]
        /\ q \in Seq(Pieces) /\ Len(q) = Len(bare) /\ \A i \in 1..Len(bare) : q[i] = queued[i]
    BY <1>1, <2>1, <2>3, <2>5, <2>6, <2>7 DEF LinkTypes
  <2> HIDE DEF s, q
  <2>9. s = q
    BY <2>2, <2>6, <2>8, SeqEqual
  <2> QED BY <2>6, <2>7, <2>9 DEF IsPrefix, s, q
<1>2. LinkTypes /\ OrderInv => WireInOrderUnlessMet
    BY <1>1 DEF WireInOrderUnlessMet
<1> QED BY <1>2, Order, PTL

-----------------------------------------------------------------------------
(* Packets are whole *)

\* The first pieces, up to n, hold a complete Disconnect packet.
DoneBy(n) == \E i \in 1..n : queued[i].dc /\ queued[i].last

\* Nothing is dropped before a Disconnect packet is complete: until then lengths and bodies
\* take turns, and a body is missing iff somebody holds m_CSPacket.
WholeInv ==
    /\ sentDC \/ (\E t \in Threads : at[t] = "flag") => DoneBy(Len(queued))
    /\ DoneBy(Len(queued)) \/ (Len(queued) % 2 = 1 <=> packer # None)
    /\ \A i \in 1..Len(queued) : DoneBy(i - 1) \/ (queued[i].last <=> i % 2 = 0)

LEMMA Parity == \A n \in Nat : /\ n % 2 = 0 \/ n % 2 = 1
                               /\ (n + 1) % 2 = 0 <=> n % 2 = 1
                               /\ (n + 1) % 2 = 1 <=> n % 2 = 0
OBVIOUS

LEMMA WholeInit == Init => WholeInv
<1> SUFFICES ASSUME Init PROVE WholeInv
    OBVIOUS
<1>1. queued = <<>> /\ Len(queued) = 0 /\ ~sentDC /\ packer = None
    BY DEF Init
<1>2. \A t \in Threads : at[t] # "flag"
    BY DEF Init
<1>3. 0 % 2 = 0
    OBVIOUS
<1> QED BY <1>1, <1>2, <1>3 DEF WholeInv, DoneBy

\* A piece that is queued takes its turn.
LEMMA TakesTurn ==
    ASSUME LinkTypes, WholeInv, NEW piece \in Pieces, queued' = Append(queued, piece),
           piece.last <=> packer # None,
           packer' = None <=> packer # None
    PROVE  /\ DoneBy(Len(queued)) => DoneBy(Len(queued))'
           /\ piece.last /\ piece.dc => DoneBy(Len(queued))'
           /\ DoneBy(Len(queued))' \/ (Len(queued') % 2 = 1 <=> packer' # None)
           /\ \A i \in 1..Len(queued') : DoneBy(i - 1)' \/ (queued'[i].last <=> i % 2 = 0)
<1>1. /\ Len(queued) \in Nat /\ Len(queued') = Len(queued) + 1
      /\ queued'[Len(queued) + 1] = piece
      /\ \A i \in 1..Len(queued) : queued'[i] = queued[i]
    BY DEF LinkTypes
<1>2. ASSUME NEW n \in 0..Len(queued), DoneBy(n) PROVE DoneBy(n)'
    BY <1>1, <1>2 DEF DoneBy
<1>3. DoneBy(Len(queued)) => DoneBy(Len(queued))'
    BY <1>1 DEF DoneBy
<1>4. piece.last /\ piece.dc => DoneBy(Len(queued))'
    BY <1>1 DEF DoneBy
<1>5. DoneBy(Len(queued)) \/ ((Len(queued) + 1) % 2 = 1 <=> packer' # None)
    BY <1>1, Parity DEF WholeInv
<1>6. ASSUME NEW i \in 1..Len(queued') PROVE DoneBy(i - 1)' \/ (queued'[i].last <=> i % 2 = 0)
  <2>1. CASE i \in 1..Len(queued)
    <3>1. i - 1 \in 0..Len(queued)
      BY <1>1, <2>1
    <3>2. DoneBy(i - 1) \/ (queued[i].last <=> i % 2 = 0)
      BY <2>1 DEF WholeInv
    <3> QED BY <1>1, <1>2, <2>1, <3>1, <3>2
  <2>2. CASE i = Len(queued) + 1
    <3>1. i - 1 = Len(queued) /\ Len(queued) \in 0..Len(queued)
      BY <1>1, <2>2
    <3>2. DoneBy(Len(queued)) => DoneBy(i - 1)'
      BY <1>1, <3>1 DEF DoneBy
    <3>3. DoneBy(Len(queued)) \/ (piece.last <=> i % 2 = 0)
      BY <1>1, <2>2, Parity DEF WholeInv
    <3> QED BY <1>1, <2>2, <3>2, <3>3
  <2> QED BY <1>1, <2>1, <2>2
<1> QED BY <1>1, <1>3, <1>4, <1>5, <1>6

LEMMA WholeStep == LinkTypes /\ ThreadInv /\ WholeInv /\ [Next]_vars => WholeInv'
<1> SUFFICES ASSUME LinkTypes, ThreadInv, WholeInv, [Next]_vars PROVE WholeInv'
    OBVIOUS
<1> USE TheThreads DEF Places, Flushing
<1>0. LocksInv
    BY DEF ThreadInv
<1>1. ASSUME NEW t \in Threads, NEW dc \in BOOLEAN, SendPacket(t, dc) PROVE WholeInv'
  <2>1. SendData(Piece(packets + 1, FALSE, dc))
    BY <1>1, Zenon DEF SendPacket
  <2>2. packets + 1 \in Nat
    BY DEF LinkTypes
  <2>3. /\ packer = None /\ packer' = t /\ sentDC' = sentDC
        /\ \E to \in {"body", "dcBody"} : Move(t, "idle", to)
    BY <1>1 DEF SendPacket
  <2>4. \A u \in Threads : at'[u] = "flag" => at[u] = "flag"
    BY <2>3, Moves
  <2>5. CASE sentDC
    <3>1. queued' = queued
      BY <2>1, <2>5 DEF SendData
    <3> QED BY <2>3, <2>4, <2>5, <3>1 DEF WholeInv, DoneBy
  <2>6. CASE ~sentDC
    <3>1. PICK piece \in Pieces : ~piece.last /\ queued' = Append(queued, piece)
      BY <2>1, <2>2, <2>6, Queued
    <3> QED BY <2>3, <2>4, <3>1, TakesTurn DEF WholeInv
  <2> QED BY <2>5, <2>6
<1>2. ASSUME NEW t \in Threads, SendBody(t) PROVE WholeInv'
  <2>1. SendData(Piece(packets, TRUE, at[t] = "dcBody"))
    BY <1>2, Zenon DEF SendBody
  <2>2. packets \in Nat
    BY DEF LinkTypes
  <2>3. /\ packer' = None /\ sentDC' = sentDC
        /\ Move(t, "body", "idle") \/ Move(t, "dcBody", "flag")
    BY <1>2 DEF SendBody
  <2>4. packer = t /\ \A u \in Threads : at'[u] = "flag" => at[u] = "flag" \/ at[t] = "dcBody"
    BY <1>0, <2>3, Moves DEF LocksInv
  <2>5. CASE sentDC
    <3>1. queued' = queued
      BY <2>1, <2>5 DEF SendData
    <3> QED BY <2>3, <2>5, <3>1 DEF WholeInv, DoneBy
  <2>6. CASE ~sentDC
    <3>1. PICK piece \in Pieces : /\ piece.last /\ (piece.dc <=> at[t] = "dcBody")
                                  /\ queued' = Append(queued, piece)
      BY <2>1, <2>2, <2>6, Queued
    <3> QED BY <2>3, <2>4, <2>6, <3>1, TakesTurn DEF WholeInv
  <2> QED BY <2>5, <2>6
<1>3. ASSUME NEW t \in Threads, SetHasSentDC(t) PROVE WholeInv'
  <2>1. at[t] = "flag" /\ sentDC' /\ UNCHANGED <<queued, packer>>
    BY <1>3, Moves DEF SetHasSentDC
  <2> QED BY <2>1 DEF WholeInv, DoneBy
<1>4. ASSUME UNCHANGED <<queued, packer, sentDC>>,
             \A u \in Threads : at'[u] = "flag" => at[u] = "flag"
      PROVE  WholeInv'
    BY <1>4 DEF WholeInv, DoneBy
<1>5. ASSUME NEW t \in Threads, Destroy(t) \/ DestroySilently(t) \/ LockAndEncrypt(t)
             \/ SendRest(t) \/ Shutdown(t) \/ ScheduleShutdown(t) \/ ResetLink(t)
      PROVE  WholeInv'
  <2>1. UNCHANGED <<queued, packer, sentDC>>
    BY <1>5 DEF Destroy, DestroySilently, LockAndEncrypt, SendRest, Shutdown, ScheduleShutdown,
        ResetLink
  <2>2. \E from, to \in Places \ {"flag"} : Move(t, from, to)
    BY <1>5 DEF Destroy, DestroySilently, LockAndEncrypt, SendRest, Shutdown, ScheduleShutdown,
        ResetLink
  <2> QED BY <1>4, <2>1, <2>2, Moves
<1>6. ASSUME NEW t \in Flushers, ProcessProtocolOut(t) \/ RemoteClosed PROVE WholeInv'
  <2>1. UNCHANGED <<queued, packer, sentDC>>
    BY <1>6 DEF ProcessProtocolOut, SwapOutgoing, CaptureLink, EncryptOutgoing, SendOutgoing,
        RemoteClosed
  <2>2. \E u \in Threads, from, to \in Places \ {"flag"} : Move(u, from, to)
    BY <1>6 DEF ProcessProtocolOut, SwapOutgoing, CaptureLink, EncryptOutgoing, SendOutgoing,
        RemoteClosed
  <2> QED BY <1>4, <2>1, <2>2, Moves
<1>7. CASE \/ WriteSocket \/ WriteCallback \/ FinishAuthenticate \/ NothingOutgoing
           \/ UNCHANGED vars
    BY <1>4, <1>7 DEF WriteSocket, WriteCallback, FinishAuthenticate, NothingOutgoing, vars
<1> QED BY <1>1, <1>2, <1>3, <1>5, <1>6, <1>7 DEF Next, Continue, Threads

\* Until the first Disconnect packet is complete, every length is followed by its body, from
\* however many threads: m_CSPacket keeps the packets apart, and m_HasSentDC, which silences
\* every thread, cuts none of them short.
THEOREM PacketsStayWhole == Spec => []PacketsAreWhole
<1>1. ASSUME LinkTypes, WholeInv PROVE PacketsAreWhole
  <2> SUFFICES ASSUME NEW i \in DOMAIN queued,
                      ~ \E j \in DOMAIN SubSeq(queued, 1, i - 1) :
                            /\ SubSeq(queued, 1, i - 1)[j].dc
                            /\ SubSeq(queued, 1, i - 1)[j].last
               PROVE  queued[i].last <=> i % 2 = 0
    BY DEF PacketsAreWhole
  <2>1. Len(queued) \in Nat /\ i \in 1..Len(queued) /\ \A j \in 1..Len(queued) : queued[j] \in Pieces
    BY <1>1 DEF LinkTypes
  <2> DEFINE before == SubSeq(queued, 1, i - 1)
  <2>2. DOMAIN before = 1..(i - 1) /\ \A j \in 1..(i - 1) : before[j] = queued[j]
    BY <2>1
  <2>3. ~DoneBy(i - 1)
    BY <2>2 DEF DoneBy
  <2> QED BY <1>1, <2>1, <2>3 DEF WholeInv
<1> QED BY <1>1, Types, WholeInit, WholeStep, PTL DEF Spec

=============================================================================
