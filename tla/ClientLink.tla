----------------------------- MODULE ClientLink -----------------------------
(***************************************************************************)
(* How packets leave the server.  Any thread composes a packet under       *)
(* m_CSPacket and appends it to the client's m_OutgoingData; the thread    *)
(* that ticks the client takes that away, encrypts it and gives it to the  *)
(* link, once per tick; any thread may disconnect the client, and then     *)
(* encrypts and sends the rest itself, under m_CSOutgoingData, and shuts   *)
(* the link down.  The network thread (libevent's loop) writes the link's  *)
(* buffer to the socket.                                                   *)
(*                                                                         *)
(* The server's thread ticks the client until it hands it over to the      *)
(* thread of the player's world.  If that happens in the middle of its     *)
(* tick, as it does since 1.20.2, both may flush what has been queued.     *)
(*                                                                         *)
(* A packet is a length and a body, which are appended one after the       *)
(* other; one that is compressed is appended at once, which is the same    *)
(* with no step between.  The cipher is a stream cipher: what it has       *)
(* encrypted before decides about what comes next.  Here it numbers the    *)
(* pieces; 0 stands for a piece in clear.                                  *)
(***************************************************************************)
EXTENDS Naturals, SequencesExt

CONSTANTS
    Server,             \* the server's thread
    World,              \* the thread of the player's world
    Loop,               \* the network thread
    Others,             \* chunk sender, other worlds, authenticator, plugins
    None,
    MaxPackets          \* bound: packets, those that disconnect included

ASSUME LinkAssumption ==
    /\ Server # World /\ Loop \notin {Server, World} /\ {Server, World, Loop} \cap Others = {}
    /\ None \notin Others \cup {Server, World, Loop}
    /\ MaxPackets \in Nat

Flushers == {Server, World}
Threads == Flushers \cup {Loop} \cup Others

VARIABLES
    at,                 \* where each thread is
    packer,             \* who holds m_CSPacket
    outLock,            \* who holds m_CSOutgoingData over several steps
    out,                \* m_OutgoingData
    tickers,            \* the threads that are still to flush m_OutgoingData
    flush,              \* OutgoingData, the local variable of ProcessProtocolOut, of each thread
    cipher,             \* pieces that the encryptor has encrypted
    sentDC,             \* m_HasSentDC
    destroyed,          \* m_State is csDestroyed
    link,               \* m_Link is set
    shouldShutdown,     \* m_ShouldShutdown of the link
    output,             \* libevent's output buffer
    drained,            \* the deferred call of WriteCallback is due
    fin,                \* DoActualShutdown has been called
    closed,             \* the peer has closed the connection
    wire,               \* what has been written to the socket
    queued,             \* history: every piece appended to m_OutgoingData
    packets,            \* packets begun
    met,                \* history: Destroy, or another ProcessProtocolOut, began to flush while
                        \* ProcessProtocolOut did
    missed              \* history: the buffer ran empty while Shutdown was looking at it

clientVars == <<at, packer, outLock, out, tickers, flush, cipher, sentDC, destroyed, link>>
linkVars   == <<shouldShutdown, output, drained, fin, closed, wire>>
history    == <<queued, packets, met, missed>>
vars == <<clientVars, linkVars, history>>

Goto(t, place) == at' = [at EXCEPT ![t] = place]
Move(t, from, to) == at[t] = from /\ Goto(t, to)

-----------------------------------------------------------------------------
Init ==
    /\ at = [t \in Threads |-> "idle"]
    /\ packer = None /\ outLock = None
    /\ out = <<>> /\ tickers = {Server} /\ flush = [t \in Flushers |-> <<>>] /\ cipher = 0
    /\ sentDC = FALSE /\ destroyed = FALSE /\ link = TRUE
    /\ shouldShutdown = FALSE /\ output = <<>> /\ wire = <<>>
    /\ drained = FALSE /\ fin = FALSE /\ closed = FALSE
    /\ queued = <<>> /\ packets = 0 /\ met = FALSE /\ missed = FALSE

-----------------------------------------------------------------------------
(* Packets *)

Piece(p, last, dc) == [of |-> p, last |-> last, dc |-> dc, key |-> 0]

\* cClientHandle::SendData: nothing more is queued once m_HasSentDC is set.
SendData(piece) ==
    IF sentDC
    THEN UNCHANGED <<out, queued>>
    ELSE /\ outLock = None
         /\ out' = Append(out, piece) /\ queued' = Append(queued, piece)

\* Mutant: without m_CSPacket.
SendPacketUnlocked(t, dc) ==
    /\ Move(t, "idle", IF dc THEN "dcBody" ELSE "body")
    /\ packer' = t
    /\ packets < MaxPackets /\ packets' = packets + 1
    /\ SendData(Piece(packets + 1, FALSE, dc))
    /\ UNCHANGED <<outLock, tickers, flush, cipher, sentDC, destroyed, link, linkVars, met, missed>>

\* A cPacketizer takes m_CSPacket; its destructor calls SendPacket, which sends the length ...
SendPacket(t, dc) ==
    /\ Move(t, "idle", IF dc THEN "dcBody" ELSE "body")
    /\ packer = None /\ packer' = t
    /\ packets < MaxPackets /\ packets' = packets + 1
    /\ SendData(Piece(packets + 1, FALSE, dc))
    /\ UNCHANGED <<outLock, tickers, flush, cipher, sentDC, destroyed, link, linkVars, met, missed>>

\* ... and the body, of the packet begun last, since the lock keeps the others out.
SendBody(t) ==
    /\ \/ Move(t, "body", "idle")
       \/ Move(t, "dcBody", "flag")
    /\ packer' = None
    /\ SendData(Piece(packets, TRUE, at[t] = "dcBody"))
    /\ UNCHANGED <<outLock, tickers, flush, cipher, sentDC, destroyed, link, linkVars,
                   packets, met, missed>>

\* SendDisconnect, after its packet.
SetHasSentDC(t) ==
    /\ Move(t, "flag", "destroy")
    /\ sentDC' = TRUE
    /\ UNCHANGED <<packer, outLock, out, tickers, flush, cipher, destroyed, link, linkVars,
                   history>>

-----------------------------------------------------------------------------
(* The cipher and the link *)

\* HandleOutgoingData: the pieces get the next places in the key stream.
Encrypted(data) == [i \in DOMAIN data |-> [data[i] EXCEPT !.key = cipher + i]]

\* cTCPLinkImpl::Send
LinkSend(data) ==
    output' = IF shouldShutdown THEN output ELSE output \o data

-----------------------------------------------------------------------------
(* ProcessProtocolOut, in a thread that ticks the client *)

\* FinishAuthenticate hands the client over to its world: within the tick of the server's
\* thread, or, before 1.20.2, in the authenticator's, between two of these ticks.
FinishAuthenticate ==
    /\ tickers = {Server}
    /\ \/ at[Server] = "idle" /\ tickers' = {Server, World}
       \/ flush[Server] = <<>> /\ tickers' = {World}
    /\ UNCHANGED <<at, packer, outLock, out, flush, cipher, sentDC, destroyed, link,
                   linkVars, history>>

\* The server's thread flushes once more in the tick in which it has handed the client over.
TickersAfter(t) == IF t = Server /\ World \in tickers THEN {World} ELSE tickers

\* Another thread is flushing.
Meets(t) == \E u \in Flushers \ {t} : flush[u] # <<>>

\* Mutant: the data are copied.
CopyOutgoing(t) ==
    /\ t \in tickers /\ Move(t, "idle", "link")
    /\ outLock = None /\ out # <<>>
    /\ flush' = [flush EXCEPT ![t] = out] /\ UNCHANGED out
    /\ tickers' = TickersAfter(t)
    /\ met' = (met \/ Meets(t))
    /\ UNCHANGED <<packer, outLock, cipher, sentDC, destroyed, link, linkVars,
                   queued, packets, missed>>

SwapOutgoing(t) ==
    /\ t \in tickers /\ Move(t, "idle", "link")
    /\ outLock = None /\ out # <<>>
    /\ flush' = [flush EXCEPT ![t] = out] /\ out' = <<>>
    /\ tickers' = TickersAfter(t)
    /\ met' = (met \/ Meets(t))
    /\ UNCHANGED <<packer, outLock, cipher, sentDC, destroyed, link, linkVars,
                   queued, packets, missed>>

\* There is nothing to flush: that matters in the last tick of the server's thread.
NothingOutgoing ==
    /\ tickers = {Server, World} /\ at[Server] = "idle"
    /\ outLock = None /\ out = <<>>
    /\ tickers' = {World}
    /\ UNCHANGED <<at, packer, outLock, out, flush, cipher, sentDC, destroyed, link,
                   linkVars, history>>

\* The link is captured, if it is there still.
CaptureLink(t) ==
    /\ \/ link /\ Move(t, "link", "cipher") /\ UNCHANGED flush
       \/ ~link /\ Move(t, "link", "idle") /\ flush' = [flush EXCEPT ![t] = <<>>]
    /\ UNCHANGED <<packer, outLock, out, tickers, cipher, sentDC, destroyed, link,
                   linkVars, history>>

EncryptOutgoing(t) ==
    /\ Move(t, "cipher", "write")
    /\ flush' = [flush EXCEPT ![t] = Encrypted(@)] /\ cipher' = cipher + Len(flush[t])
    /\ UNCHANGED <<packer, outLock, out, tickers, sentDC, destroyed, link, linkVars, history>>

SendOutgoing(t) ==
    /\ Move(t, "write", "idle")
    /\ LinkSend(flush[t]) /\ flush' = [flush EXCEPT ![t] = <<>>]
    /\ UNCHANGED <<packer, outLock, out, tickers, cipher, sentDC, destroyed, link,
                   shouldShutdown, drained, fin, closed, wire, history>>

-----------------------------------------------------------------------------
(* Destroy, in any thread *)

\* SetState lets the first one through.
Destroy(t) ==
    /\ Move(t, "destroy", IF destroyed THEN "idle" ELSE "lock")
    /\ destroyed' = TRUE
    /\ UNCHANGED <<packer, outLock, out, tickers, flush, cipher, sentDC, link, linkVars, history>>

\* Mutant: what is left is sent in clear.
LockInClear(t) ==
    /\ Move(t, "lock", "send")
    /\ outLock = None /\ outLock' = t
    /\ met' = (met \/ \E u \in Flushers : flush[u] # <<>>)
    /\ UNCHANGED <<packer, out, tickers, cipher, flush, sentDC, destroyed, link, linkVars,
                   queued, packets, missed>>

\* Under m_CSOutgoingData: what is left is encrypted where it is, ...
LockAndEncrypt(t) ==
    /\ Move(t, "lock", "send")
    /\ outLock = None /\ outLock' = t
    /\ out' = Encrypted(out) /\ cipher' = cipher + Len(out)
    /\ met' = (met \/ \E u \in Flushers : flush[u] # <<>>)
    /\ UNCHANGED <<packer, tickers, flush, sentDC, destroyed, link, linkVars,
                   queued, packets, missed>>

\* Mutant: without sending it.
SendNothing(t) ==
    /\ Move(t, "send", "shut")
    /\ UNCHANGED <<packer, outLock, out, tickers, flush, cipher, sentDC, destroyed, link,
                   linkVars, history>>

\* ... and sent (and left in m_OutgoingData), ...
SendRest(t) ==
    /\ Move(t, "send", "shut")
    /\ LinkSend(out)
    /\ UNCHANGED <<packer, outLock, out, tickers, flush, cipher, sentDC, destroyed, link,
                   shouldShutdown, drained, fin, closed, wire, history>>

\* Mutant: whether there is data in the buffer or not.
ShutdownAtOnce(t) ==
    /\ Move(t, "shut", "reset") /\ fin' = TRUE
    /\ UNCHANGED <<packer, outLock, out, tickers, flush, cipher, sentDC, destroyed, link,
                   shouldShutdown, output, drained, closed, wire, history>>

\* ... cTCPLinkImpl::Shutdown looks at the buffer, ...
Shutdown(t) ==
    /\ \/ output = <<>> /\ Move(t, "shut", "reset") /\ fin' = TRUE
       \/ output # <<>> /\ Move(t, "shut", "schedule") /\ UNCHANGED fin
    /\ UNCHANGED <<packer, outLock, out, tickers, flush, cipher, sentDC, destroyed, link,
                   shouldShutdown, output, drained, closed, wire, history>>

\* ... and, if it is not empty, has the network thread do the rest, ...
ScheduleShutdown(t) ==
    /\ Move(t, "schedule", "reset")
    /\ shouldShutdown' = TRUE
    /\ UNCHANGED <<packer, outLock, out, tickers, flush, cipher, sentDC, destroyed, link,
                   output, drained, fin, closed, wire, history>>

\* ... and the link is let go.
ResetLink(t) ==
    /\ Move(t, "reset", "idle")
    /\ link' = FALSE /\ outLock' = None
    /\ UNCHANGED <<packer, out, tickers, flush, cipher, sentDC, destroyed, linkVars, history>>

\* cServer::Shutdown, on the main thread, calls Destroy without a packet, and so does the
\* protocol recognizer in the server's, when it has answered a browser.
DestroySilently(t) ==
    /\ Move(t, "idle", "destroy")
    /\ UNCHANGED <<packer, outLock, out, tickers, flush, cipher, sentDC, destroyed, link,
                   linkVars, history>>

-----------------------------------------------------------------------------
(* The network thread *)

\* libevent writes what the socket takes, and calls back later when there is no more.
WriteSocket ==
    /\ at[Loop] = "idle" /\ ~fin /\ ~closed
    /\ \E n \in 1..Len(output) :
           /\ wire' = wire \o SubSeq(output, 1, n)
           /\ output' = SubSeq(output, n + 1, Len(output))
    /\ drained' = (drained \/ output' = <<>>)
    /\ UNCHANGED <<clientVars, shouldShutdown, fin, closed, history>>

\* Mutant: it does not do the shutdown that was scheduled.
WriteCallbackIdle ==
    /\ at[Loop] = "idle" /\ drained /\ drained' = FALSE
    /\ missed' = (missed \/ (output = <<>> /\ \E t \in Threads : at[t] = "schedule"))
    /\ UNCHANGED <<clientVars, shouldShutdown, output, fin, closed, wire, queued, packets, met>>

WriteCallback ==
    /\ at[Loop] = "idle" /\ drained /\ drained' = FALSE
    /\ fin' = (fin \/ (output = <<>> /\ shouldShutdown))
    /\ missed' = (missed \/ (output = <<>> /\ \E t \in Threads : at[t] = "schedule"))
    /\ UNCHANGED <<clientVars, shouldShutdown, output, closed, wire, queued, packets, met>>

\* EventCallback: OnRemoteClosed or OnError, and SocketClosed.
RemoteClosed ==
    /\ ~closed /\ closed' = TRUE
    /\ Move(Loop, "idle", "destroy")
    /\ UNCHANGED <<packer, outLock, out, tickers, flush, cipher, sentDC, destroyed, link,
                   shouldShutdown, output, drained, fin, wire, history>>

-----------------------------------------------------------------------------
Continue(t) ==
    \/ SendBody(t) \/ SetHasSentDC(t) \/ Destroy(t) \/ LockAndEncrypt(t) \/ SendRest(t)
    \/ Shutdown(t) \/ ScheduleShutdown(t) \/ ResetLink(t)
ProcessProtocolOut(t) ==
    SwapOutgoing(t) \/ CaptureLink(t) \/ EncryptOutgoing(t) \/ SendOutgoing(t)

Next ==
    \/ \E t \in Threads \ {Loop}, dc \in BOOLEAN : SendPacket(t, dc)
    \/ \E t \in Others \cup {Server} : DestroySilently(t)
    \/ \E t \in Threads : Continue(t)
    \/ FinishAuthenticate \/ NothingOutgoing
    \/ \E t \in Flushers : ProcessProtocolOut(t)
    \/ WriteSocket \/ WriteCallback \/ RemoteClosed

Spec == Init /\ [][Next]_vars

\* A thread that is inside a call goes on with it, the ticking threads come round, and the
\* network thread writes, calls back.
FairSpec ==
    /\ Spec
    /\ \A t \in Threads : WF_vars(Continue(t))
    /\ \A t \in Flushers : WF_vars(ProcessProtocolOut(t))
    /\ WF_vars(WriteSocket) /\ WF_vars(WriteCallback)

-----------------------------------------------------------------------------
(* Properties *)

\* What the socket has got are the first pieces that were queued, in that order, whichever
\* threads queued, flushed and destroyed meanwhile; unless two of them flushed at once.
WireInOrderUnlessMet ==
    met \/ IsPrefix([i \in DOMAIN wire |-> [wire[i] EXCEPT !.key = 0]], queued)

\* The peer can decrypt them: they were encrypted in the order in which they are sent.
WireDecryptsUnlessMet ==
    met \/ \A i \in DOMAIN wire : wire[i].key = i

\* Until the first Disconnect packet is complete, every length is followed by its body: the
\* threads' packets do not mix, and none is cut short by another thread's disconnecting.
PacketsAreWhole ==
    \A i \in DOMAIN queued :
        LET before == SubSeq(queued, 1, i - 1)
        IN  \/ \E j \in DOMAIN before : before[j].dc /\ before[j].last
            \/ queued[i].last <=> i % 2 = 0

\* When the socket is shut down, all that was given to the link is written.
AllWrittenBeforeFinUnlessMet == (fin /\ ~met) => output = <<>>

\* A player who is disconnected with a packet gets that packet, unless he has gone
\* himself, or two threads flushed at once.
KickedIsToldUnlessMet ==
    LET Whole(pieces) == \E i \in DOMAIN pieces : pieces[i].dc /\ pieces[i].last
    IN  (Whole(queued) /\ ~destroyed) ~> (Whole(wire) \/ closed \/ met)

\* The link of a client that is destroyed is shut down; unless the buffer ran empty while
\* Shutdown was looking at it.
DestroyedIsShutUnlessMissed == destroyed ~> (fin \/ closed \/ missed)
=============================================================================
