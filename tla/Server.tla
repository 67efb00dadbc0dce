------------------------------- MODULE Server -------------------------------
(***************************************************************************)
(* ServerSmoke (src/libsmoke_server.h): run() called in a loop by          *)
(* tests/server_test.cpp, with the clients and their TCP connections.      *)
(*                                                                         *)
(* run() is split where the kernel or a client can act between two of its  *)
(* system calls: select, accept, each recv, each send, and the removal of  *)
(* each client marked mustDelete.  A message is a sequence of Parts units, *)
(* the bytes of a telegram; TCP keeps the order of units and nothing else, *)
(* so one recv may return any prefix of what has arrived, up to BUFSZ.     *)
(* A client that closes its end can cost the process its life (SendKills). *)
(***************************************************************************)
EXTENDS Integers, SequencesExt

CONSTANTS
    Peer,           \* the clients
    Parts,          \* units per message
    BUFSZ,          \* units one recv can return
    SockBuf,        \* units a connection holds towards a client
    MaxMessages     \* bound on the messages of one client

ASSUME ServerAssumption ==
    /\ Parts \in Nat \ {0} /\ BUFSZ \in Nat \ {0} /\ MaxMessages \in Nat
    /\ SockBuf \in Nat /\ SockBuf >= BUFSZ

VARIABLES
    ready,          \* _ready
    clients,        \* clients, in the order of the vector
    mustDelete,     \* the clients whose mustDelete is set
    pktQueue,       \* pktQueue
    phase,          \* where run() is, or "killed" when the process has died
    at,             \* the loop variable i of run(), or of its sends
    rfds,           \* the clients select() found readable
    newconn,        \* whether select() found the listening socket readable
    conn,           \* the connection of each client as the kernel sees it
    hungup,         \* the clients that closed their end
    toServer,       \* units sent by each client and not yet received
    messages,       \* how many messages each client has sent
    got,            \* the units sent to each client
    unread,         \* how many of them the client has not read, and never will once closed
    stream,         \* history: all units received, in the order of pktQueue
    from            \* history: where in stream each client was accepted

runVars == <<clients, mustDelete, pktQueue, phase, at, rfds, newconn>>
netVars == <<conn, hungup, toServer, messages, got, unread>>
vars == <<ready, runVars, netVars, stream, from>>

Unit == [src : Peer, message : 1 .. MaxMessages, part : 1 .. Parts]
Message(p, m) == [k \in 1 .. Parts |-> [src |-> p, message |-> m, part |-> k]]

Phases == {"out", "accept", "recv", "send", "remove", "killed"}

TypeOK ==
    /\ ready \in BOOLEAN
    /\ clients \in Seq(Peer) /\ IsInjective(clients)
    /\ mustDelete \subseteq ToSet(clients)
    /\ pktQueue \in Seq(Seq(Unit))
    /\ phase \in Phases
    /\ at \in 1 .. Len(clients) + 1
    /\ rfds \subseteq Peer /\ newconn \in BOOLEAN
    /\ conn \in [Peer -> {"none", "backlog", "open", "closed"}]
    /\ ToSet(clients) = {p \in Peer : conn[p] = "open"}
    /\ hungup \subseteq Peer
    /\ toServer \in [Peer -> Seq(Unit)]
    /\ messages \in [Peer -> 0 .. MaxMessages]
    /\ got \in [Peer -> Seq(Unit)]
    /\ unread \in [Peer -> 0 .. SockBuf]
    /\ stream \in Seq(Unit)
    /\ from \in [Peer -> 0 .. Len(stream)]

Init ==
    /\ ready = FALSE
    /\ clients = <<>> /\ mustDelete = {} /\ pktQueue = <<>>
    /\ phase = "out" /\ at = 1 /\ rfds = {} /\ newconn = FALSE
    /\ conn = [p \in Peer |-> "none"]
    /\ hungup = {}
    /\ toServer = [p \in Peer |-> <<>>]
    /\ messages = [p \in Peer |-> 0]
    /\ got = [p \in Peer |-> <<>>]
    /\ unread = [p \in Peer |-> 0]
    /\ stream = <<>>
    /\ from = [p \in Peer |-> 0]
-----------------------------------------------------------------------------
\* init(): the socket is bound and listens.
StartServer ==
    /\ ~ ready /\ phase = "out"
    /\ ready' = TRUE
    /\ UNCHANGED <<runVars, netVars, stream, from>>

\* The connections once the server's process has closed them.
AllClosed == [p \in Peer |-> IF conn[p] \in {"open", "backlog"} THEN "closed" ELSE conn[p]]

\* shutdown(): everything is closed; init() may be called again.
Shutdown ==
    /\ ready /\ phase = "out"
    /\ ready' = FALSE
    /\ clients' = <<>> /\ mustDelete' = {}
    /\ conn' = AllClosed
    /\ UNCHANGED <<pktQueue, phase, at, rfds, newconn,
                   hungup, toServer, messages, got, unread, stream, from>>
-----------------------------------------------------------------------------
\* The clients and the kernel.
Connect(p) ==
    /\ ready /\ conn[p] = "none"
    /\ conn' = [conn EXCEPT ![p] = "backlog"]
    /\ UNCHANGED <<ready, runVars, hungup, toServer, messages, got, unread, stream, from>>

\* A client sends a telegram in one call (LinuxTCP::broadcast), accepted or
\* not.
SendMessage(p) ==
    /\ conn[p] \in {"backlog", "open"} /\ p \notin hungup
    /\ messages[p] < MaxMessages
    /\ messages' = [messages EXCEPT ![p] = @ + 1]
    /\ toServer' = [toServer EXCEPT ![p] = @ \o Message(p, messages[p] + 1)]
    /\ UNCHANGED <<ready, runVars, conn, hungup, got, unread, stream, from>>

Read(p) ==
    /\ unread[p] > 0 /\ p \notin hungup
    /\ unread' = [unread EXCEPT ![p] = 0]
    /\ UNCHANGED <<ready, runVars, conn, hungup, toServer, messages, got, stream, from>>

HangUp(p) ==
    /\ conn[p] \in {"backlog", "open"} /\ p \notin hungup
    /\ hungup' = hungup \union {p}
    /\ UNCHANGED <<ready, runVars, conn, toServer, messages, got, unread, stream, from>>
-----------------------------------------------------------------------------
Readable == {p \in ToSet(clients) : toServer[p] # <<>> \/ p \in hungup}
Backlog == {p \in Peer : conn[p] = "backlog"}

\* run() up to select() returning something; when it returns nothing run()
\* changes nothing.
Select ==
    /\ ready /\ phase = "out"
    /\ Readable # {} \/ Backlog # {}
    /\ rfds' = Readable
    /\ newconn' = (Backlog # {})
    /\ phase' = "accept"
    /\ UNCHANGED <<ready, clients, mustDelete, pktQueue, at, netVars, stream, from>>

\* One new connection is accepted and registered.
AcceptNew(p) ==
    /\ phase = "accept" /\ newconn
    /\ p \in Backlog
    /\ conn' = [conn EXCEPT ![p] = "open"]
    /\ clients' = Append(clients, p)
    /\ from' = [from EXCEPT ![p] = Len(stream)]
    /\ phase' = "recv" /\ at' = 1
    /\ UNCHANGED <<ready, mustDelete, pktQueue, rfds, newconn,
                   hungup, toServer, messages, got, unread, stream>>

NoNew ==
    /\ phase = "accept" /\ ~ newconn
    /\ phase' = "recv" /\ at' = 1
    /\ UNCHANGED <<ready, clients, mustDelete, pktQueue, rfds, newconn,
                   netVars, stream, from>>

Current == clients[at]
Advance == at' = at + 1

\* Variant: a chunk takes the place of the one that waits.
QueuedOver(chunk) == <<chunk>>

\* pktQueue with one chunk more.
Queued(chunk) == Append(pktQueue, chunk)

\* recv() returns what has arrived, up to BUFSZ.
Recv(k) ==
    /\ phase = "recv" /\ at <= Len(clients) /\ Current \in rfds
    /\ k \in 1 .. BUFSZ /\ k <= Len(toServer[Current])
    /\ LET chunk == SubSeq(toServer[Current], 1, k)
       IN  /\ pktQueue' = Queued(chunk)
           /\ stream' = stream \o chunk
    /\ toServer' = [toServer EXCEPT ![Current] = SubSeq(@, k + 1, Len(@))]
    /\ Advance
    /\ UNCHANGED <<ready, clients, mustDelete, phase, rfds, newconn,
                   conn, hungup, messages, got, unread, from>>

\* recv() returns 0, or -1 when the connection was reset.
RecvFails ==
    /\ phase = "recv" /\ at <= Len(clients) /\ Current \in rfds
    /\ Current \in hungup
    /\ mustDelete' = mustDelete \union {Current}
    /\ Advance
    /\ UNCHANGED <<ready, clients, pktQueue, phase, rfds, newconn, netVars, stream, from>>

NotReadable ==
    /\ phase = "recv" /\ at <= Len(clients) /\ Current \notin rfds
    /\ Advance
    /\ UNCHANGED <<ready, clients, mustDelete, pktQueue, phase, rfds, newconn,
                   netVars, stream, from>>

EndRecv ==
    /\ phase = "recv" /\ at > Len(clients)
    /\ phase' = "send" /\ at' = 1
    /\ UNCHANGED <<ready, clients, mustDelete, pktQueue, rfds, newconn,
                   netVars, stream, from>>
-----------------------------------------------------------------------------
\* Variant: the sender does not get its own data back.
SkipsSender == Current \in mustDelete \/ Head(pktQueue)[1].src = Current

\* Only active clients are served.
Skips == Current \in mustDelete

\* send() of the front of pktQueue; it blocks while the connection is full.
Send ==
    /\ phase = "send" /\ pktQueue # <<>> /\ at <= Len(clients)
    /\ ~ Skips
    /\ unread[Current] + Len(Head(pktQueue)) <= SockBuf
    /\ got' = [got EXCEPT ![Current] = @ \o Head(pktQueue)]
    /\ unread' = [unread EXCEPT ![Current] = @ + Len(Head(pktQueue))]
    /\ Advance
    /\ UNCHANGED <<ready, clients, mustDelete, pktQueue, phase, rfds, newconn,
                   conn, hungup, toServer, messages, stream, from>>

\* The client has closed its end.  The first send() after that may still go
\* through (Send).  It fails with an error when the client reset the connection.
SendFails ==
    /\ phase = "send" /\ pktQueue # <<>> /\ at <= Len(clients)
    /\ ~ Skips /\ Current \in hungup
    /\ mustDelete' = mustDelete \union {Current}
    /\ Advance
    /\ UNCHANGED <<ready, clients, pktQueue, phase, rfds, newconn, netVars, stream, from>>

\* When an earlier send() has met the closed end, the next one raises SIGPIPE:
\* there is no MSG_NOSIGNAL and nothing handles the signal, so the process
\* ends, and with it the connections of all.
SendKills ==
    /\ phase = "send" /\ pktQueue # <<>> /\ at <= Len(clients)
    /\ ~ Skips /\ Current \in hungup /\ unread[Current] > 0
    /\ ready' = FALSE /\ phase' = "killed"
    /\ clients' = <<>> /\ mustDelete' = {} /\ pktQueue' = <<>> /\ at' = 1
    /\ conn' = AllClosed
    /\ UNCHANGED <<rfds, newconn, hungup, toServer, messages, got, unread, stream, from>>

SkipClient ==
    /\ phase = "send" /\ pktQueue # <<>> /\ at <= Len(clients)
    /\ Skips
    /\ Advance
    /\ UNCHANGED <<ready, clients, mustDelete, pktQueue, phase, rfds, newconn,
                   netVars, stream, from>>

PopChunk ==
    /\ phase = "send" /\ pktQueue # <<>> /\ at > Len(clients)
    /\ pktQueue' = Tail(pktQueue)
    /\ at' = 1
    /\ UNCHANGED <<ready, clients, mustDelete, phase, rfds, newconn,
                   netVars, stream, from>>

EndSend ==
    /\ phase = "send" /\ pktQueue = <<>>
    /\ phase' = "remove" /\ at' = 1
    /\ UNCHANGED <<ready, clients, mustDelete, pktQueue, rfds, newconn,
                   netVars, stream, from>>

\* Remove disconnected clients: the others move up, so i stays where it is.
RemoveClosed ==
    /\ phase = "remove" /\ at <= Len(clients) /\ Current \in mustDelete
    /\ conn' = [conn EXCEPT ![Current] = "closed"]
    /\ clients' = RemoveAt(clients, at)
    /\ mustDelete' = mustDelete \ {Current}
    /\ UNCHANGED <<ready, pktQueue, phase, at, rfds, newconn,
                   hungup, toServer, messages, got, unread, stream, from>>

KeepClient ==
    /\ phase = "remove" /\ at <= Len(clients) /\ Current \notin mustDelete
    /\ Advance
    /\ UNCHANGED <<ready, clients, mustDelete, pktQueue, phase, rfds, newconn,
                   netVars, stream, from>>

\* run() returns.
EndRemove ==
    /\ phase = "remove" /\ at > Len(clients)
    /\ phase' = "out" /\ at' = 1
    /\ UNCHANGED <<ready, clients, mustDelete, pktQueue, rfds, newconn,
                   netVars, stream, from>>

Run ==
    \/ Select \/ NoNew \/ \E p \in Peer : AcceptNew(p)
    \/ \E k \in 1 .. BUFSZ : Recv(k)
    \/ RecvFails \/ NotReadable \/ EndRecv
    \/ Send \/ SendFails \/ SendKills \/ SkipClient \/ PopChunk \/ EndSend
    \/ RemoveClosed \/ KeepClient \/ EndRemove

Next ==
    \/ StartServer \/ Shutdown \/ Run
    \/ \E p \in Peer : Connect(p) \/ SendMessage(p) \/ Read(p) \/ HangUp(p)

Spec == Init /\ [][Next]_vars

\* The server is started and runs until it is stopped; a client reads what
\* reaches it.
Fairness ==
    /\ WF_vars(StartServer) /\ WF_vars(Run)
    /\ \A p \in Peer : WF_vars(Read(p))

FairSpec == Spec /\ Fairness
-----------------------------------------------------------------------------
\* The server is the one ordered stream the key exchange relies on: all
\* clients get the same units in the same order, each from where it was
\* accepted and without a gap, until it is removed (run()).
OB == INSTANCE OrderedBroadcast WITH
    Member <- Peer,
    attached <- ToSet(clients),
    pieces <- got

ImplementsBroadcast == OB!Spec

\* When run() returns every registered client has been sent everything: no
\* client joins or leaves with a chunk half distributed.
CaughtUp == TypeOK /\ (phase = "out" => \A p \in ToSet(clients) :
    from[p] + Len(got[p]) = Len(stream))

\* Every client that is not marked has been sent all that comes before the
\* first chunk of pktQueue, and that chunk too when the loop of the sends has
\* passed it; the chunks are consecutive pieces of the stream, up to its end.
Passed(i) == phase = "send" /\ pktQueue # <<>> /\ i < at
Reached(p) == from[p] + Len(got[p])

Cuts(cuts) ==
    /\ cuts[Len(pktQueue) + 1] = Len(stream)
    /\ \A i \in 1 .. Len(pktQueue) :
          cuts[i] < cuts[i + 1] /\ pktQueue[i] = SubSeq(stream, cuts[i] + 1, cuts[i + 1])

Account(cuts) == \A i \in 1 .. Len(clients) :
    clients[i] \notin mustDelete =>
        Reached(clients[i]) = IF Passed(i) THEN cuts[2] ELSE cuts[1]

Accounted == \E cuts \in [1 .. Len(pktQueue) + 1 -> 0 .. Len(stream)] :
    Cuts(cuts) /\ Account(cuts)

\* What a client got is a piece of the stream, also when it has been marked.
Pieces == \A p \in Peer : conn[p] = "open" =>
    /\ Reached(p) <= Len(stream)
    /\ got[p] = SubSeq(stream, from[p] + 1, Reached(p))

Fresh == \A p \in Peer : conn[p] \in {"none", "backlog"} => got[p] = <<>>

\* What each loop of run() leaves to the next one.
Settled ==
    /\ phase \in {"out", "accept"} => mustDelete = {} /\ at = 1
    /\ phase \in {"out", "accept", "remove", "killed"} => pktQueue = <<>>
    /\ phase = "remove" => \A i \in 1 .. at - 1 : clients[i] \notin mustDelete

\* The inductive invariant (run(), the order of its loops).
IInv == TypeOK /\ Fresh /\ Settled /\ Pieces /\ Accounted

\* While the server runs, what a client sent reaches the stream and with it
\* every client that stays, run() after run() (select, recv, send).  The only
\* ways out are that this client closes its end, that the program stops the
\* server, or that the closed end of another client kills it (SendKills).
Relayed == \A p \in Peer :
    (ready /\ conn[p] = "open" /\ toServer[p] # <<>>) ~>
        (toServer[p] = <<>> \/ p \in hungup \/ ~ ready)
Served == \A p \in Peer :
    (ready /\ conn[p] = "open" /\ from[p] + Len(got[p]) < Len(stream)) ~>
        (from[p] + Len(got[p]) = Len(stream) \/ p \in hungup \/ ~ ready)
EventuallyServed == Relayed /\ Served
=============================================================================
