------------------------------- MODULE SKNX -------------------------------
(***************************************************************************)
(* ClientSmoke::init on every client of a group: an SKNX object (knx.h)    *)
(* that finds the group with DummyNodeCounter (nodecounter/dummy.h), runs  *)
(* the key exchange of MKANode, and sends and receives through PKTWrapper  *)
(* (pktwrapper.h) over a TCP connection to the server.                     *)
(*                                                                         *)
(* A packet goes from out[n] (PKTWrapper::_out) to wire[n] (the stream to  *)
(* the server) to net[m] (the stream from the server to m) to pktIn[m]     *)
(* (PKTWrapper::_in).  SKNX::update() is Pump followed by what _status     *)
(* selects; only Pump touches what other nodes can see.                    *)
(*                                                                         *)
(* The last four variables are history, for the handshake alone: the       *)
(* packets the server has relayed (log), how far each node has read or     *)
(* dropped them (pos), those a node has written and the server has not     *)
(* relayed (owed), and the places in log of the packets on their way to a  *)
(* node, from the first of pktIn[n] to the last of net[n] (places).        *)
(***************************************************************************)
EXTENDS MKANode, FiniteSetsExt

CONSTANTS
    AnnouncePeriod,     \* updates from one THATSME to the next (8)
    GraceLoops,         \* updates from the last node found to COMPLETED (64)
    MaxQueue,           \* bound on the packets of one stream
    Timed,              \* whether the speeds of the nodes are bounded
    MaxRate             \* if so, the updates of a node within one of any other

ASSUME CounterAssumption ==
    /\ AnnouncePeriod \in Nat \ {0} /\ GraceLoops \in Nat \ {0}
    /\ MaxQueue \in Nat \ {0} /\ MaxRate \in Nat \ {0}
    /\ Timed \in BOOLEAN

VARIABLES
    skStatus,   \* SKNX::_status
    counter,    \* DummyNodeCounter: _status, _nodes, _cnt, _update_loops_remaining
    pktIn,      \* PKTWrapper::_in
    busy,       \* whether the node is inside SKNX::update(), past Pump
    wire, net,
    joined,     \* the clients that are connected
    accepted,   \* those the server has accepted
    did,        \* updates of each node since the last tick
    log, pos, owed, places

skVars == <<skStatus, counter, pktIn, busy>>
netVars == <<wire, net, joined, accepted>>
history == <<log, pos, owed, places>>
vars == <<mkaVars, skVars, netVars, did, history>>

SKNXStatus == {"OFFLINE", "COUNTING", "HANDSHAKING", "FINALIZING", "ONLINE"}
Counter == [status : {"OFFLINE", "COUNTING", "COMPLETED"}, nodes : SUBSET Node,
            cnt : 0 .. AnnouncePeriod - 1, loops : 0 .. GraceLoops]

TypeOK ==
    /\ MKATypeOK
    /\ skStatus \in [Node -> SKNXStatus]
    /\ counter \in [Node -> Counter]
    /\ busy \in [Node -> BOOLEAN]
    /\ joined \subseteq Node /\ accepted \subseteq joined
    /\ did \in [Node -> 0 .. MaxRate]
    /\ log \in Seq(MKAPacket)
    /\ pos \in [Node -> 0 .. Len(log)]
    /\ owed \in [Node -> Seq(MKAPacket)]
    /\ places \in [Node -> Seq(Nat)]
    /\ \A n \in Node : /\ {pktIn[n], wire[n], net[n]} \subseteq Seq(Packet)
                       /\ Len(wire[n]) <= MaxQueue /\ Len(net[n]) <= MaxQueue

Init ==
    /\ MKAInit
    /\ skStatus = [n \in Node |-> "OFFLINE"]
    /\ counter = [n \in Node |-> [status |-> "OFFLINE", nodes |-> {}, cnt |-> 0, loops |-> 0]]
    /\ pktIn = [n \in Node |-> <<>>]
    /\ busy = [n \in Node |-> FALSE]
    /\ wire = [n \in Node |-> <<>>]
    /\ net = [n \in Node |-> <<>>]
    /\ joined = {}
    /\ accepted = {}
    /\ did = [n \in Node |-> 0]
    /\ log = <<>>
    /\ pos = [n \in Node |-> 0]
    /\ owed = [n \in Node |-> <<>>]
    /\ places = [n \in Node |-> <<>>]

\* The clients that are still in the loop of ClientSmoke::init.
Active(n) == n \in joined /\ skStatus[n] \notin {"OFFLINE", "ONLINE"}
-----------------------------------------------------------------------------
\* ClientSmoke::init connects and SKNX::init starts the counter.
Join(n) ==
    /\ n \notin joined
    /\ joined' = joined \union {n}
    /\ skStatus' = [skStatus EXCEPT ![n] = "COUNTING"]
    /\ counter' = [counter EXCEPT ![n].status = "COUNTING", ![n].nodes = {n}]
    /\ UNCHANGED <<mkaVars, pktIn, busy, wire, net, accepted, did, history>>

Accept(n) ==
    /\ n \in joined \ accepted
    /\ accepted' = accepted \union {n}
    /\ UNCHANGED <<mkaVars, skVars, wire, net, joined, did, history>>

\* The server sends a packet to every client it has accepted.  A client
\* outside its loop no longer reads through this SKNX; PKTWrapper skips the
\* node's own telegrams.
Readers(n) == {m \in accepted \ {n} : Active(m)}

\* The queues of the readers of n with one more entry.
Sent(n, queue, entry) ==
    [m \in Node |-> IF m \in Readers(n) THEN Append(queue[m], entry) ELSE queue[m]]

Relay(n) ==
    /\ n \in accepted /\ wire[n] # <<>>
    /\ \A m \in Readers(n) : Len(net[m]) < MaxQueue
    /\ wire' = [wire EXCEPT ![n] = Tail(@)]
    /\ net' = Sent(n, net, Head(wire[n]))
    /\ IF Head(wire[n]).cmd = "MKA"
       THEN /\ log' = Append(log, Head(wire[n]))
            /\ owed' = [owed EXCEPT ![n] = Tail(@)]
            /\ places' = Sent(n, places, Len(log) + 1)
       ELSE /\ places' = Sent(n, places, 0)
            /\ UNCHANGED <<log, owed>>
    /\ UNCHANGED <<mkaVars, skVars, joined, accepted, did, pos>>

\* In a timed run the server and the network are faster than the sleep of
\* 50 ms between two updates, and in every tick each active node does at
\* least one and at most MaxRate updates.
NetworkQuiet == \A n \in joined : n \in accepted /\ wire[n] = <<>>
InTime(n) == Timed => NetworkQuiet /\ did[n] < MaxRate

Tick ==
    /\ Timed /\ NetworkQuiet
    /\ \A n \in Node : ~ busy[n] /\ (Active(n) => did[n] > 0)
    /\ did # [n \in Node |-> 0]
    /\ did' = [n \in Node |-> 0]
    /\ UNCHANGED <<mkaVars, skVars, netVars, history>>
-----------------------------------------------------------------------------
\* Variant: nothing is sent any more once the key is computed.
ToSendWhileRunning(n) == IF status[n] = "COMPLETED" THEN <<>> ELSE out[n]

\* PKTWrapper::update() sends all of _out.
ToSend(n) == out[n]

\* SKNX::update() starts with PKTWrapper::update(): everything in _out is
\* sent, and what has arrived is recomposed.  One recv() of 128 bytes may
\* leave something for the next update(); that is as if the server had
\* relayed it later, so here all of net[n] is taken.
Pump(n) ==
    /\ Active(n) /\ ~ busy[n] /\ InTime(n)
    /\ Len(wire[n]) + Len(ToSend(n)) <= MaxQueue
    /\ wire' = [wire EXCEPT ![n] = @ \o ToSend(n)]
    /\ out' = [out EXCEPT ![n] = SubSeq(@, Len(ToSend(n)) + 1, Len(@))]
    /\ pktIn' = [pktIn EXCEPT ![n] = @ \o net[n]]
    /\ net' = [net EXCEPT ![n] = <<>>]
    /\ busy' = [busy EXCEPT ![n] = TRUE]
    /\ did' = IF Timed THEN [did EXCEPT ![n] = @ + 1] ELSE did
    /\ UNCHANGED <<status, nodes, step, remote, deferred, ctx, key,
                   skStatus, counter, joined, accepted, history>>

\* The first k packets of _in are taken.
Take(n, k) ==
    /\ pktIn' = [pktIn EXCEPT ![n] = SubSeq(@, k + 1, Len(@))]
    /\ places' = [places EXCEPT ![n] = SubSeq(@, k + 1, Len(@))]
    /\ pos' = [pos EXCEPT ![n] = Max({@} \union {places[n][i] : i \in 1 .. k})]
    /\ UNCHANGED log

\* What n has written of the handshake, if anything, is owed to the others.
Owes(n) ==
    owed' = IF out' = out THEN owed
                          ELSE [owed EXCEPT ![n] = Append(@, out'[n][Len(out'[n])])]

EndUpdate(n) == busy' = [busy EXCEPT ![n] = FALSE]

\* The nodes known after k packets are read.
FoundIn(n, k) == counter[n].nodes \union
    {pktIn[n][i].src : i \in {j \in 1 .. k : pktIn[n][j].cmd = "THATSME"}}

Complete(S) == Cardinality(S) = Cardinality(Node)

\* Variant: the loop goes on reading when all nodes are known.
ReadByCounterAll(n) == Len(pktIn[n])

\* The packets DummyNodeCounter::update reads: all, or those up to the one
\* that shows the last node.
ReadByCounter(n) ==
    CHOOSE k \in 0 .. Len(pktIn[n]) :
        /\ Complete(FoundIn(n, k)) \/ k = Len(pktIn[n])
        /\ \A j \in 0 .. k - 1 : ~ Complete(FoundIn(n, j))

\* Variant: completed as soon as all nodes are known.
CountDownAtOnce(c, found) == IF Complete(found) THEN [c EXCEPT !.status = "COMPLETED"] ELSE c

\* The countdown once all nodes are known.
CountDown(c, found) ==
    CASE c.loops = 1 -> [c EXCEPT !.loops = 0, !.status = "COMPLETED"]
      [] c.loops > 1 -> [c EXCEPT !.loops = @ - 1]
      [] OTHER       -> IF Complete(found) THEN [c EXCEPT !.loops = GraceLoops] ELSE c

\* DummyNodeCounter::update() under SKNX::_update_counter().
Count(n) ==
    /\ busy[n] /\ skStatus[n] = "COUNTING" /\ counter[n].status = "COUNTING"
    /\ LET k     == ReadByCounter(n)
           found == FoundIn(n, k)
           c     == [counter[n] EXCEPT !.cnt = (@ + 1) % AnnouncePeriod, !.nodes = found]
       IN  /\ Take(n, k)
           /\ counter' = [counter EXCEPT ![n] = CountDown(c, found)]
    /\ IF counter[n].cnt = 0 THEN Write(n, [cmd |-> "THATSME", src |-> n])
                             ELSE UNCHANGED out
    /\ EndUpdate(n)
    /\ UNCHANGED <<status, nodes, step, remote, deferred, ctx, key,
                   skStatus, netVars, did, owed>>

\* _update_counter() with the counter completed: the key exchange starts.
StartKey(n) ==
    /\ busy[n] /\ skStatus[n] = "COUNTING" /\ counter[n].status = "COMPLETED"
    /\ counter' = [counter EXCEPT ![n].status = "OFFLINE"]
    /\ \/ /\ InitKey(n, counter[n].nodes)
          /\ skStatus' = [skStatus EXCEPT ![n] = "HANDSHAKING"]
       \/ /\ InitKeyFails(n, counter[n].nodes)
          /\ skStatus' = [skStatus EXCEPT ![n] = "OFFLINE"]
    /\ Owes(n)
    /\ EndUpdate(n)
    /\ UNCHANGED <<pktIn, netVars, did, log, pos, places>>

\* The loop of MKAKeyExchange::update() under _update_handshaking().  The
\* turn that computes the key is the last of its update().
HandshakeTurn(n) ==
    /\ busy[n] /\ skStatus[n] = "HANDSHAKING"
    /\ pktIn[n] # <<>>
    /\ CryptoUpdate(n, Head(pktIn[n])) \/ Discard(n, Head(pktIn[n]))
    /\ Take(n, 1)
    /\ Owes(n)
    /\ busy' = [busy EXCEPT ![n] = status'[n] # "COMPLETED"]
    /\ UNCHANGED <<skStatus, counter, netVars, did>>

\* update() returns true, the exchange goes on.
EndHandshake(n) ==
    /\ busy[n] /\ skStatus[n] = "HANDSHAKING"
    /\ status[n] = "RUNNING" /\ pktIn[n] = <<>>
    /\ EndUpdate(n)
    /\ UNCHANGED <<mkaVars, skStatus, counter, pktIn, netVars, did, history>>

\* update() returns false: the exchange is shut down.
HandshakeFails(n) ==
    /\ busy[n] /\ skStatus[n] = "HANDSHAKING"
    /\ status[n] = "ERROR"
    /\ skStatus' = [skStatus EXCEPT ![n] = "OFFLINE"]
    /\ ShutdownKey(n)
    /\ EndUpdate(n)
    /\ UNCHANGED <<counter, pktIn, netVars, did, history>>

\* The next update() finds the exchange completed.
Finish(n) ==
    /\ busy[n] /\ skStatus[n] = "HANDSHAKING"
    /\ status[n] = "COMPLETED"
    /\ skStatus' = [skStatus EXCEPT ![n] = "FINALIZING"]
    /\ EndUpdate(n)
    /\ UNCHANGED <<mkaVars, counter, pktIn, netVars, did, history>>

\* SKNX_FINALIZING: LinuxTCP::must_update() is always false.
GoOnline(n) ==
    /\ busy[n] /\ skStatus[n] = "FINALIZING"
    /\ skStatus' = [skStatus EXCEPT ![n] = "ONLINE"]
    /\ EndUpdate(n)
    /\ UNCHANGED <<mkaVars, counter, pktIn, netVars, did, history>>

Update(n) ==
    \/ Pump(n) \/ Count(n) \/ StartKey(n)
    \/ HandshakeTurn(n) \/ EndHandshake(n) \/ HandshakeFails(n)
    \/ Finish(n) \/ GoOnline(n)

Next ==
    \/ Tick
    \/ \E n \in Node : Join(n) \/ Accept(n) \/ Relay(n) \/ Update(n)

Spec == Init /\ [][Next]_vars

\* Every client is started and runs the loop of ClientSmoke::init, the
\* server runs forever, and TCP delivers what is sent.
Fairness ==
    /\ WF_vars(Tick)
    /\ \A n \in Node :
          /\ WF_vars(Join(n)) /\ WF_vars(Accept(n)) /\ WF_vars(Relay(n))
          /\ WF_vars(Update(n))

FairSpec == Spec /\ Fairness
-----------------------------------------------------------------------------
\* The key a client leaves init() with is the key of the whole group
\* (SKNX::getKey hands it out when ONLINE).
OnlineAgreement == TypeOK /\ \A n \in Node : skStatus[n] = "ONLINE" => key[n] = GroupSecret

\* A client that is online has sent all it owes to the others: its SKNX, and
\* with it the PKTWrapper and _out, is destroyed when ClientSmoke::init ends.
OnlineMeansFlushed == \A n \in Node : skStatus[n] = "ONLINE" => out[n] = <<>>

\* What makes it so (SKNX::update): the key is computed by the last turn of an
\* update(), and the next one sends _out before it finds the exchange completed.
\* From then on nothing is written.
Flushed(n) ==
    /\ skStatus[n] \in {"FINALIZING", "ONLINE"} => status[n] = "COMPLETED" /\ out[n] = <<>>
    /\ skStatus[n] = "HANDSHAKING" /\ status[n] = "COMPLETED" /\ busy[n] => out[n] = <<>>

IInv ==
    /\ status \in [Node -> Status] /\ skStatus \in [Node -> SKNXStatus]
    /\ busy \in [Node -> BOOLEAN]
    /\ DOMAIN out = Node /\ \A n \in Node : out[n] \in Seq(Range(out[n]))
    /\ \A n \in Node : Flushed(n)

-----------------------------------------------------------------------------
(***************************************************************************)
(* Why counting, handshake and network together are a run of MKA in which  *)
(* packets may be missed, at any speed of the clients.                     *)
(***************************************************************************)

\* What n has written and the server has not relayed: first announcements of
\* the counter, then packets of the handshake.
Waiting(n) == wire[n] \o out[n]
Ahead(n) == Len(Waiting(n)) - Len(owed[n])

SendInv(n) ==
    /\ Ahead(n) \in Nat
    /\ \A i \in 1 .. Ahead(n) : Waiting(n)[i] = [cmd |-> "THATSME", src |-> n]
    /\ \A i \in 1 .. Len(owed[n]) : Waiting(n)[Ahead(n) + i] = owed[n][i]
    /\ nodes[n] = {} => owed[n] = <<>>

\* What has been relayed and n has not read.
Coming(n) == pktIn[n] \o net[n]

\* Every packet on its way has the place it has in the stream, the places
\* grow, and no packet of the others after pos[n] is left out.
InPlace(n) ==
    /\ \A i \in 1 .. Len(places[n]) :
          IF Coming(n)[i].cmd = "MKA"
          THEN /\ places[n][i] \in pos[n] + 1 .. Len(log)
               /\ log[places[n][i]] = Coming(n)[i]
          ELSE places[n][i] = 0
    /\ \A i, j \in 1 .. Len(places[n]) :
          i < j /\ places[n][j] # 0 => places[n][i] < places[n][j]
    /\ \A l \in pos[n] + 1 .. Len(log) :
          log[l].src # n => \E i \in 1 .. Len(places[n]) : places[n][i] = l

HearInv(n) ==
    /\ Len(places[n]) = Len(Coming(n))
    /\ n \notin accepted => Coming(n) = <<>>
    /\ \A i \in 1 .. Len(Coming(n)) : Coming(n)[i].src \in accepted \ {n}
    /\ Active(n) /\ n \in accepted => InPlace(n)

\* Nobody is found who was not accepted, and a node completes its count, or
\* begins the exchange, only when it has found everyone.
CountInv(n) ==
    /\ n \notin joined => skStatus[n] = "OFFLINE" /\ nodes[n] = {}
    /\ skStatus[n] = "COUNTING" => nodes[n] = {}
    /\ counter[n].nodes \subseteq accepted \union {n}
    /\ n \notin accepted => counter[n].nodes \subseteq {n}
    /\ counter[n].status = "COMPLETED" \/ counter[n].loops > 0 => counter[n].nodes = Node
    /\ nodes[n] # {} => accepted = Node

GroupInv ==
    /\ skStatus \in [Node -> SKNXStatus]
    /\ counter \in [Node -> Counter]
    /\ accepted \subseteq joined /\ joined \subseteq Node
    /\ wire \in [Node -> Seq(Packet)] /\ out \in [Node -> Seq(Packet)]
    /\ pktIn \in [Node -> Seq(Packet)] /\ net \in [Node -> Seq(Packet)]
    /\ log \in Seq(MKAPacket) /\ owed \in [Node -> Seq(MKAPacket)]
    /\ pos \in [Node -> 0 .. Len(log)] /\ places \in [Node -> Seq(Nat)]
    /\ log # <<>> => accepted = Node
    /\ \A n \in Node : SendInv(n) /\ HearInv(n) /\ CountInv(n)

\* Counting, handshake and network together implement MKA without missed
\* packets: the counter never drops a packet of the handshake, and the
\* server's stream orders the packets as MKA assumes.
Exchange == INSTANCE MKA WITH
    CanMiss <- FALSE, MaxChatter <- 0, out <- owed

ImplementsMKA == Exchange!Spec

\* Every client ends up online, unless a call of the crypto library fails.
EveryoneOnline ==
    [](\A n \in Node : status[n] # "ERROR")
        => <>[](\A n \in Node : skStatus[n] = "ONLINE")
=============================================================================
