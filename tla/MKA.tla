-------------------------------- MODULE MKA --------------------------------
(***************************************************************************)
(* The key exchange of a group of clients joined by the server: what a     *)
(* node writes reaches the server in order (TCP), and the server sends one *)
(* and the same stream to every client (ServerSmoke::run).  The stream is  *)
(* `log'; node n has read its first pos[n] packets.                        *)
(*                                                                         *)
(* Every node runs one exchange: ClientSmoke::init builds a fresh SKNX,    *)
(* which calls init() of the key exchange once, when its counter has found *)
(* the whole group.  Until then the node reads packets and drops them (or  *)
(* the server has not accepted it and does not send them).                 *)
(***************************************************************************)
EXTENDS MKANode

CONSTANTS
    CanMiss,        \* whether a node may miss packets before its init()
    MaxChatter      \* bound on the packets of other commands

ASSUME EnvAssumption == MaxChatter \in Nat

VARIABLES
    log,            \* the packets in the order the server sends them
    pos             \* how many of them each node has read

vars == <<mkaVars, log, pos>>

TypeOK ==
    /\ MKATypeOK
    /\ log \in Seq(Packet)
    /\ pos \in [Node -> 0 .. Len(log)]

Init ==
    /\ MKAInit
    /\ log = <<>>
    /\ pos = [n \in Node |-> 0]

Counting(n) == nodes[n] = {}

Start(n) ==
    /\ Counting(n)
    /\ InitKey(n, Node) \/ InitKeyFails(n, Node)
    /\ UNCHANGED <<log, pos>>

Chatter(n) ==
    /\ Counting(n)
    /\ Cardinality({i \in DOMAIN log : log[i].cmd # "MKA"})
         + Cardinality({m \in Node : out[m] # <<>> /\ Head(out[m]).cmd # "MKA"})
       < MaxChatter
    /\ Write(n, [cmd |-> "THATSME", src |-> n])
    /\ UNCHANGED <<status, nodes, step, remote, deferred, ctx, key, log, pos>>

Relay(n) ==
    /\ out[n] # <<>>
    /\ log' = Append(log, Head(out[n]))
    /\ out' = [out EXCEPT ![n] = Tail(@)]
    /\ UNCHANGED <<status, nodes, step, remote, deferred, ctx, key, pos>>

\* The next packet node n gets is the i-th of the stream: PKTWrapper skips
\* the node's own telegrams on the way.
Reads(n, i) ==
    /\ i \in pos[n] + 1 .. Len(log)
    /\ log[i].src # n
    /\ \A k \in pos[n] + 1 .. i - 1 : log[k].src = n
    /\ pos' = [pos EXCEPT ![n] = i]
    /\ UNCHANGED log

\* Before init() an update() reads the packets of the others, up to some
\* packet of the stream, and drops them.  Those of the handshake are only
\* missed when CanMiss holds.
Miss(n) ==
    /\ Counting(n)
    /\ \E i \in pos[n] + 1 .. Len(log) :
          /\ log[i].src # n
          /\ \A k \in pos[n] + 1 .. i : log[k].src # n => CanMiss \/ log[k].cmd # "MKA"
          /\ pos' = [pos EXCEPT ![n] = i]
    /\ UNCHANGED <<mkaVars, log>>

\* One turn of the loop in update().
Receive(n) == \E i \in DOMAIN log :
    /\ Reads(n, i)
    /\ CryptoUpdate(n, log[i]) \/ Discard(n, log[i])

\* SKNX shuts an exchange down when it finds it in error.
Shutdown(n) ==
    /\ status[n] = "ERROR"
    /\ ShutdownKey(n)
    /\ UNCHANGED <<log, pos>>

Next == \E n \in Node :
    \/ Start(n) \/ Chatter(n) \/ Relay(n)
    \/ Miss(n) \/ Receive(n) \/ Shutdown(n)

Spec == Init /\ [][Next]_vars

\* Every client calls update() in a loop until the exchange has ended
\* (ClientSmoke::init), and the server runs forever (tests/server_test.cpp).
Fairness == \A n \in Node :
    /\ WF_vars(Start(n)) /\ WF_vars(Relay(n)) /\ WF_vars(Receive(n))

FairSpec == Spec /\ Fairness
-----------------------------------------------------------------------------
\* All nodes that completed the exchange hold the same key, whatever the
\* order of arrival, the failures of others and the packets they missed
\* (the point of mka_compute_key).
KeyAgreement == \A m, n \in Node :
    status[m] = "COMPLETED" /\ status[n] = "COMPLETED" => key[m] = key[n]

\* What a node has gathered for its current step is exactly what each sender
\* put on the network for that step, never a point of another step or sender
\* (_remote_keys is refilled in place by two different loops of mka.h).
RoundIntegrity == \A n \in Node : \A j \in DOMAIN remote[n] :
    \E i \in 1 .. pos[n] :
        log[i] = [cmd |-> "MKA", src |-> j, step |-> step[n], key |-> remote[n][j]]

\* The steps are a barrier: no node is two steps ahead of another, even of
\* one that failed or missed packets (there is room for one step of packets
\* ahead of the current one in _next_step_values, no more).
Barrier == \A m, n \in Node : step[n] <= step[m] + 1

\* Over the server's single stream a node never leaves a step with packets
\* of the next one waiting: the loop that replays _next_step_values never
\* runs on a packet.
NeverReplays == [][\A n \in Node : step'[n] # step[n] => deferred[n] = <<>>]_vars

\* The exchange is a contributory key agreement: a member completes with the
\* product of all the secrets and only after every member has published its
\* first point; one that fails keeps no key (init, update and shutdown of
\* mka.h seen through the interface of crypto.h).
Phase(n) ==
    CASE Counting(n)             -> "idle"
      [] status[n] = "RUNNING"   -> "working"
      [] status[n] = "COMPLETED" -> "done"
      [] OTHER                   -> "failed"

Contributed == {n \in Node :
    \/ \E i \in DOMAIN log : log[i].cmd = "MKA" /\ log[i].src = n
    \/ \E i \in DOMAIN out[n] : out[n][i].cmd = "MKA"}

GK == INSTANCE GroupKey WITH
    TheKey <- GroupSecret,
    phase <- [n \in Node |-> Phase(n)],
    contributed <- Contributed,
    held <- key

ImplementsGroupKey == GK!Spec

\* Nothing is ever sent twice and nobody gives up waiting: every node ends
\* with a key, unless a call fails or a node drops a packet of the exchange
\* before its init().
HasMissed(n) == Counting(n) /\ \E i \in 1 .. pos[n] :
    log[i].src # n /\ log[i].cmd = "MKA"

AllComplete ==
    [](\A n \in Node : status[n] # "ERROR" /\ ~ HasMissed(n))
        => <>[](\A n \in Node : status[n] = "COMPLETED")
=============================================================================
