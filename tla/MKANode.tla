------------------------------ MODULE MKANode ------------------------------
(***************************************************************************)
(* MKAKeyExchange (crypto/mka.h): the state of the key exchange of every   *)
(* node and the operations on it, without a transport.  The modules that   *)
(* extend this one say where the packet passed to CryptoUpdate comes from  *)
(* and what becomes of out[n], the packets PKTWrapper::write was given.    *)
(*                                                                         *)
(* The body of the loop in update() is one step here: it touches only the  *)
(* node's own state, and what it writes leaves the node no earlier than    *)
(* the next PKTWrapper::update().                                          *)
(***************************************************************************)
EXTENDS MKAMath, Sequences

CONSTANTS
    NoCtx,      \* a context that mka_free released, or never set up
    NoKey,      \* the zeroed key buffer
    CanFail     \* whether a call of the crypto library may fail

ASSUME NoValueAssumption == NoCtx \notin Context /\ NoKey \notin Point

VARIABLES
    status,     \* _status
    nodes,      \* _nodes, the participants; {} until init() is called
    step,       \* _current_step
    remote,     \* _remote_users with _remote_keys: sender -> its point
    deferred,   \* _next_step_values
    ctx,        \* _ctx
    key,        \* _keyBuffer
    out         \* packets written and not yet on the network

mkaVars == <<status, nodes, step, remote, deferred, ctx, key, out>>

Status == {"OFFLINE", "ERROR", "RUNNING", "COMPLETED"}
MKAPacket == [cmd : {"MKA"}, src : Node, step : Nat, key : Point]
OtherPacket == [cmd : {"THATSME"}, src : Node]
Packet == MKAPacket \union OtherPacket

NoPoints == [j \in {} |-> 0]

MKATypeOK ==
    /\ status \in [Node -> Status]
    /\ nodes \in [Node -> SUBSET Node]
    /\ step \in [Node -> 0 .. Cardinality(Node) - 1]
    /\ DOMAIN remote = Node
    /\ \A n \in Node : /\ DOMAIN remote[n] \subseteq Node \ {n}
                       /\ \A j \in DOMAIN remote[n] : remote[n][j] \in Point
    /\ deferred \in [Node -> Seq(MKAPacket)]
    /\ ctx \in [Node -> Context \union {NoCtx}]
    /\ key \in [Node -> Point \union {NoKey}]
    /\ out \in [Node -> Seq(Packet)]

MKAInit ==
    /\ status = [n \in Node |-> "OFFLINE"]
    /\ nodes = [n \in Node |-> {}]
    /\ step = [n \in Node |-> 0]
    /\ remote = [n \in Node |-> NoPoints]
    /\ deferred = [n \in Node |-> <<>>]
    /\ ctx = [n \in Node |-> NoCtx]
    /\ key = [n \in Node |-> NoKey]
    /\ out = [n \in Node |-> <<>>]
-----------------------------------------------------------------------------
Write(n, packet) == out' = [out EXCEPT ![n] = Append(@, packet)]

\* _crypto_broadcast: publish the point of context c for step s.
CryptoBroadcast(n, s, c) ==
    /\ ctx' = [ctx EXCEPT ![n] = c]
    /\ Write(n, [cmd |-> "MKA", src |-> n, step |-> s, key |-> c.k])

\* init() starts the exchange among the set S and publishes the first point.
InitKey(n, S) ==
    /\ status[n] = "OFFLINE"
    /\ Cardinality(S) \in 2 .. 255
    /\ status' = [status EXCEPT ![n] = "RUNNING"]
    /\ nodes' = [nodes EXCEPT ![n] = S]
    /\ remote' = [remote EXCEPT ![n] = NoPoints]
    /\ step' = [step EXCEPT ![n] = 0]
    /\ CryptoBroadcast(n, 0, MakeBroadval(n, SetPart(n)))
    /\ UNCHANGED <<deferred, key>>

\* init() fails: no random generator, mka_init, mka_set_part or the first
\* broadcast.  Nothing is sent and the context, if any, is released.
InitKeyFails(n, S) ==
    /\ CanFail
    /\ status[n] = "OFFLINE"
    /\ Cardinality(S) \in 2 .. 255
    /\ status' = [status EXCEPT ![n] = "ERROR"]
    /\ nodes' = [nodes EXCEPT ![n] = S]
    /\ UNCHANGED <<step, remote, deferred, ctx, key, out>>

\* shutdown(): release a live context, wipe the key, back to OFFLINE.
ShutdownKey(n) ==
    /\ status' = [status EXCEPT ![n] = "OFFLINE"]
    /\ ctx' = [ctx EXCEPT ![n] = NoCtx]
    /\ key' = [key EXCEPT ![n] = NoKey]
    /\ UNCHANGED <<nodes, step, remote, deferred, out>>
-----------------------------------------------------------------------------
\* The packets update() reads and drops.
Ignored(n, packet) == packet.cmd # "MKA" \/ packet.src \notin nodes[n]

Rounds(n) == Cardinality(nodes[n]) - 1

\* The step that ends is the last one (_current_step after its increment).
LastStep(n) == step[n] + 1 = Rounds(n)

\* _remote_users with one more sender.
WithPoint(points, j, x) ==
    [m \in DOMAIN points \union {j} |-> IF m = j THEN x ELSE points[m]]

\* Variant: the step of the packet is not compared.
StoredOfAnyStep(n, packet) ==
    IF packet.src \notin DOMAIN remote[n]
    THEN WithPoint(remote[n], packet.src, packet.key)
    ELSE remote[n]

\* _remote_users and _remote_keys once the packet is looked at: the first
\* point of a sender for the current step is kept.
Stored(n, packet) ==
    IF packet.step = step[n] /\ packet.src \notin DOMAIN remote[n]
    THEN WithPoint(remote[n], packet.src, packet.key)
    ELSE remote[n]

\* Variant: packets of the current step are postponed too.
PostponedTooEarly(n, packet) ==
    IF packet.step \in {step[n], step[n] + 1} THEN Append(deferred[n], packet)
                                              ELSE deferred[n]

\* _next_step_values once the packet is looked at.
Postponed(n, packet) ==
    IF packet.step = step[n] + 1 THEN Append(deferred[n], packet)
                                 ELSE deferred[n]

\* Variants: one point too few, and a count that takes in the node itself.
RoundFullTooEarly(n, packet) ==
    Cardinality(DOMAIN Stored(n, packet)) >= Rounds(n) - 1
RoundFullWithSelf(n, packet) ==
    Cardinality(DOMAIN Stored(n, packet)) = Rounds(n) + 1

\* "Just received all keys".
RoundFull(n, packet) == Cardinality(DOMAIN Stored(n, packet)) = Rounds(n)

Accumulated(n, packet) ==
    AccBroadval(ctx[n], Stored(n, packet), Cardinality(nodes[n]))

\* The points the next step starts with: one for every postponed packet of
\* that step.  The code copies the key of the packet it is processing
\* (mka->key), not the key that was postponed.
Replayed(n, packet) ==
    LET queue == Postponed(n, packet)
        ready == {i \in DOMAIN queue : queue[i].step = step[n] + 1}
    IN  [j \in {queue[i].src : i \in ready} |-> packet.key]

\* The packet does not fill the current step.
Collect(n, packet) ==
    /\ ~ RoundFull(n, packet)
    /\ remote' = [remote EXCEPT ![n] = Stored(n, packet)]
    /\ deferred' = [deferred EXCEPT ![n] = Postponed(n, packet)]
    /\ UNCHANGED <<status, nodes, step, ctx, key, out>>

\* The packet fills a step that is not the last: accumulate, publish the
\* point of the next step, then look at the postponed packets.
NextRound(n, packet) ==
    /\ RoundFull(n, packet)
    /\ ~ LastStep(n)
    /\ step' = [step EXCEPT ![n] = @ + 1]
    /\ CryptoBroadcast(n, step[n] + 1, MakeBroadval(n, Accumulated(n, packet)))
    /\ remote' = [remote EXCEPT ![n] = Replayed(n, packet)]
    /\ deferred' = [deferred EXCEPT ![n] = <<>>]
    /\ UNCHANGED <<status, nodes, key>>

\* The packet fills the last step: accumulate; the loop ends and update()
\* computes the key.
LastRound(n, packet) ==
    /\ RoundFull(n, packet)
    /\ LastStep(n)
    /\ RoundsCompleted(Accumulated(n, packet), Cardinality(nodes[n]))
    /\ step' = [step EXCEPT ![n] = @ + 1]
    /\ ctx' = [ctx EXCEPT ![n] = Accumulated(n, packet)]
    /\ key' = [key EXCEPT ![n] = ComputeKey(n, Accumulated(n, packet))]
    /\ status' = [status EXCEPT ![n] = "COMPLETED"]
    /\ remote' = [remote EXCEPT ![n] = NoPoints]
    /\ deferred' = [deferred EXCEPT ![n] = Postponed(n, packet)]
    /\ UNCHANGED <<nodes, out>>

\* mka_acc_broadval fails: the context is released, nothing is published.
AccumulateFails(n, packet) ==
    /\ CanFail
    /\ RoundFull(n, packet)
    /\ status' = [status EXCEPT ![n] = "ERROR"]
    /\ ctx' = [ctx EXCEPT ![n] = NoCtx]
    /\ remote' = [remote EXCEPT ![n] = Stored(n, packet)]
    /\ deferred' = [deferred EXCEPT ![n] = Postponed(n, packet)]
    /\ UNCHANGED <<nodes, step, key, out>>

\* The points are accumulated, and then the broadcast of the next step or
\* the computation of the key fails; the key also fails when the context
\* has not done its rounds.
AdvanceFails(n, packet) ==
    /\ RoundFull(n, packet)
    /\ \/ CanFail
       \/ /\ LastStep(n)
          /\ ~ RoundsCompleted(Accumulated(n, packet), Cardinality(nodes[n]))
    /\ status' = [status EXCEPT ![n] = "ERROR"]
    /\ step' = [step EXCEPT ![n] = @ + 1]
    /\ ctx' = [ctx EXCEPT ![n] = NoCtx]
    /\ remote' = [remote EXCEPT ![n] = NoPoints]
    /\ deferred' = [deferred EXCEPT ![n] = Postponed(n, packet)]
    /\ UNCHANGED <<nodes, key, out>>

\* One turn of the loop in update() on a packet that is not ignored.
CryptoUpdate(n, packet) ==
    /\ status[n] = "RUNNING"
    /\ ~ Ignored(n, packet)
    /\ \/ Collect(n, packet)
       \/ NextRound(n, packet)
       \/ LastRound(n, packet)
       \/ AccumulateFails(n, packet)
       \/ AdvanceFails(n, packet)

\* One turn of the loop on a packet that is dropped.
Discard(n, packet) ==
    /\ status[n] = "RUNNING"
    /\ Ignored(n, packet)
    /\ UNCHANGED mkaVars
=============================================================================
