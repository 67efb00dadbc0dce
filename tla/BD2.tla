-------------------------------- MODULE BD2 --------------------------------
(***************************************************************************)
(* BD2KeyExchange (crypto/bd2.h, crypto/bd2_utils.h, sban/src/bd2.c) with  *)
(* its default LowestIdNodeChooser.  The chair draws the key of the group  *)
(* and broadcasts Z0; every other member answers with its own Z; when the  *)
(* chair has them all it sends each member X = key - K, where K is the     *)
(* secret it shares with that member alone.                                *)
(***************************************************************************)
EXTENDS ExchangeHost

CONSTANT ChairKey   \* the point the chair draws in bd2_make_key

Chair == Min(Node)

\* _nodes_queue of the chair, and the public value of the peer of a node.
ChairMem == [queue : Seq([id : Node, z : Point])]
NodeMem == [peer : Point \union {NoKey}]
Mem(n) == IF n = Chair THEN ChairMem ELSE NodeMem

\* ChairBehavior::init publishes Z0 and makes the key, NodeBehavior::init
\* waits.
Start(n) ==
    \/ /\ n = Chair
       /\ Begin(n, [queue |-> <<>>], <<ToAll("Z0", n, Secret[n])>>)
    \/ /\ n # Chair
       /\ Begin(n, [peer |-> NoKey], <<>>)
    \/ BeginFails(n)

\* bd2_compute_shared_point and bd2_make_val
MakeVal(z) == (ChairKey + P - ((Secret[Chair] * z) % P)) % P

\* The answers to the members in the queue, the lowest id first.
Answers(n, queue) ==
    LET order == SetToSortSeq({queue[i].id : i \in DOMAIN queue}, <)
        z(id) == queue[CHOOSE i \in DOMAIN queue : queue[i].id = id].z
    IN  [i \in DOMAIN order |-> ToOne("Xi", n, order[i], MakeVal(z(order[i])))]

\* Variant: the chair counts itself.
AllAnsweredWithSelf(queue) == Len(queue) = N

AllAnswered(queue) == Len(queue) = N - 1

\* ChairBehavior::on_recv
ChairReceives(n, packet) ==
    /\ n = Chair
    /\ IF packet.dest = {n} /\ packet.cmd = "Zi"
       THEN LET queue == Append(mem[n].queue, [id |-> packet.src, z |-> packet.val])
            IN  \/ ~ AllAnswered(queue) /\ GoesOn(n, [queue |-> queue], <<>>)
                \/ AllAnswered(queue)
                   /\ Completes(n, [queue |-> <<>>], Answers(n, queue), ChairKey)
                \/ AllAnswered(queue) /\ Fails(n)
       ELSE GoesOn(n, mem[n], <<>>)

\* NodeBehavior::on_recv
NodeReceives(n, packet) ==
    /\ n # Chair
    /\ \/ /\ packet.src = Chair /\ packet.cmd = "Z0"
          /\ \/ GoesOn(n, [peer |-> packet.val], <<ToOne("Zi", n, Chair, Secret[n])>>)
             \/ Fails(n)
       \/ /\ packet.src = Chair /\ packet.cmd = "Xi"
          /\ \/ Completes(n, mem[n], <<>>, (packet.val + Secret[n] * mem[n].peer) % P)
             \/ Fails(n)
       \/ /\ packet.src # Chair
          /\ GoesOn(n, mem[n], <<>>)

Receive(n) == \E i \in DOMAIN log :
    /\ phase[n] = "running"
    /\ Reads(n, i)
    /\ ChairReceives(n, log[i]) \/ NodeReceives(n, log[i])

TheKey == ChairKey
=============================================================================
