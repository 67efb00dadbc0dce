-------------------------------- MODULE GDH2 --------------------------------
(***************************************************************************)
(* GDH2KeyExchange (crypto/gdh2.h, crypto/gdh2_utils.h, sban/src/gdh2.c).  *)
(* Along the members in the order of their ids goes a growing list of      *)
(* points: the product of all secrets so far (the cardinal value) and the  *)
(* products that leave one of them out.  The last member has the key and   *)
(* broadcasts the list to the others, each of which multiplies its own     *)
(* secret into the product that leaves it out.                             *)
(***************************************************************************)
EXTENDS ExchangeHost

IsFirst(n) == n = Min(Node)
IsLast(n) == n = Max(Node)

\* No member keeps anything but its secret between packets.
Mem(n) == {"ready"}

Start(n) ==
    \/ /\ IsFirst(n)
       /\ Begin(n, "ready", <<ToOne("NODE_VAL", n, Following(n), <<Secret[n]>>)>>)
    \/ /\ ~ IsFirst(n)
       /\ Begin(n, "ready", <<>>)
    \/ BeginFails(n)

Times(n, x) == (Secret[n] * x) % P

\* gdh2_make_val: the list that member n makes of the one it received.  The
\* first point is the cardinal value; the last member keeps its product.
MakeVal(n, points) ==
    LET terms == IF Position(n) = 2 THEN 1 ELSE Position(n)
        others == [i \in 1 .. terms - 1 |-> Times(n, points[i + 1])]
    IN  (IF IsLast(n) THEN <<>> ELSE <<Times(n, points[1]), points[1]>>)
        \o others
        \o (IF Position(n) = 2 THEN <<Secret[n]>> ELSE <<>>)

\* gdh2_compute_key: the list holds the product without member N - 1 first
\* and the product without member 1 last.
ComputeKey(n, points) == Times(n, points[N - Position(n)])

\* SimpleNodeBehavior and LastNodeBehavior: the list from the one before.
Extends(n, packet) ==
    /\ ~ IsFirst(n)
    /\ packet.cmd = "NODE_VAL" /\ packet.src = Prev(n)
    /\ LET points == MakeVal(n, packet.val)
       IN  \/ /\ ~ IsLast(n)
              /\ GoesOn(n, "ready", <<ToOne("NODE_VAL", n, Following(n), points)>>)
           \/ /\ IsLast(n)
              /\ Completes(n, "ready", <<ToAll("LAST_VAL", n, points)>>,
                           Times(n, packet.val[1]))
           \/ Fails(n)

\* FirstNodeBehavior and SimpleNodeBehavior: the list of the last one.
Takes(n, packet) ==
    /\ ~ IsLast(n)
    /\ packet.cmd = "LAST_VAL" /\ packet.src = Max(Node)
    /\ Completes(n, "ready", <<>>, ComputeKey(n, packet.val)) \/ Fails(n)

\* No other packets are sent to a member.
Receive(n) == \E i \in DOMAIN log :
    /\ phase[n] = "running"
    /\ Reads(n, i)
    /\ Extends(n, log[i]) \/ Takes(n, log[i])

TheKey == FoldFunction(LAMBDA x, y : (x * y) % P, 1, Secret)
=============================================================================
