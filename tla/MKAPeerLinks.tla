--------------------------- MODULE MKAPeerLinks ---------------------------
(***************************************************************************)
(* The key exchange over a backend that keeps the order of each sender's   *)
(* packets and no order between senders: one link per pair of nodes.  The  *)
(* Backend interface (backend/backend.h) asks for no more.  The backends   *)
(* the library has, a server or a bus, order all packets, see MKA.         *)
(***************************************************************************)
EXTENDS MKANode

VARIABLE link       \* link[j][n]: packets of j on their way to n

vars == <<mkaVars, link>>

Init ==
    /\ MKAInit
    /\ link = [j \in Node |-> [n \in Node \ {j} |-> <<>>]]

Start(n) ==
    /\ nodes[n] = {}
    /\ InitKey(n, Node)
    /\ UNCHANGED link

Relay(j) ==
    /\ out[j] # <<>>
    /\ link' = [link EXCEPT ![j] = [n \in DOMAIN @ |-> Append(@[n], Head(out[j]))]]
    /\ out' = [out EXCEPT ![j] = Tail(@)]
    /\ UNCHANGED <<status, nodes, step, remote, deferred, ctx, key>>

Receive(n, j) ==
    /\ link[j][n] # <<>>
    /\ link' = [link EXCEPT ![j][n] = Tail(@)]
    /\ CryptoUpdate(n, Head(link[j][n]))

Next == \E n \in Node :
    \/ Start(n)
    \/ Relay(n)
    \/ \E j \in Node \ {n} : Receive(n, j)

Spec == Init /\ [][Next]_vars

\* All nodes that completed hold the same key.  mka.h keeps the points that
\* arrive a step early ("Temporary storage for keys used in the next step")
\* so that this holds when a fast peer overtakes a slow one.
KeyAgreement == \A m, n \in Node :
    status[m] = "COMPLETED" /\ status[n] = "COMPLETED" => key[m] = key[n]
-----------------------------------------------------------------------------
\* The secrets of the instance TLC checks.
MCSecret == [n \in Node |-> 2 * n + 1]
===========================================================================
