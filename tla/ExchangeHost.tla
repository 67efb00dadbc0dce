---------------------------- MODULE ExchangeHost ----------------------------
(***************************************************************************)
(* What SKNX (knx.h) and the network are to a key exchange: SKNX calls     *)
(* init() once when its counter has found the group, hands it the packets  *)
(* that arrive, and shuts it down for good when init() or update() fails.  *)
(* The server's stream `log' orders all packets; node n has read its first *)
(* pos[n] ones.  The modules BD1, BD2 and GDH2 say what a node does with   *)
(* a packet.                                                               *)
(*                                                                         *)
(* One step is one turn of the loop in update(), with what update() does   *)
(* after the loop when the packet makes it possible: the rest of the loop  *)
(* only reads packets on which that does not depend.  What a failing call  *)
(* has written in the same update() is never sent, because ClientSmoke     *)
(* stops calling update().                                                 *)
(***************************************************************************)
EXTENDS Integers, SequencesExt, FiniteSetsExt, Functions

CONSTANTS
    Node,       \* the ids of the members
    P,          \* the order of the group; the point x*G is represented by x
    Secret,     \* the scalar each member draws
    NoKey,      \* a member without a key
    NoMem,      \* a member without an exchange
    MaxUnlucky  \* bounds the members of which a call to the crypto library
                \* fails, or that read packets before init() and drop them

Point == 0 .. P - 1

VARIABLES
    phase,      \* of the exchange: "counting" before init(), "running",
                \* "completed", or "offline" after a failure
    joined,     \* history: the members whose init() succeeded
    missed,     \* history: the members that missed a packet
    mem,        \* what the exchange of each member keeps
    key,        \* the key of each member once it has completed
    out,        \* packets written and not yet on the server's stream
    log,        \* the server's stream
    pos         \* how much of it each member has read

hostVars == <<phase, joined, missed, mem, key, out, log, pos>>

HostInit ==
    /\ phase = [n \in Node |-> "counting"]
    /\ joined = {} /\ missed = {}
    /\ mem = [n \in Node |-> NoMem]
    /\ key = [n \in Node |-> NoKey]
    /\ out = [n \in Node |-> <<>>]
    /\ log = <<>>
    /\ pos = [n \in Node |-> 0]

N == Cardinality(Node)

\* Whether misfortune may befall member n.
MayFail(n) ==
    LET failed == {m \in Node : phase[m] = "offline"}
    IN  Cardinality(failed \union missed \union {n}) <= MaxUnlucky

ToAll(cmd, n, val) == [cmd |-> cmd, src |-> n, dest |-> Node, val |-> val]
ToOne(cmd, n, dest, val) == [cmd |-> cmd, src |-> n, dest |-> {dest}, val |-> val]
-----------------------------------------------------------------------------
\* init() succeeds: the exchange starts with m and writes the packets.
Begin(n, m, packets) ==
    /\ phase[n] = "counting"
    /\ phase' = [phase EXCEPT ![n] = "running"]
    /\ joined' = joined \union {n}
    /\ mem' = [mem EXCEPT ![n] = m]
    /\ out' = [out EXCEPT ![n] = @ \o packets]
    /\ UNCHANGED <<missed, key, log, pos>>

BeginFails(n) ==
    /\ MayFail(n)
    /\ phase[n] = "counting"
    /\ phase' = [phase EXCEPT ![n] = "offline"]
    /\ UNCHANGED <<joined, missed, mem, key, out, log, pos>>

\* The server sends on the next packet of a member.
Relay(n) ==
    /\ out[n] # <<>>
    /\ log' = Append(log, Head(out[n]))
    /\ out' = [out EXCEPT ![n] = Tail(@)]
    /\ UNCHANGED <<phase, joined, missed, mem, key, pos>>

For(n, packet) == packet.src # n /\ n \in packet.dest

\* The next packet for member n is the i-th of the stream: PKTWrapper skips
\* its own packets and those for another member.
Reads(n, i) ==
    /\ i \in pos[n] + 1 .. Len(log)
    /\ For(n, log[i])
    /\ \A k \in pos[n] + 1 .. i - 1 : ~ For(n, log[k])
    /\ pos' = [pos EXCEPT ![n] = i]
    /\ UNCHANGED log

\* Before init() the counter reads the packets and drops them.
Miss(n) ==
    /\ MayFail(n)
    /\ phase[n] = "counting"
    /\ \E i \in DOMAIN log : Reads(n, i)
    /\ missed' = missed \union {n}
    /\ UNCHANGED <<phase, joined, mem, key, out>>

\* The three ends of a turn: the exchange goes on, it completes with key k,
\* or a call fails and SKNX shuts it down.
GoesOn(n, m, packets) ==
    /\ mem' = [mem EXCEPT ![n] = m]
    /\ out' = [out EXCEPT ![n] = @ \o packets]
    /\ UNCHANGED <<phase, joined, missed, key>>

Completes(n, m, packets, k) ==
    /\ phase' = [phase EXCEPT ![n] = "completed"]
    /\ key' = [key EXCEPT ![n] = k]
    /\ mem' = [mem EXCEPT ![n] = m]
    /\ out' = [out EXCEPT ![n] = @ \o packets]
    /\ UNCHANGED <<joined, missed>>

Fails(n) ==
    /\ MayFail(n)
    /\ phase' = [phase EXCEPT ![n] = "offline"]
    /\ mem' = [mem EXCEPT ![n] = NoMem]
    /\ UNCHANGED <<joined, missed, key, out>>
-----------------------------------------------------------------------------
\* The group seen from a member, in the order of the ids.
Smaller(n) == {m \in Node : m < n}
Larger(n) == {m \in Node : m > n}
Prev(n) == IF Smaller(n) = {} THEN Max(Node) ELSE Max(Smaller(n))
Following(n) == IF Larger(n) = {} THEN Min(Node) ELSE Min(Larger(n))
Position(n) == Cardinality(Smaller(n)) + 1
=============================================================================
