----------------------------- MODULE Exchanges -----------------------------
(***************************************************************************)
(* The other algorithms that ClientSmoke takes as its KeyAlgorithm, each   *)
(* with groups of different sizes: a behaviour is one run of one algorithm *)
(* by one group.  numClients is a template parameter too.                  *)
(***************************************************************************)
EXTENDS Integers, Sequences, FiniteSets

CONSTANTS
    Node,       \* every id
    Cases,      \* the algorithms and groups (sets of ids) to take
    P,          \* the order of the group of points
    Secret,     \* the scalar each node draws
    ChairKey,   \* the point the chair of BD2 draws in bd2_make_key
    RingPoints, \* points of a packet that fit in a ring of a receiver (15)
    NoKey, NoMem, MaxUnlucky    \* as in ExchangeHost

Point == 0 .. P - 1
Groups == {c.group : c \in Cases}

\* A packet of GDH2 holds up to as many points as there are members.  init()
\* accepts 255 members, but from 16 on that packet is larger than a ring
\* buffer and never comes out of it (Reassembly).
ASSUME ExchangesAssumption ==
    /\ IsFiniteSet(Node) /\ Node \subseteq Nat /\ P \in Nat
    /\ \A c \in Cases : c.algorithm \in {"BD1", "BD2", "GDH2"}
    /\ \A G \in Groups : G \subseteq Node /\ Cardinality(G) \in 2 .. RingPoints
    /\ Secret \in [Node -> Point \ {0}] /\ ChairKey \in Point
    /\ NoKey \notin Point /\ MaxUnlucky \in Nat

VARIABLES phase, joined, missed, mem, key, out, log, pos,
    algorithm, group    \* what runs, and among whom

vars == <<phase, joined, missed, mem, key, out, log, pos, algorithm, group>>

SecretOf(G) == [n \in G |-> Secret[n]]
Host(G) == INSTANCE ExchangeHost WITH Node <- G, Secret <- SecretOf(G)
B1(G) == INSTANCE BD1 WITH Node <- G, Secret <- SecretOf(G)
B2(G) == INSTANCE BD2 WITH Node <- G, Secret <- SecretOf(G)
GD(G) == INSTANCE GDH2 WITH Node <- G, Secret <- SecretOf(G)

\* Every variable has its type, and an exchange keeps what its own algorithm
\* keeps exactly while it exists (init and shutdown of bd1.h, bd2.h, gdh2.h).
TypeOK ==
    /\ phase \in [group -> {"counting", "running", "completed", "offline"}]
    /\ joined \subseteq group /\ missed \subseteq group
    /\ key \in [group -> Point \union {NoKey}]
    /\ pos \in [group -> 0 .. Len(log)]
    /\ \A G \in Groups, n \in Node : G = group /\ n \in G =>
          /\ mem[n] = NoMem <=> phase[n] \in {"counting", "offline"}
          /\ algorithm = "BD1" => mem[n] = NoMem \/ mem[n] \in B1(G)!Mem(n)
          /\ algorithm = "BD2" => mem[n] = NoMem \/ mem[n] \in B2(G)!Mem(n)
          /\ algorithm = "GDH2" => mem[n] = NoMem \/ mem[n] \in GD(G)!Mem(n)

Init ==
    /\ \E c \in Cases : algorithm = c.algorithm /\ group = c.group
    /\ \E G \in Groups : G = group /\ Host(G)!HostInit

Start(n) == \E G \in Groups :
    /\ G = group
    /\ \/ algorithm = "BD1" /\ B1(G)!Start(n)
       \/ algorithm = "BD2" /\ B2(G)!Start(n)
       \/ algorithm = "GDH2" /\ GD(G)!Start(n)
    /\ UNCHANGED <<algorithm, group>>

Receive(n) == \E G \in Groups :
    /\ G = group
    /\ \/ algorithm = "BD1" /\ B1(G)!Receive(n)
       \/ algorithm = "BD2" /\ B2(G)!Receive(n)
       \/ algorithm = "GDH2" /\ GD(G)!Receive(n)
    /\ UNCHANGED <<algorithm, group>>

Relay(n) == \E G \in Groups :
    G = group /\ Host(G)!Relay(n) /\ UNCHANGED <<algorithm, group>>

Miss(n) == \E G \in Groups :
    G = group /\ Host(G)!Miss(n) /\ UNCHANGED <<algorithm, group>>

Next == \E n \in group : Start(n) \/ Receive(n) \/ Relay(n) \/ Miss(n)

\* Every client calls update() in a loop, and the server runs forever.
Fairness == \A n \in Node :
    /\ WF_vars(n \in group /\ Start(n))
    /\ WF_vars(n \in group /\ Relay(n))
    /\ WF_vars(n \in group /\ Receive(n))

FairSpec == Init /\ [][Next]_vars /\ Fairness
-----------------------------------------------------------------------------
KeyOf(G) ==
    CASE algorithm = "BD1"  -> B1(G)!TheKey
      [] algorithm = "BD2"  -> B2(G)!TheKey
      [] algorithm = "GDH2" -> GD(G)!TheKey

Phase(n) ==
    CASE phase[n] = "counting"  -> "idle"
      [] phase[n] = "running"   -> "working"
      [] phase[n] = "completed" -> "done"
      [] phase[n] = "offline"   -> "failed"

\* Each algorithm is a contributory key agreement among any group: whatever
\* the order of the packets, the failures of others and the packets missed,
\* a member that completes has the one key of the group, and it completes
\* only when every member has begun (update of bd1.h, bd2.h and gdh2.h).
GK(G, k) == INSTANCE GroupKey WITH
    Node <- G, TheKey <- k, contributed <- joined, held <- key,
    phase <- [n \in G |-> Phase(n)]

ImplementsGroupKey ==
    /\ \A c \in Cases : c.algorithm \in {"BD1", "BD2", "GDH2"}
    /\ \A G \in Groups : G = group => GK(G, 0)!Init
    /\ [][\A G \in Groups : G = group => \A k \in {KeyOf(G)} :
              GK(G, k)!Next \/ UNCHANGED GK(G, k)!abstractVars]_vars
    /\ []TypeOK

\* Unless a call fails or a packet was missed, every member completes.
AllComplete ==
    [](missed = {} /\ \A n \in group : phase[n] # "offline")
        => <>[](\A n \in group : phase[n] = "completed")
=============================================================================
