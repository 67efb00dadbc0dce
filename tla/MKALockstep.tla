---------------------------- MODULE MKALockstep ----------------------------
(***************************************************************************)
(* The inductive invariant that ties every asynchronous run of the key     *)
(* exchange to the lock-step run: whatever the interleaving, the context a *)
(* node has in step s is the one it has in step s of the lock-step run.    *)
(***************************************************************************)
EXTENDS MKA, LockstepRun
-----------------------------------------------------------------------------
\* The packet node j publishes in step s of the lock-step run.
Msg(j, s) == [cmd |-> "MKA", src |-> j, step |-> s, key |-> Lockstep[s][j].k]

Msgs(j) == {Msg(j, s) : s \in 0 .. Last - 1}
KnownFrom(j) == Msgs(j) \union [cmd : {"THATSME"}, src : {j}]
Known == UNION {KnownFrom(j) : j \in Node}

\* The packet is among the first p of the sequence q.
Among(q, p, j, s) == \E i \in 1 .. p : q[i] = Msg(j, s)

Logged(j, s) == Among(log, Len(log), j, s)
Queued(j, s) == Among(out[j], Len(out[j]), j, s)
Seen(n, j, s) == Among(log, pos[n], j, s)

TypeInv ==
    /\ status \in [Node -> Status]
    /\ nodes \in [Node -> {{}, Node}]
    /\ step \in [Node -> 0 .. Last]
    /\ DOMAIN remote = Node
    /\ \A n \in Node : /\ DOMAIN remote[n] \subseteq Node
                       /\ remote[n] \in [DOMAIN remote[n] -> Point]
    /\ deferred \in [Node -> Seq(Known)]
    /\ ctx \in [Node -> Context \union {NoCtx}]
    /\ key \in [Node -> Point \union {NoKey}]
    /\ log \in Seq(Known)
    /\ out \in [Node -> Seq(Known)]
    /\ \A n \in Node : \A i \in 1 .. Len(out[n]) : out[n][i] \in KnownFrom(n)
    /\ pos \in [Node -> 0 .. Len(log)]

\* The state of each node is that of the lock-step run at its step.
NodeInv(n) ==
    /\ nodes[n] = {} => /\ status[n] = "OFFLINE"
                        /\ step[n] = 0
                        /\ deferred[n] = <<>>
                        /\ remote[n] = NoPoints
    /\ status[n] # "COMPLETED" => key[n] = NoKey
    /\ status[n] = "RUNNING" =>
          /\ nodes[n] = Node
          /\ step[n] < Last
          /\ ctx[n] = Lockstep[step[n]][n]
          /\ Cardinality(DOMAIN remote[n]) < Last
          /\ Logged(n, step[n]) \/ Queued(n, step[n])
    /\ status[n] = "COMPLETED" =>
          /\ nodes[n] = Node
          /\ step[n] = Last
          /\ key[n] = ComputeKey(n, Lockstep[Last][n])

\* What a node keeps of the others was read from the stream.
RemoteInv(n) == \A j \in DOMAIN remote[n] :
    /\ j # n
    /\ step[n] < Last
    /\ remote[n][j] = Lockstep[step[n]][j].k
    /\ Seen(n, j, step[n])

DeferredInv(n) == status[n] = "RUNNING" => \A i \in 1 .. Len(deferred[n]) :
    \E j \in Node : /\ step[n] + 1 < Last
                    /\ deferred[n][i] = Msg(j, step[n] + 1)
                    /\ Seen(n, j, step[n] + 1)

\* A node has read all the packets of the steps it left.
PastInv(n) == \A s \in 0 .. Last - 1 : \A j \in Node \ {n} :
    s < step[n] => Seen(n, j, s)

\* Each node publishes its steps once, in order, and not ahead of itself.
SentInv(n) ==
    /\ \A s \in 0 .. Last - 1 :
          Logged(n, s) \/ Queued(n, s) => s <= step[n] /\ nodes[n] = Node
    /\ \A i \in 1 .. Len(out[n]) : \A s \in 0 .. Last - 1 :
          out[n][i] = Msg(n, s) => ~ Logged(n, s)
    /\ \A i, k \in 1 .. Len(out[n]) : \A s \in 0 .. Last - 1 :
          out[n][i] = Msg(n, s) /\ out[n][k] = Msg(n, s) => i = k
    /\ \A i, k \in 1 .. Len(log) : \A s \in 0 .. Last - 1 :
          log[i] = Msg(n, s) /\ log[k] = Msg(n, s) => i = k

\* A packet of step s + 1 comes after the packets of step s of all nodes.
CausalLog == \A i \in 1 .. Len(log) : \A j, k \in Node : \A s \in 0 .. Last - 2 :
    log[i] = Msg(j, s + 1) => Among(log, i - 1, k, s)

CausalOut == \A n \in Node : \A i \in 1 .. Len(out[n]) : \A s \in 0 .. Last - 2 :
    out[n][i] = Msg(n, s + 1) =>
        /\ \A k \in Node \ {n} : Logged(k, s)
        /\ Logged(n, s) \/ Among(out[n], i - 1, n, s)

\* The inductive invariant.
IInv ==
    /\ TypeInv
    /\ \A n \in Node : /\ NodeInv(n) /\ RemoteInv(n) /\ DeferredInv(n)
                       /\ PastInv(n) /\ SentInv(n)
    /\ CausalLog
    /\ CausalOut
=============================================================================
