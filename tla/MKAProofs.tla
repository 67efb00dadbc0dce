----------------------------- MODULE MKAProofs -----------------------------
(***************************************************************************)
(* Proofs about MKA for every group, every order of arrival and every      *)
(* pattern of failures and missed packets.                                 *)
(***************************************************************************)
EXTENDS MKALockstep, TLAPS, FiniteSetTheorems

(***************************************************************************)
(* Facts about the constants and the packets.                              *)
(***************************************************************************)
LEMMA Sizes ==
    /\ IsFiniteSet(Node)
    /\ Size \in Nat /\ Last \in Nat /\ Size = Last + 1 /\ Last >= 1
    /\ Size \in 2 .. 255
    /\ Node # {}
<1>1. Node # {}
  BY NodeAssumption, FS_EmptySet
<1> QED
  BY <1>1, NodeAssumption DEF Size, Last

LEMMA LockstepType ==
    ASSUME NEW n \in Node, NEW s \in 0 .. Last
    PROVE  /\ Lockstep[s][n] \in Context
           /\ Lockstep[s][n].k \in Point
<1>1. Lockstep[s][n] \in Context
  BY LockstepAssumption
<1> QED
  BY <1>1 DEF Context

LEMMA MsgFields ==
    ASSUME NEW j \in Node, NEW s \in 0 .. Last - 1
    PROVE  /\ Msg(j, s) \in MKAPacket
           /\ Msg(j, s).cmd = "MKA"
           /\ Msg(j, s).src = j
           /\ Msg(j, s).step = s
           /\ Msg(j, s).key = Lockstep[s][j].k
<1>1. s \in 0 .. Last
  BY Sizes
<1>2. Lockstep[s][j].k \in Point
  BY <1>1, LockstepType
<1> QED
  BY <1>2, Sizes DEF Msg, MKAPacket

LEMMA MsgInjective ==
    ASSUME NEW j \in Node, NEW k \in Node,
           NEW s \in 0 .. Last - 1, NEW t \in 0 .. Last - 1,
           Msg(j, s) = Msg(k, t)
    PROVE  j = k /\ s = t
  BY MsgFields

LEMMA KnownPackets ==
    ASSUME NEW p \in Known
    PROVE  /\ p \in Packet
           /\ p.src \in Node
           /\ p \in KnownFrom(p.src)
           /\ p.cmd = "MKA" => /\ p.step \in 0 .. Last - 1
                               /\ p = Msg(p.src, p.step)
<1>1. PICK j \in Node : p \in KnownFrom(j)
  BY DEF Known
<1>2. CASE p \in Msgs(j)
  <2>1. PICK s \in 0 .. Last - 1 : p = Msg(j, s)
    BY <1>2 DEF Msgs
  <2> QED
    BY <2>1, <1>1, MsgFields DEF Packet
<1>3. CASE p \in [cmd : {"THATSME"}, src : {j}]
  <2>1. p.cmd = "THATSME" /\ p.src = j
    BY <1>3
  <2>2. p \in OtherPacket
    BY <1>3 DEF OtherPacket
  <2> QED
    BY <1>1, <2>1, <2>2 DEF Packet
<1> QED
  BY <1>1, <1>2, <1>3 DEF KnownFrom

LEMMA MsgKnown ==
    ASSUME NEW j \in Node, NEW s \in 0 .. Last - 1
    PROVE  Msg(j, s) \in KnownFrom(j) /\ Msg(j, s) \in Known
  BY DEF KnownFrom, Known, Msgs

(***************************************************************************)
(* What a step leaves true of the nodes and the packets it does not touch. *)
(***************************************************************************)

\* The stream only grows: what was read or logged stays so.
Grows ==
    /\ log \in Seq(Known) /\ log' \in Seq(Known)
    /\ Len(log) <= Len(log')
    /\ \A i \in 1 .. Len(log) : log'[i] = log[i]

LEMMA Monotone ==
    ASSUME Grows, NEW p \in 0 .. Len(log), NEW p2 \in Nat, p <= p2
    PROVE  \A j \in Node : \A s \in 0 .. Last :
              Among(log, p, j, s) => /\ Among(log', p2, j, s)
                                     /\ Among(log', Len(log'), j, s)
                                     /\ Among(log, Len(log), j, s)
<1>1. Len(log) \in Nat /\ Len(log') \in Nat
  BY DEF Grows
<1> QED
  BY <1>1 DEF Grows, Among

\* Node m is as it was, it has perhaps read more, and none of its packets
\* is lost on its way to the stream.
LEMMA Frame ==
    ASSUME Grows, NEW m \in Node,
           TypeInv,
           NodeInv(m), RemoteInv(m), DeferredInv(m), PastInv(m),
           nodes'[m] = nodes[m], status'[m] = status[m], step'[m] = step[m],
           remote'[m] = remote[m], deferred'[m] = deferred[m],
           ctx'[m] = ctx[m], key'[m] = key[m],
           pos'[m] \in Nat, pos[m] <= pos'[m],
           \A s \in 0 .. Last - 1 : Queued(m, s) => Logged(m, s)' \/ Queued(m, s)'
    PROVE  NodeInv(m)' /\ RemoteInv(m)' /\ DeferredInv(m)' /\ PastInv(m)'
<1>0. /\ pos[m] \in 0 .. Len(log) /\ step[m] \in 0 .. Last
      /\ Len(log) \in Nat /\ Len(log') \in Nat
  BY DEF TypeInv, Grows
<1>1. \A j \in Node : \A s \in 0 .. Last :
         /\ Logged(j, s) => Logged(j, s)'
         /\ Seen(m, j, s) => Seen(m, j, s)'
  <2>1. \A j \in Node : \A s \in 0 .. Last : Seen(m, j, s) => Seen(m, j, s)'
    BY <1>0, Monotone DEF Seen
  <2>2. Len(log) \in 0 .. Len(log) /\ Len(log) <= Len(log')
    BY <1>0 DEF Grows
  <2>3. \A j \in Node : \A s \in 0 .. Last : Logged(j, s) => Logged(j, s)'
    BY <1>0, <2>2, Monotone DEF Logged
  <2> QED
    BY <2>1, <2>3
<1>2. NodeInv(m)'
  <2>1. ASSUME status[m] = "RUNNING"
        PROVE  (Logged(m, step[m]) \/ Queued(m, step[m]))'
    <3>1. step[m] \in 0 .. Last - 1
      BY <1>0, <2>1, Sizes DEF NodeInv
    <3>2. Logged(m, step[m]) \/ Queued(m, step[m])
      BY <2>1 DEF NodeInv
    <3> QED
      BY <3>1, <3>2, <1>1, <1>0 DEF Logged, Queued
  <2> QED
    BY <2>1 DEF NodeInv
<1>3. RemoteInv(m)'
  BY <1>1, <1>0 DEF RemoteInv, Seen, TypeInv
<1>4. DeferredInv(m)'
  <2> SUFFICES ASSUME status'[m] = "RUNNING", NEW i \in 1 .. Len(deferred'[m])
               PROVE  (\E j \in Node : /\ step[m] + 1 < Last
                                       /\ deferred[m][i] = Msg(j, step[m] + 1)
                                       /\ Seen(m, j, step[m] + 1))'
    BY DEF DeferredInv
  <2>1. PICK j \in Node : /\ step[m] + 1 < Last
                          /\ deferred[m][i] = Msg(j, step[m] + 1)
                          /\ Seen(m, j, step[m] + 1)
    BY DEF DeferredInv
  <2>2. step[m] + 1 \in 0 .. Last
    BY <1>0, <2>1, Sizes
  <2> QED
    BY <1>1, <2>1, <2>2 DEF Seen
<1>5. PastInv(m)'
  BY <1>1, <1>0, Sizes DEF PastInv, Seen
<1> QED
  BY <1>2, <1>3, <1>4, <1>5

\* A node whose packets stay where they are.
LEMMA SameSent ==
    ASSUME NEW m \in Node, SentInv(m),
           log' = log, out'[m] = out[m],
           step[m] \in Nat, step'[m] \in Nat, step[m] <= step'[m],
           nodes[m] = Node => nodes'[m] = Node
    PROVE  SentInv(m)'
<1>1. \A s \in 0 .. Last - 1 : s <= step[m] => s <= step'[m]
  BY Sizes
<1>2. \A s \in 0 .. Last - 1 :
         (Logged(m, s) \/ Queued(m, s))' => s <= step'[m] /\ nodes'[m] = Node
  BY <1>1 DEF SentInv, Logged, Queued
<1> QED
  BY <1>2 DEF SentInv, Logged, Queued

\* A step that neither writes nor relays keeps what is said of the packets.
LEMMA QuietNetwork ==
    ASSUME IInv, UNCHANGED <<log, out>>,
           \A n \in Node : /\ step'[n] \in Nat /\ step[n] <= step'[n]
                           /\ nodes[n] = Node => nodes'[n] = Node
    PROVE  /\ \A n \in Node : SentInv(n)'
           /\ CausalLog'
           /\ CausalOut'
<1>1. ASSUME NEW n \in Node
      PROVE  SentInv(n)'
  <2>1. step[n] \in Nat
    BY Sizes DEF IInv, TypeInv
  <2>2. SentInv(n)
    BY DEF IInv
  <2> QED
    BY <2>1, <2>2, SameSent
<1>2. CausalLog'
  BY DEF IInv, CausalLog
<1>3. CausalOut'
  BY DEF IInv, CausalOut, Logged
<1> QED
  BY <1>1, <1>2, <1>3

(***************************************************************************)
(* Writing the packet of a step.                                           *)
(***************************************************************************)
LEMMA Publish ==
    ASSUME IInv, NEW n \in Node, NEW t \in 0 .. Last - 1,
           log' = log,
           out' = [out EXCEPT ![n] = Append(@, Msg(n, t))],
           ~ Logged(n, t), ~ Queued(n, t),
           nodes'[n] = Node, step'[n] = t, step[n] <= t,
           \A m \in Node \ {n} : step'[m] = step[m] /\ nodes'[m] = nodes[m],
           t > 0 => /\ \A k \in Node \ {n} : Logged(k, t - 1)
                    /\ Logged(n, t - 1) \/ Queued(n, t - 1)
    PROVE  /\ \A m \in Node : SentInv(m)'
           /\ CausalLog'
           /\ CausalOut'
           /\ Queued(n, t)'
           /\ \A m \in Node : \A s \in 0 .. Last - 1 : Queued(m, s) => Queued(m, s)'
           /\ out' \in [Node -> Seq(Known)]
           /\ \A m \in Node : \A i \in DOMAIN out'[m] : out'[m][i] \in KnownFrom(m)
<1> DEFINE q  == out[n]
           q2 == out'[n]
<1>1. /\ q \in Seq(Known) /\ Len(q) \in Nat
      /\ Len(log) \in Nat
      /\ DOMAIN out = Node
      /\ step \in [Node -> 0 .. Last]
  BY DEF IInv, TypeInv
<1>2. /\ Msg(n, t) \in Known
      /\ Msg(n, t) \in KnownFrom(n)
  BY MsgKnown
<1>3. /\ q2 = Append(q, Msg(n, t))
      /\ q2 \in Seq(Known)
      /\ Len(q2) = Len(q) + 1
      /\ \A i \in 1 .. Len(q) : q2[i] = q[i]
      /\ q2[Len(q) + 1] = Msg(n, t)
      /\ \A m \in Node \ {n} : out'[m] = out[m]
  BY <1>1, <1>2
<1>4. \A s \in 0 .. Last - 1 :
         Queued(n, s)' <=> Queued(n, s) \/ s = t
  <2>1. \A s \in 0 .. Last - 1 : Queued(n, s) => Queued(n, s)'
    BY <1>1, <1>3 DEF Queued, Among
  <2>2. Queued(n, t)'
    BY <1>1, <1>3 DEF Queued, Among
  <2>3. ASSUME NEW s \in 0 .. Last - 1, Queued(n, s)'
        PROVE  Queued(n, s) \/ s = t
    <3>1. PICK i \in 1 .. Len(q2) : q2[i] = Msg(n, s)
      BY <2>3 DEF Queued, Among
    <3>2. CASE i = Len(q) + 1
      BY <3>1, <3>2, <1>3, MsgInjective
    <3>3. CASE i \in 1 .. Len(q)
      BY <3>1, <3>3, <1>3 DEF Queued, Among
    <3> QED
      BY <1>1, <1>3, <3>2, <3>3
  <2> QED
    BY <2>1, <2>2, <2>3
<1>5. \A m \in Node : \A s \in 0 .. Last - 1 : /\ Logged(m, s)' <=> Logged(m, s)
                                               /\ m # n => (Queued(m, s)' <=> Queued(m, s))
  BY <1>3 DEF Logged, Queued
<1>6. ASSUME NEW m \in Node
      PROVE  SentInv(m)'
  <2>0. SentInv(m)
    BY DEF IInv
  <2>1. CASE m # n
    <3>1. out'[m] = out[m] /\ step'[m] = step[m] /\ nodes'[m] = nodes[m]
      BY <2>1, <1>3
    <3> QED
      BY <2>0, <3>1, <1>1, SameSent
  <2>2. CASE m = n
    <3>1. \A s \in 0 .. Last - 1 :
             (Logged(n, s) \/ Queued(n, s))' => s <= step'[n] /\ nodes'[n] = Node
      <4>1. \A s \in 0 .. Last - 1 : Logged(n, s) \/ Queued(n, s) => s <= t
        BY <2>0, <2>2, <1>1, Sizes DEF SentInv
      <4> QED
        BY <4>1, <1>4, <1>5, Sizes
    <3>2. \A i \in 1 .. Len(q2) : \A s \in 0 .. Last - 1 :
             q2[i] = Msg(n, s) => ~ Logged(n, s)
      <4> SUFFICES ASSUME NEW i \in 1 .. Len(q2), NEW s \in 0 .. Last - 1,
                          q2[i] = Msg(n, s)
                   PROVE  ~ Logged(n, s)
        OBVIOUS
      <4>1. CASE i = Len(q) + 1
        BY <4>1, <1>3, MsgInjective
      <4>2. CASE i \in 1 .. Len(q)
        BY <4>2, <1>3, <2>0, <2>2 DEF SentInv
      <4> QED
        BY <4>1, <4>2, <1>1, <1>3
    <3>3. \A i, k \in 1 .. Len(q2) : \A s \in 0 .. Last - 1 :
             q2[i] = Msg(n, s) /\ q2[k] = Msg(n, s) => i = k
      <4> SUFFICES ASSUME NEW i \in 1 .. Len(q2), NEW k \in 1 .. Len(q2),
                          NEW s \in 0 .. Last - 1,
                          q2[i] = Msg(n, s), q2[k] = Msg(n, s)
                   PROVE  i = k
        OBVIOUS
      <4>1. \A h \in 1 .. Len(q) : q2[h] = Msg(n, s) => s # t
        BY <1>3 DEF Queued, Among
      <4>2. CASE i = Len(q) + 1 \/ k = Len(q) + 1
        <5>1. s = t
          BY <4>2, <1>3, MsgInjective
        <5> QED
          BY <5>1, <4>1, <1>1, <1>3
      <4>3. CASE i \in 1 .. Len(q) /\ k \in 1 .. Len(q)
        BY <4>3, <1>3, <2>0, <2>2 DEF SentInv
      <4> QED
        BY <4>2, <4>3, <1>1, <1>3
    <3>4. \A i, k \in 1 .. Len(log) : \A s \in 0 .. Last - 1 :
             log[i] = Msg(n, s) /\ log[k] = Msg(n, s) => i = k
      BY <2>0, <2>2 DEF SentInv
    <3>5. SentInv(n)'
      BY <3>1, <3>2, <3>3, <3>4 DEF SentInv, Logged, Queued
    <3> QED
      BY <2>2, <3>5
  <2> QED
    BY <2>1, <2>2
<1>7. CausalLog'
  BY DEF IInv, CausalLog
<1>8. CausalOut'
  <2> SUFFICES ASSUME NEW m \in Node, NEW i \in 1 .. Len(out'[m]),
                      NEW s \in 0 .. Last - 2, out'[m][i] = Msg(m, s + 1)
               PROVE  /\ \A k \in Node \ {m} : Logged(k, s)'
                      /\ Logged(m, s)' \/ Among(out'[m], i - 1, m, s)
    BY DEF CausalOut
  <2>0. s \in 0 .. Last - 1 /\ s + 1 \in 0 .. Last - 1
    BY Sizes
  <2>1. CASE m # n
    <3>1. out'[m] = out[m]
      BY <2>1, <1>3
    <3> QED
      BY <3>1, <2>0, <1>5 DEF IInv, CausalOut
  <2>2. CASE m = n /\ i \in 1 .. Len(q)
    <3>1. out[n][i] = Msg(n, s + 1)
      BY <2>2, <1>3
    <3>2. /\ \A k \in Node \ {n} : Logged(k, s)
          /\ Logged(n, s) \/ Among(out[n], i - 1, n, s)
      BY <3>1, <2>2 DEF IInv, CausalOut
    <3>3. Among(out[n], i - 1, n, s) => Among(out'[n], i - 1, n, s)
      BY <2>2, <1>1, <1>3 DEF Among
    <3> QED
      BY <2>0, <2>2, <3>2, <3>3, <1>5
  <2>3. CASE m = n /\ i = Len(q) + 1
    <3>1. t = s + 1
      BY <2>0, <2>3, <1>3, MsgInjective
    <3>2. t > 0 /\ t - 1 = s
      BY <3>1, Sizes
    <3>3. Queued(n, s) => Among(out'[n], i - 1, n, s)
      BY <2>3, <1>1, <1>3 DEF Queued, Among
    <3> QED
      BY <2>0, <2>3, <3>2, <3>3, <1>5
  <2> QED
    BY <2>1, <2>2, <2>3, <1>1, <1>3
<1>9. out' \in [Node -> Seq(Known)]
  BY <1>1, <1>3 DEF IInv, TypeInv
<1>10. \A m \in Node : \A i \in DOMAIN out'[m] : out'[m][i] \in KnownFrom(m)
  <2>1. \A i \in DOMAIN q2 : q2[i] \in KnownFrom(n)
    BY <1>1, <1>2, <1>3 DEF IInv, TypeInv
  <2> QED
    BY <2>1, <1>3 DEF IInv, TypeInv
<1> QED
  BY <1>4, <1>5, <1>6, <1>7, <1>8, <1>9, <1>10

(***************************************************************************)
(* The server relays the oldest packet of a node.                          *)
(***************************************************************************)
LEMMA RelayKeeps ==
    ASSUME IInv, NEW n \in Node, Relay(n)
    PROVE  IInv'
<1> DEFINE q  == out[n]
           q2 == out'[n]
           p  == Head(out[n])
<1>1. /\ q \in Seq(Known) /\ q # <<>>
      /\ log \in Seq(Known)
      /\ log' = Append(log, p)
      /\ out' = [out EXCEPT ![n] = Tail(q)]
      /\ DOMAIN out = Node
      /\ UNCHANGED <<status, nodes, step, remote, deferred, ctx, key, pos>>
  BY DEF IInv, TypeInv, Relay
<1>2. /\ Len(q) \in Nat /\ Len(q) >= 1
      /\ p = q[1]
      /\ Len(q2) = Len(q) - 1
      /\ \A i \in 1 .. Len(q2) : q2[i] = q[i + 1]
      /\ q2 \in Seq(Known)
      /\ \A m \in Node \ {n} : out'[m] = out[m]
  BY <1>1
<1>3. p \in KnownFrom(n) /\ p \in Known
  <2>1. 1 \in DOMAIN q
    BY <1>1, <1>2
  <2>2. q[1] \in KnownFrom(n)
    BY <2>1 DEF IInv, TypeInv
  <2> QED
    BY <2>2, <1>2 DEF Known
<1>4. /\ log' \in Seq(Known)
      /\ Len(log) \in Nat
      /\ Len(log') = Len(log) + 1
      /\ \A i \in 1 .. Len(log) : log'[i] = log[i]
      /\ log'[Len(log) + 1] = p
  BY <1>1, <1>3
<1>5. Grows
  BY <1>1, <1>4 DEF Grows
<1>6. \A m \in Node : \A s \in 0 .. Last : Logged(m, s) => Logged(m, s)'
  BY <1>4, <1>5, Monotone DEF Logged
<1>7. \A m \in Node \ {n} : \A s \in 0 .. Last - 1 : p # Msg(m, s)
  <2> SUFFICES ASSUME NEW m \in Node \ {n}, NEW s \in 0 .. Last - 1, p = Msg(m, s)
               PROVE  FALSE
    OBVIOUS
  <2>1. p.src = m
    BY MsgFields
  <2>2. p.src = n
    <3>1. CASE p \in Msgs(n)
      BY <3>1, MsgFields DEF Msgs
    <3>2. CASE p \in [cmd : {"THATSME"}, src : {n}]
      BY <3>2
    <3> QED
      BY <1>3, <3>1, <3>2 DEF KnownFrom
  <2> QED
    BY <2>1, <2>2
<1>8. \A m \in Node : \A s \in 0 .. Last - 1 :
         Logged(m, s)' <=> Logged(m, s) \/ (m = n /\ p = Msg(n, s))
  <2> SUFFICES ASSUME NEW m \in Node, NEW s \in 0 .. Last - 1
               PROVE  Logged(m, s)' <=> Logged(m, s) \/ (m = n /\ p = Msg(n, s))
    OBVIOUS
  <2>1. Logged(m, s)' => Logged(m, s) \/ p = Msg(m, s)
    BY <1>4 DEF Logged, Among
  <2>2. p = Msg(m, s) => Logged(m, s)'
    BY <1>4 DEF Logged, Among
  <2> QED
    BY <2>1, <2>2, <1>6, <1>7, Sizes
<1>9. \A s \in 0 .. Last - 1 : Queued(n, s) <=> Queued(n, s)' \/ p = Msg(n, s)
  <2> SUFFICES ASSUME NEW s \in 0 .. Last - 1
               PROVE  Queued(n, s) <=> Queued(n, s)' \/ p = Msg(n, s)
    OBVIOUS
  <2>1. Queued(n, s)' => Queued(n, s)
    <3>1. ASSUME NEW i \in 1 .. Len(q2), q2[i] = Msg(n, s)
          PROVE  i + 1 \in 1 .. Len(q) /\ q[i + 1] = Msg(n, s)
      BY <3>1, <1>2
    <3> QED
      BY <3>1 DEF Queued, Among
  <2>2. p = Msg(n, s) => Queued(n, s)
    BY <1>2 DEF Queued, Among
  <2>3. Queued(n, s) => Queued(n, s)' \/ p = Msg(n, s)
    <3>1. ASSUME NEW i \in 1 .. Len(q), q[i] = Msg(n, s), i # 1
          PROVE  i - 1 \in 1 .. Len(q2) /\ q2[i - 1] = Msg(n, s)
      BY <3>1, <1>2
    <3> QED
      BY <3>1, <1>2 DEF Queued, Among
  <2> QED
    BY <2>1, <2>2, <2>3
<1>10. TypeInv'
  <2>1. \A m \in Node : \A i \in DOMAIN out'[m] : out'[m][i] \in KnownFrom(m)
    <3>1. \A i \in DOMAIN q2 : i + 1 \in DOMAIN q /\ q2[i] = q[i + 1]
      BY <1>1, <1>2
    <3>2. \A i \in DOMAIN q : q[i] \in KnownFrom(n)
      BY DEF IInv, TypeInv
    <3>3. \A m \in Node \ {n} : \A i \in DOMAIN out'[m] : out'[m][i] \in KnownFrom(m)
      BY <1>2 DEF IInv, TypeInv
    <3> QED
      BY <3>1, <3>2, <3>3
  <2>2. out' \in [Node -> Seq(Known)]
    BY <1>1, <1>2 DEF IInv, TypeInv
  <2>3. pos' \in [Node -> 0 .. Len(log')]
    BY <1>1, <1>4 DEF IInv, TypeInv
  <2> QED
    BY <2>1, <2>2, <2>3, <1>1, <1>4 DEF IInv, TypeInv
<1>11. ASSUME NEW m \in Node
       PROVE  NodeInv(m)' /\ RemoteInv(m)' /\ DeferredInv(m)' /\ PastInv(m)'
  <2>1. \A s \in 0 .. Last - 1 : Queued(m, s) => Logged(m, s)' \/ Queued(m, s)'
    <3>1. CASE m = n
      BY <3>1, <1>8, <1>9
    <3>2. CASE m # n
      BY <3>2, <1>2 DEF Queued
    <3> QED
      BY <3>1, <3>2
  <2>2. pos'[m] \in Nat /\ pos[m] <= pos'[m]
    BY <1>1, <1>4 DEF IInv, TypeInv
  <2> QED
    BY <1>1, <1>5, <2>1, <2>2, Frame DEF IInv
<1>12. ASSUME NEW m \in Node
       PROVE  SentInv(m)'
  <2>0. SentInv(m) /\ step'[m] = step[m] /\ nodes'[m] = nodes[m]
    BY <1>1 DEF IInv
  <2>1. CASE m # n
    <3>1. \A s \in 0 .. Last - 1 : /\ Logged(m, s)' <=> Logged(m, s)
                                   /\ Queued(m, s)' <=> Queued(m, s)
      BY <2>1, <1>2, <1>8 DEF Queued
    <3>2. \A s \in 0 .. Last - 1 :
             (Logged(m, s) \/ Queued(m, s))' => s <= step'[m] /\ nodes'[m] = Node
      BY <3>1, <2>0 DEF SentInv
    <3>3. \A i \in 1 .. Len(out'[m]) : \A s \in 0 .. Last - 1 :
             out'[m][i] = Msg(m, s) => ~ Logged(m, s)'
      BY <3>1, <2>0, <2>1, <1>2 DEF SentInv
    <3>4. \A i, k \in 1 .. Len(out'[m]) : \A s \in 0 .. Last - 1 :
             out'[m][i] = Msg(m, s) /\ out'[m][k] = Msg(m, s) => i = k
      BY <2>0, <2>1, <1>2 DEF SentInv
    <3>5. \A i, k \in 1 .. Len(log') : \A s \in 0 .. Last - 1 :
             log'[i] = Msg(m, s) /\ log'[k] = Msg(m, s) => i = k
      BY <2>0, <2>1, <1>4, <1>7 DEF SentInv
    <3> QED
      BY <3>2, <3>3, <3>4, <3>5 DEF SentInv, Logged, Queued
  <2>2. CASE m = n
    <3>0. SentInv(n)
      BY <2>0, <2>2
    <3>1. \A s \in 0 .. Last - 1 :
             (Logged(n, s) \/ Queued(n, s))' => s <= step'[n] /\ nodes'[n] = Node
      BY <3>0, <2>0, <2>2, <1>8, <1>9 DEF SentInv
    <3>2. ASSUME NEW i \in 1 .. Len(q2), NEW s \in 0 .. Last - 1, q2[i] = Msg(n, s)
          PROVE  ~ Logged(n, s)'
      <4>1. i + 1 \in 1 .. Len(q) /\ q[i + 1] = Msg(n, s) /\ 1 \in 1 .. Len(q) /\ i + 1 # 1
        BY <3>2, <1>2
      <4>2. ~ Logged(n, s) /\ q[1] # Msg(n, s)
        BY <4>1, <3>0 DEF SentInv
      <4> QED
        BY <4>2, <1>2, <1>8
    <3>3. ASSUME NEW i \in 1 .. Len(q2), NEW k \in 1 .. Len(q2), NEW s \in 0 .. Last - 1,
                 q2[i] = Msg(n, s), q2[k] = Msg(n, s)
          PROVE  i = k
      <4>1. /\ i + 1 \in 1 .. Len(q) /\ q[i + 1] = Msg(n, s)
            /\ k + 1 \in 1 .. Len(q) /\ q[k + 1] = Msg(n, s)
        BY <3>3, <1>2
      <4>2. i + 1 = k + 1
        BY <4>1, <3>0 DEF SentInv
      <4> QED
        BY <4>2
    <3>4. ASSUME NEW i \in 1 .. Len(log'), NEW k \in 1 .. Len(log'), NEW s \in 0 .. Last - 1,
                 log'[i] = Msg(n, s), log'[k] = Msg(n, s)
          PROVE  i = k
      <4>1. p = Msg(n, s) => \A h \in 1 .. Len(log) : log[h] # Msg(n, s)
        <5>1. 1 \in 1 .. Len(q) /\ q[1] = p
          BY <1>2
        <5>2. p = Msg(n, s) => ~ Logged(n, s)
          BY <5>1, <3>0 DEF SentInv
        <5> QED
          BY <5>2 DEF Logged, Among
      <4>2. CASE i \in 1 .. Len(log) /\ k \in 1 .. Len(log)
        BY <4>2, <3>4, <3>0, <1>4 DEF SentInv
      <4>3. CASE i = Len(log) + 1 \/ k = Len(log) + 1
        BY <4>1, <4>3, <3>4, <1>4
      <4> QED
        BY <4>2, <4>3, <1>4
    <3>5. SentInv(n)'
      BY <3>1, <3>2, <3>3, <3>4 DEF SentInv, Logged, Queued
    <3> QED
      BY <3>5, <2>2
  <2> QED
    BY <2>1, <2>2
<1>13. CausalLog'
  <2> SUFFICES ASSUME NEW i \in 1 .. Len(log'), NEW j \in Node, NEW k \in Node,
                      NEW s \in 0 .. Last - 2, log'[i] = Msg(j, s + 1)
               PROVE  Among(log', i - 1, k, s)
    BY DEF CausalLog
  <2>0. s \in 0 .. Last - 1 /\ s + 1 \in 0 .. Last - 1 /\ Last \in Nat
    BY Sizes
  <2>1. CASE i \in 1 .. Len(log)
    <3>1. Among(log, i - 1, k, s)
      BY <2>1, <1>4 DEF IInv, CausalLog
    <3> QED
      BY <3>1, <2>1, <1>4 DEF Among
  <2>2. CASE i = Len(log) + 1
    <3>1. p = Msg(n, s + 1)
      BY <2>0, <2>2, <1>4, <1>7
    <3>2. 1 \in 1 .. Len(q) /\ q[1] = Msg(n, s + 1)
      BY <3>1, <1>2
    <3>3. /\ \A h \in Node \ {n} : Logged(h, s)
          /\ Logged(n, s) \/ Among(q, 1 - 1, n, s)
      BY <3>2 DEF IInv, CausalOut
    <3>4. ~ Among(q, 1 - 1, n, s)
      BY DEF Among
    <3>5. Logged(k, s)
      BY <3>3, <3>4
    <3> QED
      BY <3>5, <2>2, <1>4 DEF Logged, Among
  <2> QED
    BY <2>1, <2>2, <1>4
<1>14. CausalOut'
  <2> SUFFICES ASSUME NEW m \in Node, NEW i \in 1 .. Len(out'[m]),
                      NEW s \in 0 .. Last - 2, out'[m][i] = Msg(m, s + 1)
               PROVE  /\ \A k \in Node \ {m} : Logged(k, s)'
                      /\ Logged(m, s)' \/ Among(out'[m], i - 1, m, s)
    BY DEF CausalOut
  <2>0. s \in 0 .. Last - 1 /\ s \in 0 .. Last
    BY Sizes
  <2>1. CASE m # n
    <3>1. out'[m] = out[m]
      BY <2>1, <1>2
    <3> QED
      BY <3>1, <2>0, <1>6 DEF IInv, CausalOut
  <2>2. CASE m = n
    <3>1. i + 1 \in 1 .. Len(q) /\ q[i + 1] = Msg(n, s + 1)
      BY <2>2, <1>2
    <3>2. /\ \A k \in Node \ {n} : Logged(k, s)
          /\ Logged(n, s) \/ Among(q, (i + 1) - 1, n, s)
      BY <3>1 DEF IInv, CausalOut
    <3>3. ASSUME Among(q, (i + 1) - 1, n, s)
          PROVE  Logged(n, s)' \/ Among(q2, i - 1, n, s)
      <4>1. PICK h \in 1 .. (i + 1) - 1 : q[h] = Msg(n, s)
        BY <3>3 DEF Among
      <4>2. CASE h = 1
        BY <4>1, <4>2, <1>2, <1>8, <2>0
      <4>3. CASE h # 1
        <5>1. h - 1 \in 1 .. i - 1 /\ h - 1 \in 1 .. Len(q2)
          BY <4>1, <4>3, <1>2, <2>2, <3>1
        <5>2. q2[h - 1] = q[(h - 1) + 1] /\ (h - 1) + 1 = h
          BY <5>1, <1>2
        <5> QED
          BY <5>1, <5>2, <4>1 DEF Among
      <4> QED
        BY <4>2, <4>3
    <3> QED
      BY <2>0, <2>2, <3>2, <3>3, <1>6
  <2> QED
    BY <2>1, <2>2
<1> QED
  BY <1>10, <1>11, <1>12, <1>13, <1>14 DEF IInv

(***************************************************************************)
(* Reading a packet of the handshake.                                      *)
(***************************************************************************)
LEMMA StoredPoints ==
    ASSUME IInv, NEW n \in Node, NEW i \in pos[n] + 1 .. Len(log),
           log[i].src # n, log[i].cmd = "MKA", status[n] = "RUNNING"
    PROVE  /\ DOMAIN Stored(n, log[i]) \subseteq Node \ {n}
           /\ Stored(n, log[i]) \in [DOMAIN Stored(n, log[i]) -> Point]
           /\ \A j \in DOMAIN Stored(n, log[i]) :
                 /\ Stored(n, log[i])[j] = Lockstep[step[n]][j].k
                 /\ Among(log, i, j, step[n])
           /\ \/ Stored(n, log[i]) = remote[n]
              \/ /\ log[i].step = step[n]
                 /\ log[i].src \notin DOMAIN remote[n]
<1> DEFINE p == log[i]
           s == step[n]
           old == remote[n]
<1>1. /\ pos[n] \in 0 .. Len(log) /\ Len(log) \in Nat
      /\ i \in 1 .. Len(log) /\ pos[n] < i
      /\ s \in 0 .. Last - 1
      /\ p \in Known
  BY Sizes DEF IInv, TypeInv, NodeInv
<1>2. p.src \in Node /\ p.step \in 0 .. Last - 1 /\ p = Msg(p.src, p.step)
  BY <1>1, KnownPackets
<1>3. /\ DOMAIN old \subseteq Node \ {n}
      /\ old \in [DOMAIN old -> Point]
      /\ \A j \in DOMAIN old : old[j] = Lockstep[s][j].k /\ Among(log, pos[n], j, s)
  BY DEF IInv, TypeInv, RemoteInv, Seen
<1>4. \A j \in DOMAIN old : Among(log, i, j, s)
  BY <1>1, <1>3 DEF Among
<1>5. CASE p.step = s /\ p.src \notin DOMAIN old
  <2> DEFINE new == WithPoint(old, p.src, p.key)
  <2>1. Stored(n, p) = new
    BY <1>5 DEF Stored
  <2>2. /\ DOMAIN new = DOMAIN old \union {p.src}
        /\ new = [j \in DOMAIN old \union {p.src} |-> IF j = p.src THEN p.key ELSE old[j]]
    BY DEF WithPoint
  <2>3. p.key = Lockstep[s][p.src].k /\ p = Msg(p.src, s)
    BY <1>2, <1>5, MsgFields
  <2>4. p.key \in Point
    BY <2>3, <1>1, <1>2, LockstepType, Sizes
  <2>5. Among(log, i, p.src, s)
    BY <2>3, <1>1 DEF Among
  <2>6. new \in [DOMAIN new -> Point]
    BY <2>2, <2>4, <1>3
  <2> QED
    BY <2>1, <2>2, <2>3, <2>5, <2>6, <1>2, <1>3, <1>4, <1>5
<1>6. CASE ~ (p.step = s /\ p.src \notin DOMAIN old)
  <2>1. Stored(n, p) = old
    BY <1>6 DEF Stored
  <2> QED
    BY <2>1, <1>3, <1>4
<1> QED
  BY <1>5, <1>6

\* A packet that fills a step is the last one of that step in the stream, no
\* packet is waiting, and the points gathered are those of the lock-step run.
LEMMA FullRound ==
    ASSUME IInv, NEW n \in Node, NEW i \in pos[n] + 1 .. Len(log),
           log[i].src # n, log[i].cmd = "MKA", status[n] = "RUNNING",
           RoundFull(n, log[i])
    PROVE  /\ deferred[n] = <<>>
           /\ Postponed(n, log[i]) = <<>>
           /\ Accumulated(n, log[i]) = LockstepAcc(step[n], n)
           /\ \A j \in Node \ {n} : Among(log, i, j, step[n])
           /\ Rounds(n) = Last
<1> DEFINE p == log[i]
           s == step[n]
<1>1. /\ pos[n] \in 0 .. Len(log) /\ Len(log) \in Nat
      /\ i \in 1 .. Len(log) /\ pos[n] < i
      /\ s \in 0 .. Last - 1
      /\ p \in Known
      /\ nodes[n] = Node
      /\ Cardinality(DOMAIN remote[n]) < Last
      /\ ctx[n] = Lockstep[s][n]
      /\ deferred[n] \in Seq(Known)
  BY Sizes DEF IInv, TypeInv, NodeInv
<1>2. p.src \in Node /\ p.step \in 0 .. Last - 1 /\ p = Msg(p.src, p.step)
  BY <1>1, KnownPackets
<1>3. Rounds(n) = Last
  BY <1>1 DEF Rounds, Last, Size
<1>4. Cardinality(DOMAIN Stored(n, p)) = Last
  BY <1>3 DEF RoundFull
<1>5. Stored(n, p) # remote[n]
  BY <1>1, <1>4, Sizes
<1>6. p.step = s /\ p.src \notin DOMAIN remote[n]
  BY <1>5, StoredPoints
<1>7. DOMAIN Stored(n, p) = Node \ {n}
  <2>1. IsFiniteSet(Node \ {n}) /\ Cardinality(Node \ {n}) = Last
    <3>1. Cardinality(Node \ {n}) = Cardinality(Node) - 1
      BY Sizes, FS_RemoveElement
    <3> QED
      BY <3>1, Sizes, FS_Subset DEF Last, Size
  <2>2. DOMAIN Stored(n, p) \subseteq Node \ {n}
    BY StoredPoints
  <2> QED
    BY <2>1, <2>2, <1>4, FS_Subset
<1>8. Stored(n, p) = [j \in Node \ {n} |-> Lockstep[s][j].k]
  BY <1>7, StoredPoints
<1>9. Accumulated(n, p) = LockstepAcc(s, n)
  BY <1>1, <1>8 DEF Accumulated, LockstepAcc, Size
<1>10. \A j \in Node \ {n} : Among(log, i, j, s)
  BY <1>7, StoredPoints
<1>11. deferred[n] = <<>>
  <2> SUFFICES ASSUME deferred[n] # <<>>
               PROVE  FALSE
    OBVIOUS
  <2>1. 1 \in 1 .. Len(deferred[n])
    BY <1>1
  <2>2. PICK j \in Node : s + 1 < Last /\ Seen(n, j, s + 1)
    BY <2>1 DEF IInv, DeferredInv
  <2>3. PICK h \in 1 .. pos[n] : log[h] = Msg(j, s + 1)
    BY <2>2 DEF Seen, Among
  <2>4. h \in 1 .. Len(log) /\ s \in 0 .. Last - 2
    BY <1>1, <2>2, Sizes
  <2>5. Among(log, h - 1, p.src, s)
    BY <1>2, <2>3, <2>4 DEF IInv, CausalLog
  <2>6. PICK g \in 1 .. h - 1 : log[g] = Msg(p.src, s)
    BY <2>5 DEF Among
  <2>7. g \in 1 .. Len(log) /\ g < i
    BY <1>1, <2>3, <2>6
  <2>8. log[i] = Msg(p.src, s)
    BY <1>2, <1>6
  <2>9. g = i
    BY <1>1, <1>2, <2>6, <2>7, <2>8 DEF IInv, SentInv
  <2> QED
    BY <2>7, <2>9, <1>1
<1>12. Postponed(n, p) = <<>>
  BY <1>1, <1>6, <1>11 DEF Postponed
<1> QED
  BY <1>3, <1>9, <1>10, <1>11, <1>12

(***************************************************************************)
(* A step of node n: what it owes the invariant.                           *)
(***************************************************************************)
LocalTo(n) == \A m \in Node \ {n} :
    /\ status'[m] = status[m] /\ nodes'[m] = nodes[m] /\ step'[m] = step[m]
    /\ remote'[m] = remote[m] /\ deferred'[m] = deferred[m]
    /\ ctx'[m] = ctx[m] /\ key'[m] = key[m] /\ pos'[m] = pos[m]

LEMMA OtherNodes ==
    ASSUME IInv, NEW n \in Node, LocalTo(n), log' = log,
           \A m \in Node : \A s \in 0 .. Last - 1 : Queued(m, s) => Queued(m, s)',
           NEW m \in Node \ {n}
    PROVE  NodeInv(m)' /\ RemoteInv(m)' /\ DeferredInv(m)' /\ PastInv(m)'
<1>1. Grows
  BY DEF Grows, IInv, TypeInv
<1>2. pos'[m] \in Nat /\ pos[m] <= pos'[m]
  BY DEF LocalTo, IInv, TypeInv
<1> QED
  BY <1>1, <1>2, Frame DEF LocalTo, IInv

\* A step that reads and does not write.
LEMMA ReadingStep ==
    ASSUME IInv, NEW n \in Node, LocalTo(n), log' = log, out' = out,
           TypeInv', step[n] <= step'[n], nodes[n] = Node => nodes'[n] = Node,
           NodeInv(n)', RemoteInv(n)', DeferredInv(n)', PastInv(n)'
    PROVE  IInv'
<1>1. \A m \in Node : \A s \in 0 .. Last - 1 : Queued(m, s) => Queued(m, s)'
  BY DEF Queued
<1>2. \A m \in Node : NodeInv(m)' /\ RemoteInv(m)' /\ DeferredInv(m)' /\ PastInv(m)'
  BY <1>1, OtherNodes
<1>3. \A m \in Node : /\ step'[m] \in Nat /\ step[m] <= step'[m]
                      /\ nodes[m] = Node => nodes'[m] = Node
  <2>1. \A m \in Node : step[m] \in 0 .. Last /\ step'[m] \in 0 .. Last
    BY DEF IInv, TypeInv
  <2>2. \A m \in Node \ {n} : step'[m] = step[m] /\ nodes'[m] = nodes[m]
    BY DEF LocalTo
  <2> QED
    BY <2>1, <2>2, Sizes
<1>4. (\A m \in Node : SentInv(m)') /\ CausalLog' /\ CausalOut'
  BY <1>3, QuietNetwork
<1> QED
  BY <1>2, <1>4 DEF IInv

LEMMA ReadFacts ==
    ASSUME IInv, NEW n \in Node, NEW i \in DOMAIN log, Reads(n, i)
    PROVE  /\ Len(log) \in Nat /\ pos[n] \in 0 .. Len(log)
           /\ i \in 1 .. Len(log) /\ i \in pos[n] + 1 .. Len(log) /\ pos[n] < i
           /\ log' = log /\ log[i] \in Known /\ log[i].src # n
           /\ pos' \in [Node -> 0 .. Len(log')]
           /\ pos'[n] = i
           /\ \A m \in Node \ {n} : pos'[m] = pos[m]
<1>1. Len(log) \in Nat /\ DOMAIN log = 1 .. Len(log) /\ pos \in [Node -> 0 .. Len(log)]
      /\ log \in Seq(Known)
  BY DEF IInv, TypeInv
<1>2. /\ i \in pos[n] + 1 .. Len(log)
      /\ pos' = [pos EXCEPT ![n] = i] /\ log' = log /\ log[i].src # n
  BY DEF Reads
<1>3. i \in 1 .. Len(log) /\ pos[n] < i
  BY <1>1, <1>2
<1> QED
  BY <1>1, <1>2, <1>3

\* Packets up to the i-th are read and dropped.
LEMMA DroppedPackets ==
    ASSUME IInv, NEW n \in Node, NEW i \in pos[n] + 1 .. Len(log),
           pos' = [pos EXCEPT ![n] = i], UNCHANGED <<mkaVars, log>>
    PROVE  IInv'
<1>1. UNCHANGED <<status, nodes, step, remote, deferred, ctx, key, out, log>>
  BY DEF mkaVars
<1>2. /\ Len(log) \in Nat /\ pos[n] \in 0 .. Len(log)
      /\ pos' \in [Node -> 0 .. Len(log')]
      /\ pos'[n] \in Nat /\ pos[n] <= pos'[n]
      /\ \A m \in Node \ {n} : pos'[m] = pos[m]
  <2>1. Len(log) \in Nat /\ pos \in [Node -> 0 .. Len(log)]
    BY DEF IInv, TypeInv
  <2>2. i \in 0 .. Len(log) /\ pos[n] <= i
    BY <2>1
  <2> QED
    BY <1>1, <2>1, <2>2
<1>3. TypeInv'
  BY <1>1, <1>2 DEF IInv, TypeInv
<1>4. LocalTo(n)
  BY <1>1, <1>2 DEF LocalTo
<1>5. NodeInv(n)' /\ RemoteInv(n)' /\ DeferredInv(n)' /\ PastInv(n)'
  <2>1. Grows
    BY <1>1 DEF Grows, IInv, TypeInv
  <2>2. \A s \in 0 .. Last - 1 : Queued(n, s) => Queued(n, s)'
    BY <1>1 DEF Queued
  <2> QED
    BY <1>1, <1>2, <2>1, <2>2, Frame DEF IInv
<1>6. step[n] <= step'[n] /\ (nodes[n] = Node => nodes'[n] = Node)
  BY <1>1 DEF IInv, TypeInv
<1> QED
  BY <1>1, <1>3, <1>4, <1>5, <1>6, ReadingStep

LEMMA ShutdownKeeps ==
    ASSUME IInv, NEW n \in Node, Shutdown(n)
    PROVE  IInv'
<1>1. /\ status[n] = "ERROR"
      /\ status' = [status EXCEPT ![n] = "OFFLINE"]
      /\ ctx' = [ctx EXCEPT ![n] = NoCtx]
      /\ key' = [key EXCEPT ![n] = NoKey]
      /\ UNCHANGED <<nodes, step, remote, deferred, out, log, pos>>
  BY DEF Shutdown, ShutdownKey
<1>2. TypeInv'
  BY <1>1 DEF IInv, TypeInv, Status
<1>3. LocalTo(n)
  BY <1>1 DEF LocalTo, IInv, TypeInv
<1>4. status'[n] = "OFFLINE" /\ key'[n] = NoKey
  BY <1>1 DEF IInv, TypeInv
<1>5. NodeInv(n)'
  BY <1>1, <1>4 DEF IInv, NodeInv
<1>6. RemoteInv(n)' /\ DeferredInv(n)' /\ PastInv(n)'
  <2>1. RemoteInv(n)'
    BY <1>1 DEF IInv, RemoteInv, Seen
  <2>2. DeferredInv(n)'
    BY <1>4 DEF DeferredInv
  <2>3. PastInv(n)'
    BY <1>1 DEF IInv, PastInv, Seen
  <2> QED
    BY <2>1, <2>2, <2>3
<1>7. step[n] <= step'[n] /\ (nodes[n] = Node => nodes'[n] = Node)
  BY <1>1 DEF IInv, TypeInv
<1> QED
  BY <1>1, <1>2, <1>3, <1>5, <1>6, <1>7, ReadingStep

\* What is known of a packet of the handshake that a running node reads.
LEMMA HandshakePacket ==
    ASSUME IInv, NEW n \in Node, NEW i \in DOMAIN log, Reads(n, i),
           status[n] = "RUNNING", ~ Ignored(n, log[i])
    PROVE  /\ log[i].cmd = "MKA"
           /\ log[i].src \in Node
           /\ log[i].step \in 0 .. Last - 1
           /\ log[i] = Msg(log[i].src, log[i].step)
           /\ nodes[n] = Node
           /\ step[n] \in 0 .. Last - 1
           /\ ctx[n] = Lockstep[step[n]][n]
           /\ Rounds(n) = Last
<1>1. /\ nodes[n] = Node
      /\ step[n] \in 0 .. Last - 1
      /\ ctx[n] = Lockstep[step[n]][n]
  BY Sizes DEF IInv, TypeInv, NodeInv
<1>2. Rounds(n) = Last
  BY <1>1 DEF Rounds, Last, Size
<1> QED
  BY <1>1, <1>2, ReadFacts, KnownPackets DEF Ignored

\* The queue of postponed packets, with the packet that was read.
LEMMA PostponedPackets ==
    ASSUME IInv, NEW n \in Node, NEW i \in DOMAIN log, Reads(n, i),
           status[n] = "RUNNING", ~ Ignored(n, log[i])
    PROVE  /\ Postponed(n, log[i]) \in Seq(Known)
           /\ \A h \in 1 .. Len(Postponed(n, log[i])) :
                 \E j \in Node : /\ step[n] + 1 < Last
                                 /\ Postponed(n, log[i])[h] = Msg(j, step[n] + 1)
                                 /\ Among(log, i, j, step[n] + 1)
<1> DEFINE p == log[i]
           d == deferred[n]
<1>1. d \in Seq(Known) /\ p \in Known
  BY ReadFacts DEF IInv, TypeInv
<1>2. ASSUME NEW h \in 1 .. Len(d)
      PROVE  \E j \in Node : /\ step[n] + 1 < Last
                             /\ d[h] = Msg(j, step[n] + 1)
                             /\ Among(log, i, j, step[n] + 1)
  <2>1. PICK j \in Node : /\ step[n] + 1 < Last
                          /\ d[h] = Msg(j, step[n] + 1)
                          /\ Seen(n, j, step[n] + 1)
    BY <1>2 DEF IInv, DeferredInv
  <2>2. Among(log, i, j, step[n] + 1)
    BY <2>1, ReadFacts DEF Seen, Among
  <2> QED
    BY <2>1, <2>2
<1>3. CASE p.step = step[n] + 1
  <2>1. Postponed(n, p) = Append(d, p)
    BY <1>3 DEF Postponed
  <2>2. /\ p.src \in Node /\ step[n] + 1 < Last /\ p = Msg(p.src, step[n] + 1)
    BY <1>3, HandshakePacket, Sizes
  <2>3. Among(log, i, p.src, step[n] + 1)
    BY <2>2, ReadFacts DEF Among
  <2> QED
    BY <1>1, <1>2, <2>1, <2>2, <2>3
<1>4. CASE p.step # step[n] + 1
  <2>1. Postponed(n, p) = d
    BY <1>4 DEF Postponed
  <2> QED
    BY <1>1, <1>2, <2>1
<1> QED
  BY <1>3, <1>4

LEMMA CollectKeeps ==
    ASSUME IInv, NEW n \in Node, NEW i \in DOMAIN log, Reads(n, i),
           status[n] = "RUNNING", ~ Ignored(n, log[i]), Collect(n, log[i])
    PROVE  IInv'
<1> DEFINE p == log[i]
<1>1. /\ ~ RoundFull(n, p)
      /\ remote' = [remote EXCEPT ![n] = Stored(n, p)]
      /\ deferred' = [deferred EXCEPT ![n] = Postponed(n, p)]
      /\ UNCHANGED <<status, nodes, step, ctx, key, out>>
  BY DEF Collect
<1>2. /\ DOMAIN Stored(n, p) \subseteq Node \ {n}
      /\ Stored(n, p) \in [DOMAIN Stored(n, p) -> Point]
      /\ \A j \in DOMAIN Stored(n, p) : /\ Stored(n, p)[j] = Lockstep[step[n]][j].k
                                        /\ Among(log, i, j, step[n])
      /\ \/ Stored(n, p) = remote[n]
         \/ p.step = step[n] /\ p.src \notin DOMAIN remote[n]
  <2>1. i \in pos[n] + 1 .. Len(log) /\ log[i].src # n
    BY ReadFacts
  <2>2. log[i].cmd = "MKA"
    BY HandshakePacket
  <2> QED
    BY <2>1, <2>2, StoredPoints
<1>3. remote'[n] = Stored(n, p) /\ deferred'[n] = Postponed(n, p)
      /\ \A m \in Node \ {n} : remote'[m] = remote[m] /\ deferred'[m] = deferred[m]
  BY <1>1 DEF IInv, TypeInv
<1>4. TypeInv'
  <2>1. DOMAIN remote' = Node
    BY <1>1 DEF IInv, TypeInv
  <2>2. \A m \in Node : /\ DOMAIN remote'[m] \subseteq Node
                        /\ remote'[m] \in [DOMAIN remote'[m] -> Point]
    BY <1>2, <1>3 DEF IInv, TypeInv
  <2>3. deferred' \in [Node -> Seq(Known)]
    BY <1>1, PostponedPackets DEF IInv, TypeInv
  <2> QED
    BY <1>1, <2>1, <2>2, <2>3, ReadFacts DEF IInv, TypeInv
<1>5. LocalTo(n)
  BY <1>1, <1>3, ReadFacts DEF LocalTo
<1>6. NodeInv(n)'
  <2>1. Cardinality(DOMAIN Stored(n, p)) < Last
    <3>1. Cardinality(DOMAIN Stored(n, p)) # Last
      BY <1>1, HandshakePacket DEF RoundFull
    <3>2. Cardinality(DOMAIN Stored(n, p)) <= Last
      <4>1. IsFiniteSet(Node \ {n}) /\ Cardinality(Node \ {n}) = Cardinality(Node) - 1
        BY Sizes, FS_RemoveElement
      <4> QED
        BY <1>2, <4>1, FS_Subset DEF Last, Size
    <3>3. Cardinality(DOMAIN Stored(n, p)) \in Nat
      BY <1>2, Sizes, FS_Subset, FS_CardinalityType
    <3> QED
      BY <3>1, <3>2, <3>3, Sizes
  <2>2. (Logged(n, step[n]) \/ Queued(n, step[n]))'
    <3>1. Logged(n, step[n]) \/ Queued(n, step[n])
      BY DEF IInv, NodeInv
    <3> QED
      BY <3>1, <1>1, ReadFacts DEF Logged, Queued
  <2>3. status'[n] = "RUNNING" /\ nodes'[n] = Node /\ step'[n] < Last
        /\ ctx'[n] = Lockstep[step'[n]][n]
        /\ Cardinality(DOMAIN remote'[n]) < Last
    BY <1>1, <1>3, <2>1, HandshakePacket, Sizes
  <2>4. Node # {} /\ key'[n] = NoKey
    BY <1>1, Sizes DEF IInv, NodeInv
  <2> QED
    BY <2>2, <2>3, <2>4 DEF NodeInv
<1>7. RemoteInv(n)'
  BY <1>1, <1>2, <1>3, ReadFacts, HandshakePacket, Sizes DEF RemoteInv, Seen
<1>8. DeferredInv(n)'
  BY <1>1, <1>3, ReadFacts, PostponedPackets DEF DeferredInv, Seen
<1>9. PastInv(n)'
  <2>1. \A s \in 0 .. Last - 1 : \A j \in Node : Seen(n, j, s) => Seen(n, j, s)'
    BY ReadFacts DEF Seen, Among
  <2> QED
    BY <2>1, <1>1 DEF IInv, PastInv
<1>10. step[n] <= step'[n] /\ (nodes[n] = Node => nodes'[n] = Node)
  BY <1>1, HandshakePacket, Sizes
<1> QED
  BY <1>1, <1>4, <1>5, <1>6, <1>7, <1>8, <1>9, <1>10, ReadFacts, ReadingStep

\* FullRound, for a packet that is read.
LEMMA FullRoundRead ==
    ASSUME IInv, NEW n \in Node, NEW i \in DOMAIN log, Reads(n, i),
           status[n] = "RUNNING", ~ Ignored(n, log[i]), RoundFull(n, log[i])
    PROVE  /\ deferred[n] = <<>>
           /\ Postponed(n, log[i]) = <<>>
           /\ Accumulated(n, log[i]) = LockstepAcc(step[n], n)
           /\ \A j \in Node \ {n} : Among(log, i, j, step[n])
           /\ Rounds(n) = Last
<1>1. i \in pos[n] + 1 .. Len(log) /\ log[i].src # n
  BY ReadFacts
<1>2. log[i].cmd = "MKA"
  BY HandshakePacket
<1> QED
  BY <1>1, <1>2, FullRound

\* Reading on, a node has read all the packets of the step it leaves.
LEMMA PastAfterStep ==
    ASSUME IInv, NEW n \in Node, NEW i \in DOMAIN log, Reads(n, i),
           status[n] = "RUNNING", ~ Ignored(n, log[i]), RoundFull(n, log[i]),
           step'[n] = step[n] + 1
    PROVE  PastInv(n)'
<1> SUFFICES ASSUME NEW s \in 0 .. Last - 1, NEW j \in Node \ {n}, s < step[n] + 1
             PROVE  Among(log, i, j, s)
  BY ReadFacts DEF PastInv, Seen
<1>1. step[n] \in 0 .. Last - 1
  BY HandshakePacket
<1>2. CASE s = step[n]
  BY <1>2, FullRoundRead
<1>3. CASE s < step[n]
  <2>1. Seen(n, j, s)
    BY <1>3 DEF IInv, PastInv
  <2> QED
    BY <2>1, ReadFacts DEF Seen, Among
<1> QED
  BY <1>1, <1>2, <1>3, Sizes

LEMMA LastRoundKeeps ==
    ASSUME IInv, NEW n \in Node, NEW i \in DOMAIN log, Reads(n, i),
           status[n] = "RUNNING", ~ Ignored(n, log[i]), LastRound(n, log[i])
    PROVE  IInv'
<1> DEFINE p == log[i]
           acc == Accumulated(n, p)
<1>1. /\ RoundFull(n, p)
      /\ step[n] + 1 = Rounds(n)
      /\ step' = [step EXCEPT ![n] = @ + 1]
      /\ ctx' = [ctx EXCEPT ![n] = acc]
      /\ key' = [key EXCEPT ![n] = ComputeKey(n, acc)]
      /\ status' = [status EXCEPT ![n] = "COMPLETED"]
      /\ remote' = [remote EXCEPT ![n] = NoPoints]
      /\ deferred' = [deferred EXCEPT ![n] = Postponed(n, p)]
      /\ UNCHANGED <<nodes, out>>
  BY DEF LastRound, LastStep
<1>2. /\ step[n] + 1 = Last /\ step[n] \in 0 .. Last - 1 /\ nodes[n] = Node
      /\ Postponed(n, p) = <<>>
      /\ acc = LockstepAcc(step[n], n)
  BY <1>1, HandshakePacket, FullRoundRead
<1>3. acc = Lockstep[Last][n]
  BY <1>2, LockstepAssumption, Sizes
<1>4. acc \in Context /\ ComputeKey(n, acc) \in Point
  <2>1. Last \in 0 .. Last
    BY Sizes
  <2>2. acc \in Context /\ acc.k \in Point
    BY <1>3, <2>1, LockstepType
  <2>3. P \in Nat /\ P > 0 /\ Secret[n] \in Nat
    BY Sizes, GroupAssumption DEF Point, Size
  <2>4. acc.k \in Nat
    BY <2>2, <2>3 DEF Point
  <2>5. Secret[n] * acc.k \in Nat
    BY <2>3, <2>4
  <2>6. \A x \in Nat : x % P \in 0 .. P - 1
    BY <2>3
  <2> QED
    BY <2>2, <2>5, <2>6 DEF ComputeKey, Point
<1>5. /\ step'[n] = Last /\ key'[n] = ComputeKey(n, Lockstep[Last][n])
      /\ status'[n] = "COMPLETED" /\ remote'[n] = NoPoints /\ nodes'[n] = Node
      /\ \A m \in Node \ {n} :
            /\ remote'[m] = remote[m] /\ deferred'[m] = deferred[m]
            /\ status'[m] = status[m] /\ step'[m] = step[m]
            /\ ctx'[m] = ctx[m] /\ key'[m] = key[m]
  BY <1>1, <1>2, <1>3 DEF IInv, TypeInv
<1>6. TypeInv'
  <2>1. DOMAIN remote' = Node
    BY <1>1 DEF IInv, TypeInv
  <2>2. \A m \in Node : /\ DOMAIN remote'[m] \subseteq Node
                        /\ remote'[m] \in [DOMAIN remote'[m] -> Point]
    BY <1>5 DEF IInv, TypeInv, NoPoints
  <2>3. deferred' \in [Node -> Seq(Known)]
    BY <1>1, <1>2 DEF IInv, TypeInv
  <2>4. /\ status' \in [Node -> Status] /\ step' \in [Node -> 0 .. Last]
        /\ ctx' \in [Node -> Context \union {NoCtx}]
        /\ key' \in [Node -> Point \union {NoKey}]
    BY <1>1, <1>2, <1>4, Sizes DEF IInv, TypeInv, Status
  <2> QED
    BY <1>1, <2>1, <2>2, <2>3, <2>4, ReadFacts DEF IInv, TypeInv
<1>7. LocalTo(n)
  BY <1>1, <1>5, ReadFacts DEF LocalTo
<1>8. NodeInv(n)'
  <2>1. Node # {}
    BY Sizes
  <2> QED
    BY <1>5, <2>1 DEF NodeInv
<1>9. RemoteInv(n)' /\ DeferredInv(n)'
  BY <1>5 DEF RemoteInv, DeferredInv, NoPoints
<1>10. PastInv(n)'
  BY <1>1, <1>2, <1>5, PastAfterStep
<1>11. step[n] <= step'[n] /\ (nodes[n] = Node => nodes'[n] = Node)
  BY <1>2, <1>5, Sizes
<1> QED
  BY <1>1, <1>6, <1>7, <1>8, <1>9, <1>10, <1>11, ReadFacts, ReadingStep

LEMMA AccumulateFailsKeeps ==
    ASSUME IInv, NEW n \in Node, NEW i \in DOMAIN log, Reads(n, i),
           status[n] = "RUNNING", ~ Ignored(n, log[i]), AccumulateFails(n, log[i])
    PROVE  IInv'
<1> DEFINE p == log[i]
<1>1. /\ RoundFull(n, p)
      /\ status' = [status EXCEPT ![n] = "ERROR"]
      /\ ctx' = [ctx EXCEPT ![n] = NoCtx]
      /\ remote' = [remote EXCEPT ![n] = Stored(n, p)]
      /\ deferred' = [deferred EXCEPT ![n] = Postponed(n, p)]
      /\ UNCHANGED <<nodes, step, key, out>>
  BY DEF AccumulateFails
<1>2. /\ DOMAIN Stored(n, p) \subseteq Node \ {n}
      /\ Stored(n, p) \in [DOMAIN Stored(n, p) -> Point]
      /\ \A j \in DOMAIN Stored(n, p) : /\ Stored(n, p)[j] = Lockstep[step[n]][j].k
                                        /\ Among(log, i, j, step[n])
  <2>1. i \in pos[n] + 1 .. Len(log) /\ log[i].src # n
    BY ReadFacts
  <2>2. log[i].cmd = "MKA"
    BY HandshakePacket
  <2> QED
    BY <2>1, <2>2, StoredPoints
<1>3. /\ status'[n] = "ERROR" /\ remote'[n] = Stored(n, p)
      /\ step'[n] = step[n] /\ step[n] \in 0 .. Last - 1 /\ nodes'[n] = Node
      /\ key'[n] = key[n]
      /\ \A m \in Node \ {n} :
            /\ remote'[m] = remote[m] /\ deferred'[m] = deferred[m]
            /\ status'[m] = status[m] /\ ctx'[m] = ctx[m]
  BY <1>1, HandshakePacket DEF IInv, TypeInv
<1>4. TypeInv'
  <2>1. DOMAIN remote' = Node
    BY <1>1 DEF IInv, TypeInv
  <2>2. \A m \in Node : /\ DOMAIN remote'[m] \subseteq Node
                        /\ remote'[m] \in [DOMAIN remote'[m] -> Point]
    BY <1>2, <1>3 DEF IInv, TypeInv
  <2>3. deferred' \in [Node -> Seq(Known)]
    BY <1>1, PostponedPackets DEF IInv, TypeInv
  <2>4. status' \in [Node -> Status] /\ ctx' \in [Node -> Context \union {NoCtx}]
    BY <1>1 DEF IInv, TypeInv, Status
  <2> QED
    BY <1>1, <2>1, <2>2, <2>3, <2>4, ReadFacts DEF IInv, TypeInv
<1>5. LocalTo(n)
  BY <1>1, <1>3, ReadFacts DEF LocalTo
<1>6. key[n] = NoKey
  BY DEF IInv, NodeInv
<1>7. NodeInv(n)'
  <2>1. Node # {}
    BY Sizes
  <2> QED
    BY <1>3, <1>6, <2>1 DEF NodeInv
<1>8. RemoteInv(n)'
  BY <1>2, <1>3, ReadFacts, Sizes DEF RemoteInv, Seen
<1>9. DeferredInv(n)'
  BY <1>3 DEF DeferredInv
<1>10. PastInv(n)'
  <2>1. \A s \in 0 .. Last - 1 : \A j \in Node : Seen(n, j, s) => Seen(n, j, s)'
    BY ReadFacts DEF Seen, Among
  <2> QED
    BY <2>1, <1>3 DEF IInv, PastInv
<1>11. step[n] <= step'[n] /\ (nodes[n] = Node => nodes'[n] = Node)
  BY <1>3, Sizes
<1> QED
  BY <1>1, <1>4, <1>5, <1>7, <1>8, <1>9, <1>10, <1>11, ReadFacts, ReadingStep

LEMMA AdvanceFailsKeeps ==
    ASSUME IInv, NEW n \in Node, NEW i \in DOMAIN log, Reads(n, i),
           status[n] = "RUNNING", ~ Ignored(n, log[i]), AdvanceFails(n, log[i])
    PROVE  IInv'
<1> DEFINE p == log[i]
<1>1. /\ RoundFull(n, p)
      /\ status' = [status EXCEPT ![n] = "ERROR"]
      /\ step' = [step EXCEPT ![n] = @ + 1]
      /\ ctx' = [ctx EXCEPT ![n] = NoCtx]
      /\ remote' = [remote EXCEPT ![n] = NoPoints]
      /\ deferred' = [deferred EXCEPT ![n] = Postponed(n, p)]
      /\ UNCHANGED <<nodes, key, out>>
  BY DEF AdvanceFails
<1>2. /\ status'[n] = "ERROR" /\ remote'[n] = NoPoints
      /\ step'[n] = step[n] + 1 /\ step[n] \in 0 .. Last - 1 /\ nodes'[n] = Node
      /\ key'[n] = key[n]
      /\ \A m \in Node \ {n} :
            /\ remote'[m] = remote[m] /\ deferred'[m] = deferred[m]
            /\ status'[m] = status[m] /\ step'[m] = step[m] /\ ctx'[m] = ctx[m]
  BY <1>1, HandshakePacket DEF IInv, TypeInv
<1>3. TypeInv'
  <2>1. DOMAIN remote' = Node
    BY <1>1 DEF IInv, TypeInv
  <2>2. \A m \in Node : /\ DOMAIN remote'[m] \subseteq Node
                        /\ remote'[m] \in [DOMAIN remote'[m] -> Point]
    BY <1>2 DEF IInv, TypeInv, NoPoints
  <2>3. deferred' \in [Node -> Seq(Known)]
    BY <1>1, PostponedPackets DEF IInv, TypeInv
  <2>4. /\ status' \in [Node -> Status] /\ ctx' \in [Node -> Context \union {NoCtx}]
        /\ step' \in [Node -> 0 .. Last]
    BY <1>1, <1>2, Sizes DEF IInv, TypeInv, Status
  <2> QED
    BY <1>1, <2>1, <2>2, <2>3, <2>4, ReadFacts DEF IInv, TypeInv
<1>4. LocalTo(n)
  BY <1>1, <1>2, ReadFacts DEF LocalTo
<1>5. NodeInv(n)'
  <2>1. Node # {} /\ key[n] = NoKey
    BY Sizes DEF IInv, NodeInv
  <2> QED
    BY <1>2, <2>1 DEF NodeInv
<1>6. RemoteInv(n)' /\ DeferredInv(n)'
  BY <1>2 DEF RemoteInv, DeferredInv, NoPoints
<1>7. PastInv(n)'
  BY <1>1, <1>2, PastAfterStep
<1>8. step[n] <= step'[n] /\ (nodes[n] = Node => nodes'[n] = Node)
  BY <1>2, Sizes
<1> QED
  BY <1>1, <1>3, <1>4, <1>5, <1>6, <1>7, <1>8, ReadFacts, ReadingStep

LEMMA NextRoundKeeps ==
    ASSUME IInv, NEW n \in Node, NEW i \in DOMAIN log, Reads(n, i),
           status[n] = "RUNNING", ~ Ignored(n, log[i]), NextRound(n, log[i])
    PROVE  IInv'
<1> DEFINE p == log[i]
           c == MakeBroadval(n, Accumulated(n, p))
<1>0. PICK t \in 0 .. Last - 1 : t = step[n] + 1
  <2>1. step[n] \in 0 .. Last - 1 /\ step[n] + 1 < Last
    BY HandshakePacket, Sizes DEF NextRound, LastStep
  <2> QED
    BY <2>1, Sizes
<1>1. /\ RoundFull(n, p)
      /\ t # Rounds(n)
      /\ step' = [step EXCEPT ![n] = @ + 1]
      /\ ctx' = [ctx EXCEPT ![n] = c]
      /\ out' = [out EXCEPT ![n] =
                   Append(@, [cmd |-> "MKA", src |-> n, step |-> t, key |-> c.k])]
      /\ remote' = [remote EXCEPT ![n] = Replayed(n, p)]
      /\ deferred' = [deferred EXCEPT ![n] = <<>>]
      /\ UNCHANGED <<status, nodes, key>>
  BY <1>0 DEF NextRound, LastStep, CryptoBroadcast, Write
<1>2. /\ step[n] \in 0 .. Last - 1 /\ t \in 0 .. Last - 1 /\ t \in 0 .. Last
      /\ nodes[n] = Node
      /\ Postponed(n, p) = <<>>
      /\ Accumulated(n, p) = LockstepAcc(step[n], n)
      /\ \A j \in Node \ {n} : Among(log, i, j, step[n])
  BY <1>0, <1>1, HandshakePacket, FullRoundRead, Sizes
<1>3. c = Lockstep[t][n] /\ c \in Context
  <2>0. t < Last
    BY <1>2, Sizes
  <2>1. c = Lockstep[t][n]
    BY <1>0, <2>0, <1>2, LockstepAssumption
  <2> QED
    BY <1>2, <2>1, LockstepType
<1>4. out' = [out EXCEPT ![n] = Append(@, Msg(n, t))]
  BY <1>1, <1>3 DEF Msg
<1>5. Replayed(n, p) = NoPoints
  <2>1. DOMAIN Postponed(n, p) = {}
    BY <1>2
  <2> QED
    BY <2>1 DEF Replayed, NoPoints
<1>6. /\ status'[n] = "RUNNING" /\ nodes'[n] = Node /\ step'[n] = t
      /\ ctx'[n] = Lockstep[t][n]
      /\ remote'[n] = NoPoints /\ deferred'[n] = <<>> /\ key'[n] = key[n]
      /\ \A m \in Node \ {n} :
            /\ remote'[m] = remote[m] /\ deferred'[m] = deferred[m]
            /\ step'[m] = step[m] /\ ctx'[m] = ctx[m]
            /\ status'[m] = status[m] /\ nodes'[m] = nodes[m] /\ key'[m] = key[m]
  BY <1>0, <1>1, <1>2, <1>3, <1>5 DEF IInv, TypeInv
<1>7. \A j \in Node \ {n} : Logged(j, step[n])
  BY <1>2, ReadFacts DEF Logged, Among
<1>8. Logged(n, step[n]) \/ Queued(n, step[n])
  BY DEF IInv, NodeInv
<1>9. ~ Logged(n, t) /\ ~ Queued(n, t)
  <2>1. ~ (t <= step[n])
    BY <1>0, <1>2, Sizes
  <2> QED
    BY <1>2, <2>1 DEF IInv, SentInv
<1>10. /\ \A m \in Node : SentInv(m)'
       /\ CausalLog'
       /\ CausalOut'
       /\ Queued(n, t)'
       /\ \A m \in Node : \A s \in 0 .. Last - 1 : Queued(m, s) => Queued(m, s)'
       /\ out' \in [Node -> Seq(Known)]
       /\ \A m \in Node : \A h \in DOMAIN out'[m] : out'[m][h] \in KnownFrom(m)
  <2>1. step[n] <= t /\ t - 1 = step[n]
    BY <1>0, <1>2, Sizes
  <2>2. log' = log
    BY ReadFacts
  <2>3. /\ \A k \in Node \ {n} : Logged(k, t - 1)
        /\ Logged(n, t - 1) \/ Queued(n, t - 1)
    BY <2>1, <1>7, <1>8
  <2>4. \A m \in Node \ {n} : step'[m] = step[m] /\ nodes'[m] = nodes[m]
    BY <1>6
  <2>5. nodes'[n] = Node /\ step'[n] = t /\ t \in 0 .. Last - 1
    BY <1>2, <1>6
  <2> QED
    BY <1>4, <1>9, <2>1, <2>2, <2>3, <2>4, <2>5, Publish
<1>11. TypeInv'
  <2>1. DOMAIN remote' = Node
    BY <1>1 DEF IInv, TypeInv
  <2>2. \A m \in Node : /\ DOMAIN remote'[m] \subseteq Node
                        /\ remote'[m] \in [DOMAIN remote'[m] -> Point]
    BY <1>6 DEF IInv, TypeInv, NoPoints
  <2>3. /\ step' \in [Node -> 0 .. Last]
        /\ ctx' \in [Node -> Context \union {NoCtx}]
        /\ deferred' \in [Node -> Seq(Known)]
    <3>1. step' \in [Node -> 0 .. Last]
      BY <1>0, <1>1, <1>2 DEF IInv, TypeInv
    <3>2. ctx' \in [Node -> Context \union {NoCtx}]
      BY <1>1, <1>3 DEF IInv, TypeInv
    <3>3. deferred' \in [Node -> Seq(Known)]
      BY <1>1 DEF IInv, TypeInv
    <3> QED
      BY <3>1, <3>2, <3>3
  <2>4. /\ out' \in [Node -> Seq(Known)]
        /\ \A m \in Node : \A h \in DOMAIN out'[m] : out'[m][h] \in KnownFrom(m)
    BY <1>10
  <2>5. log' = log /\ pos' \in [Node -> 0 .. Len(log')]
    BY ReadFacts
  <2>6. /\ status' \in [Node -> Status] /\ nodes' \in [Node -> {{}, Node}]
        /\ key' \in [Node -> Point \union {NoKey}] /\ log' \in Seq(Known)
    BY <1>1, <2>5 DEF IInv, TypeInv
  <2> QED
    BY <2>1, <2>2, <2>3, <2>4, <2>5, <2>6 DEF TypeInv
<1>12. LocalTo(n)
  BY <1>6, ReadFacts DEF LocalTo
<1>13. NodeInv(n)'
  <2>1. Node # {} /\ key[n] = NoKey
    BY Sizes DEF IInv, NodeInv
  <2>2. Cardinality(DOMAIN remote'[n]) < Last
    <3>1. DOMAIN remote'[n] = {}
      BY <1>6 DEF NoPoints
    <3> QED
      BY <3>1, FS_EmptySet, Sizes
  <2>3. (Logged(n, t) \/ Queued(n, t))'
    BY <1>10
  <2>4. t < Last
    BY <1>2, Sizes
  <2>5. step'[n] = t /\ nodes'[n] = Node /\ status'[n] = "RUNNING" /\ key'[n] = NoKey
        /\ ctx'[n] = Lockstep[step'[n]][n] /\ step'[n] < Last
    BY <1>6, <2>1, <2>4
  <2>6. (Logged(n, step[n]) \/ Queued(n, step[n]))'
    BY <2>3, <2>5 DEF Logged, Queued
  <2> QED
    BY <2>1, <2>2, <2>5, <2>6 DEF NodeInv
<1>14. RemoteInv(n)' /\ DeferredInv(n)'
  BY <1>6 DEF RemoteInv, DeferredInv, NoPoints
<1>15. PastInv(n)'
  BY <1>0, <1>1, <1>6, PastAfterStep
<1>16. \A m \in Node : NodeInv(m)' /\ RemoteInv(m)' /\ DeferredInv(m)' /\ PastInv(m)'
  BY <1>10, <1>12, <1>13, <1>14, <1>15, ReadFacts, OtherNodes
<1> QED
  BY <1>10, <1>11, <1>16 DEF IInv

(***************************************************************************)
(* The start of the exchange, and packets of other commands.               *)
(***************************************************************************)
LEMMA NothingSentYet ==
    ASSUME IInv, NEW n \in Node, Counting(n)
    PROVE  /\ \A s \in 0 .. Last - 1 : ~ Logged(n, s) /\ ~ Queued(n, s)
           /\ status[n] = "OFFLINE" /\ step[n] = 0 /\ key[n] = NoKey
           /\ deferred[n] = <<>> /\ remote[n] = NoPoints
<1>1. nodes[n] = {} /\ nodes[n] # Node
  BY Sizes DEF Counting
<1> QED
  BY <1>1 DEF IInv, SentInv, NodeInv

LEMMA StartKeeps ==
    ASSUME IInv, NEW n \in Node, Counting(n), InitKey(n, Node), UNCHANGED <<log, pos>>
    PROVE  IInv'
<1> DEFINE c == MakeBroadval(n, SetPart(n))
<1>0. 0 \in 0 .. Last - 1 /\ 0 \in 0 .. Last /\ 0 < Last
  BY Sizes
<1>1. /\ status' = [status EXCEPT ![n] = "RUNNING"]
      /\ nodes' = [nodes EXCEPT ![n] = Node]
      /\ remote' = [remote EXCEPT ![n] = NoPoints]
      /\ step' = [step EXCEPT ![n] = 0]
      /\ ctx' = [ctx EXCEPT ![n] = c]
      /\ out' = [out EXCEPT ![n] =
                   Append(@, [cmd |-> "MKA", src |-> n, step |-> 0, key |-> c.k])]
      /\ UNCHANGED <<deferred, key, log, pos>>
  BY DEF InitKey, CryptoBroadcast, Write
<1>2. c = Lockstep[0][n] /\ c \in Context
  BY <1>0, LockstepAssumption, LockstepType
<1>3. out' = [out EXCEPT ![n] = Append(@, Msg(n, 0))]
  BY <1>1, <1>2 DEF Msg
<1>4. /\ status'[n] = "RUNNING" /\ nodes'[n] = Node /\ step'[n] = 0
      /\ ctx'[n] = Lockstep[0][n] /\ remote'[n] = NoPoints
      /\ deferred'[n] = deferred[n] /\ key'[n] = key[n]
      /\ \A m \in Node \ {n} :
            /\ remote'[m] = remote[m] /\ deferred'[m] = deferred[m]
            /\ step'[m] = step[m] /\ ctx'[m] = ctx[m] /\ pos'[m] = pos[m]
            /\ status'[m] = status[m] /\ nodes'[m] = nodes[m] /\ key'[m] = key[m]
  BY <1>1, <1>2 DEF IInv, TypeInv
<1>5. /\ \A m \in Node : SentInv(m)'
      /\ CausalLog'
      /\ CausalOut'
      /\ Queued(n, 0)'
      /\ \A m \in Node : \A s \in 0 .. Last - 1 : Queued(m, s) => Queued(m, s)'
      /\ out' \in [Node -> Seq(Known)]
      /\ \A m \in Node : \A i \in DOMAIN out'[m] : out'[m][i] \in KnownFrom(m)
  <2>1. ~ Logged(n, 0) /\ ~ Queued(n, 0) /\ step[n] <= 0 /\ ~ (0 > 0)
    BY <1>0, NothingSentYet
  <2>2. \A m \in Node \ {n} : step'[m] = step[m] /\ nodes'[m] = nodes[m]
    BY <1>4
  <2>3. log' = log
    BY <1>1
  <2> QED
    BY <1>0, <1>3, <1>4, <2>1, <2>2, <2>3, Publish
<1>6. TypeInv'
  <2>1. DOMAIN remote' = Node
    BY <1>1 DEF IInv, TypeInv
  <2>2. \A m \in Node : /\ DOMAIN remote'[m] \subseteq Node
                        /\ remote'[m] \in [DOMAIN remote'[m] -> Point]
    BY <1>4 DEF IInv, TypeInv, NoPoints
  <2>3. /\ step' \in [Node -> 0 .. Last]
        /\ ctx' \in [Node -> Context \union {NoCtx}]
    BY <1>0, <1>1, <1>2 DEF IInv, TypeInv
  <2>4. /\ status' \in [Node -> Status] /\ nodes' \in [Node -> {{}, Node}]
        /\ key' \in [Node -> Point \union {NoKey}] /\ log' \in Seq(Known)
        /\ deferred' \in [Node -> Seq(Known)] /\ pos' \in [Node -> 0 .. Len(log')]
    BY <1>1 DEF IInv, TypeInv, Status
  <2> QED
    BY <1>5, <2>1, <2>2, <2>3, <2>4 DEF TypeInv
<1>7. LocalTo(n)
  BY <1>4 DEF LocalTo
<1>8. NodeInv(n)'
  <2>1. Node # {} /\ key'[n] = NoKey
    BY <1>4, NothingSentYet, Sizes
  <2>2. Cardinality(DOMAIN remote'[n]) < Last
    <3>1. DOMAIN remote'[n] = {}
      BY <1>4 DEF NoPoints
    <3> QED
      BY <3>1, FS_EmptySet, Sizes
  <2>3. (Logged(n, step[n]) \/ Queued(n, step[n]))'
    BY <1>4, <1>5 DEF Logged, Queued
  <2>4. ctx'[n] = Lockstep[step'[n]][n] /\ step'[n] < Last
    BY <1>0, <1>4
  <2> QED
    BY <1>4, <2>1, <2>2, <2>3, <2>4 DEF NodeInv
<1>9. RemoteInv(n)' /\ DeferredInv(n)'
  <2>1. deferred'[n] = <<>> /\ Len(<<>>) = 0
    BY <1>4, NothingSentYet
  <2> QED
    BY <1>4, <2>1 DEF RemoteInv, DeferredInv, NoPoints
<1>10. PastInv(n)'
  BY <1>4, Sizes DEF PastInv
<1>11. \A m \in Node : NodeInv(m)' /\ RemoteInv(m)' /\ DeferredInv(m)' /\ PastInv(m)'
  BY <1>1, <1>5, <1>7, <1>8, <1>9, <1>10, OtherNodes
<1> QED
  BY <1>5, <1>6, <1>11 DEF IInv

LEMMA StartFailsKeeps ==
    ASSUME IInv, NEW n \in Node, Counting(n), InitKeyFails(n, Node), UNCHANGED <<log, pos>>
    PROVE  IInv'
<1>1. /\ status' = [status EXCEPT ![n] = "ERROR"]
      /\ nodes' = [nodes EXCEPT ![n] = Node]
      /\ UNCHANGED <<step, remote, deferred, ctx, key, out, log, pos>>
  BY DEF InitKeyFails
<1>2. TypeInv'
  BY <1>1 DEF IInv, TypeInv, Status
<1>3. /\ status'[n] = "ERROR" /\ nodes'[n] = Node
      /\ \A m \in Node \ {n} : status'[m] = status[m] /\ nodes'[m] = nodes[m]
  BY <1>1 DEF IInv, TypeInv
<1>4. LocalTo(n)
  BY <1>1, <1>3 DEF LocalTo
<1>5. /\ step'[n] = 0 /\ key'[n] = NoKey /\ remote'[n] = NoPoints
      /\ step[n] <= step'[n] /\ Node # {}
  BY <1>1, NothingSentYet, Sizes
<1>6. NodeInv(n)' /\ RemoteInv(n)' /\ DeferredInv(n)' /\ PastInv(n)'
  BY <1>3, <1>5, Sizes DEF NodeInv, RemoteInv, DeferredInv, PastInv, NoPoints
<1> QED
  BY <1>1, <1>2, <1>3, <1>4, <1>5, <1>6, ReadingStep

LEMMA ChatterKeeps ==
    ASSUME IInv, NEW n \in Node, Chatter(n)
    PROVE  IInv'
<1> DEFINE q  == out[n]
           q2 == out'[n]
           p  == [cmd |-> "THATSME", src |-> n]
<1>1. /\ out' = [out EXCEPT ![n] = Append(q, p)]
      /\ UNCHANGED <<status, nodes, step, remote, deferred, ctx, key, log, pos>>
  BY DEF Chatter, Write
<1>2. p \in KnownFrom(n) /\ p \in Known
  BY DEF KnownFrom, Known
<1>3. \A m \in Node : \A s \in 0 .. Last - 1 : p # Msg(m, s)
  <2>1. p.cmd = "THATSME"
    OBVIOUS
  <2> QED
    BY <2>1, MsgFields
<1>4. /\ q \in Seq(Known) /\ Len(q) \in Nat /\ q2 = Append(q, p)
      /\ q2 \in Seq(Known) /\ Len(q2) = Len(q) + 1
      /\ \A i \in 1 .. Len(q) : q2[i] = q[i]
      /\ q2[Len(q) + 1] = p
      /\ \A m \in Node \ {n} : out'[m] = out[m]
      /\ out' \in [Node -> Seq(Known)]
  BY <1>1, <1>2 DEF IInv, TypeInv
<1>5. \A m \in Node : \A i \in 1 .. Len(out'[m]) : \A s \in 0 .. Last - 1 :
         out'[m][i] = Msg(m, s) => i \in 1 .. Len(out[m]) /\ out[m][i] = Msg(m, s)
  <2> SUFFICES ASSUME NEW m \in Node, NEW i \in 1 .. Len(out'[m]),
                      NEW s \in 0 .. Last - 1, out'[m][i] = Msg(m, s)
               PROVE  i \in 1 .. Len(out[m]) /\ out[m][i] = Msg(m, s)
    OBVIOUS
  <2>1. CASE m # n
    BY <2>1, <1>4
  <2>2. CASE m = n
    <3>1. i # Len(q) + 1
      BY <2>2, <1>3, <1>4
    <3> QED
      BY <2>2, <3>1, <1>4
  <2> QED
    BY <2>1, <2>2
<1>6. \A m \in Node : \A s \in 0 .. Last - 1 : Queued(m, s) <=> Queued(m, s)'
  <2>1. \A m \in Node : \A s \in 0 .. Last - 1 : Queued(m, s)' => Queued(m, s)
    BY <1>5 DEF Queued, Among
  <2>2. \A m \in Node \ {n} : \A s \in 0 .. Last - 1 : Queued(m, s) => Queued(m, s)'
    BY <1>4 DEF Queued
  <2>3. \A s \in 0 .. Last - 1 : Queued(n, s) => Queued(n, s)'
    BY <1>4 DEF Queued, Among
  <2> QED
    BY <2>1, <2>2, <2>3
<1>7. TypeInv'
  <2>1. ASSUME NEW m \in Node, NEW i \in 1 .. Len(out'[m])
        PROVE  out'[m][i] \in KnownFrom(m)
    <3>1. \A h \in 1 .. Len(out[m]) : out[m][h] \in KnownFrom(m)
      BY DEF IInv, TypeInv
    <3>2. CASE m # n
      BY <3>1, <3>2, <1>4
    <3>3. CASE m = n /\ i = Len(q) + 1
      BY <3>3, <1>2, <1>4
    <3>4. CASE m = n /\ i # Len(q) + 1
      <4>1. i \in 1 .. Len(q)
        BY <3>4, <1>4
      <4>2. out'[m][i] = out[m][i]
        BY <3>4, <4>1, <1>4
      <4> QED
        BY <3>1, <3>4, <4>1, <4>2
    <3> QED
      BY <3>2, <3>3, <3>4
  <2> QED
    BY <2>1, <1>1, <1>4 DEF IInv, TypeInv
<1>8. ASSUME NEW m \in Node
      PROVE  NodeInv(m)' /\ RemoteInv(m)' /\ DeferredInv(m)' /\ PastInv(m)'
  <2>1. Grows
    BY <1>1 DEF Grows, IInv, TypeInv
  <2>2. pos'[m] \in Nat /\ pos[m] <= pos'[m]
    BY <1>1 DEF IInv, TypeInv
  <2> QED
    BY <1>1, <1>6, <2>1, <2>2, Frame DEF IInv
<1>9. ASSUME NEW m \in Node
      PROVE  SentInv(m)'
  <2>1. SentInv(m) /\ step'[m] = step[m] /\ nodes'[m] = nodes[m] /\ log' = log
    BY <1>1 DEF IInv
  <2>2. \A s \in 0 .. Last - 1 :
           (Logged(m, s) \/ Queued(m, s))' => s <= step'[m] /\ nodes'[m] = Node
    BY <2>1, <1>6 DEF SentInv, Logged
  <2>3. \A i \in 1 .. Len(out'[m]) : \A s \in 0 .. Last - 1 :
           out'[m][i] = Msg(m, s) => ~ Logged(m, s)'
    BY <2>1, <1>5 DEF SentInv, Logged
  <2>4. \A i, k \in 1 .. Len(out'[m]) : \A s \in 0 .. Last - 1 :
           out'[m][i] = Msg(m, s) /\ out'[m][k] = Msg(m, s) => i = k
    BY <2>1, <1>5 DEF SentInv
  <2>5. \A i, k \in 1 .. Len(log') : \A s \in 0 .. Last - 1 :
           log'[i] = Msg(m, s) /\ log'[k] = Msg(m, s) => i = k
    BY <2>1 DEF SentInv
  <2> QED
    BY <2>2, <2>3, <2>4, <2>5 DEF SentInv, Logged, Queued
<1>10. CausalLog'
  BY <1>1 DEF IInv, CausalLog
<1>11. CausalOut'
  <2> SUFFICES ASSUME NEW m \in Node, NEW i \in 1 .. Len(out'[m]),
                      NEW s \in 0 .. Last - 2, out'[m][i] = Msg(m, s + 1)
               PROVE  /\ \A k \in Node \ {m} : Logged(k, s)'
                      /\ Logged(m, s)' \/ Among(out'[m], i - 1, m, s)
    BY DEF CausalOut
  <2>1. s + 1 \in 0 .. Last - 1
    BY Sizes
  <2>2. i \in 1 .. Len(out[m]) /\ out[m][i] = Msg(m, s + 1)
    BY <2>1, <1>5
  <2>3. /\ \A k \in Node \ {m} : Logged(k, s)
        /\ Logged(m, s) \/ Among(out[m], i - 1, m, s)
    BY <2>2 DEF IInv, CausalOut
  <2>4. \A h \in 1 .. i - 1 : out'[m][h] = out[m][h]
    <3>1. CASE m # n
      BY <3>1, <1>4
    <3>2. CASE m = n
      BY <3>2, <2>2, <1>4
    <3> QED
      BY <3>1, <3>2
  <2>5. Among(out[m], i - 1, m, s) => Among(out'[m], i - 1, m, s)
    BY <2>4 DEF Among
  <2> QED
    BY <2>3, <2>5, <1>1 DEF Logged
<1> QED
  BY <1>7, <1>8, <1>9, <1>10, <1>11 DEF IInv

(***************************************************************************)
(* The invariant holds initially and every step of the system keeps it.    *)
(***************************************************************************)
LEMMA InitIInv == Init => IInv
<1> SUFFICES ASSUME Init PROVE IInv
  OBVIOUS
<1>1. /\ log = <<>> /\ Len(log) = 0
      /\ \A n \in Node : /\ status[n] = "OFFLINE" /\ nodes[n] = {} /\ step[n] = 0
                         /\ remote[n] = NoPoints /\ deferred[n] = <<>>
                         /\ key[n] = NoKey /\ out[n] = <<>> /\ Len(out[n]) = 0
  BY DEF Init, MKAInit
<1>2. TypeInv
  <2>1. \A n \in Node : DOMAIN remote[n] = {} /\ remote[n] \in [{} -> Point]
    BY <1>1 DEF NoPoints
  <2>2. <<>> \in Seq(Known)
    OBVIOUS
  <2>3. 0 \in 0 .. Last /\ 0 \in 0 .. Len(log)
    BY <1>1, Sizes
  <2>4. DOMAIN remote = Node
    BY DEF Init, MKAInit
  <2> QED
    BY <1>1, <2>1, <2>2, <2>3, <2>4 DEF Init, MKAInit, TypeInv, Status
<1>3. \A n \in Node : NodeInv(n) /\ RemoteInv(n) /\ DeferredInv(n) /\ PastInv(n)
  BY <1>1, Sizes DEF NodeInv, RemoteInv, DeferredInv, PastInv, NoPoints
<1>4. \A n \in Node : SentInv(n)
  BY <1>1 DEF SentInv, Logged, Queued, Among
<1>5. CausalLog /\ CausalOut
  BY <1>1 DEF CausalLog, CausalOut
<1> QED
  BY <1>2, <1>3, <1>4, <1>5 DEF IInv

LEMMA ReceiveKeeps ==
    ASSUME IInv, NEW n \in Node, Receive(n)
    PROVE  IInv'
<1>1. PICK i \in DOMAIN log :
         Reads(n, i) /\ (CryptoUpdate(n, log[i]) \/ Discard(n, log[i]))
  BY DEF Receive
<1>2. CASE CryptoUpdate(n, log[i])
  <2>1. status[n] = "RUNNING" /\ ~ Ignored(n, log[i])
    BY <1>2 DEF CryptoUpdate
  <2>2. CASE Collect(n, log[i])
    BY <1>1, <2>1, <2>2, CollectKeeps
  <2>3. CASE NextRound(n, log[i])
    BY <1>1, <2>1, <2>3, NextRoundKeeps
  <2>4. CASE LastRound(n, log[i])
    BY <1>1, <2>1, <2>4, LastRoundKeeps
  <2>5. CASE AccumulateFails(n, log[i])
    BY <1>1, <2>1, <2>5, AccumulateFailsKeeps
  <2>6. CASE AdvanceFails(n, log[i])
    BY <1>1, <2>1, <2>6, AdvanceFailsKeeps
  <2> QED
    BY <1>2, <2>2, <2>3, <2>4, <2>5, <2>6 DEF CryptoUpdate
<1>3. CASE Discard(n, log[i])
  <2>1. /\ i \in pos[n] + 1 .. Len(log) /\ pos' = [pos EXCEPT ![n] = i]
        /\ UNCHANGED <<mkaVars, log>>
    BY <1>1, <1>3 DEF Reads, Discard
  <2> QED
    BY <2>1, DroppedPackets
<1> QED
  BY <1>1, <1>2, <1>3

LEMMA StutterKeeps ==
    ASSUME IInv, UNCHANGED vars
    PROVE  IInv'
<1>1. UNCHANGED <<status, nodes, step, remote, deferred, ctx, key, out, log, pos>>
  BY DEF vars, mkaVars
<1>2. TypeInv'
  BY <1>1 DEF IInv, TypeInv
<1>3. ASSUME NEW m \in Node
      PROVE  NodeInv(m)' /\ RemoteInv(m)' /\ DeferredInv(m)' /\ PastInv(m)'
  <2>1. Grows /\ pos'[m] \in Nat /\ pos[m] <= pos'[m]
    BY <1>1 DEF Grows, IInv, TypeInv
  <2>2. \A s \in 0 .. Last - 1 : Queued(m, s) => Queued(m, s)'
    BY <1>1 DEF Queued
  <2> QED
    BY <1>1, <2>1, <2>2, Frame DEF IInv
<1>4. /\ \A m \in Node : SentInv(m)'
      /\ CausalLog' /\ CausalOut'
  <2>1. \A m \in Node : /\ step'[m] \in Nat /\ step[m] <= step'[m]
                        /\ nodes[m] = Node => nodes'[m] = Node
    BY <1>1, Sizes DEF IInv, TypeInv
  <2> QED
    BY <1>1, <2>1, QuietNetwork
<1> QED
  BY <1>2, <1>3, <1>4 DEF IInv

LEMMA NextIInv == IInv /\ [Next]_vars => IInv'
<1> SUFFICES ASSUME IInv, [Next]_vars PROVE IInv'
  OBVIOUS
<1>1. CASE UNCHANGED vars
  BY <1>1, StutterKeeps
<1>2. ASSUME NEW n \in Node, Start(n) PROVE IInv'
  BY <1>2, StartKeeps, StartFailsKeeps DEF Start
<1>3. ASSUME NEW n \in Node, Chatter(n) PROVE IInv'
  BY <1>3, ChatterKeeps
<1>4. ASSUME NEW n \in Node, Relay(n) PROVE IInv'
  BY <1>4, RelayKeeps
<1>5. ASSUME NEW n \in Node, Miss(n) PROVE IInv'
  BY <1>5, DroppedPackets DEF Miss
<1>6. ASSUME NEW n \in Node, Receive(n) PROVE IInv'
  BY <1>6, ReceiveKeeps
<1>7. ASSUME NEW n \in Node, Shutdown(n) PROVE IInv'
  BY <1>7, ShutdownKeeps
<1> QED
  BY <1>1, <1>2, <1>3, <1>4, <1>5, <1>6, <1>7 DEF Next

\* Whatever the interleaving, every node follows the lock-step run: its
\* context is a function of its step alone (mka.h 167-224 over mka.c).
THEOREM FollowsLockstep == Spec => []IInv
<1> QED
  BY InitIInv, NextIInv, PTL DEF Spec

\* Nodes that complete hold the same key (mka.h 79-113, mka_compute_key).
THEOREM Agreement == Spec => []KeyAgreement
<1>1. IInv => KeyAgreement
  BY LockstepAgreement DEF IInv, NodeInv, KeyAgreement
<1> QED
  BY <1>1, FollowsLockstep, PTL

\* What is gathered for a step is what was published for that step
\* (_remote_keys, mka.h 172-221).
THEOREM Integrity == Spec => []RoundIntegrity
<1>1. IInv => RoundIntegrity
  <2> SUFFICES ASSUME IInv, NEW n \in Node, NEW j \in DOMAIN remote[n]
               PROVE  \E i \in 1 .. pos[n] :
                         log[i] = [cmd |-> "MKA", src |-> j, step |-> step[n],
                                   key |-> remote[n][j]]
    BY DEF RoundIntegrity
  <2>1. remote[n][j] = Lockstep[step[n]][j].k /\ Seen(n, j, step[n])
    BY DEF IInv, RemoteInv
  <2> QED
    BY <2>1 DEF Seen, Among, Msg
<1> QED
  BY <1>1, FollowsLockstep, PTL

\* No node is two steps ahead of another (_current_step, mka.h 189-207).
THEOREM StepBarrier == Spec => []Barrier
<1>1. IInv => Barrier
  <2> SUFFICES ASSUME IInv, NEW m \in Node, NEW n \in Node
               PROVE  step[n] <= step[m] + 1
    BY DEF Barrier
  <2>1. step[m] \in 0 .. Last /\ step[n] \in 0 .. Last /\ Last \in Nat
    BY Sizes DEF IInv, TypeInv
  <2>2. CASE m = n \/ step[n] = 0
    BY <2>1, <2>2
  <2>3. CASE m # n /\ step[n] # 0
    <3>1. step[n] - 1 \in 0 .. Last - 1 /\ step[n] - 1 < step[n]
      BY <2>1, <2>3
    <3>2. Seen(n, m, step[n] - 1)
      BY <2>3, <3>1 DEF IInv, PastInv
    <3>3. Logged(m, step[n] - 1)
      <4>1. pos[n] \in 0 .. Len(log) /\ Len(log) \in Nat
        BY DEF IInv, TypeInv
      <4> QED
        BY <3>2, <4>1 DEF Seen, Logged, Among
    <3>4. step[n] - 1 <= step[m]
      BY <3>1, <3>3 DEF IInv, SentInv
    <3> QED
      BY <2>1, <3>4
  <2> QED
    BY <2>2, <2>3
<1> QED
  BY <1>1, FollowsLockstep, PTL

(***************************************************************************)
(* Type correctness.  TypeInv bounds the packets by those of the lock-step *)
(* run; what is left is that only packets of the handshake are postponed.  *)
(***************************************************************************)
PostponedType == deferred \in [Node -> Seq(MKAPacket)]

LEMMA PostponedTypeKept == IInv /\ PostponedType /\ [Next]_vars => PostponedType'
<1> SUFFICES ASSUME IInv, PostponedType, [Next]_vars PROVE PostponedType'
  OBVIOUS
<1>1. CASE UNCHANGED deferred
  BY <1>1 DEF PostponedType
<1>2. ASSUME NEW n \in Node, Receive(n) PROVE PostponedType'
  <2>1. PICK i \in DOMAIN log :
           Reads(n, i) /\ (CryptoUpdate(n, log[i]) \/ Discard(n, log[i]))
    BY <1>2 DEF Receive
  <2>2. CASE Discard(n, log[i])
    BY <1>1, <2>2 DEF Discard, mkaVars
  <2>3. CASE CryptoUpdate(n, log[i])
    <3>1. status[n] = "RUNNING" /\ ~ Ignored(n, log[i])
      BY <2>3 DEF CryptoUpdate
    <3>2. /\ log[i].src \in Node /\ log[i].step \in 0 .. Last - 1
          /\ log[i] = Msg(log[i].src, log[i].step)
      BY <2>1, <3>1, HandshakePacket
    <3>3. log[i] \in MKAPacket
      BY <3>2, MsgFields
    <3>4. Postponed(n, log[i]) \in Seq(MKAPacket) /\ <<>> \in Seq(MKAPacket)
      BY <3>3 DEF Postponed, PostponedType
    <3>5. \/ deferred' = [deferred EXCEPT ![n] = Postponed(n, log[i])]
          \/ deferred' = [deferred EXCEPT ![n] = <<>>]
      BY <2>3 DEF CryptoUpdate, Collect, NextRound, LastRound,
                  AccumulateFails, AdvanceFails
    <3> QED
      BY <3>4, <3>5 DEF PostponedType
  <2> QED
    BY <2>1, <2>2, <2>3
<1>3. ASSUME NEW n \in Node,
             Start(n) \/ Chatter(n) \/ Relay(n) \/ Miss(n) \/ Shutdown(n)
      PROVE  PostponedType'
  BY <1>1, <1>3 DEF Start, InitKey, InitKeyFails, CryptoBroadcast, Chatter, Relay,
                    Miss, Shutdown, ShutdownKey, mkaVars
<1>4. CASE UNCHANGED vars
  BY <1>1, <1>4 DEF vars, mkaVars
<1> QED
  BY <1>2, <1>3, <1>4 DEF Next

LEMMA TypeFollows == IInv /\ PostponedType => TypeOK
<1> SUFFICES ASSUME IInv, PostponedType PROVE TypeOK
  OBVIOUS
<1>1. Known \subseteq Packet
  BY KnownPackets
<1>2. log \in Seq(Packet) /\ out \in [Node -> Seq(Packet)]
  BY <1>1 DEF IInv, TypeInv
<1>3. \A n \in Node : /\ DOMAIN remote[n] \subseteq Node \ {n}
                      /\ \A j \in DOMAIN remote[n] : remote[n][j] \in Point
  BY DEF IInv, TypeInv, RemoteInv
<1>4. step \in [Node -> 0 .. Cardinality(Node) - 1]
  BY DEF IInv, TypeInv, Last, Size
<1>5. /\ status \in [Node -> Status] /\ nodes \in [Node -> SUBSET Node]
      /\ DOMAIN remote = Node
      /\ ctx \in [Node -> Context \union {NoCtx}]
      /\ key \in [Node -> Point \union {NoKey}]
      /\ pos \in [Node -> 0 .. Len(log)]
  BY DEF IInv, TypeInv
<1> QED
  BY <1>2, <1>3, <1>4, <1>5 DEF TypeOK, MKATypeOK, PostponedType

\* Every field of the exchange keeps its type (mka.h 33-77, 167-224).
THEOREM TypeCorrect == Spec => []TypeOK
<1>1. Init => PostponedType
  BY DEF Init, MKAInit, PostponedType
<1>2. Spec => []PostponedType
  BY <1>1, PostponedTypeKept, FollowsLockstep, PTL DEF Spec
<1> QED
  BY <1>2, TypeFollows, FollowsLockstep, PTL

\* Over one stream the loop that replays postponed packets never has one to
\* replay (mka.h 209-221).
THEOREM NothingToReplay == Spec => NeverReplays
<1>1. ASSUME IInv, [Next]_vars
      PROVE  [\A n \in Node : step'[n] # step[n] => deferred[n] = <<>>]_vars
  <2> SUFFICES ASSUME Next, NEW n \in Node, step'[n] # step[n]
               PROVE  deferred[n] = <<>>
    BY <1>1
  <2>1. step \in [Node -> 0 .. Last]
    BY <1>1 DEF IInv, TypeInv
  <2>2. ASSUME NEW m \in Node, Start(m) PROVE deferred[n] = <<>>
    <3>1. step[m] = 0 /\ deferred[m] = <<>>
      BY <1>1, <2>2, NothingSentYet DEF Start
    <3>2. step' = [step EXCEPT ![m] = 0] \/ step' = step
      BY <2>2 DEF Start, InitKey, InitKeyFails
    <3> QED
      BY <2>1, <3>1, <3>2
  <2>3. ASSUME NEW m \in Node, Receive(m) PROVE deferred[n] = <<>>
    <3>1. PICK i \in DOMAIN log :
             Reads(m, i) /\ (CryptoUpdate(m, log[i]) \/ Discard(m, log[i]))
      BY <2>3 DEF Receive
    <3>2. CASE Discard(m, log[i])
      BY <3>2 DEF Discard, mkaVars
    <3>3. CASE CryptoUpdate(m, log[i])
      <4>1. status[m] = "RUNNING" /\ ~ Ignored(m, log[i])
        BY <3>3 DEF CryptoUpdate
      <4>2. \/ step' = step
            \/ RoundFull(m, log[i]) /\ step' = [step EXCEPT ![m] = @ + 1]
        BY <3>3 DEF CryptoUpdate, Collect, NextRound, LastRound,
                    AccumulateFails, AdvanceFails
      <4>3. RoundFull(m, log[i]) /\ n = m
        BY <2>1, <4>2
      <4> QED
        BY <1>1, <3>1, <4>1, <4>3, FullRoundRead
    <3> QED
      BY <3>1, <3>2, <3>3
  <2>4. ASSUME NEW m \in Node, Chatter(m) \/ Relay(m) \/ Miss(m) \/ Shutdown(m)
        PROVE  step' = step
    BY <2>4 DEF Chatter, Relay, Miss, Shutdown, ShutdownKey, mkaVars
  <2> QED
    BY <2>2, <2>3, <2>4 DEF Next
<1> QED
  BY <1>1, FollowsLockstep, PTL DEF Spec, NeverReplays

(***************************************************************************)
(* The exchange implements the contributory key agreement of GroupKey.     *)
(***************************************************************************)
LEMMA SamePackets ==
    ASSUME UNCHANGED <<log, out>>
    PROVE  Contributed' = Contributed
  BY DEF Contributed

LEMMA OnePacketMore ==
    ASSUME TypeInv, NEW n \in Node, NEW p \in Known, log' = log,
           out' = [out EXCEPT ![n] = Append(@, p)], p.src = n
    PROVE  Contributed' = IF p.cmd = "MKA" THEN Contributed \union {n} ELSE Contributed
<1>1. /\ out \in [Node -> Seq(Known)] /\ Len(out[n]) \in Nat
      /\ out'[n] = Append(out[n], p)
      /\ \A m \in Node \ {n} : out'[m] = out[m]
  BY DEF TypeInv
<1>2. /\ DOMAIN out'[n] = 1 .. Len(out[n]) + 1
      /\ DOMAIN out[n] = 1 .. Len(out[n])
      /\ \A i \in 1 .. Len(out[n]) : out'[n][i] = out[n][i]
      /\ out'[n][Len(out[n]) + 1] = p
  BY <1>1
<1>3. ASSUME NEW m \in Node
      PROVE  (\E i \in DOMAIN out'[m] : out'[m][i].cmd = "MKA") <=>
                \/ \E i \in DOMAIN out[m] : out[m][i].cmd = "MKA"
                \/ m = n /\ p.cmd = "MKA"
  <2>1. CASE m # n
    BY <1>1, <2>1
  <2>2. CASE m = n
    BY <1>2, <2>2
  <2> QED
    BY <2>1, <2>2
<1> QED
  BY <1>3 DEF Contributed

LEMMA RelayedPacket ==
    ASSUME TypeInv, NEW n \in Node, Relay(n)
    PROVE  Contributed' = Contributed
<1> DEFINE q == out[n]
<1>1. /\ q \in Seq(Known) /\ q # <<>> /\ Len(q) \in Nat /\ log \in Seq(Known)
      /\ log' = Append(log, q[1]) /\ out' = [out EXCEPT ![n] = Tail(q)]
      /\ out \in [Node -> Seq(Known)]
  BY DEF TypeInv, Relay
<1>2. /\ Len(q) >= 1 /\ DOMAIN q = 1 .. Len(q)
      /\ out'[n] = Tail(q) /\ DOMAIN out'[n] = 1 .. Len(q) - 1
      /\ \A i \in 1 .. Len(q) - 1 : out'[n][i] = q[i + 1]
      /\ \A m \in Node \ {n} : out'[m] = out[m]
  BY <1>1
<1>3. /\ Len(log) \in Nat /\ DOMAIN log = 1 .. Len(log)
      /\ DOMAIN log' = 1 .. Len(log) + 1
      /\ \A i \in 1 .. Len(log) : log'[i] = log[i]
      /\ log'[Len(log) + 1] = q[1]
  BY <1>1
<1>4. q[1].src = n
  <2>1. q[1] \in KnownFrom(n)
    BY <1>2 DEF TypeInv
  <2>2. CASE q[1] \in Msgs(n)
    BY <2>2, MsgFields DEF Msgs
  <2>3. CASE q[1] \in [cmd : {"THATSME"}, src : {n}]
    BY <2>3
  <2> QED
    BY <2>1, <2>2, <2>3 DEF KnownFrom
<1>5. ASSUME NEW m \in Node
      PROVE  (\E i \in DOMAIN log' : log'[i].cmd = "MKA" /\ log'[i].src = m) <=>
                \/ \E i \in DOMAIN log : log[i].cmd = "MKA" /\ log[i].src = m
                \/ m = n /\ q[1].cmd = "MKA"
  BY <1>3, <1>4
<1>6. (\E i \in DOMAIN q : q[i].cmd = "MKA") <=>
         \/ q[1].cmd = "MKA"
         \/ \E i \in DOMAIN out'[n] : out'[n][i].cmd = "MKA"
  <2>1. ASSUME NEW i \in DOMAIN q, q[i].cmd = "MKA"
        PROVE  \/ q[1].cmd = "MKA"
               \/ \E h \in DOMAIN out'[n] : out'[n][h].cmd = "MKA"
    <3>1. CASE i = 1
      BY <2>1, <3>1
    <3>2. CASE i # 1
      <4>1. i - 1 \in 1 .. Len(q) - 1 /\ out'[n][i - 1] = q[i]
        BY <1>2, <3>2
      <4> QED
        BY <1>2, <2>1, <4>1
    <3> QED
      BY <3>1, <3>2
  <2>2. ASSUME NEW i \in DOMAIN out'[n], out'[n][i].cmd = "MKA"
        PROVE  \E h \in DOMAIN q : q[h].cmd = "MKA"
    <3>1. i + 1 \in DOMAIN q /\ q[i + 1] = out'[n][i]
      BY <1>2
    <3> QED
      BY <2>2, <3>1
  <2>3. 1 \in DOMAIN q
    BY <1>2
  <2> QED
    BY <2>1, <2>2, <2>3
<1>7. ASSUME NEW m \in Node
      PROVE  m \in Contributed' <=> m \in Contributed
  <2>1. CASE m = n
    BY <1>5, <1>6, <2>1 DEF Contributed
  <2>2. CASE m # n
    BY <1>2, <1>5, <2>2 DEF Contributed
  <2> QED
    BY <2>1, <2>2
<1> QED
  BY <1>7 DEF Contributed

\* A packet that was published shows its sender as a contributor.
LEMMA Publishers ==
    ASSUME TypeInv, NEW n \in Node, NEW s \in 0 .. Last - 1,
           Logged(n, s) \/ Queued(n, s)
    PROVE  n \in Contributed
<1>1. Msg(n, s).cmd = "MKA" /\ Msg(n, s).src = n
  BY MsgFields
<1>2. DOMAIN log = 1 .. Len(log) /\ DOMAIN out[n] = 1 .. Len(out[n])
  BY DEF TypeInv
<1> QED
  BY <1>1, <1>2 DEF Contributed, Logged, Queued, Among

Phases == [n \in Node |-> Phase(n)]

\* The phase of the nodes that neither start nor change status is the same.
LEMMA PhaseKept ==
    ASSUME TypeInv, TypeInv', NEW n \in Node,
           \A m \in Node \ {n} : status'[m] = status[m] /\ nodes'[m] = nodes[m]
    PROVE  Phases' = [Phases EXCEPT ![n] = Phase(n)']
<1>1. \A m \in Node \ {n} : Phase(m)' = Phase(m)
  BY DEF Phase, Counting
<1> QED
  BY <1>1 DEF Phases

LEMMA SamePhases ==
    ASSUME UNCHANGED <<status, nodes>>
    PROVE  Phases' = Phases
  BY DEF Phases, Phase, Counting

LEMMA StartRefines ==
    ASSUME IInv, IInv', NEW n \in Node, Start(n)
    PROVE  GK!Join(n) \/ GK!Fail(n)
<1>1. TypeInv /\ TypeInv' /\ Node # {} /\ Phase(n) = "idle" /\ Phases[n] = "idle"
  <2>1. Counting(n) /\ status[n] = "OFFLINE"
    BY NothingSentYet DEF Start
  <2>2. Phase(n) = "idle"
    BY <2>1 DEF Phase
  <2> QED
    BY <2>2, Sizes DEF IInv, Phases
<1>2. CASE InitKey(n, Node)
  <2> DEFINE c == MakeBroadval(n, SetPart(n))
             p == [cmd |-> "MKA", src |-> n, step |-> 0, key |-> c.k]
  <2>1. /\ status' = [status EXCEPT ![n] = "RUNNING"]
        /\ nodes' = [nodes EXCEPT ![n] = Node]
        /\ out' = [out EXCEPT ![n] = Append(@, p)]
        /\ log' = log /\ key' = key
    BY <1>2 DEF Start, InitKey, CryptoBroadcast, Write
  <2>2. Phase(n)' = "working"
    BY <1>1, <2>1 DEF TypeInv, Phase, Counting
  <2>3. Phases' = [Phases EXCEPT ![n] = "working"]
    BY <1>1, <2>1, <2>2, PhaseKept DEF TypeInv
  <2>4. p \in Known
    <3>1. c.k = Lockstep[0][n].k /\ 0 \in 0 .. Last - 1
      BY LockstepAssumption, Sizes
    <3>2. p = Msg(n, 0)
      BY <3>1 DEF Msg
    <3> QED
      BY <3>1, <3>2, MsgKnown
  <2>5. Contributed' = Contributed \union {n}
    BY <1>1, <2>1, <2>4, OnePacketMore
  <2> QED
    BY <1>1, <2>1, <2>3, <2>5 DEF GK!Join, Phases
<1>3. CASE InitKeyFails(n, Node)
  <2>1. /\ status' = [status EXCEPT ![n] = "ERROR"]
        /\ nodes' = [nodes EXCEPT ![n] = Node]
        /\ UNCHANGED <<log, out, key>>
    BY <1>3 DEF Start, InitKeyFails
  <2>2. Phase(n)' = "failed"
    BY <1>1, <2>1 DEF TypeInv, Phase, Counting
  <2>3. Phases' = [Phases EXCEPT ![n] = "failed"]
    BY <1>1, <2>1, <2>2, PhaseKept DEF TypeInv
  <2> QED
    BY <1>1, <2>1, <2>3, SamePackets DEF GK!Fail, Phases
<1> QED
  BY <1>2, <1>3 DEF Start

LEMMA UpdateRefines ==
    ASSUME IInv, IInv', NEW n \in Node, NEW i \in DOMAIN log, Reads(n, i),
           CryptoUpdate(n, log[i])
    PROVE  GK!Finish(n) \/ GK!Fail(n) \/ UNCHANGED <<Phases, Contributed, key>>
<1>1. /\ TypeInv /\ TypeInv' /\ Node # {} /\ log' = log
      /\ status[n] = "RUNNING" /\ ~ Ignored(n, log[i]) /\ nodes[n] = Node
      /\ NodeInv(n)
  BY Sizes DEF IInv, CryptoUpdate, Reads, NodeInv
<1>2. Phases[n] = "working"
  BY <1>1 DEF Phases, Phase, Counting
<1>3. CASE Collect(n, log[i])
  BY <1>1, <1>3, SamePhases, SamePackets DEF Collect
<1>4. CASE NextRound(n, log[i])
  <2> DEFINE c == MakeBroadval(n, Accumulated(n, log[i]))
             p == [cmd |-> "MKA", src |-> n, step |-> step[n] + 1, key |-> c.k]
  <2>1. /\ UNCHANGED <<status, nodes, key>> /\ step[n] + 1 # Rounds(n)
        /\ out' = [out EXCEPT ![n] = Append(@, p)]
    BY <1>4 DEF NextRound, LastStep, CryptoBroadcast, Write
  <2>2. /\ step[n] \in 0 .. Last - 1 /\ Rounds(n) = Last
        /\ Accumulated(n, log[i]) = LockstepAcc(step[n], n)
    BY <1>1, <1>4, HandshakePacket, FullRoundRead DEF NextRound
  <2>3. c.k = Lockstep[step[n] + 1][n].k /\ step[n] + 1 \in 0 .. Last - 1
    BY <2>1, <2>2, LockstepAssumption, Sizes
  <2>4. p \in Known
    <3>1. p = Msg(n, step[n] + 1)
      BY <2>3 DEF Msg
    <3> QED
      BY <2>3, <3>1, MsgKnown
  <2>5. n \in Contributed
    BY <1>1, <2>2, Publishers DEF NodeInv
  <2>6. Contributed' = Contributed
    BY <1>1, <2>1, <2>4, <2>5, OnePacketMore
  <2> QED
    BY <2>1, <2>6, SamePhases
<1>5. CASE LastRound(n, log[i])
  <2>1. /\ status' = [status EXCEPT ![n] = "COMPLETED"] /\ UNCHANGED <<nodes, out>>
        /\ \E k \in {ComputeKey(n, Accumulated(n, log[i]))} :
              key' = [key EXCEPT ![n] = k]
        /\ step' = [step EXCEPT ![n] = @ + 1]
        /\ RoundFull(n, log[i])
    BY <1>5 DEF LastRound
  <2>2. Phase(n)' = "done"
    BY <1>1, <2>1 DEF TypeInv, Phase, Counting
  <2>3. Phases' = [Phases EXCEPT ![n] = "done"]
    BY <1>1, <2>1, <2>2, PhaseKept DEF TypeInv
  <2>4. key' = [key EXCEPT ![n] = GroupSecret]
    <3>1. status'[n] = "COMPLETED" /\ NodeInv(n)'
      BY <1>1, <2>1 DEF TypeInv, IInv
    <3>2. key'[n] = GroupSecret
      BY <3>1, LockstepAgreement DEF NodeInv
    <3> QED
      BY <1>1, <2>1, <3>2 DEF TypeInv
  <2>5. Contributed = Node
    <3>1. step[n] \in 0 .. Last - 1
      BY <1>1, HandshakePacket
    <3>2. n \in Contributed
      BY <1>1, <3>1, Publishers DEF NodeInv
    <3>3. ASSUME NEW j \in Node \ {n} PROVE j \in Contributed
      <4>1. Among(log, i, j, step[n])
        BY <1>1, <2>1, FullRoundRead
      <4>2. i \in 1 .. Len(log) /\ Len(log) \in Nat
        BY ReadFacts
      <4>3. Logged(j, step[n])
        BY <4>1, <4>2 DEF Logged, Among
      <4> QED
        BY <1>1, <3>1, <4>3, Publishers
    <3> QED
      BY <3>2, <3>3 DEF Contributed
  <2> QED
    BY <1>1, <1>2, <2>1, <2>3, <2>4, <2>5, SamePackets DEF GK!Finish, Phases
<1>6. CASE AccumulateFails(n, log[i]) \/ AdvanceFails(n, log[i])
  <2>1. status' = [status EXCEPT ![n] = "ERROR"] /\ UNCHANGED <<nodes, out, key>>
    BY <1>6 DEF AccumulateFails, AdvanceFails
  <2>2. Phase(n)' = "failed"
    BY <1>1, <2>1 DEF TypeInv, Phase, Counting
  <2>3. Phases' = [Phases EXCEPT ![n] = "failed"]
    BY <1>1, <2>1, <2>2, PhaseKept DEF TypeInv
  <2> QED
    BY <1>1, <1>2, <2>1, <2>3, SamePackets DEF GK!Fail, Phases
<1> QED
  BY <1>3, <1>4, <1>5, <1>6 DEF CryptoUpdate

LEMMA ShutdownRefines ==
    ASSUME IInv, IInv', NEW n \in Node, Shutdown(n)
    PROVE  UNCHANGED <<Phases, Contributed, key>>
<1>1. /\ TypeInv /\ TypeInv' /\ NodeInv(n) /\ Node # {} /\ status[n] = "ERROR"
      /\ status' = [status EXCEPT ![n] = "OFFLINE"]
      /\ key' = [key EXCEPT ![n] = NoKey]
      /\ UNCHANGED <<nodes, log, out>>
  BY Sizes DEF IInv, Shutdown, ShutdownKey
<1>2. nodes[n] # {} /\ key[n] = NoKey
  BY <1>1 DEF NodeInv
<1>3. Phase(n)' = Phase(n)
  BY <1>1, <1>2 DEF Phase, Counting, TypeInv
<1>4. Phases' = Phases
  <2>1. ASSUME NEW m \in Node PROVE Phase(m)' = Phase(m)
    <3>1. CASE m = n
      BY <1>3, <3>1
    <3>2. CASE m # n
      BY <1>1, <3>2 DEF Phase, Counting, TypeInv
    <3> QED
      BY <3>1, <3>2
  <2> QED
    BY <2>1 DEF Phases
<1>5. key' = key
  BY <1>1, <1>2 DEF TypeInv
<1> QED
  BY <1>1, <1>4, <1>5, SamePackets

LEMMA StepRefines ==
    ASSUME IInv, IInv', [Next]_vars
    PROVE  [GK!Next]_(GK!abstractVars)
<1>1. SUFFICES \/ \E n \in Node : GK!Join(n) \/ GK!Finish(n) \/ GK!Fail(n)
               \/ UNCHANGED <<Phases, Contributed, key>>
  BY DEF GK!Next, GK!abstractVars, Phases
<1>2. CASE UNCHANGED vars
  BY <1>2, SamePhases, SamePackets DEF vars, mkaVars
<1>3. ASSUME NEW n \in Node, Start(n)
      PROVE  GK!Join(n) \/ GK!Fail(n)
  BY <1>3, StartRefines
<1>4. ASSUME NEW n \in Node, Chatter(n)
      PROVE  UNCHANGED <<Phases, Contributed, key>>
  <2> DEFINE p == [cmd |-> "THATSME", src |-> n]
  <2>1. /\ out' = [out EXCEPT ![n] = Append(@, p)]
        /\ UNCHANGED <<status, nodes, key, log>>
    BY <1>4 DEF Chatter, Write
  <2>2. p \in Known /\ p.src = n /\ p.cmd # "MKA"
    BY DEF Known, KnownFrom
  <2>3. Contributed' = Contributed
    BY <2>1, <2>2, OnePacketMore DEF IInv
  <2> QED
    BY <2>1, <2>3, SamePhases
<1>5. ASSUME NEW n \in Node, Relay(n)
      PROVE  UNCHANGED <<Phases, Contributed, key>>
  BY <1>5, RelayedPacket, SamePhases DEF Relay, IInv
<1>6. ASSUME NEW n \in Node, Miss(n)
      PROVE  UNCHANGED <<Phases, Contributed, key>>
  BY <1>6, SamePhases, SamePackets DEF Miss, mkaVars
<1>7. ASSUME NEW n \in Node, Receive(n)
      PROVE  GK!Finish(n) \/ GK!Fail(n) \/ UNCHANGED <<Phases, Contributed, key>>
  <2>1. PICK i \in DOMAIN log :
           Reads(n, i) /\ (CryptoUpdate(n, log[i]) \/ Discard(n, log[i]))
    BY <1>7 DEF Receive
  <2>2. CASE Discard(n, log[i])
    BY <2>1, <2>2, SamePhases, SamePackets DEF Discard, Reads, mkaVars
  <2> QED
    BY <2>1, <2>2, UpdateRefines
<1>8. ASSUME NEW n \in Node, Shutdown(n)
      PROVE  UNCHANGED <<Phases, Contributed, key>>
  BY <1>8, ShutdownRefines
<1> QED
  BY <1>2, <1>3, <1>4, <1>5, <1>6, <1>7, <1>8 DEF Next

\* A node completes with the secret of the group, after every member has
\* published, and keeps no key when it fails (crypto.h over mka.h).
THEOREM Refinement == Spec => ImplementsGroupKey
<1>1. Init => GK!Init
  <2> SUFFICES ASSUME Init PROVE GK!Init
    OBVIOUS
  <2>1. /\ \A n \in Node : Phase(n) = "idle" /\ out[n] = <<>>
        /\ log = <<>> /\ key = [n \in Node |-> NoKey]
    BY DEF Init, MKAInit, Phase, Counting
  <2>2. Contributed = {}
    BY <2>1 DEF Contributed
  <2> QED
    BY <2>1, <2>2 DEF GK!Init
<1>2. IInv /\ IInv' /\ [Next]_vars => [GK!Next]_(GK!abstractVars)
  BY StepRefines
<1> QED
  BY <1>1, <1>2, FollowsLockstep, PTL DEF Spec, ImplementsGroupKey, GK!Spec
=============================================================================
