---------------------------- MODULE SKNXProofs ----------------------------
(***************************************************************************)
(* Proofs about SKNX, for every group, every relative speed of the clients *)
(* and of the server, and every call of the crypto library that fails.     *)
(*                                                                         *)
(*   1. what a client owes to the others is flushed before it is online;   *)
(*   2. facts about the operators: least and greatest numbers, queues;     *)
(*   3. what each step does to the sender's half of the network (SendInv), *)
(*      to the receiver's (HearInv) and to the counters (CountInv);        *)
(*   4. each step keeps GroupInv and is a step, or a stutter, of the MKA   *)
(*      exchange proved in MKAProofs;                                      *)
(*   5. so the whole group inherits what is proved there.                  *)
(***************************************************************************)
EXTENDS SKNX, LockstepRun, TLAPS, SequenceTheorems, FiniteSetTheorems

(***************************************************************************)
(* The packets that wait to be sent.                                       *)
(***************************************************************************)
LEMMA EmptyQueue == <<>> \in Seq(Range(<<>>))
  BY EmptySeq

LEMMA OneMoreWaits ==
    ASSUME NEW q, q \in Seq(Range(q)), NEW packet
    PROVE  Append(q, packet) \in Seq(Range(Append(q, packet)))
<1> DEFINE S == Range(q) \union {packet}
<1>1. q \in Seq(S) /\ packet \in S
  OBVIOUS
<1> HIDE DEF S
<1>2. PICK r \in Seq(S) : r = Append(q, packet)
  BY <1>1, AppendProperties
<1>3. r = [i \in 1 .. Len(r) |-> r[i]] /\ Len(r) \in Nat /\ DOMAIN r = 1 .. Len(r)
  BY LenProperties
<1>4. \A i \in 1 .. Len(r) : r[i] \in Range(r)
  BY <1>3 DEF Range
<1>5. r \in Seq(Range(r))
  BY <1>3, <1>4
<1> QED
  BY <1>2, <1>5

LEMMA WriteKeeps ==
    ASSUME DOMAIN out = Node, \A m \in Node : out[m] \in Seq(Range(out[m])),
           NEW n \in Node, NEW packet, Write(n, packet)
    PROVE  /\ DOMAIN out' = Node /\ \A m \in Node : out'[m] \in Seq(Range(out'[m]))
           /\ \A m \in Node \ {n} : out'[m] = out[m]
<1>1. out' = [out EXCEPT ![n] = Append(out[n], packet)]
  BY DEF Write
<1>2. out'[n] = Append(out[n], packet)
  BY <1>1
<1>3. out'[n] \in Seq(Range(out'[n]))
  BY <1>2, OneMoreWaits
<1> QED
  BY <1>1, <1>3

\* PKTWrapper::update leaves nothing in _out.
LEMMA AllSent ==
    ASSUME NEW q, q \in Seq(Range(q))
    PROVE  SubSeq(q, Len(q) + 1, Len(q)) = <<>>
<1>1. Len(q) \in Nat
  BY LenProperties
<1> QED
  BY <1>1, SubSeqEmpty

(***************************************************************************)
(* The steps, one node at a time.                                          *)
(***************************************************************************)
LEMMA InitIInv == Init => IInv
  BY EmptyQueue DEF Init, MKAInit, IInv, Flushed, Status, SKNXStatus

LEMMA QuietStep ==
    ASSUME IInv, UNCHANGED <<status, skStatus, busy, out>>
    PROVE  IInv'
  BY DEF IInv, Flushed

LEMMA JoinKeeps ==
    ASSUME IInv, NEW n \in Node, Join(n)
    PROVE  IInv'
<1>1. skStatus' = [skStatus EXCEPT ![n] = "COUNTING"] /\ UNCHANGED <<status, busy, out>>
  BY DEF Join, mkaVars
<1> QED
  BY <1>1 DEF IInv, Flushed, SKNXStatus

LEMMA PumpKeeps ==
    ASSUME IInv, NEW n \in Node, Pump(n)
    PROVE  IInv'
<1>1. /\ out' = [out EXCEPT ![n] = SubSeq(out[n], Len(out[n]) + 1, Len(out[n]))]
      /\ busy' = [busy EXCEPT ![n] = TRUE]
      /\ UNCHANGED <<status, skStatus>>
  BY DEF Pump, ToSend
<1>2. out' = [out EXCEPT ![n] = <<>>]
  BY <1>1, AllSent DEF IInv
<1>3. DOMAIN out' = Node /\ \A m \in Node : out'[m] \in Seq(Range(out'[m]))
  BY <1>2, EmptyQueue DEF IInv
<1>4. \A m \in Node : Flushed(m)'
  BY <1>1, <1>2 DEF IInv, Flushed
<1> QED
  BY <1>1, <1>3, <1>4 DEF IInv

LEMMA CountKeeps ==
    ASSUME IInv, NEW n \in Node, Count(n)
    PROVE  IInv'
<1>1. /\ skStatus[n] = "COUNTING" /\ busy' = [busy EXCEPT ![n] = FALSE]
      /\ UNCHANGED <<status, skStatus>>
  BY DEF Count, EndUpdate
<1>2. Write(n, [cmd |-> "THATSME", src |-> n]) \/ UNCHANGED out
  BY DEF Count
<1>3. /\ DOMAIN out' = Node /\ \A m \in Node : out'[m] \in Seq(Range(out'[m]))
      /\ \A m \in Node \ {n} : out'[m] = out[m]
  BY <1>2, WriteKeeps DEF IInv
<1>4. \A m \in Node : Flushed(m)'
  BY <1>1, <1>3 DEF IInv, Flushed
<1> QED
  BY <1>1, <1>3, <1>4 DEF IInv

LEMMA StartKeyKeeps ==
    ASSUME IInv, NEW n \in Node, StartKey(n)
    PROVE  IInv'
<1>1. busy' = [busy EXCEPT ![n] = FALSE] /\ skStatus[n] = "COUNTING"
  BY DEF StartKey, EndUpdate
<1>2. CASE InitKey(n, counter[n].nodes) /\ skStatus' = [skStatus EXCEPT ![n] = "HANDSHAKING"]
  <2>1. PICK packet : Write(n, packet)
    BY <1>2 DEF InitKey, CryptoBroadcast
  <2>2. /\ DOMAIN out' = Node /\ \A m \in Node : out'[m] \in Seq(Range(out'[m]))
        /\ \A m \in Node \ {n} : out'[m] = out[m]
    BY <2>1, WriteKeeps DEF IInv
  <2>3. status' = [status EXCEPT ![n] = "RUNNING"]
    BY <1>2 DEF InitKey
  <2>4. \A m \in Node : Flushed(m)'
    BY <1>1, <1>2, <2>2, <2>3 DEF IInv, Flushed
  <2> QED
    BY <1>1, <1>2, <2>2, <2>3, <2>4 DEF IInv, Status, SKNXStatus
<1>3. CASE InitKeyFails(n, counter[n].nodes) /\ skStatus' = [skStatus EXCEPT ![n] = "OFFLINE"]
  BY <1>1, <1>3 DEF InitKeyFails, IInv, Flushed, Status, SKNXStatus
<1> QED
  BY <1>2, <1>3 DEF StartKey

LEMMA HandshakeTurnKeeps ==
    ASSUME IInv, NEW n \in Node, HandshakeTurn(n)
    PROVE  IInv'
<1> DEFINE packet == Head(pktIn[n])
<1>1. /\ skStatus[n] = "HANDSHAKING" /\ status[n] = "RUNNING" /\ UNCHANGED skStatus
      /\ busy' = [busy EXCEPT ![n] = status'[n] # "COMPLETED"]
  BY DEF HandshakeTurn, CryptoUpdate, Discard
<1>2. CASE Discard(n, packet) \/ Collect(n, packet)
  BY <1>1, <1>2 DEF Discard, Collect, mkaVars, IInv, Flushed
<1>3. CASE NextRound(n, packet)
  <2>1. PICK answer : Write(n, answer)
    BY <1>3 DEF NextRound, CryptoBroadcast
  <2>2. /\ DOMAIN out' = Node /\ \A m \in Node : out'[m] \in Seq(Range(out'[m]))
        /\ \A m \in Node \ {n} : out'[m] = out[m]
    BY <2>1, WriteKeeps DEF IInv
  <2>3. UNCHANGED status
    BY <1>3 DEF NextRound
  <2>4. \A m \in Node : Flushed(m)'
    BY <1>1, <2>2, <2>3 DEF IInv, Flushed
  <2> QED
    BY <1>1, <2>2, <2>3, <2>4 DEF IInv
<1>4. CASE LastRound(n, packet)
  <2>1. status' = [status EXCEPT ![n] = "COMPLETED"] /\ UNCHANGED out
    BY <1>4 DEF LastRound
  <2>2. status'[n] = "COMPLETED" /\ busy'[n] = FALSE
    BY <1>1, <2>1 DEF IInv
  <2>3. \A m \in Node : Flushed(m)'
    BY <1>1, <2>1, <2>2 DEF IInv, Flushed
  <2> QED
    BY <1>1, <2>1, <2>3 DEF IInv, Status
<1>5. CASE AccumulateFails(n, packet) \/ AdvanceFails(n, packet)
  <2>1. status' = [status EXCEPT ![n] = "ERROR"] /\ UNCHANGED out
    BY <1>5 DEF AccumulateFails, AdvanceFails
  <2>2. \A m \in Node : Flushed(m)'
    BY <1>1, <2>1 DEF IInv, Flushed
  <2> QED
    BY <1>1, <2>1, <2>2 DEF IInv, Status
<1> QED
  BY <1>2, <1>3, <1>4, <1>5 DEF HandshakeTurn, CryptoUpdate

LEMMA HandshakeEnds ==
    ASSUME IInv, NEW n \in Node, EndHandshake(n) \/ HandshakeFails(n)
    PROVE  IInv'
<1>1. CASE EndHandshake(n)
  BY <1>1 DEF EndHandshake, EndUpdate, mkaVars, IInv, Flushed
<1>2. CASE HandshakeFails(n)
  BY <1>2 DEF HandshakeFails, ShutdownKey, EndUpdate, IInv, Flushed, Status, SKNXStatus
<1> QED
  BY <1>1, <1>2

LEMMA OnlineStepsKeep ==
    ASSUME IInv, NEW n \in Node, Finish(n) \/ GoOnline(n)
    PROVE  IInv'
<1>1. CASE Finish(n)
  BY <1>1 DEF Finish, EndUpdate, mkaVars, IInv, Flushed, SKNXStatus
<1>2. CASE GoOnline(n)
  BY <1>2 DEF GoOnline, EndUpdate, mkaVars, IInv, Flushed, SKNXStatus
<1> QED
  BY <1>1, <1>2

\* Every step of a client keeps what it owes to the others in _out.
THEOREM ClientStepKeepsIInv == IInv /\ [Next]_vars => IInv'
<1> SUFFICES ASSUME IInv, [Next]_vars PROVE IInv'
  OBVIOUS
<1>1. CASE Tick \/ UNCHANGED vars
  BY <1>1, QuietStep DEF Tick, vars, mkaVars, skVars
<1>2. CASE \E n \in Node : Join(n)
  BY <1>2, JoinKeeps
<1>3. CASE \E n \in Node : Accept(n) \/ Relay(n)
  BY <1>3, QuietStep DEF Accept, Relay, mkaVars, skVars
<1>4. CASE \E n \in Node : Update(n)
  BY <1>4, PumpKeeps, CountKeeps, StartKeyKeeps, HandshakeTurnKeeps, HandshakeEnds,
     OnlineStepsKeep DEF Update
<1> QED
  BY <1>1, <1>2, <1>3, <1>4 DEF Next

\* The inductive invariant, at every interleaving of the updates of the clients
\* and of the server.
THEOREM ClientsAlwaysIInv == Spec => []IInv
  BY InitIInv, ClientStepKeepsIInv, PTL DEF Spec

\* A client that leaves ClientSmoke::init with the key has sent all it owes to
\* the others, whatever the speeds: nobody waits for a packet that was
\* destroyed with its PKTWrapper.
THEOREM AlwaysFlushed == Spec => []OnlineMeansFlushed
<1>1. IInv => OnlineMeansFlushed
  BY DEF IInv, Flushed, OnlineMeansFlushed
<1> QED
  BY <1>1, ClientsAlwaysIInv, PTL
(***************************************************************************)
(* The key exchange of the group, seen without the counters and with the   *)
(* packets of the handshake in the order of the server: a run of MKA in    *)
(* which a node may miss packets before it starts.                         *)
(***************************************************************************)
Lossy == INSTANCE MKAProofs WITH CanMiss <- TRUE, MaxChatter <- 0, out <- owed

\* Finite sets are counted alike.
LEMMA SameCount == \A S : /\ Lossy!IsFiniteSet(S) <=> IsFiniteSet(S)
                         /\ Lossy!Cardinality(S) = Cardinality(S)
<1>1. \A S : Lossy!IsFiniteSet(S) <=> IsFiniteSet(S)
  BY DEF Lossy!IsFiniteSet, IsFiniteSet
<1>2. \A S : Lossy!Cardinality(S) = Cardinality(S)
  BY DEF Lossy!Cardinality, Cardinality
<1> QED
  BY <1>1, <1>2

\* The operators of the exchange do not depend on the network.
LEMMA SameMath ==
    /\ Lossy!Point = Point /\ Lossy!Context = Context
    /\ \A n : Lossy!SetPart(n) = SetPart(n)
    /\ \A n, c : Lossy!MakeBroadval(n, c) = MakeBroadval(n, c)
    /\ \A n, c : Lossy!ComputeKey(n, c) = ComputeKey(n, c)
    /\ \A c, size : Lossy!RoundsCompleted(c, size) = RoundsCompleted(c, size)
    /\ \A c, points, size :
          Lossy!AccBroadval(c, points, size) = AccBroadval(c, points, size)
<1>1. Lossy!Point = Point /\ Lossy!Context = Context
  BY DEF Lossy!Point, Point, Lossy!Context, Context
<1>2. \A c, points, size :
         Lossy!AccBroadval(c, points, size) = AccBroadval(c, points, size)
  BY DEF Lossy!AccBroadval, AccBroadval, Lossy!InverseMod, InverseMod,
         Lossy!Point, Point, Lossy!FoldFunction, FoldFunction,
         Lossy!FoldFunctionOnSet, FoldFunctionOnSet,
         Lossy!MapThenFoldSet, MapThenFoldSet
<1>3. \A n : Lossy!SetPart(n) = SetPart(n)
  BY DEF Lossy!SetPart, SetPart
<1>4. \A n, c : Lossy!MakeBroadval(n, c) = MakeBroadval(n, c)
  BY DEF Lossy!MakeBroadval, MakeBroadval
<1>5. \A n, c : Lossy!ComputeKey(n, c) = ComputeKey(n, c)
  BY DEF Lossy!ComputeKey, ComputeKey
<1>6. \A c, size : Lossy!RoundsCompleted(c, size) = RoundsCompleted(c, size)
  BY DEF Lossy!RoundsCompleted, RoundsCompleted
<1> QED
  BY <1>1, <1>2, <1>3, <1>4, <1>5, <1>6

LEMMA SameSecret == Lossy!GroupSecret = GroupSecret
  BY DEF Lossy!GroupSecret, GroupSecret, Lossy!FoldFunction, FoldFunction,
         Lossy!FoldFunctionOnSet, FoldFunctionOnSet,
         Lossy!MapThenFoldSet, MapThenFoldSet

\* What is assumed of the lock-step run holds for the instance.
LEMMA LossyAssumptions ==
    /\ Lossy!NodeAssumption /\ Lossy!GroupAssumption
    /\ Lossy!NoValueAssumption /\ Lossy!EnvAssumption
    /\ Lossy!LockstepAssumption /\ Lossy!LockstepAgreement
<1>1. Lossy!Size = Size /\ Lossy!Last = Last
  BY SameCount DEF Lossy!Size, Size, Lossy!Last, Last
<1>2. \A s, n : Lossy!LockstepAcc(s, n) = LockstepAcc(s, n)
  BY <1>1, SameMath DEF Lossy!LockstepAcc, LockstepAcc
<1>3. Lossy!NodeAssumption
  BY NodeAssumption, SameCount DEF Lossy!NodeAssumption
<1>4. Lossy!GroupAssumption
  BY GroupAssumption, SameMath, SameCount DEF Lossy!GroupAssumption
<1>5. Lossy!NoValueAssumption
  BY NoValueAssumption, SameMath DEF Lossy!NoValueAssumption
<1>6. Lossy!EnvAssumption
  BY DEF Lossy!EnvAssumption
<1>7. Lossy!LockstepAssumption
  BY <1>1, <1>2, SameMath, LockstepAssumption DEF Lossy!LockstepAssumption
<1>8. Lossy!LockstepAgreement
  BY <1>1, SameMath, SameSecret, LockstepAgreement DEF Lossy!LockstepAgreement
<1> QED
  BY <1>3, <1>4, <1>5, <1>6, <1>7, <1>8

LEMMA SameNode ==
    ASSUME NEW n, NEW packet
    PROVE  /\ Lossy!Ignored(n, packet) <=> Ignored(n, packet)
           /\ Lossy!LastStep(n) <=> LastStep(n)
           /\ Lossy!Rounds(n) = Rounds(n)
           /\ Lossy!RoundFull(n, packet) <=> RoundFull(n, packet)
           /\ Lossy!Stored(n, packet) = Stored(n, packet)
           /\ Lossy!Postponed(n, packet) = Postponed(n, packet)
           /\ Lossy!Accumulated(n, packet) = Accumulated(n, packet)
           /\ Lossy!Replayed(n, packet) = Replayed(n, packet)
<1>1. Lossy!Ignored(n, packet) <=> Ignored(n, packet)
  BY DEF Lossy!Ignored, Ignored
<1>2. Lossy!Rounds(n) = Rounds(n)
  BY SameCount DEF Lossy!Rounds, Rounds
<1>3. Lossy!LastStep(n) <=> LastStep(n)
  BY <1>2 DEF Lossy!LastStep, LastStep
<1>4. Lossy!Stored(n, packet) = Stored(n, packet)
  BY DEF Lossy!Stored, Stored, Lossy!WithPoint, WithPoint
<1>5. Lossy!Postponed(n, packet) = Postponed(n, packet)
  BY DEF Lossy!Postponed, Postponed
<1>6. Lossy!RoundFull(n, packet) <=> RoundFull(n, packet)
  BY <1>2, <1>4, SameCount DEF Lossy!RoundFull, RoundFull
<1>7. Lossy!Accumulated(n, packet) = Accumulated(n, packet)
  BY <1>4, SameMath, SameCount DEF Lossy!Accumulated, Accumulated
<1>8. Lossy!Replayed(n, packet) = Replayed(n, packet)
  BY DEF Lossy!Replayed, Replayed, Lossy!Postponed, Postponed
<1> QED
  BY <1>1, <1>2, <1>3, <1>4, <1>5, <1>6, <1>7, <1>8

(***************************************************************************)
(* Least and greatest numbers.                                             *)
(***************************************************************************)
LEMMA Least ==
    ASSUME NEW T \in SUBSET Nat, T # {}
    PROVE  \E x \in T : \A y \in T : x <= y
<1> DEFINE R == OpToRel(<, Nat)
<1>1. IsWellFoundedOn(R, Nat)
  BY NatLessThanWellFounded
<1>2. \A x, y \in Nat : <<x, y>> \in R <=> x < y
  BY DEF OpToRel
<1> HIDE DEF R
<1>3. \E x \in T : \A y \in T : ~ (<<y, x>> \in R)
  BY <1>1, WFMin
<1>4. PICK x \in T : \A y \in T : ~ (<<y, x>> \in R)
  BY <1>3
<1>5. \A y \in T : x \in Nat /\ y \in Nat /\ (<<y, x>> \in R <=> y < x)
  BY <1>2
<1>6. ASSUME NEW y \in T PROVE x <= y
  <2>1. ~ (y < x)
    BY <1>4, <1>5
  <2> QED
    BY <1>5, <2>1
<1> QED
  BY <1>6

LEMMA Greatest ==
    ASSUME NEW T \in SUBSET Nat, T # {}, NEW b \in Nat, \A y \in T : y <= b
    PROVE  Max(T) \in T /\ \A y \in T : y <= Max(T)
<1> DEFINE D == {b - y : y \in T}
<1>1. D \in SUBSET Nat /\ D # {}
  <2>1. \A y \in T : b - y \in Nat
    OBVIOUS
  <2> QED
    BY <2>1
<1>2. PICK d \in D : \A e \in D : d <= e
  BY <1>1, Least
<1>3. PICK x \in T : d = b - x
  OBVIOUS
<1>4. \A y \in T : b - x <= b - y /\ x \in Nat /\ y \in Nat
  BY <1>2, <1>3
<1>5. \E z \in T : \A y \in T : z >= y
  BY <1>4
<1>6. Max(T) \in T /\ \A y \in T : Max(T) >= y
  BY <1>5 DEF Max
<1> QED
  BY <1>6

(***************************************************************************)
(* Queues, element by element.                                             *)
(***************************************************************************)
LEMMA Joined ==
    ASSUME NEW S, NEW a \in Seq(S), NEW b \in Seq(S)
    PROVE  /\ a \o b \in Seq(S)
           /\ Len(a \o b) = Len(a) + Len(b) /\ Len(a) \in Nat /\ Len(b) \in Nat
           /\ \A i \in 1 .. Len(a) : (a \o b)[i] = a[i]
           /\ \A i \in 1 .. Len(b) : (a \o b)[Len(a) + i] = b[i]
<1>1. Len(a) \in Nat /\ Len(b) \in Nat
  BY LenProperties
<1>2. /\ a \o b \in Seq(S) /\ Len(a \o b) = Len(a) + Len(b)
      /\ \A i \in 1 .. Len(a) + Len(b) :
            (a \o b)[i] = IF i <= Len(a) THEN a[i] ELSE b[i - Len(a)]
  BY ConcatProperties
<1>3. ASSUME NEW i \in 1 .. Len(a) PROVE (a \o b)[i] = a[i]
  <2>1. i \in 1 .. Len(a) + Len(b) /\ i <= Len(a)
    BY <1>1
  <2> QED
    BY <1>2, <2>1
<1>4. ASSUME NEW i \in 1 .. Len(b) PROVE (a \o b)[Len(a) + i] = b[i]
  <2>1. /\ Len(a) + i \in 1 .. Len(a) + Len(b) /\ ~ (Len(a) + i <= Len(a))
        /\ (Len(a) + i) - Len(a) = i
    BY <1>1
  <2> QED
    BY <1>2, <2>1
<1> QED
  BY <1>1, <1>2, <1>3, <1>4

LEMMA Added ==
    ASSUME NEW S, NEW a \in Seq(S), NEW e \in S
    PROVE  /\ Append(a, e) \in Seq(S) /\ Len(a) \in Nat
           /\ Len(Append(a, e)) = Len(a) + 1
           /\ \A i \in 1 .. Len(a) : Append(a, e)[i] = a[i]
           /\ Append(a, e)[Len(a) + 1] = e
<1>1. Len(a) \in Nat
  BY LenProperties
<1>2. /\ Append(a, e) \in Seq(S) /\ Len(Append(a, e)) = Len(a) + 1
      /\ \A i \in 1 .. Len(a) : Append(a, e)[i] = a[i]
      /\ Append(a, e)[Len(a) + 1] = e
  BY AppendProperties
<1> QED
  BY <1>1, <1>2

LEMMA Rest ==
    ASSUME NEW S, NEW a \in Seq(S), NEW k \in 0 .. Len(a)
    PROVE  /\ SubSeq(a, k + 1, Len(a)) \in Seq(S)
           /\ Len(a) \in Nat /\ Len(a) - k \in Nat
           /\ Len(SubSeq(a, k + 1, Len(a))) = Len(a) - k
           /\ \A i \in 1 .. Len(a) - k : SubSeq(a, k + 1, Len(a))[i] = a[k + i]
<1>1. Len(a) \in Nat /\ k \in Nat /\ k <= Len(a)
  BY LenProperties
<1>2. /\ SubSeq(a, k + 1, Len(a)) \in Seq(S)
      /\ Len(SubSeq(a, k + 1, Len(a))) = Len(a) - k
      /\ \A i \in 1 .. Len(a) - k : SubSeq(a, k + 1, Len(a))[i] = a[k + i]
  BY <1>1
<1> QED
  BY <1>1, <1>2

LEMMA SameQueue ==
    ASSUME NEW S, NEW a \in Seq(S), NEW b \in Seq(S), Len(a) = Len(b),
           \A i \in 1 .. Len(a) : a[i] = b[i]
    PROVE  a = b
  BY SeqEqual

\* What is added at the end of the second half is added at the end.
LEMMA AddedBehind ==
    ASSUME NEW S, NEW a \in Seq(S), NEW b \in Seq(S), NEW e \in S
    PROVE  a \o Append(b, e) = Append(a \o b, e)
<1>1. <<e>> \in Seq(S)
  OBVIOUS
<1>2. Append(b, e) = b \o <<e>> /\ a \o b \in Seq(S)
  BY AppendIsConcat, ConcatProperties
<1>3. Append(a \o b, e) = (a \o b) \o <<e>>
  BY <1>2, AppendIsConcat
<1>4. (a \o b) \o <<e>> = a \o (b \o <<e>>)
  BY <1>1, ConcatAssociative
<1> QED
  BY <1>2, <1>3, <1>4

\* What is taken from the first half is taken from the front.
LEMMA TakenInFront ==
    ASSUME NEW S, NEW a \in Seq(S), NEW b \in Seq(S), NEW k \in 0 .. Len(a)
    PROVE  SubSeq(a, k + 1, Len(a)) \o b = SubSeq(a \o b, k + 1, Len(a \o b))
<1> DEFINE c == SubSeq(a, k + 1, Len(a))
           ab == a \o b
<1>1. /\ c \in Seq(S) /\ Len(a) \in Nat /\ k \in Nat /\ Len(c) = Len(a) - k
      /\ \A i \in 1 .. Len(a) - k : c[i] = a[k + i]
  BY Rest
<1>2. /\ ab \in Seq(S) /\ Len(ab) = Len(a) + Len(b) /\ Len(b) \in Nat
      /\ \A i \in 1 .. Len(a) : ab[i] = a[i]
      /\ \A i \in 1 .. Len(b) : ab[Len(a) + i] = b[i]
  BY Joined
<1>3. k \in 0 .. Len(ab)
  BY <1>1, <1>2
<1>4. /\ SubSeq(ab, k + 1, Len(ab)) \in Seq(S)
      /\ Len(SubSeq(ab, k + 1, Len(ab))) = Len(ab) - k
      /\ \A i \in 1 .. Len(ab) - k : SubSeq(ab, k + 1, Len(ab))[i] = ab[k + i]
  BY <1>2, <1>3, Rest
<1> HIDE DEF c, ab
<1>5. /\ c \o b \in Seq(S) /\ Len(c \o b) = Len(c) + Len(b)
      /\ \A i \in 1 .. Len(c) : (c \o b)[i] = c[i]
      /\ \A i \in 1 .. Len(b) : (c \o b)[Len(c) + i] = b[i]
  <2>1. \A d \in Seq(S) :
           /\ d \o b \in Seq(S) /\ Len(d \o b) = Len(d) + Len(b)
           /\ \A i \in 1 .. Len(d) : (d \o b)[i] = d[i]
           /\ \A i \in 1 .. Len(b) : (d \o b)[Len(d) + i] = b[i]
    BY Joined
  <2> QED
    BY <1>1, <2>1
<1>6. Len(c \o b) = Len(SubSeq(ab, k + 1, Len(ab)))
  BY <1>1, <1>2, <1>4, <1>5
<1>7. ASSUME NEW i \in 1 .. Len(c \o b)
      PROVE  (c \o b)[i] = SubSeq(ab, k + 1, Len(ab))[i]
  <2>1. i \in 1 .. Len(ab) - k /\ SubSeq(ab, k + 1, Len(ab))[i] = ab[k + i]
    BY <1>4, <1>6
  <2>2. CASE i \in 1 .. Len(c)
    <3>1. k + i \in 1 .. Len(a)
      BY <1>1, <2>2
    <3> QED
      BY <1>1, <1>2, <1>5, <2>1, <2>2, <3>1
  <2>3. CASE i \notin 1 .. Len(c)
    <3>1. /\ i - Len(c) \in 1 .. Len(b) /\ i = Len(c) + (i - Len(c))
          /\ k + i = Len(a) + (i - Len(c))
      BY <1>1, <1>2, <1>5, <2>3
    <3> QED
      BY <1>2, <1>5, <2>1, <3>1
  <2> QED
    BY <2>2, <2>3
<1> QED
  BY <1>4, <1>5, <1>6, <1>7, SameQueue DEF c, ab

(***************************************************************************)
(* The operations of the exchange are those of the instance, with what     *)
(* they write added to what is owed.                                       *)
(***************************************************************************)
LEMMA OwesWhatIsWritten ==
    ASSUME out \in [Node -> Seq(Packet)], NEW n \in Node, NEW p, Write(n, p), Owes(n)
    PROVE  owed' = [owed EXCEPT ![n] = Append(@, p)]
<1> DEFINE S == Packet \union {p}
<1>1. out[n] \in Seq(S) /\ p \in S
  OBVIOUS
<1>2. out'[n] = Append(out[n], p)
  BY DEF Write
<1> HIDE DEF S
<1>3. /\ Len(out[n]) \in Nat /\ Len(Append(out[n], p)) = Len(out[n]) + 1
      /\ Append(out[n], p)[Len(out[n]) + 1] = p
  BY <1>1, Added
<1>4. out'[n] # out[n]
  BY <1>2, <1>3
<1>5. out'[n][Len(out'[n])] = p
  BY <1>2, <1>3
<1> QED
  BY <1>4, <1>5 DEF Owes

\* What a step of the exchange does to the packets of n.
Writes(n) ==
    \/ out' = out /\ owed' = owed
    \/ \E p : /\ p.cmd = "MKA" /\ p.src = n
              /\ Write(n, p) /\ owed' = [owed EXCEPT ![n] = Append(@, p)]

LEMMA UpdateMaps ==
    ASSUME out \in [Node -> Seq(Packet)], NEW n \in Node, NEW packet, Owes(n),
           CryptoUpdate(n, packet)
    PROVE  /\ Lossy!CryptoUpdate(n, packet)
           /\ Writes(n) /\ UNCHANGED nodes
<1>1. status[n] = "RUNNING" /\ ~ Ignored(n, packet)
  BY DEF CryptoUpdate
<1>2. CASE Collect(n, packet)
  <2>1. owed' = owed /\ out' = out
    BY <1>2 DEF Collect, Owes
  <2>2. Lossy!Collect(n, packet)
    BY <1>2, <2>1, SameNode DEF Collect, Lossy!Collect
  <2> QED
    BY <1>1, <1>2, <2>1, <2>2, SameNode DEF Collect, Lossy!CryptoUpdate, Writes
<1>3. CASE NextRound(n, packet)
  <2> DEFINE c == MakeBroadval(n, Accumulated(n, packet))
             p == [cmd |-> "MKA", src |-> n, step |-> step[n] + 1, key |-> c.k]
  <2>1. /\ RoundFull(n, packet) /\ ~ LastStep(n)
        /\ step' = [step EXCEPT ![n] = @ + 1]
        /\ ctx' = [ctx EXCEPT ![n] = c] /\ Write(n, p)
        /\ remote' = [remote EXCEPT ![n] = Replayed(n, packet)]
        /\ deferred' = [deferred EXCEPT ![n] = <<>>]
        /\ UNCHANGED <<status, nodes, key>>
    BY <1>3 DEF NextRound, CryptoBroadcast
  <2>2. owed' = [owed EXCEPT ![n] = Append(@, p)]
    BY <2>1, OwesWhatIsWritten
  <2>3. Lossy!MakeBroadval(n, Lossy!Accumulated(n, packet)) = c
    BY SameNode, SameMath
  <2>4. Lossy!CryptoBroadcast(n, step[n] + 1, c)
    BY <2>1, <2>2 DEF Lossy!CryptoBroadcast, Lossy!Write
  <2> HIDE DEF c
  <2>5. Lossy!NextRound(n, packet)
    BY <2>1, <2>3, <2>4, SameNode DEF Lossy!NextRound
  <2>6. Writes(n)
    BY <2>1, <2>2 DEF Writes
  <2> QED
    BY <1>1, <2>1, <2>5, <2>6, SameNode DEF Lossy!CryptoUpdate
<1>4. CASE LastRound(n, packet)
  <2>1. owed' = owed /\ out' = out
    BY <1>4 DEF LastRound, Owes
  <2>2. Lossy!LastRound(n, packet)
    BY <1>4, <2>1, SameNode, SameMath, SameCount
       DEF LastRound, Lossy!LastRound, NoPoints, Lossy!NoPoints
  <2> QED
    BY <1>1, <1>4, <2>1, <2>2, SameNode DEF LastRound, Lossy!CryptoUpdate, Writes
<1>5. CASE AccumulateFails(n, packet)
  <2>1. owed' = owed /\ out' = out
    BY <1>5 DEF AccumulateFails, Owes
  <2>2. Lossy!AccumulateFails(n, packet)
    BY <1>5, <2>1, SameNode DEF AccumulateFails, Lossy!AccumulateFails
  <2> QED
    BY <1>1, <1>5, <2>1, <2>2, SameNode DEF AccumulateFails, Lossy!CryptoUpdate, Writes
<1>6. CASE AdvanceFails(n, packet)
  <2>1. owed' = owed /\ out' = out
    BY <1>6 DEF AdvanceFails, Owes
  <2>2. Lossy!AdvanceFails(n, packet)
    BY <1>6, <2>1, SameNode, SameMath, SameCount
       DEF AdvanceFails, Lossy!AdvanceFails, NoPoints, Lossy!NoPoints
  <2> QED
    BY <1>1, <1>6, <2>1, <2>2, SameNode DEF AdvanceFails, Lossy!CryptoUpdate, Writes
<1> QED
  BY <1>2, <1>3, <1>4, <1>5, <1>6 DEF CryptoUpdate

LEMMA DiscardMaps ==
    ASSUME NEW n \in Node, NEW packet, Owes(n), Discard(n, packet)
    PROVE  /\ Lossy!Discard(n, packet)
           /\ Writes(n) /\ UNCHANGED <<mkaVars, owed>>
<1>1. UNCHANGED <<status, nodes, step, remote, deferred, ctx, key, out>>
  BY DEF Discard, mkaVars
<1>2. owed' = owed
  BY <1>1 DEF Owes
<1>3. UNCHANGED Lossy!mkaVars
  BY <1>1, <1>2 DEF Lossy!mkaVars
<1> QED
  BY <1>1, <1>2, <1>3, SameNode DEF Discard, Lossy!Discard, Writes

LEMMA InitMaps ==
    ASSUME out \in [Node -> Seq(Packet)], NEW n \in Node, nodes[n] = {}, Owes(n),
           InitKey(n, Node) \/ InitKeyFails(n, Node), UNCHANGED <<log, pos>>
    PROVE  /\ Lossy!Start(n)
           /\ Writes(n) /\ \A m \in Node \ {n} : nodes'[m] = nodes[m]
<1>0. Lossy!Counting(n)
  BY DEF Lossy!Counting
<1>1. CASE InitKey(n, Node)
  <2> DEFINE c == MakeBroadval(n, SetPart(n))
             p == [cmd |-> "MKA", src |-> n, step |-> 0, key |-> c.k]
  <2>1. /\ status[n] = "OFFLINE" /\ Cardinality(Node) \in 2 .. 255
        /\ status' = [status EXCEPT ![n] = "RUNNING"]
        /\ nodes' = [nodes EXCEPT ![n] = Node]
        /\ remote' = [remote EXCEPT ![n] = NoPoints]
        /\ step' = [step EXCEPT ![n] = 0]
        /\ ctx' = [ctx EXCEPT ![n] = c] /\ Write(n, p)
        /\ UNCHANGED <<deferred, key>>
    BY <1>1 DEF InitKey, CryptoBroadcast
  <2>2. owed' = [owed EXCEPT ![n] = Append(@, p)]
    BY <2>1, OwesWhatIsWritten
  <2>3. Lossy!MakeBroadval(n, Lossy!SetPart(n)) = c
    BY SameMath
  <2>4. Lossy!CryptoBroadcast(n, 0, c)
    BY <2>1, <2>2 DEF Lossy!CryptoBroadcast, Lossy!Write
  <2> HIDE DEF c
  <2>5. Lossy!InitKey(n, Node)
    BY <2>1, <2>3, <2>4, SameCount DEF Lossy!InitKey, NoPoints, Lossy!NoPoints
  <2>6. Writes(n)
    BY <2>1, <2>2 DEF Writes
  <2> QED
    BY <1>0, <2>1, <2>5, <2>6 DEF Lossy!Start
<1>2. CASE InitKeyFails(n, Node)
  <2>1. owed' = owed /\ out' = out
    BY <1>2 DEF InitKeyFails, Owes
  <2>2. Lossy!InitKeyFails(n, Node)
    BY <1>2, <2>1, SameCount DEF InitKeyFails, Lossy!InitKeyFails
  <2> QED
    BY <1>0, <1>2, <2>1, <2>2 DEF InitKeyFails, Lossy!Start, Writes
<1> QED
  BY <1>1, <1>2

(***************************************************************************)
(* The nodes, and the types of the packets.                                *)
(***************************************************************************)
LEMMA NotAlone == \A n \in Node : \E m \in Node : m # n
<1> SUFFICES ASSUME NEW n \in Node, Node = {n} PROVE FALSE
  OBVIOUS
<1> QED
  BY NodeAssumption, FS_Singleton

LEMMA FoundAll ==
    ASSUME NEW S \in SUBSET Node
    PROVE  Complete(S) <=> S = Node
  BY NodeAssumption, FS_Subset DEF Complete

LEMMA OwedPackets ==
    Lossy!IInv =>
        /\ owed \in [Node -> Seq(Packet)]
        /\ \A n \in Node : \A i \in 1 .. Len(owed[n]) : owed[n][i].src = n
<1> SUFFICES ASSUME Lossy!IInv
             PROVE  /\ owed \in [Node -> Seq(Packet)]
                    /\ \A n \in Node : \A i \in 1 .. Len(owed[n]) : owed[n][i].src = n
  OBVIOUS
<1>1. /\ owed \in [Node -> Seq(Lossy!Known)]
      /\ \A n \in Node : \A i \in 1 .. Len(owed[n]) : owed[n][i] \in Lossy!KnownFrom(n)
  BY DEF Lossy!IInv, Lossy!TypeInv
<1>2. Lossy!Packet = Packet
  BY SameMath DEF Lossy!Packet, Packet, Lossy!MKAPacket, MKAPacket,
                  Lossy!OtherPacket, OtherPacket
<1>3. Lossy!Known \subseteq Packet
  BY <1>2, LossyAssumptions, Lossy!KnownPackets
<1>4. owed \in [Node -> Seq(Packet)]
  <2>1. \A n \in Node : owed[n] \in Seq(Packet)
    BY <1>1, <1>3, SeqMonotonic
  <2> QED
    BY <1>1, <2>1
<1>5. \A n \in Node : \A p \in Lossy!KnownFrom(n) : p.src = n
  <2>1. ASSUME NEW n \in Node, NEW s PROVE Lossy!Msg(n, s).src = n
    BY DEF Lossy!Msg
  <2> QED
    BY <2>1 DEF Lossy!KnownFrom, Lossy!Msgs
<1> QED
  BY <1>1, <1>4, <1>5

LEMMA OwedPacketsNext ==
    Lossy!IInv' => (owed \in [Node -> Seq(Packet)])'
  BY OwedPackets, PTL

(***************************************************************************)
(* What a step leaves true of the nodes it does not touch.                 *)
(***************************************************************************)
LEMMA SameSend ==
    ASSUME NEW m \in Node, SendInv(m),
           wire'[m] = wire[m], out'[m] = out[m], owed'[m] = owed[m],
           nodes'[m] = nodes[m]
    PROVE  SendInv(m)'
  BY DEF SendInv, Waiting, Ahead

LEMMA SameHear ==
    ASSUME NEW m \in Node, HearInv(m),
           Coming(m)' = Coming(m), places'[m] = places[m], pos'[m] = pos[m],
           accepted' = accepted, log' = log, Active(m)' => Active(m)
    PROVE  HearInv(m)'
<1>1. InPlace(m) => InPlace(m)'
  BY DEF InPlace
<1> QED
  BY <1>1 DEF HearInv

LEMMA SameFound ==
    ASSUME NEW m \in Node, CountInv(m),
           joined' = joined, accepted' = accepted,
           skStatus'[m] = skStatus[m], nodes'[m] = nodes[m], counter'[m] = counter[m]
    PROVE  CountInv(m)'
  BY DEF CountInv

\* A packet more behind those that wait.
LEMMA SendMore ==
    ASSUME GroupInv, NEW m \in Node, NEW p \in Packet,
           wire'[m] = wire[m], out'[m] = Append(out[m], p)
    PROVE  /\ Waiting(m) \in Seq(Packet) /\ Waiting(m)' = Append(Waiting(m), p)
           /\ owed[m] \in Seq(MKAPacket)
<1>1. wire[m] \in Seq(Packet) /\ out[m] \in Seq(Packet) /\ owed[m] \in Seq(MKAPacket)
  BY DEF GroupInv
<1>2. Waiting(m)' = wire[m] \o Append(out[m], p)
  BY DEF Waiting
<1>3. wire[m] \o Append(out[m], p) = Append(wire[m] \o out[m], p)
  <2>1. \A a, b \in Seq(Packet) : a \o Append(b, p) = Append(a \o b, p)
    BY AddedBehind
  <2> QED
    BY <1>1, <2>1, Zenon
<1>4. wire[m] \o out[m] \in Seq(Packet)
  BY <1>1, Joined
<1> QED
  BY <1>1, <1>2, <1>3, <1>4 DEF Waiting

\* The node has written a packet of the handshake.
LEMMA HandshakeWritten ==
    ASSUME GroupInv, NEW m \in Node, NEW p \in MKAPacket,
           wire'[m] = wire[m], out'[m] = Append(out[m], p),
           owed'[m] = Append(owed[m], p), nodes'[m] # {}
    PROVE  SendInv(m)'
<1> DEFINE w == Waiting(m)
           o == owed[m]
<1>1. p \in Packet
  BY DEF Packet
<1>2. w \in Seq(Packet) /\ Waiting(m)' = Append(w, p) /\ o \in Seq(MKAPacket)
  BY <1>1, SendMore
<1>3. /\ Len(w) \in Nat /\ Len(Append(w, p)) = Len(w) + 1
      /\ \A i \in 1 .. Len(w) : Append(w, p)[i] = w[i]
      /\ Append(w, p)[Len(w) + 1] = p
  BY <1>1, <1>2, Added
<1>4. /\ Len(o) \in Nat /\ Len(Append(o, p)) = Len(o) + 1
      /\ \A i \in 1 .. Len(o) : Append(o, p)[i] = o[i]
      /\ Append(o, p)[Len(o) + 1] = p
  BY <1>2, Added
<1>5. /\ Ahead(m) = Len(w) - Len(o) /\ Ahead(m) \in Nat
      /\ \A i \in 1 .. Ahead(m) : w[i] = [cmd |-> "THATSME", src |-> m]
      /\ \A i \in 1 .. Len(o) : w[Ahead(m) + i] = o[i]
  BY DEF GroupInv, SendInv, Ahead
<1> HIDE DEF w, o
<1>6. Ahead(m)' = Ahead(m) /\ owed'[m] = Append(o, p)
  BY <1>2, <1>3, <1>4, <1>5 DEF Ahead, o
<1>7. \A i \in 1 .. Ahead(m) : Waiting(m)'[i] = [cmd |-> "THATSME", src |-> m]
  <2>1. ASSUME NEW i \in 1 .. Ahead(m)
        PROVE  i \in 1 .. Len(w)
    BY <1>3, <1>4, <1>5
  <2> QED
    BY <2>1, <1>2, <1>3, <1>5
<1>8. ASSUME NEW i \in 1 .. Len(Append(o, p))
      PROVE  Waiting(m)'[Ahead(m) + i] = Append(o, p)[i]
  <2>1. CASE i = Len(o) + 1
    <3>1. Ahead(m) + i = Len(w) + 1
      BY <1>3, <1>4, <1>5, <2>1
    <3> QED
      BY <2>1, <3>1, <1>2, <1>3, <1>4
  <2>2. CASE i # Len(o) + 1
    <3>1. i \in 1 .. Len(o) /\ Ahead(m) + i \in 1 .. Len(w)
      BY <1>3, <1>4, <1>5, <2>2
    <3> QED
      BY <3>1, <1>2, <1>3, <1>4, <1>5
  <2> QED
    BY <2>1, <2>2
<1> QED
  BY <1>5, <1>6, <1>7, <1>8 DEF SendInv

\* The counter has written an announcement.
LEMMA AnnouncementWritten ==
    ASSUME GroupInv, NEW m \in Node, NEW p, p = [cmd |-> "THATSME", src |-> m],
           nodes[m] = {}, nodes'[m] = {}, owed'[m] = owed[m],
           wire'[m] = wire[m], out'[m] = Append(out[m], p)
    PROVE  SendInv(m)'
<1> DEFINE w == Waiting(m)
<1>1. p \in Packet
  BY DEF Packet, OtherPacket
<1>2. w \in Seq(Packet) /\ Waiting(m)' = Append(w, p)
  BY <1>1, SendMore
<1>3. /\ Len(w) \in Nat /\ Len(Append(w, p)) = Len(w) + 1
      /\ \A i \in 1 .. Len(w) : Append(w, p)[i] = w[i]
      /\ Append(w, p)[Len(w) + 1] = p
  BY <1>1, <1>2, Added
<1>4. /\ owed[m] = <<>> /\ Ahead(m) = Len(w) - Len(owed[m])
      /\ \A i \in 1 .. Ahead(m) : w[i] = p
  BY DEF GroupInv, SendInv, Ahead
<1> HIDE DEF w
<1>5. Len(owed[m]) = 0 /\ Ahead(m) = Len(w) /\ Ahead(m)' = Len(w) + 1
  BY <1>2, <1>3, <1>4 DEF Ahead
<1>6. ASSUME NEW i \in 1 .. Len(w) + 1
      PROVE  Waiting(m)'[i] = p
  <2>1. CASE i = Len(w) + 1
    BY <1>2, <1>3, <2>1
  <2>2. CASE i # Len(w) + 1
    <3>1. i \in 1 .. Len(w)
      BY <1>3, <2>2
    <3> QED
      BY <1>2, <1>3, <1>4, <1>5, <3>1
  <2> QED
    BY <2>1, <2>2
<1> QED
  BY <1>3, <1>4, <1>5, <1>6 DEF SendInv

(***************************************************************************)
(* Reading: the first k packets of _in are taken.                          *)
(***************************************************************************)
LEMMA TakenQueues ==
    ASSUME GroupInv, NEW n \in Node, NEW k \in 0 .. Len(pktIn[n]), Take(n, k), net' = net
    PROVE  /\ Coming(n)' = SubSeq(Coming(n), k + 1, Len(Coming(n)))
           /\ places'[n] = SubSeq(places[n], k + 1, Len(places[n]))
           /\ pktIn' \in [Node -> Seq(Packet)] /\ places' \in [Node -> Seq(Nat)]
           /\ \A m \in Node \ {n} : Coming(m)' = Coming(m) /\ places'[m] = places[m]
           /\ Coming(n) \in Seq(Packet) /\ places[n] \in Seq(Nat)
           /\ Len(pktIn[n]) \in Nat /\ Len(pktIn[n]) <= Len(Coming(n))
           /\ \A i \in 1 .. Len(pktIn[n]) : pktIn[n][i] = Coming(n)[i]
<1> DEFINE a == pktIn[n]
           b == net[n]
<1>1. /\ pktIn \in [Node -> Seq(Packet)] /\ a \in Seq(Packet) /\ b \in Seq(Packet)
      /\ places \in [Node -> Seq(Nat)] /\ places[n] \in Seq(Nat)
      /\ Len(places[n]) = Len(a \o b)
  BY DEF GroupInv, HearInv, Coming
<1>2. /\ pktIn' = [pktIn EXCEPT ![n] = SubSeq(a, k + 1, Len(a))]
      /\ places' = [places EXCEPT ![n] = SubSeq(places[n], k + 1, Len(places[n]))]
  BY DEF Take
<1>3. k \in 0 .. Len(a)
  OBVIOUS
<1>4. /\ Coming(n)' = SubSeq(a, k + 1, Len(a)) \o b /\ Coming(n) = a \o b
      /\ places'[n] = SubSeq(places[n], k + 1, Len(places[n]))
  BY <1>1, <1>2 DEF Coming
<1> HIDE DEF a, b
<1>5. SubSeq(a, k + 1, Len(a)) \in Seq(Packet)
  BY <1>1, <1>3, Rest
<1>6. /\ a \o b \in Seq(Packet) /\ Len(a \o b) = Len(a) + Len(b)
      /\ Len(a) \in Nat /\ Len(b) \in Nat
      /\ \A i \in 1 .. Len(a) : (a \o b)[i] = a[i]
  BY <1>1, Joined
<1>7. SubSeq(a, k + 1, Len(a)) \o b = SubSeq(a \o b, k + 1, Len(a \o b))
  BY <1>1, <1>3, TakenInFront
<1>8. k \in 0 .. Len(places[n])
  BY <1>1, <1>3, <1>6
<1>9. SubSeq(places[n], k + 1, Len(places[n])) \in Seq(Nat)
  <2>1. \A q \in Seq(Nat) : \A l \in 0 .. Len(q) : SubSeq(q, l + 1, Len(q)) \in Seq(Nat)
    BY Rest
  <2> QED
    BY <1>1, <1>8, <2>1
<1>10. pktIn' \in [Node -> Seq(Packet)] /\ places' \in [Node -> Seq(Nat)]
  BY <1>1, <1>2, <1>5, <1>9
<1>11. \A m \in Node \ {n} : Coming(m)' = Coming(m) /\ places'[m] = places[m]
  BY <1>1, <1>2 DEF Coming
<1>12. Len(a) <= Len(a \o b)
  BY <1>6
<1> QED
  BY <1>1, <1>4, <1>6, <1>7, <1>10, <1>11, <1>12 DEF a, b

\* How far that is in the stream.
LEMMA TakenPosition ==
    ASSUME GroupInv, NEW n \in Node, NEW k \in 0 .. Len(pktIn[n]), Take(n, k), net' = net,
           n \in accepted => Active(n)
    PROVE  /\ pos'[n] \in 0 .. Len(log) /\ pos[n] <= pos'[n]
           /\ pos' = [pos EXCEPT ![n] = pos'[n]]
           /\ \A i \in 1 .. k : places[n][i] <= pos'[n]
           /\ \/ pos'[n] = pos[n]
              \/ \E i \in 1 .. k : /\ places[n][i] = pos'[n] /\ pos'[n] # 0
                                   /\ pktIn[n][i].cmd = "MKA"
                                   /\ pos'[n] \in pos[n] + 1 .. Len(log)
                                   /\ log[pos'[n]] = pktIn[n][i]
                                   /\ log[pos'[n]].src # n
<1> DEFINE T == {pos[n]} \union {places[n][i] : i \in 1 .. k}
<1>1. /\ pos \in [Node -> 0 .. Len(log)] /\ pos[n] \in 0 .. Len(log) /\ Len(log) \in Nat
      /\ pos' = [pos EXCEPT ![n] = Max(T)] /\ pos'[n] = Max(T)
  BY DEF GroupInv, Take
<1>2. /\ Coming(n) \in Seq(Packet) /\ Len(pktIn[n]) \in Nat
      /\ Len(pktIn[n]) <= Len(Coming(n)) /\ Len(places[n]) = Len(Coming(n))
      /\ places[n] \in Seq(Nat)
      /\ \A i \in 1 .. Len(pktIn[n]) : pktIn[n][i] = Coming(n)[i]
  BY TakenQueues DEF GroupInv, HearInv
<1>3. Len(Coming(n)) \in Nat
  BY <1>2, LenProperties
<1>4. \A i \in 1 .. k : /\ i \in 1 .. Len(pktIn[n]) /\ i \in 1 .. Len(places[n])
                        /\ i \in 1 .. Len(Coming(n))
  BY <1>2, <1>3
<1>5. ASSUME NEW i \in 1 .. k
      PROVE  /\ places[n][i] \in 0 .. Len(log)
             /\ places[n][i] # 0 => /\ pktIn[n][i].cmd = "MKA"
                                    /\ places[n][i] \in pos[n] + 1 .. Len(log)
                                    /\ log[places[n][i]] = pktIn[n][i]
                                    /\ pktIn[n][i].src # n
  <2>1. /\ i \in 1 .. Len(places[n]) /\ pktIn[n][i] = Coming(n)[i]
        /\ i \in 1 .. Len(Coming(n))
    BY <1>2, <1>4
  <2>2. Coming(n) # <<>>
    BY <2>1
  <2>3. InPlace(n) /\ Coming(n)[i].src # n
    BY <2>1, <2>2 DEF GroupInv, HearInv
  <2>4. IF Coming(n)[i].cmd = "MKA"
        THEN /\ places[n][i] \in pos[n] + 1 .. Len(log)
             /\ log[places[n][i]] = Coming(n)[i]
        ELSE places[n][i] = 0
    BY <2>1, <2>3 DEF InPlace
  <2>5. CASE Coming(n)[i].cmd = "MKA"
    <3>1. places[n][i] \in 0 .. Len(log)
      BY <1>1, <2>4, <2>5
    <3> QED
      BY <2>1, <2>3, <2>4, <2>5, <3>1
  <2>6. CASE Coming(n)[i].cmd # "MKA"
    BY <1>1, <2>4, <2>6
  <2> QED
    BY <2>5, <2>6
<1>6. T \in SUBSET Nat /\ T # {} /\ \A y \in T : y <= Len(log)
  BY <1>1, <1>5
<1>7. Max(T) \in T /\ \A y \in T : y <= Max(T)
  BY <1>1, <1>6, Greatest
<1>8. Max(T) \in 0 .. Len(log)
  BY <1>1, <1>6, <1>7
<1>9. \/ Max(T) = pos[n]
      \/ \E i \in 1 .. k : Max(T) = places[n][i]
  BY <1>7
<1>10. /\ pos[n] <= Max(T) /\ \A i \in 1 .. k : places[n][i] <= Max(T)
  BY <1>7
<1> HIDE DEF T
<1>11. CASE Max(T) = pos[n]
  BY <1>1, <1>8, <1>10, <1>11
<1>12. ASSUME NEW i \in 1 .. k, Max(T) = places[n][i], Max(T) # pos[n]
       PROVE  /\ places[n][i] = pos'[n] /\ pos'[n] # 0
              /\ pktIn[n][i].cmd = "MKA"
              /\ pos'[n] \in pos[n] + 1 .. Len(log)
              /\ log[pos'[n]] = pktIn[n][i]
              /\ log[pos'[n]].src # n
  <2>1. places[n][i] # 0
    BY <1>1, <1>8, <1>10, <1>12
  <2> QED
    BY <1>1, <1>5, <1>12, <2>1
<1> QED
  BY <1>1, <1>8, <1>9, <1>10, <1>11, <1>12

LEMMA TakeKeeps ==
    ASSUME GroupInv, NEW n \in Node, NEW k \in 0 .. Len(pktIn[n]), Take(n, k), net' = net,
           accepted' = accepted, joined' = joined, n \in accepted => Active(n),
           \A m \in Node : Active(m)' => Active(m)
    PROVE  /\ \A m \in Node : HearInv(m)'
           /\ pktIn' \in [Node -> Seq(Packet)] /\ places' \in [Node -> Seq(Nat)]
           /\ pos' \in [Node -> 0 .. Len(log')]
<1> DEFINE c == Coming(n)
           q == places[n]
<1>1. /\ Coming(n)' = SubSeq(c, k + 1, Len(c)) /\ places'[n] = SubSeq(q, k + 1, Len(q))
      /\ pktIn' \in [Node -> Seq(Packet)] /\ places' \in [Node -> Seq(Nat)]
      /\ \A m \in Node \ {n} : Coming(m)' = Coming(m) /\ places'[m] = places[m]
      /\ c \in Seq(Packet) /\ q \in Seq(Nat)
      /\ Len(pktIn[n]) \in Nat /\ Len(pktIn[n]) <= Len(c)
  BY TakenQueues
<1>2. /\ pos'[n] \in 0 .. Len(log) /\ pos[n] <= pos'[n]
      /\ pos' = [pos EXCEPT ![n] = pos'[n]]
      /\ \A i \in 1 .. k : q[i] <= pos'[n]
      /\ \/ pos'[n] = pos[n]
         \/ \E i \in 1 .. k : q[i] = pos'[n] /\ pos'[n] # 0
  BY TakenPosition
<1>3. /\ log' = log /\ Len(log) \in Nat /\ pos \in [Node -> 0 .. Len(log)]
      /\ HearInv(n) /\ Len(q) = Len(c)
  BY LenProperties DEF Take, GroupInv, HearInv
<1>4. pos' \in [Node -> 0 .. Len(log')] /\ \A m \in Node \ {n} : pos'[m] = pos[m]
  BY <1>2, <1>3
<1>5. ASSUME NEW m \in Node, m # n PROVE HearInv(m)'
  <2>1. HearInv(m)
    BY DEF GroupInv
  <2> QED
    BY <1>1, <1>3, <1>4, <1>5, <2>1, SameHear
<1>6. HearInv(n)'
  <2> DEFINE d == Coming(n)'
             r == places'[n]
  <2> HIDE DEF c, q
  <2>1. /\ k \in Nat /\ Len(c) \in Nat /\ Len(c) - k \in Nat /\ k \in 0 .. Len(c)
        /\ k \in 0 .. Len(q)
    BY <1>1, <1>3, LenProperties
  <2>2. /\ Len(d) = Len(c) - k
        /\ \A i \in 1 .. Len(c) - k : d[i] = c[k + i]
    BY <1>1, <2>1, Rest
  <2>3. /\ Len(r) = Len(c) - k
        /\ \A i \in 1 .. Len(c) - k : r[i] = q[k + i]
    BY <1>1, <1>3, <2>1, Rest
  <2> HIDE DEF d, r
  <2>4. \A i \in 1 .. Len(c) - k : k + i \in 1 .. Len(c)
    BY <2>1
  <2>5. n \notin accepted' => d = <<>>
    <3>1. SUFFICES ASSUME n \notin accepted PROVE d = <<>>
      OBVIOUS
    <3>2. c = <<>>
      BY <1>3, <3>1 DEF HearInv, c
    <3>3. SubSeq(c, k + 1, Len(c)) = <<>>
      BY <1>1, <2>1, <3>2, Rest
    <3> QED
      BY <1>1, <3>3 DEF d
  <2>6. \A i \in 1 .. Len(d) : d[i].src \in accepted' \ {n}
    BY <1>3, <2>2, <2>4 DEF HearInv, c
  <2>7. ASSUME Active(n)', n \in accepted' PROVE InPlace(n)'
    <3>1. InPlace(n)
      BY <1>3, <2>7 DEF HearInv
    <3>2. /\ \A i \in 1 .. Len(q) :
                IF c[i].cmd = "MKA"
                THEN q[i] \in pos[n] + 1 .. Len(log) /\ log[q[i]] = c[i]
                ELSE q[i] = 0
          /\ \A i, j \in 1 .. Len(q) : i < j /\ q[j] # 0 => q[i] < q[j]
          /\ \A l \in pos[n] + 1 .. Len(log) :
                log[l].src # n => \E i \in 1 .. Len(q) : q[i] = l
      BY <3>1 DEF InPlace, c, q
    <3>3. ASSUME NEW i \in 1 .. Len(r)
          PROVE  IF d[i].cmd = "MKA"
                 THEN r[i] \in pos'[n] + 1 .. Len(log) /\ log[r[i]] = d[i]
                 ELSE r[i] = 0
      <4>1. /\ k + i \in 1 .. Len(q) /\ d[i] = c[k + i] /\ r[i] = q[k + i]
            /\ k + i \in Nat
        BY <1>3, <2>1, <2>2, <2>3, <2>4
      <4>2. CASE d[i].cmd = "MKA"
        <5>1. q[k + i] \in pos[n] + 1 .. Len(log) /\ log[q[k + i]] = c[k + i]
          BY <3>2, <4>1, <4>2
        <5>2. q[k + i] # 0
          BY <1>3, <5>1
        <5>3. \A j \in 1 .. k : q[j] < q[k + i]
          <6>1. \A j \in 1 .. k : j \in 1 .. Len(q) /\ j < k + i
            BY <2>1, <4>1
          <6> QED
            BY <3>2, <4>1, <5>2, <6>1
        <5>4. pos'[n] < q[k + i]
          <6>1. CASE pos'[n] = pos[n]
            BY <1>3, <5>1, <6>1
          <6>2. CASE \E j \in 1 .. k : q[j] = pos'[n]
            BY <5>3, <6>2
          <6> QED
            BY <1>2, <6>1, <6>2
        <5>5. q[k + i] \in pos'[n] + 1 .. Len(log)
          BY <1>2, <1>3, <5>1, <5>4
        <5> QED
          BY <4>1, <4>2, <5>1, <5>5
      <4>3. CASE d[i].cmd # "MKA"
        BY <3>2, <4>1, <4>3
      <4> QED
        BY <4>2, <4>3
    <3>4. ASSUME NEW i \in 1 .. Len(r), NEW j \in 1 .. Len(r), i < j, r[j] # 0
          PROVE  r[i] < r[j]
      <4>1. /\ k + i \in 1 .. Len(q) /\ k + j \in 1 .. Len(q) /\ k + i < k + j
            /\ r[i] = q[k + i] /\ r[j] = q[k + j]
        BY <1>3, <2>1, <2>3, <2>4, <3>4
      <4> QED
        BY <3>2, <3>4, <4>1
    <3>5. ASSUME NEW l \in pos'[n] + 1 .. Len(log), log[l].src # n
          PROVE  \E i \in 1 .. Len(r) : r[i] = l
      <4>1. l \in pos[n] + 1 .. Len(log)
        BY <1>2, <1>3
      <4>2. PICK i \in 1 .. Len(q) : q[i] = l
        BY <3>2, <3>5, <4>1
      <4>3. i \notin 1 .. k
        BY <1>2, <1>3, <4>2
      <4>4. i - k \in 1 .. Len(r) /\ k + (i - k) = i
        BY <1>3, <2>1, <2>3, <4>3
      <4>5. r[i - k] = l
        BY <2>3, <4>2, <4>4
      <4> QED
        BY <4>4, <4>5
    <3> QED
      BY <1>3, <3>3, <3>4, <3>5 DEF InPlace, d, r
  <2> QED
    BY <1>3, <2>2, <2>3, <2>5, <2>6, <2>7 DEF HearInv, d, r
<1> QED
  BY <1>1, <1>4, <1>5, <1>6

(***************************************************************************)
(* The server.                                                             *)
(***************************************************************************)
LEMMA FirstRest ==
    ASSUME NEW S, NEW a \in Seq(S), a # <<>>
    PROVE  /\ Len(a) \in Nat /\ Len(a) >= 1 /\ 1 \in 0 .. Len(a)
           /\ Head(a) = a[1] /\ Head(a) \in S
           /\ Tail(a) \in Seq(S) /\ Tail(a) = SubSeq(a, 1 + 1, Len(a))
<1>1. Len(a) \in Nat /\ Len(a) >= 1
  BY EmptySeq, LenProperties
<1>2. Head(a) = a[1] /\ Head(a) \in S /\ Tail(a) \in Seq(S)
  BY HeadTailProperties
<1>3. 1 + 1 = 2 /\ 1 \in 0 .. Len(a)
  BY <1>1
<1>4. Tail(a) = SubSeq(a, 2, Len(a))
  OBVIOUS
<1> QED
  BY <1>1, <1>2, <1>3, <1>4, Zenon

\* The packet the server takes from n is the first that n owes, or an
\* announcement.
LEMMA RelayedHead ==
    ASSUME GroupInv, Lossy!IInv, NEW n \in Node, wire[n] # <<>>
    PROVE  /\ Head(wire[n]) \in Packet /\ Head(wire[n]).src = n
           /\ Head(wire[n]) = Waiting(n)[1]
           /\ Len(Waiting(n)) \in Nat /\ Len(Waiting(n)) >= 1
           /\ Tail(wire[n]) \in Seq(Packet)
           /\ Tail(wire[n]) \o out[n] = SubSeq(Waiting(n), 1 + 1, Len(Waiting(n)))
           /\ IF Head(wire[n]).cmd = "MKA"
              THEN /\ owed[n] # <<>> /\ Head(owed[n]) = Head(wire[n]) /\ Ahead(n) = 0
                   /\ Head(wire[n]) \in MKAPacket
              ELSE Ahead(n) > 0
<1> DEFINE a == wire[n]
           b == out[n]
           w == Waiting(n)
           o == owed[n]
<1>1. /\ a \in Seq(Packet) /\ b \in Seq(Packet) /\ o \in Seq(MKAPacket)
      /\ w = a \o b /\ a # <<>>
  BY DEF GroupInv, Waiting
<1>2. /\ Ahead(n) = Len(w) - Len(o) /\ Ahead(n) \in Nat
      /\ \A i \in 1 .. Ahead(n) : w[i] = [cmd |-> "THATSME", src |-> n]
      /\ \A i \in 1 .. Len(o) : w[Ahead(n) + i] = o[i]
      /\ \A i \in 1 .. Len(o) : o[i].src = n
  BY OwedPackets DEF GroupInv, SendInv, Ahead
<1> HIDE DEF a, b, w, o
<1>3. /\ Len(a) \in Nat /\ Len(a) >= 1 /\ Head(a) = a[1] /\ Head(a) \in Packet
      /\ Tail(a) \in Seq(Packet) /\ Tail(a) = SubSeq(a, 1 + 1, Len(a))
      /\ 1 \in 0 .. Len(a)
  BY <1>1, FirstRest
<1>4. /\ w \in Seq(Packet) /\ Len(w) = Len(a) + Len(b) /\ Len(b) \in Nat
      /\ \A i \in 1 .. Len(a) : w[i] = a[i]
  BY <1>1, Joined
<1>5. Head(a) = w[1] /\ Len(w) \in Nat /\ Len(w) >= 1
  BY <1>3, <1>4
<1>6. Tail(a) \o b = SubSeq(w, 1 + 1, Len(w))
  <2>1. \A k \in 0 .. Len(a) : SubSeq(a, k + 1, Len(a)) \o b = SubSeq(a \o b, k + 1, Len(a \o b))
    BY <1>1, TakenInFront
  <2> QED
    BY <1>1, <1>3, <2>1
<1>7. CASE Ahead(n) = 0
  <2>0. Len(o) \in Nat
    BY <1>1, LenProperties
  <2>1. Len(o) = Len(w) /\ Len(o) >= 1
    BY <1>2, <1>5, <1>7, <2>0
  <2>2. 1 \in 1 .. Len(o) /\ Ahead(n) + 1 = 1
    BY <1>7, <2>0, <2>1
  <2>4. w[1] = o[1] /\ o[1].src = n
    BY <1>2, <2>2
  <2>5. o # <<>>
    BY <2>1
  <2>6. Head(o) = o[1] /\ o[1] \in MKAPacket
    BY <1>1, <2>5, FirstRest
  <2>3. o[1].cmd = "MKA"
    BY <2>6 DEF MKAPacket
  <2>7. Head(a) = o[1]
    BY <1>5, <2>4
  <2> QED
    BY <1>3, <1>5, <1>6, <1>7, <2>3, <2>4, <2>5, <2>6, <2>7, Zenon DEF a, b, w, o
<1>8. CASE Ahead(n) # 0
  <2>1. w[1] = [cmd |-> "THATSME", src |-> n] /\ Ahead(n) > 0
    BY <1>2, <1>8
  <2>2. Head(a) = w[1] /\ Head(a).cmd # "MKA" /\ Head(a).src = n
    BY <1>5, <2>1
  <2> QED
    BY <1>3, <1>5, <1>6, <2>1, <2>2, Zenon DEF a, b, w, o
<1> QED
  BY <1>7, <1>8

LEMMA RelaySends ==
    ASSUME GroupInv, Lossy!IInv, NEW n \in Node, Relay(n)
    PROVE  SendInv(n)'
<1> DEFINE w == Waiting(n)
           o == owed[n]
           x == Waiting(n)'
           y == owed'[n]
<1>1. /\ wire[n] # <<>> /\ wire' = [wire EXCEPT ![n] = Tail(@)]
      /\ UNCHANGED <<nodes, out>>
      /\ IF Head(wire[n]).cmd = "MKA" THEN owed' = [owed EXCEPT ![n] = Tail(@)]
                                      ELSE owed' = owed
      /\ wire \in [Node -> Seq(Packet)] /\ out \in [Node -> Seq(Packet)]
      /\ owed \in [Node -> Seq(MKAPacket)]
  BY DEF Relay, mkaVars, GroupInv
<1>2. /\ x = SubSeq(w, 1 + 1, Len(w)) /\ Len(w) \in Nat /\ Len(w) >= 1
      /\ Head(wire[n]) = w[1]
      /\ IF Head(wire[n]).cmd = "MKA" THEN o # <<>> /\ Ahead(n) = 0 ELSE Ahead(n) > 0
  BY <1>1, RelayedHead DEF Waiting
<1>3. /\ Ahead(n) = Len(w) - Len(o) /\ Ahead(n) \in Nat
      /\ \A i \in 1 .. Ahead(n) : w[i] = [cmd |-> "THATSME", src |-> n]
      /\ \A i \in 1 .. Len(o) : w[Ahead(n) + i] = o[i]
      /\ nodes[n] = {} => o = <<>>
      /\ Ahead(n)' = Len(x) - Len(y)
  BY DEF GroupInv, SendInv, Ahead
<1>4. w \in Seq(Packet) /\ o \in Seq(MKAPacket)
  BY <1>1, Joined DEF Waiting
<1> HIDE DEF w, o, x
<1>5. 1 \in 0 .. Len(w)
  BY <1>2
<1>6. /\ Len(x) = Len(w) - 1
      /\ \A i \in 1 .. Len(w) - 1 : x[i] = w[1 + i]
  <2>1. \A k \in 0 .. Len(w) :
           /\ Len(SubSeq(w, k + 1, Len(w))) = Len(w) - k
           /\ \A i \in 1 .. Len(w) - k : SubSeq(w, k + 1, Len(w))[i] = w[k + i]
    BY <1>4, Rest
  <2> QED
    BY <1>2, <1>5, <2>1, Zenon
<1>7. CASE Head(wire[n]).cmd = "MKA"
  <2>1. y = Tail(o) /\ o # <<>> /\ Ahead(n) = 0
    BY <1>1, <1>2, <1>7 DEF o
  <2>2. Len(y) = Len(o) - 1 /\ \A i \in 1 .. Len(o) - 1 : y[i] = o[1 + i]
    BY <1>4, <2>1
  <2> HIDE DEF y
  <2>3. Len(o) \in Nat /\ Len(o) = Len(w)
    BY <1>2, <1>3, <1>4, <2>1, LenProperties
  <2>4. Ahead(n)' = 0
    BY <1>2, <1>3, <1>6, <2>2, <2>3
  <2>5. ASSUME NEW i \in 1 .. Len(y) PROVE x[0 + i] = y[i]
    <3>1. i \in 1 .. Len(o) - 1 /\ 1 + i \in 1 .. Len(o) /\ 0 + (1 + i) = 1 + i /\ 0 + i = i
      BY <2>2, <2>3
    <3>2. x[i] = w[1 + i] /\ y[i] = o[1 + i]
      BY <1>6, <2>2, <2>3, <3>1
    <3>3. w[1 + i] = o[1 + i]
      BY <1>3, <2>1, <3>1
    <3> QED
      BY <3>1, <3>2, <3>3
  <2>6. nodes'[n] # {}
    BY <1>1, <1>3, <2>1
  <2> QED
    BY <2>4, <2>5, <2>6 DEF SendInv, x, y
<1>8. CASE Head(wire[n]).cmd # "MKA"
  <2>1. y = o /\ Ahead(n) > 0
    BY <1>1, <1>2, <1>8 DEF o
  <2> HIDE DEF y
  <2>2. Len(o) \in Nat
    BY <1>4, LenProperties
  <2>3. Ahead(n)' = Ahead(n) - 1 /\ Ahead(n)' \in Nat
    BY <1>2, <1>3, <1>6, <2>1, <2>2
  <2>4. ASSUME NEW i \in 1 .. Ahead(n) - 1 PROVE x[i] = [cmd |-> "THATSME", src |-> n]
    <3>1. i \in 1 .. Len(w) - 1 /\ 1 + i \in 1 .. Ahead(n)
      BY <1>2, <1>3, <2>2
    <3> QED
      BY <1>3, <1>6, <3>1
  <2>5. ASSUME NEW i \in 1 .. Len(y) PROVE x[Ahead(n) - 1 + i] = y[i]
    <3>1. /\ Ahead(n) - 1 + i \in 1 .. Len(w) - 1 /\ 1 + (Ahead(n) - 1 + i) = Ahead(n) + i
          /\ i \in 1 .. Len(o)
      BY <1>2, <1>3, <2>1, <2>2
    <3> QED
      BY <1>3, <1>6, <2>1, <3>1
  <2> QED
    BY <1>1, <1>3, <2>1, <2>3, <2>4, <2>5 DEF SendInv, x, y
<1> QED
  BY <1>7, <1>8

\* A packet more arrives at m: at a new place of the stream, or none.
LEMMA HearMore ==
    ASSUME GroupInv, NEW m \in Node, NEW p \in Packet, NEW place \in Nat,
           m \in accepted, Active(m), UNCHANGED <<pos, accepted>>, p.src \in accepted \ {m},
           Coming(m)' = Append(Coming(m), p), places'[m] = Append(places[m], place),
           IF p.cmd = "MKA" THEN place = Len(log) + 1 /\ log' = Append(log, p)
                                 /\ p \in MKAPacket
                            ELSE place = 0 /\ log' = log
    PROVE  HearInv(m)'
<1> DEFINE c == Coming(m)
           q == places[m]
           d == Coming(m)'
           r == places'[m]
<1>1. /\ c \in Seq(Packet) /\ q \in Seq(Nat) /\ Len(q) = Len(c)
      /\ \A i \in 1 .. Len(c) : c[i].src \in accepted \ {m}
      /\ log \in Seq(MKAPacket) /\ pos[m] \in 0 .. Len(log)
      /\ InPlace(m) /\ d = Append(c, p) /\ r = Append(q, place)
  BY Joined DEF GroupInv, HearInv, Coming
<1>2. /\ \A i \in 1 .. Len(q) :
            IF c[i].cmd = "MKA"
            THEN q[i] \in pos[m] + 1 .. Len(log) /\ log[q[i]] = c[i]
            ELSE q[i] = 0
      /\ \A i, j \in 1 .. Len(q) : i < j /\ q[j] # 0 => q[i] < q[j]
      /\ \A l \in pos[m] + 1 .. Len(log) :
            log[l].src # m => \E i \in 1 .. Len(q) : q[i] = l
  BY <1>1 DEF InPlace
<1> HIDE DEF c, q
<1>3. /\ Len(c) \in Nat /\ Len(d) = Len(c) + 1 /\ d[Len(c) + 1] = p
      /\ \A i \in 1 .. Len(c) : d[i] = c[i]
  BY <1>1, Added
<1>4. /\ Len(r) = Len(c) + 1 /\ r[Len(c) + 1] = place
      /\ \A i \in 1 .. Len(c) : r[i] = q[i]
  BY <1>1, Added
<1> HIDE DEF d, r
<1>5. /\ Len(log) \in Nat /\ \A l \in 1 .. Len(log) : log'[l] = log[l]
      /\ IF p.cmd = "MKA" THEN Len(log') = Len(log) + 1 /\ log'[Len(log) + 1] = p
                          ELSE Len(log') = Len(log)
  <2>1. log \in Seq(MKAPacket) /\ Len(log) \in Nat
    BY <1>1, LenProperties
  <2>2. CASE p.cmd = "MKA"
    <3>1. log' = Append(log, p) /\ p \in MKAPacket
      BY <2>2
    <3>2. \A g \in Seq(MKAPacket) : \A e \in MKAPacket :
             /\ Len(Append(g, e)) = Len(g) + 1
             /\ \A i \in 1 .. Len(g) : Append(g, e)[i] = g[i]
             /\ Append(g, e)[Len(g) + 1] = e
      BY Added
    <3>3. /\ Len(log') = Len(log) + 1 /\ log'[Len(log) + 1] = p
          /\ \A l \in 1 .. Len(log) : log'[l] = log[l]
      BY <2>1, <3>1, <3>2, Zenon
    <3> QED
      BY <2>1, <2>2, <3>3
  <2>3. CASE p.cmd # "MKA"
    BY <2>1, <2>3
  <2> QED
    BY <2>2, <2>3
<1>6. \A i \in 1 .. Len(c) : q[i] \in 0 .. Len(log)
  BY <1>1, <1>2, <1>5
<1>7. ASSUME NEW i \in 1 .. Len(r)
      PROVE  /\ IF d[i].cmd = "MKA"
                THEN r[i] \in pos[m] + 1 .. Len(log') /\ log'[r[i]] = d[i]
                ELSE r[i] = 0
             /\ d[i].src \in accepted \ {m}
  <2>1. CASE i \in 1 .. Len(c)
    <3>1. d[i] = c[i] /\ r[i] = q[i]
      BY <1>3, <1>4, <2>1
    <3>2. CASE c[i].cmd = "MKA"
      <4>1. q[i] \in pos[m] + 1 .. Len(log) /\ log[q[i]] = c[i] /\ q[i] \in 1 .. Len(log)
        BY <1>1, <1>2, <1>5, <2>1, <3>2
      <4>2. q[i] \in pos[m] + 1 .. Len(log') /\ log'[q[i]] = c[i]
        BY <1>1, <1>5, <4>1
      <4> QED
        BY <1>1, <2>1, <3>1, <3>2, <4>2
    <3> QED
      BY <1>1, <1>2, <2>1, <3>1, <3>2
  <2>2. CASE i = Len(c) + 1
    <3>1. d[i] = p /\ r[i] = place
      BY <1>3, <1>4, <2>2
    <3>2. CASE p.cmd = "MKA"
      <4>1. place = Len(log) + 1 /\ Len(log') = Len(log) + 1 /\ log'[place] = p
        BY <1>5, <3>2
      <4>2. place \in pos[m] + 1 .. Len(log')
        BY <1>1, <1>5, <4>1
      <4> QED
        BY <3>1, <3>2, <4>1, <4>2
    <3> QED
      BY <3>1, <3>2
  <2>3. i \in 1 .. Len(c) \/ i = Len(c) + 1
    BY <1>3, <1>4
  <2> QED
    BY <2>1, <2>2, <2>3
<1>8. ASSUME NEW i \in 1 .. Len(r), NEW j \in 1 .. Len(r), i < j, r[j] # 0
      PROVE  r[i] < r[j]
  <2>1. i \in 1 .. Len(c) /\ r[i] = q[i]
    BY <1>3, <1>4, <1>8
  <2>2. CASE j \in 1 .. Len(c)
    BY <1>1, <1>2, <1>4, <1>8, <2>1, <2>2
  <2>3. CASE j \notin 1 .. Len(c)
    <3>1. r[j] = place
      BY <1>3, <1>4, <2>3
    <3>2. place = Len(log) + 1
      BY <1>8, <3>1
    <3> QED
      BY <1>5, <1>6, <2>1, <3>1, <3>2
  <2> QED
    BY <2>2, <2>3
<1>9. ASSUME NEW l \in pos[m] + 1 .. Len(log'), log'[l].src # m
      PROVE  \E i \in 1 .. Len(r) : r[i] = l
  <2>1. CASE l \in pos[m] + 1 .. Len(log)
    <3>1. log[l].src # m
      BY <1>1, <1>5, <1>9, <2>1
    <3>2. PICK i \in 1 .. Len(q) : q[i] = l
      BY <1>2, <2>1, <3>1
    <3>3. i \in 1 .. Len(r) /\ r[i] = l
      BY <1>1, <1>3, <1>4, <3>2
    <3> QED
      BY <3>3
  <2>2. CASE l \notin pos[m] + 1 .. Len(log)
    <3>1. p.cmd = "MKA" /\ l = Len(log) + 1
      BY <1>1, <1>5, <2>2
    <3>2. Len(c) + 1 \in 1 .. Len(r) /\ r[Len(c) + 1] = l
      BY <1>3, <1>4, <3>1
    <3> QED
      BY <3>2
  <2> QED
    BY <2>1, <2>2
<1>10. InPlace(m)'
  BY <1>7, <1>8, <1>9 DEF InPlace, d, r
<1>11. \A i \in 1 .. Len(d) : d[i].src \in accepted \ {m}
  BY <1>3, <1>4, <1>7
<1> QED
  BY <1>3, <1>4, <1>10, <1>11 DEF HearInv, d, r

\* The node's own packet is relayed to the others: it hears nothing.
LEMMA HearOwn ==
    ASSUME GroupInv, NEW m \in Node, NEW p \in MKAPacket, p.src = m,
           log' = Append(log, p), Coming(m)' = Coming(m),
           UNCHANGED <<joined, skStatus, accepted>>,
           places'[m] = places[m], pos' = pos
    PROVE  HearInv(m)'
<1>1. /\ log \in Seq(MKAPacket) /\ Len(log) \in Nat /\ pos[m] \in 0 .. Len(log)
      /\ HearInv(m)
  BY LenProperties DEF GroupInv
<1>2. /\ Len(log') = Len(log) + 1 /\ log'[Len(log) + 1] = p
      /\ \A l \in 1 .. Len(log) : log'[l] = log[l]
  BY <1>1, Added
<1>3. ASSUME InPlace(m) PROVE InPlace(m)'
  <2>1. ASSUME NEW i \in 1 .. Len(places[m])
        PROVE  IF Coming(m)[i].cmd = "MKA"
               THEN /\ places[m][i] \in pos[m] + 1 .. Len(log')
                    /\ log'[places[m][i]] = Coming(m)[i]
               ELSE places[m][i] = 0
    <3>1. IF Coming(m)[i].cmd = "MKA"
          THEN /\ places[m][i] \in pos[m] + 1 .. Len(log)
               /\ log[places[m][i]] = Coming(m)[i]
          ELSE places[m][i] = 0
      BY <1>3 DEF InPlace
    <3> QED
      BY <1>1, <1>2, <3>1
  <2>2. ASSUME NEW l \in pos[m] + 1 .. Len(log'), log'[l].src # m
        PROVE  \E i \in 1 .. Len(places[m]) : places[m][i] = l
    <3>1. l \in pos[m] + 1 .. Len(log) /\ log[l].src # m
      BY <1>1, <1>2, <2>2
    <3> QED
      BY <1>3, <3>1 DEF InPlace
  <2>3. \A i, j \in 1 .. Len(places[m]) :
           i < j /\ places[m][j] # 0 => places[m][i] < places[m][j]
    BY <1>3 DEF InPlace
  <2>4. pos'[m] = pos[m] /\ places'[m] = places[m] /\ Coming(m)' = Coming(m)
    OBVIOUS
  <2> QED
    <3>1. \A i \in 1 .. Len(places'[m]) :
             IF Coming(m)'[i].cmd = "MKA"
             THEN /\ places'[m][i] \in pos'[m] + 1 .. Len(log')
                  /\ log'[places'[m][i]] = Coming(m)'[i]
             ELSE places'[m][i] = 0
      BY <2>1, <2>4
    <3>2. \A l \in pos'[m] + 1 .. Len(log') :
             log'[l].src # m => \E i \in 1 .. Len(places'[m]) : places'[m][i] = l
      <4> SUFFICES ASSUME NEW l \in pos'[m] + 1 .. Len(log'), log'[l].src # m
                   PROVE  \E i \in 1 .. Len(places'[m]) : places'[m][i] = l
        OBVIOUS
      <4>1. l \in pos[m] + 1 .. Len(log')
        BY <2>4
      <4>2. PICK i \in 1 .. Len(places[m]) : places[m][i] = l
        BY <2>2, <4>1
      <4> QED
        BY <2>4, <4>2
    <3>3. \A i, j \in 1 .. Len(places'[m]) :
             i < j /\ places'[m][j] # 0 => places'[m][i] < places'[m][j]
      BY <2>3, <2>4
    <3> QED
      BY <3>1, <3>2, <3>3, Zenon DEF InPlace
<1> QED
  BY <1>1, <1>3 DEF HearInv, Active

LEMMA RelayHears ==
    ASSUME GroupInv, Lossy!IInv, NEW n \in Node, Relay(n), NEW m \in Node
    PROVE  HearInv(m)'
<1> DEFINE p == Head(wire[n])
<1>1. /\ p \in Packet /\ p.src = n /\ n \in accepted
      /\ p.cmd = "MKA" => p \in MKAPacket
      /\ UNCHANGED <<pktIn, pos, accepted, joined, skStatus>>
  BY RelayedHead DEF Relay, skVars
<1> HIDE DEF p
<1>2. /\ net' = Sent(n, net, p)
      /\ IF p.cmd = "MKA" THEN log' = Append(log, p) /\ places' = Sent(n, places, Len(log) + 1)
                          ELSE log' = log /\ places' = Sent(n, places, 0)
  BY DEF Relay, p
<1>3. /\ pktIn[m] \in Seq(Packet) /\ net[m] \in Seq(Packet) /\ log \in Seq(MKAPacket)
      /\ Len(log) \in Nat /\ HearInv(m)
  BY LenProperties DEF GroupInv
<1>4. CASE m \in Readers(n)
  <2>1. m \in accepted /\ Active(m) /\ p.src \in accepted \ {m}
    BY <1>1, <1>4 DEF Readers
  <2>2. net'[m] = Append(net[m], p)
    BY <1>2, <1>4 DEF Sent
  <2>3. Coming(m)' = Append(Coming(m), p)
    <3>1. \A a, b \in Seq(Packet) : a \o Append(b, p) = Append(a \o b, p)
      BY <1>1, AddedBehind
    <3>2. pktIn[m] \o Append(net[m], p) = Append(pktIn[m] \o net[m], p)
      BY <1>3, <3>1, Zenon
    <3> QED
      BY <1>1, <2>2, <3>2, Zenon DEF Coming
  <2>4. CASE p.cmd = "MKA"
    <3>1. places'[m] = Append(places[m], Len(log) + 1)
      BY <1>2, <1>4, <2>4 DEF Sent
    <3>2. Len(log) + 1 \in Nat
      BY <1>3
    <3> QED
      BY <1>1, <1>2, <2>1, <2>3, <2>4, <3>1, <3>2, HearMore
  <2>5. CASE p.cmd # "MKA"
    <3>1. places'[m] = Append(places[m], 0) /\ 0 \in Nat
      BY <1>2, <1>4, <2>5 DEF Sent
    <3> QED
      BY <1>1, <1>2, <2>1, <2>3, <2>5, <3>1, HearMore
  <2> QED
    BY <2>4, <2>5
<1>5. CASE m \notin Readers(n)
  <2>1. net'[m] = net[m] /\ places'[m] = places[m]
    BY <1>2, <1>5 DEF Sent
  <2>2. Coming(m)' = Coming(m)
    BY <1>1, <2>1 DEF Coming
  <2>3. CASE p.cmd # "MKA"
    BY <1>1, <1>2, <1>3, <2>1, <2>2, <2>3, SameHear DEF Active
  <2>4. CASE p.cmd = "MKA" /\ m = n
    BY <1>1, <1>2, <2>1, <2>2, <2>4, HearOwn
  <2>5. CASE p.cmd = "MKA" /\ m # n
    <3>1. ~ (Active(m) /\ m \in accepted)
      BY <1>5, <2>5 DEF Readers
    <3>2. Active(m)' <=> Active(m)
      BY <1>1 DEF Active
    <3> QED
      BY <1>1, <1>3, <2>1, <2>2, <3>1, <3>2 DEF HearInv
  <2> QED
    BY <2>3, <2>4, <2>5
<1> QED
  BY <1>4, <1>5

LEMMA RelayStep ==
    ASSUME GroupInv, Lossy!IInv, NEW n \in Node, Relay(n)
    PROVE  GroupInv' /\ [Lossy!Next]_(Lossy!vars)
<1> DEFINE p == Head(wire[n])
<1>1. /\ p \in Packet /\ Tail(wire[n]) \in Seq(Packet)
      /\ p.cmd = "MKA" => p \in MKAPacket /\ owed[n] # <<>> /\ Head(owed[n]) = p
      /\ UNCHANGED <<pktIn, pos, accepted, joined, skStatus, counter>>
      /\ UNCHANGED <<status, nodes, step, remote, deferred, ctx, key, out>>
  BY RelayedHead DEF Relay, skVars, mkaVars
<1> HIDE DEF p
<1>2. /\ wire' = [wire EXCEPT ![n] = Tail(@)]
      /\ net' = Sent(n, net, p)
      /\ IF p.cmd = "MKA" THEN /\ log' = Append(log, p)
                               /\ owed' = [owed EXCEPT ![n] = Tail(@)]
                               /\ places' = Sent(n, places, Len(log) + 1)
                          ELSE /\ log' = log /\ owed' = owed
                               /\ places' = Sent(n, places, 0)
  BY DEF Relay, p
<1>3. /\ wire \in [Node -> Seq(Packet)] /\ net \in [Node -> Seq(Packet)]
      /\ log \in Seq(MKAPacket) /\ Len(log) \in Nat /\ owed \in [Node -> Seq(MKAPacket)]
      /\ pos \in [Node -> 0 .. Len(log)] /\ places \in [Node -> Seq(Nat)]
      /\ nodes[n] = {} => owed[n] = <<>>
      /\ nodes[n] # {} => accepted = Node
      /\ log # <<>> => accepted = Node
  BY LenProperties DEF GroupInv, SendInv, CountInv
<1>4. wire' \in [Node -> Seq(Packet)]
  BY <1>1, <1>2, <1>3
<1>5. net' \in [Node -> Seq(Packet)]
  <2>1. \A a \in Seq(Packet) : Append(a, p) \in Seq(Packet)
    BY <1>1, AppendProperties
  <2> QED
    BY <1>2, <1>3, <2>1 DEF Sent
<1>6. places' \in [Node -> Seq(Nat)]
  <2>1. \A a \in Seq(Nat) : \A e \in Nat : Append(a, e) \in Seq(Nat)
    BY AppendProperties
  <2>2. \E e \in Nat : places' = Sent(n, places, e)
    BY <1>2, <1>3
  <2> QED
    BY <1>3, <2>1, <2>2 DEF Sent
<1>7. ASSUME p.cmd = "MKA"
      PROVE  /\ log' \in Seq(MKAPacket) /\ owed' \in [Node -> Seq(MKAPacket)]
             /\ pos' \in [Node -> 0 .. Len(log')] /\ (log' # <<>> => accepted' = Node)
             /\ [Lossy!Next]_(Lossy!vars)
  <2>1. /\ log' \in Seq(MKAPacket) /\ Len(log') = Len(log) + 1
    <3>1. \A g \in Seq(MKAPacket) : \A e \in MKAPacket :
             Append(g, e) \in Seq(MKAPacket) /\ Len(Append(g, e)) = Len(g) + 1
      BY AppendProperties
    <3> QED
      BY <1>1, <1>2, <1>3, <1>7, <3>1
  <2>2. pos' \in [Node -> 0 .. Len(log')]
    BY <1>1, <1>3, <2>1
  <2>3. owed' \in [Node -> Seq(MKAPacket)]
    <3>1. Tail(owed[n]) \in Seq(MKAPacket)
      BY <1>1, <1>3, <1>7, FirstRest
    <3> QED
      BY <1>2, <1>3, <1>7, <3>1
  <2>4. accepted' = Node
    BY <1>1, <1>3, <1>7
  <2>5. Lossy!Relay(n)
    BY <1>1, <1>2, <1>7 DEF Lossy!Relay
  <2>6. Lossy!Next
    BY <2>5 DEF Lossy!Next
  <2> QED
    BY <2>1, <2>2, <2>3, <2>4, <2>6
<1>8. ASSUME p.cmd # "MKA"
      PROVE  /\ log' \in Seq(MKAPacket) /\ owed' \in [Node -> Seq(MKAPacket)]
             /\ pos' \in [Node -> 0 .. Len(log')] /\ (log' # <<>> => accepted' = Node)
             /\ [Lossy!Next]_(Lossy!vars)
  <2>1. UNCHANGED Lossy!vars
    BY <1>1, <1>2, <1>8 DEF Lossy!vars, Lossy!mkaVars
  <2>2. /\ log' \in Seq(MKAPacket) /\ owed' \in [Node -> Seq(MKAPacket)]
        /\ pos' \in [Node -> 0 .. Len(log')] /\ (log' # <<>> => accepted' = Node)
    BY <1>1, <1>2, <1>3, <1>8
  <2> QED
    BY <2>1, <2>2
<1>9. /\ log' \in Seq(MKAPacket) /\ owed' \in [Node -> Seq(MKAPacket)]
      /\ pos' \in [Node -> 0 .. Len(log')] /\ (log' # <<>> => accepted' = Node)
      /\ [Lossy!Next]_(Lossy!vars)
  BY <1>7, <1>8
<1>10. ASSUME NEW m \in Node PROVE SendInv(m)' /\ CountInv(m)' /\ HearInv(m)'
  <2>1. SendInv(m) /\ CountInv(m)
    BY DEF GroupInv
  <2>2. CASE m # n
    <3>1. wire'[m] = wire[m] /\ owed'[m] = owed[m] /\ out' = out /\ nodes' = nodes
      BY <1>1, <1>2, <1>3, <2>2
    <3> QED
      BY <1>1, <2>1, <3>1, SameSend, SameFound, RelayHears
  <2>3. CASE m = n
    BY <1>1, <2>1, <2>3, RelaySends, SameFound, RelayHears
  <2> QED
    BY <2>2, <2>3
<1> QED
  BY <1>1, <1>4, <1>5, <1>6, <1>9, <1>10 DEF GroupInv

(***************************************************************************)
(* The steps that neither write nor read a packet.                         *)
(***************************************************************************)
LEMMA QuietGroup ==
    ASSUME GroupInv,
           UNCHANGED <<nodes, out, counter, pktIn, net, wire, joined, accepted, history>>,
           skStatus' \in [Node -> SKNXStatus],
           \A m \in Node : /\ skStatus'[m] \notin {"OFFLINE", "ONLINE"}
                                => skStatus[m] \notin {"OFFLINE", "ONLINE"}
                           /\ skStatus'[m] = "COUNTING" => skStatus[m] = "COUNTING"
                           /\ skStatus[m] = "OFFLINE" => skStatus'[m] = "OFFLINE"
    PROVE  GroupInv'
<1>1. UNCHANGED <<log, pos, owed, places>>
  BY DEF history
<1>2. ASSUME NEW m \in Node PROVE SendInv(m)' /\ HearInv(m)' /\ CountInv(m)'
  <2>1. SendInv(m) /\ HearInv(m) /\ CountInv(m)
    BY DEF GroupInv
  <2>2. Active(m)' => Active(m)
    BY DEF Active
  <2>3. Coming(m)' = Coming(m)
    BY DEF Coming
  <2> QED
    BY <1>1, <2>1, <2>2, <2>3, SameSend, SameHear DEF CountInv
<1> QED
  BY <1>1, <1>2 DEF GroupInv

LEMMA QuietSteps ==
    ASSUME GroupInv, Lossy!IInv, NEW n \in Node,
           Tick \/ UNCHANGED vars \/ EndHandshake(n) \/ HandshakeFails(n)
             \/ Finish(n) \/ GoOnline(n)
    PROVE  GroupInv' /\ [Lossy!Next]_(Lossy!vars)
<1>1. skStatus \in [Node -> SKNXStatus]
  BY DEF GroupInv
<1>2. CASE Tick \/ UNCHANGED vars
  <2>1. UNCHANGED <<mkaVars, skVars, netVars, history>>
    BY <1>2 DEF Tick, vars
  <2>2. GroupInv'
    BY <1>1, <2>1, QuietGroup DEF mkaVars, skVars, netVars
  <2>3. UNCHANGED Lossy!vars
    BY <2>1 DEF mkaVars, history, Lossy!vars, Lossy!mkaVars
  <2> QED
    BY <2>2, <2>3
<1>3. CASE EndHandshake(n)
  <2>1. UNCHANGED <<mkaVars, skStatus, counter, pktIn, netVars, history>>
    BY <1>3 DEF EndHandshake
  <2>2. GroupInv'
    BY <1>1, <2>1, QuietGroup DEF mkaVars, netVars
  <2>3. UNCHANGED Lossy!vars
    BY <2>1 DEF mkaVars, history, Lossy!vars, Lossy!mkaVars
  <2> QED
    BY <2>2, <2>3
<1>4. CASE HandshakeFails(n)
  <2>1. /\ skStatus[n] = "HANDSHAKING" /\ skStatus' = [skStatus EXCEPT ![n] = "OFFLINE"]
        /\ status[n] = "ERROR" /\ ShutdownKey(n)
        /\ UNCHANGED <<counter, pktIn, netVars, history>>
    BY <1>4 DEF HandshakeFails
  <2>2. skStatus' \in [Node -> SKNXStatus]
    BY <1>1, <2>1 DEF SKNXStatus
  <2>3. UNCHANGED <<nodes, out, wire, net, joined, accepted>>
    BY <2>1 DEF ShutdownKey, netVars
  <2>4. GroupInv'
    BY <1>1, <2>1, <2>2, <2>3, QuietGroup
  <2>5. Lossy!Shutdown(n)
    BY <2>1 DEF ShutdownKey, history, Lossy!Shutdown, Lossy!ShutdownKey
  <2> QED
    BY <2>4, <2>5 DEF Lossy!Next
<1>5. CASE Finish(n) \/ GoOnline(n)
  <2>1. /\ \/ /\ skStatus[n] = "HANDSHAKING"
              /\ skStatus' = [skStatus EXCEPT ![n] = "FINALIZING"]
           \/ /\ skStatus[n] = "FINALIZING"
              /\ skStatus' = [skStatus EXCEPT ![n] = "ONLINE"]
        /\ UNCHANGED <<mkaVars, counter, pktIn, netVars, history>>
    BY <1>5 DEF Finish, GoOnline
  <2>2. skStatus' \in [Node -> SKNXStatus]
    BY <1>1, <2>1 DEF SKNXStatus
  <2>3. GroupInv'
    BY <1>1, <2>1, <2>2, QuietGroup DEF mkaVars, netVars
  <2>4. UNCHANGED Lossy!vars
    BY <2>1 DEF mkaVars, history, Lossy!vars, Lossy!mkaVars
  <2> QED
    BY <2>3, <2>4
<1> QED
  BY <1>2, <1>3, <1>4, <1>5

LEMMA JoinStep ==
    ASSUME GroupInv, NEW n \in Node, Join(n)
    PROVE  GroupInv' /\ [Lossy!Next]_(Lossy!vars)
<1>1. /\ n \notin joined /\ joined' = joined \union {n}
      /\ skStatus' = [skStatus EXCEPT ![n] = "COUNTING"]
      /\ counter' = [counter EXCEPT ![n].status = "COUNTING", ![n].nodes = {n}]
      /\ UNCHANGED <<mkaVars, pktIn, wire, net, accepted, log, pos, owed, places>>
  BY DEF Join, history
<1>2. UNCHANGED <<nodes, out>>
  BY <1>1 DEF mkaVars
<1>3. /\ skStatus \in [Node -> SKNXStatus] /\ counter \in [Node -> Counter]
      /\ accepted \subseteq joined /\ joined \subseteq Node /\ n \notin accepted
  BY <1>1 DEF GroupInv
<1>4. /\ skStatus' \in [Node -> SKNXStatus] /\ counter' \in [Node -> Counter]
      /\ counter'[n] = [counter[n] EXCEPT !.status = "COUNTING", !.nodes = {n}]
      /\ \A m \in Node \ {n} : counter'[m] = counter[m] /\ skStatus'[m] = skStatus[m]
      /\ skStatus'[n] = "COUNTING"
  BY <1>1, <1>3 DEF SKNXStatus, Counter
<1>5. CountInv(n)'
  <2>1. CountInv(n) /\ counter[n] \in Counter
    BY <1>3 DEF GroupInv
  <2>2. ~ (counter[n].nodes = Node) /\ nodes[n] = {}
    BY <1>1, <1>3, <2>1, NotAlone DEF CountInv
  <2>3. ~ (counter[n].loops > 0)
    BY <2>1, <2>2 DEF CountInv
  <2>4. /\ counter'[n].status = "COUNTING" /\ counter'[n].nodes = {n}
        /\ counter'[n].loops = counter[n].loops
    BY <1>4, <2>1 DEF Counter
  <2> QED
    BY <1>1, <1>2, <1>3, <1>4, <2>2, <2>3, <2>4 DEF CountInv
<1>6. ASSUME NEW m \in Node PROVE SendInv(m)' /\ HearInv(m)' /\ CountInv(m)'
  <2>1. SendInv(m) /\ HearInv(m) /\ CountInv(m)
    BY DEF GroupInv
  <2>2. Coming(m)' = Coming(m) /\ InPlace(m)' = InPlace(m)
    BY <1>1 DEF Coming, InPlace
  <2>3. HearInv(m)'
    <3>1. m \in accepted => (Active(m)' <=> Active(m))
      BY <1>1, <1>3, <1>4 DEF Active
    <3> QED
      BY <1>1, <2>1, <2>2, <3>1 DEF HearInv
  <2>4. CountInv(m)'
    BY <1>1, <1>2, <1>4, <1>5, <2>1 DEF CountInv
  <2> QED
    BY <1>1, <1>2, <2>1, <2>3, <2>4, SameSend
<1>7. UNCHANGED Lossy!vars
  BY <1>1 DEF mkaVars, Lossy!vars, Lossy!mkaVars
<1> QED
  BY <1>1, <1>2, <1>3, <1>4, <1>6, <1>7 DEF GroupInv

\* While a client is not accepted nobody has begun the exchange.
LEMMA AcceptStep ==
    ASSUME GroupInv, NEW n \in Node, Accept(n)
    PROVE  GroupInv' /\ [Lossy!Next]_(Lossy!vars)
<1>1. /\ n \in joined /\ n \notin accepted /\ accepted' = accepted \union {n}
      /\ UNCHANGED <<mkaVars, skVars, wire, net, joined, log, pos, owed, places>>
  BY DEF Accept, history
<1>2. UNCHANGED <<nodes, out, skStatus, counter, pktIn>>
  BY <1>1 DEF mkaVars, skVars
<1>3. /\ accepted \subseteq joined /\ joined \subseteq Node /\ log = <<>>
      /\ \A m \in Node : nodes[m] = {} /\ SendInv(m) /\ HearInv(m) /\ CountInv(m)
  BY <1>1 DEF GroupInv, CountInv
<1>4. ASSUME NEW m \in Node PROVE SendInv(m)' /\ HearInv(m)' /\ CountInv(m)'
  <2>1. Coming(m)' = Coming(m) /\ InPlace(m)' = InPlace(m) /\ Active(m)' = Active(m)
    BY <1>1, <1>2 DEF Coming, InPlace, Active
  <2>2. m = n => InPlace(m)
    <3>1. SUFFICES ASSUME m = n PROVE InPlace(m)
      OBVIOUS
    <3>2. Len(places[m]) = 0
      BY <1>1, <1>3, <3>1 DEF HearInv
    <3>3. pos[m] = 0 /\ Len(log) = 0
      BY <1>3 DEF GroupInv
    <3> QED
      BY <3>2, <3>3 DEF InPlace
  <2>3. HearInv(m)'
    BY <1>1, <1>3, <2>1, <2>2 DEF HearInv
  <2>4. CountInv(m)'
    BY <1>1, <1>2, <1>3 DEF CountInv
  <2> QED
    BY <1>1, <1>2, <1>3, <2>3, <2>4, SameSend
<1>5. UNCHANGED Lossy!vars
  BY <1>1 DEF mkaVars, Lossy!vars, Lossy!mkaVars
<1> QED
  BY <1>1, <1>2, <1>3, <1>4, <1>5 DEF GroupInv

\* PKTWrapper::update moves packets on, in their order.
LEMMA PumpStep ==
    ASSUME GroupInv, NEW n \in Node, Pump(n)
    PROVE  GroupInv' /\ [Lossy!Next]_(Lossy!vars)
<1>1. /\ wire' = [wire EXCEPT ![n] = @ \o out[n]]
      /\ out' = [out EXCEPT ![n] = SubSeq(@, Len(out[n]) + 1, Len(@))]
      /\ pktIn' = [pktIn EXCEPT ![n] = @ \o net[n]]
      /\ net' = [net EXCEPT ![n] = <<>>]
      /\ UNCHANGED <<status, nodes, step, remote, deferred, ctx, key, skStatus, counter,
                     joined, accepted, log, pos, owed, places>>
  BY DEF Pump, ToSend, history
<1>2. /\ wire \in [Node -> Seq(Packet)] /\ out \in [Node -> Seq(Packet)]
      /\ pktIn \in [Node -> Seq(Packet)] /\ net \in [Node -> Seq(Packet)]
      /\ \A m \in Node : SendInv(m) /\ HearInv(m) /\ CountInv(m)
  BY DEF GroupInv
<1>3. out' = [out EXCEPT ![n] = <<>>]
  <2>1. \A q \in Seq(Packet) : SubSeq(q, Len(q) + 1, Len(q)) = <<>>
    BY LenProperties, SubSeqEmpty
  <2> QED
    BY <1>1, <1>2, <2>1
<1>4. \A a, b \in Seq(Packet) : a \o b \in Seq(Packet) /\ (a \o b) \o <<>> = a \o b
  BY ConcatProperties, ConcatEmptySeq
<1>5. /\ wire' \in [Node -> Seq(Packet)] /\ out' \in [Node -> Seq(Packet)]
      /\ pktIn' \in [Node -> Seq(Packet)] /\ net' \in [Node -> Seq(Packet)]
  BY <1>1, <1>2, <1>3, <1>4
<1>6. ASSUME NEW m \in Node PROVE Waiting(m)' = Waiting(m) /\ Coming(m)' = Coming(m)
  <2>1. CASE m = n
    <3>1. Waiting(n)' = (wire[n] \o out[n]) \o <<>>
      BY <1>1, <1>2, <1>3 DEF Waiting
    <3>2. Coming(n)' = (pktIn[n] \o net[n]) \o <<>>
      BY <1>1, <1>2 DEF Coming
    <3> QED
      BY <1>2, <1>4, <2>1, <3>1, <3>2 DEF Waiting, Coming
  <2>2. CASE m # n
    BY <1>1, <1>2, <2>2 DEF Waiting, Coming
  <2> QED
    BY <2>1, <2>2
<1>7. ASSUME NEW m \in Node PROVE SendInv(m)' /\ HearInv(m)' /\ CountInv(m)'
  <2>1. SendInv(m)'
    <3>1. /\ Waiting(m)' = Waiting(m) /\ owed'[m] = owed[m] /\ nodes'[m] = nodes[m]
          /\ SendInv(m)
      BY <1>1, <1>2, <1>6
    <3>2. Ahead(m)' = Ahead(m)
      BY <3>1 DEF Ahead
    <3> QED
      BY <3>1, <3>2, Zenon DEF SendInv
  <2>2. Active(m)' <=> Active(m)
    BY <1>1 DEF Active
  <2> QED
    BY <1>1, <1>2, <1>6, <2>1, <2>2, SameHear, SameFound
<1>8. UNCHANGED Lossy!vars
  BY <1>1 DEF Lossy!vars, Lossy!mkaVars
<1>9. /\ skStatus' \in [Node -> SKNXStatus] /\ counter' \in [Node -> Counter]
      /\ accepted' \subseteq joined' /\ joined' \subseteq Node
      /\ log' \in Seq(MKAPacket) /\ owed' \in [Node -> Seq(MKAPacket)]
      /\ pos' \in [Node -> 0 .. Len(log')] /\ places' \in [Node -> Seq(Nat)]
      /\ log' # <<>> => accepted' = Node
  BY <1>1 DEF GroupInv
<1> QED
  BY <1>5, <1>7, <1>8, <1>9 DEF GroupInv

(***************************************************************************)
(* The steps of the exchange.                                              *)
(***************************************************************************)
LEMMA LossyKeeps == Lossy!IInv /\ [Lossy!Next]_(Lossy!vars) => Lossy!IInv'
  BY LossyAssumptions, Lossy!NextIInv

LEMMA WritesKeeps ==
    ASSUME GroupInv, NEW n \in Node, Writes(n), owed' \in [Node -> Seq(Packet)],
           wire' = wire, \A m \in Node \ {n} : nodes'[m] = nodes[m],
           nodes'[n] = {} => nodes[n] = {} /\ out' = out /\ owed' = owed
    PROVE  /\ out' \in [Node -> Seq(Packet)] /\ owed' \in [Node -> Seq(MKAPacket)]
           /\ \A m \in Node : SendInv(m)'
<1>1. /\ out \in [Node -> Seq(Packet)] /\ owed \in [Node -> Seq(MKAPacket)]
      /\ \A m \in Node : SendInv(m)
  BY DEF GroupInv
<1>2. CASE out' = out /\ owed' = owed
  <2>1. ASSUME NEW m \in Node PROVE SendInv(m)'
    <3>1. nodes'[m] = {} => nodes[m] = {}
      OBVIOUS
    <3>2. Waiting(m)' = Waiting(m) /\ owed'[m] = owed[m] /\ SendInv(m)
      BY <1>1, <1>2 DEF Waiting
    <3>3. Ahead(m)' = Ahead(m)
      BY <3>2 DEF Ahead
    <3> QED
      BY <3>1, <3>2, <3>3, Zenon DEF SendInv
  <2> QED
    BY <1>1, <1>2, <2>1
<1>3. ASSUME NEW p, p.cmd = "MKA", Write(n, p), owed' = [owed EXCEPT ![n] = Append(@, p)]
      PROVE  /\ out' \in [Node -> Seq(Packet)] /\ owed' \in [Node -> Seq(MKAPacket)]
             /\ \A m \in Node : SendInv(m)'
  <2>1. /\ out' = [out EXCEPT ![n] = Append(@, p)]
        /\ owed'[n] = Append(owed[n], p) /\ out'[n] = Append(out[n], p)
    BY <1>1, <1>3 DEF Write
  <2>2. p \in Packet
    <3> DEFINE S == MKAPacket \union {p}
    <3>1. owed[n] \in Seq(S) /\ p \in S
      BY <1>1
    <3> HIDE DEF S
    <3>2. /\ Len(owed[n]) \in Nat /\ Len(Append(owed[n], p)) = Len(owed[n]) + 1
          /\ Append(owed[n], p)[Len(owed[n]) + 1] = p
      BY <3>1, Added
    <3>3. owed'[n] \in Seq(Packet)
      OBVIOUS
    <3>4. Len(owed[n]) + 1 \in 1 .. Len(owed'[n])
      BY <2>1, <3>2
    <3> QED
      BY <2>1, <3>2, <3>3, <3>4, ElementOfSeq
  <2>3. p \in MKAPacket
    BY <1>3, <2>2 DEF Packet, OtherPacket
  <2>4. \A q \in Seq(Packet) : Append(q, p) \in Seq(Packet)
    BY <2>2, AppendProperties
  <2>5. \A q \in Seq(MKAPacket) : Append(q, p) \in Seq(MKAPacket)
    BY <2>3, AppendProperties
  <2>6. out' # out
    <3>1. Len(out[n]) \in Nat /\ Len(Append(out[n], p)) = Len(out[n]) + 1
      BY <1>1, <2>2, Added
    <3> QED
      BY <2>1, <3>1
  <2>7. ASSUME NEW m \in Node PROVE SendInv(m)'
    <3>1. CASE m = n
      BY <2>1, <2>3, <2>6, <3>1, HandshakeWritten
    <3>2. CASE m # n
      BY <1>1, <1>3, <2>1, <3>2, SameSend
    <3> QED
      BY <3>1, <3>2
  <2> QED
    BY <1>1, <1>3, <2>1, <2>4, <2>5, <2>7
<1> QED
  BY <1>2, <1>3 DEF Writes

LEMMA StartKeyStep ==
    ASSUME GroupInv, Lossy!IInv, NEW n \in Node, StartKey(n)
    PROVE  GroupInv' /\ [Lossy!Next]_(Lossy!vars)
<1>1. /\ skStatus[n] = "COUNTING" /\ counter[n].status = "COMPLETED"
      /\ counter' = [counter EXCEPT ![n].status = "OFFLINE"]
      /\ \/ /\ InitKey(n, counter[n].nodes)
            /\ skStatus' = [skStatus EXCEPT ![n] = "HANDSHAKING"]
         \/ /\ InitKeyFails(n, counter[n].nodes)
            /\ skStatus' = [skStatus EXCEPT ![n] = "OFFLINE"]
      /\ Owes(n)
      /\ UNCHANGED <<pktIn, wire, net, joined, accepted, log, pos, places>>
  BY DEF StartKey, netVars
<1>2. /\ skStatus \in [Node -> SKNXStatus] /\ counter \in [Node -> Counter]
      /\ out \in [Node -> Seq(Packet)] /\ accepted \subseteq joined
      /\ \A m \in Node : SendInv(m) /\ HearInv(m) /\ CountInv(m)
  BY DEF GroupInv
<1>3. nodes[n] = {} /\ counter[n].nodes = Node /\ accepted = Node
  <2>1. nodes[n] = {} /\ counter[n].nodes = Node
    BY <1>1, <1>2 DEF CountInv
  <2>2. n \in accepted
    BY <1>2, <2>1, NotAlone DEF CountInv
  <2>3. Node \subseteq accepted
    BY <1>2, <2>1, <2>2 DEF CountInv
  <2>4. accepted \subseteq Node
    BY DEF GroupInv
  <2> QED
    BY <2>1, <2>3, <2>4
<1>4. InitKey(n, Node) \/ InitKeyFails(n, Node)
  BY <1>1, <1>3
<1>5. Lossy!Start(n) /\ Writes(n) /\ \A m \in Node \ {n} : nodes'[m] = nodes[m]
  BY <1>1, <1>2, <1>3, <1>4, InitMaps
<1>6. Lossy!Next
  BY <1>5 DEF Lossy!Next
<1>7. owed' \in [Node -> Seq(Packet)]
  <2>1. Lossy!IInv'
    BY <1>6, LossyKeeps
  <2> QED
    BY <2>1, OwedPacketsNext
<1>8. nodes'[n] # {}
  <2>1. nodes \in [Node -> SUBSET Node]
    BY DEF Lossy!IInv, Lossy!TypeInv
  <2>2. nodes' = [nodes EXCEPT ![n] = Node]
    BY <1>4 DEF InitKey, InitKeyFails
  <2> QED
    BY <2>1, <2>2
<1>9. /\ out' \in [Node -> Seq(Packet)] /\ owed' \in [Node -> Seq(MKAPacket)]
      /\ \A m \in Node : SendInv(m)'
  BY <1>1, <1>5, <1>7, <1>8, WritesKeeps
<1>10. /\ skStatus' \in [Node -> SKNXStatus] /\ skStatus'[n] \in {"HANDSHAKING", "OFFLINE"}
       /\ \A m \in Node \ {n} : skStatus'[m] = skStatus[m] /\ counter'[m] = counter[m]
       /\ counter' \in [Node -> Counter]
       /\ counter'[n].nodes = Node
  <2>1. /\ skStatus' \in [Node -> SKNXStatus] /\ skStatus'[n] \in {"HANDSHAKING", "OFFLINE"}
        /\ \A m \in Node \ {n} : skStatus'[m] = skStatus[m]
    BY <1>1, <1>2 DEF SKNXStatus
  <2>2. counter' = [counter EXCEPT ![n] = [counter[n] EXCEPT !.status = "OFFLINE"]]
    BY <1>1
  <2>3. [counter[n] EXCEPT !.status = "OFFLINE"] \in Counter
    <3>1. counter[n] \in Counter
      BY <1>2
    <3>2. \A c \in Counter : [c EXCEPT !.status = "OFFLINE"] \in Counter
      BY DEF Counter
    <3> QED
      BY <3>1, <3>2, Zenon
  <2>4. [counter[n] EXCEPT !.status = "OFFLINE"].nodes = Node
    BY <1>2, <1>3 DEF Counter
  <2> QED
    BY <1>2, <2>1, <2>2, <2>3, <2>4
<1>11. ASSUME NEW m \in Node PROVE HearInv(m)' /\ CountInv(m)'
  <2>1. Coming(m)' = Coming(m)
    BY <1>1 DEF Coming
  <2>2. Active(m)' => Active(m)
    BY <1>1, <1>10 DEF Active
  <2>3. CountInv(m)'
    <3>1. CASE m = n
      BY <1>1, <1>2, <1>3, <1>10, <3>1 DEF CountInv
    <3>2. CASE m # n
      BY <1>1, <1>2, <1>5, <1>10, <3>2, SameFound
    <3> QED
      BY <3>1, <3>2
  <2> QED
    BY <1>1, <1>2, <2>1, <2>2, <2>3, SameHear
<1> QED
  BY <1>1, <1>6, <1>9, <1>10, <1>11 DEF GroupInv

LEMMA HandshakeTurnStep ==
    ASSUME GroupInv, Lossy!IInv, NEW n \in Node, HandshakeTurn(n)
    PROVE  GroupInv' /\ [Lossy!Next]_(Lossy!vars)
<1> DEFINE p == Head(pktIn[n])
           q == places[n]
<1>1. /\ skStatus[n] = "HANDSHAKING" /\ pktIn[n] # <<>>
      /\ CryptoUpdate(n, p) \/ Discard(n, p)
      /\ Take(n, 1) /\ Owes(n)
      /\ UNCHANGED <<skStatus, counter, wire, net, joined, accepted, log>>
  BY DEF HandshakeTurn, netVars, Take
<1>2. /\ pktIn[n] \in Seq(Packet) /\ out \in [Node -> Seq(Packet)]
      /\ accepted \subseteq joined
      /\ \A m \in Node : HearInv(m) /\ CountInv(m)
  BY DEF GroupInv
<1>3. 1 \in 0 .. Len(pktIn[n]) /\ p = pktIn[n][1] /\ Len(pktIn[n]) \in Nat
  BY <1>1, <1>2, FirstRest
<1>4. /\ Len(pktIn[n]) <= Len(Coming(n)) /\ p = Coming(n)[1]
      /\ Coming(n) \in Seq(Packet) /\ q \in Seq(Nat)
  BY <1>1, <1>3, TakenQueues
<1>5. 1 \in 1 .. Len(Coming(n)) /\ Len(q) = Len(Coming(n)) /\ Len(q) \in Nat
  BY <1>2, <1>3, <1>4, LenProperties DEF HearInv
<1>6. n \in accepted /\ Active(n) /\ p.src # n
  <2>1. Coming(n) # <<>>
    BY <1>5
  <2> QED
    BY <1>1, <1>2, <1>4, <1>5, <2>1 DEF HearInv, Active
<1>7. InPlace(n)
  BY <1>2, <1>6 DEF HearInv
<1>8. /\ Writes(n) /\ UNCHANGED nodes
      /\ Lossy!CryptoUpdate(n, p) \/ Lossy!Discard(n, p)
      /\ p.cmd # "MKA" => UNCHANGED <<mkaVars, owed>>
      /\ nodes'[n] = {} => UNCHANGED <<mkaVars, owed>>
  <2>1. CASE CryptoUpdate(n, p)
    <3>1. Lossy!CryptoUpdate(n, p) /\ Writes(n) /\ UNCHANGED nodes
      BY <1>1, <1>2, <2>1, UpdateMaps
    <3>2. p.cmd = "MKA" /\ nodes[n] # {}
      BY <2>1 DEF CryptoUpdate, Ignored
    <3> QED
      BY <3>1, <3>2
  <2>2. CASE Discard(n, p)
    <3>1. Lossy!Discard(n, p) /\ Writes(n) /\ UNCHANGED <<mkaVars, owed>>
      BY <1>1, <2>2, DiscardMaps
    <3> QED
      BY <3>1 DEF mkaVars
  <2> QED
    BY <1>1, <2>1, <2>2
<1> HIDE DEF p, q
<1>9. /\ pos' = [pos EXCEPT ![n] = pos'[n]] /\ q[1] <= pos'[n]
      /\ \/ pos'[n] = pos[n]
         \/ /\ q[1] = pos'[n] /\ p.cmd = "MKA"
            /\ pos'[n] \in pos[n] + 1 .. Len(log) /\ log[pos'[n]] = p
  <2>1. /\ pos' = [pos EXCEPT ![n] = pos'[n]]
        /\ \A i \in 1 .. 1 : q[i] <= pos'[n]
        /\ \/ pos'[n] = pos[n]
           \/ \E i \in 1 .. 1 : /\ q[i] = pos'[n] /\ pktIn[n][i].cmd = "MKA"
                                /\ pos'[n] \in pos[n] + 1 .. Len(log)
                                /\ log[pos'[n]] = pktIn[n][i]
    BY <1>1, <1>3, <1>6, TakenPosition DEF q
  <2>2. \A i \in 1 .. 1 : i = 1
    OBVIOUS
  <2>3. 1 \in 1 .. 1
    OBVIOUS
  <2> QED
    BY <1>3, <2>1, <2>2, <2>3
<1>10. /\ pos \in [Node -> 0 .. Len(log)] /\ Len(log) \in Nat /\ log \in Seq(MKAPacket)
  BY LenProperties DEF GroupInv
<1>11. [Lossy!Next]_(Lossy!vars)
  <2>1. CASE p.cmd = "MKA"
    <3> DEFINE i == q[1]
    <3>1. i \in pos[n] + 1 .. Len(log) /\ log[i] = p
      BY <1>4, <1>5, <1>7, <2>1 DEF InPlace, q
    <3>2. pos' = [pos EXCEPT ![n] = i]
      BY <1>9, <1>10, <3>1
    <3>3. \A k \in pos[n] + 1 .. i - 1 : log[k].src = n
      <4>1. SUFFICES ASSUME NEW k \in pos[n] + 1 .. i - 1, log[k].src # n
                     PROVE  FALSE
        OBVIOUS
      <4>2. k \in pos[n] + 1 .. Len(log) /\ k < i /\ k # 0
        BY <1>10, <3>1
      <4>3. PICK j \in 1 .. Len(q) : q[j] = k
        BY <1>7, <4>1, <4>2 DEF InPlace, q
      <4>4. j # 1
        BY <3>1, <4>2, <4>3
      <4>5. 1 \in 1 .. Len(q) /\ 1 < j
        BY <1>5, <4>3, <4>4
      <4>6. q[1] < q[j]
        BY <1>7, <4>2, <4>3, <4>5 DEF InPlace, q
      <4> QED
        BY <1>10, <3>1, <4>2, <4>3, <4>6
    <3>4. Lossy!Reads(n, i)
      BY <1>1, <1>6, <3>1, <3>2, <3>3 DEF Lossy!Reads
    <3>5. i \in DOMAIN log
      BY <1>10, <3>1
    <3> HIDE DEF i
    <3>6. Lossy!Receive(n)
      BY <1>8, <3>1, <3>4, <3>5 DEF Lossy!Receive
    <3> QED
      BY <3>6 DEF Lossy!Next
  <2>2. CASE p.cmd # "MKA"
    <3>1. pos' = pos
      BY <1>9, <1>10, <2>2
    <3> QED
      BY <1>1, <1>8, <2>2, <3>1 DEF mkaVars, Lossy!vars, Lossy!mkaVars
  <2> QED
    BY <2>1, <2>2
<1>12. owed' \in [Node -> Seq(Packet)]
  <2>1. Lossy!IInv'
    BY <1>11, LossyKeeps
  <2> QED
    BY <2>1, OwedPacketsNext
<1>13. /\ out' \in [Node -> Seq(Packet)] /\ owed' \in [Node -> Seq(MKAPacket)]
       /\ \A m \in Node : SendInv(m)'
  <2>1. nodes'[n] = {} => nodes[n] = {} /\ out' = out /\ owed' = owed
    BY <1>8 DEF mkaVars
  <2> QED
    BY <1>1, <1>8, <1>12, <2>1, WritesKeeps
<1>14. \A m \in Node : Active(m)' => Active(m)
  BY <1>1 DEF Active
<1>15. /\ \A m \in Node : HearInv(m)'
       /\ pktIn' \in [Node -> Seq(Packet)] /\ places' \in [Node -> Seq(Nat)]
       /\ pos' \in [Node -> 0 .. Len(log')]
  BY <1>1, <1>3, <1>6, <1>14, TakeKeeps
<1>16. \A m \in Node : CountInv(m)'
  BY <1>1, <1>2, <1>8, SameFound
<1>17. /\ skStatus' \in [Node -> SKNXStatus] /\ counter' \in [Node -> Counter]
       /\ accepted' \subseteq joined' /\ joined' \subseteq Node
       /\ wire' \in [Node -> Seq(Packet)] /\ net' \in [Node -> Seq(Packet)]
       /\ log' \in Seq(MKAPacket) /\ (log' # <<>> => accepted' = Node)
  BY <1>1 DEF GroupInv
<1> QED
  BY <1>11, <1>13, <1>15, <1>16, <1>17 DEF GroupInv

(***************************************************************************)
(* The counter.                                                            *)
(***************************************************************************)
LEMMA ReadByCounterType ==
    ASSUME NEW n \in Node, Len(pktIn[n]) \in Nat
    PROVE  ReadByCounter(n) \in 0 .. Len(pktIn[n])
<1> DEFINE Stops(k) == Complete(FoundIn(n, k)) \/ k = Len(pktIn[n])
           T == {k \in 0 .. Len(pktIn[n]) : Stops(k)}
<1>1. T \in SUBSET Nat /\ T # {}
  <2>1. Len(pktIn[n]) \in T
    OBVIOUS
  <2> QED
    BY <2>1
<1>2. PICK k \in T : \A j \in T : k <= j
  BY <1>1, Least
<1>3. k \in 0 .. Len(pktIn[n]) /\ Stops(k)
  OBVIOUS
<1>4. \A j \in 0 .. k - 1 : ~ Complete(FoundIn(n, j))
  <2>1. SUFFICES ASSUME NEW j \in 0 .. k - 1, Complete(FoundIn(n, j))
                 PROVE  FALSE
    OBVIOUS
  <2>2. j \in 0 .. Len(pktIn[n]) /\ j < k
    BY <1>3
  <2>3. j \in T
    BY <2>1, <2>2
  <2> QED
    BY <1>2, <1>3, <2>2, <2>3
<1>5. \E l \in 0 .. Len(pktIn[n]) :
         /\ Complete(FoundIn(n, l)) \/ l = Len(pktIn[n])
         /\ \A j \in 0 .. l - 1 : ~ Complete(FoundIn(n, j))
  BY <1>3, <1>4
<1> QED
  BY <1>5 DEF ReadByCounter

\* The counter after an update in which it knows `found'.
LEMMA CountedDown ==
    ASSUME NEW c \in Counter, c.status = "COUNTING", NEW found \in SUBSET Node,
           c.nodes = found, c.loops > 0 => found = Node
    PROVE  /\ CountDown(c, found) \in Counter
           /\ CountDown(c, found).nodes = found
           /\ CountDown(c, found).status = "COMPLETED" \/ CountDown(c, found).loops > 0
                => found = Node
<1> DEFINE d == CountDown(c, found)
<1>1. /\ c.loops \in 0 .. GraceLoops /\ GraceLoops \in Nat \ {0}
      /\ c = [status |-> c.status, nodes |-> found, cnt |-> c.cnt, loops |-> c.loops]
      /\ c.cnt \in 0 .. AnnouncePeriod - 1
  BY CounterAssumption DEF Counter
<1>2. CASE c.loops = 1
  <2>1. d \in Counter /\ d.nodes = c.nodes /\ d.loops = 0
    <3>1. d = [c EXCEPT !.loops = 0, !.status = "COMPLETED"]
      BY <1>2 DEF CountDown
    <3>2. \A x, y : /\ [c EXCEPT !.loops = x, !.status = y].nodes = c.nodes
                    /\ [c EXCEPT !.loops = x, !.status = y].loops = x
                    /\ [c EXCEPT !.loops = x, !.status = y].status = y
                    /\ [c EXCEPT !.loops = x, !.status = y].cnt = c.cnt
                    /\ [c EXCEPT !.loops = x, !.status = y]
                         = [f \in {"status", "nodes", "cnt", "loops"} |->
                              [c EXCEPT !.loops = x, !.status = y][f]]
      BY <1>1 DEF Counter
    <3>3. 0 \in 0 .. GraceLoops
      BY <1>1
    <3> QED
      BY <1>1, <3>1, <3>2, <3>3 DEF Counter
  <2> QED
    BY <1>1, <1>2, <2>1
<1>3. CASE c.loops > 1
  <2>1. d = [status |-> c.status, nodes |-> found, cnt |-> c.cnt, loops |-> c.loops - 1]
    BY <1>1, <1>3 DEF CountDown
  <2>2. c.loops - 1 \in 0 .. GraceLoops
    BY <1>1, <1>3
  <2> QED
    BY <1>1, <1>3, <2>1, <2>2 DEF Counter
<1>4. CASE c.loops = 0
  <2>1. d = IF Complete(found) THEN [c EXCEPT !.loops = GraceLoops] ELSE c
    BY <1>4 DEF CountDown
  <2>2. CASE Complete(found)
    <3>1. d = [status |-> c.status, nodes |-> found, cnt |-> c.cnt, loops |-> GraceLoops]
      BY <1>1, <2>1, <2>2
    <3>2. found = Node
      BY <2>2, FoundAll
    <3> QED
      BY <1>1, <3>1, <3>2 DEF Counter
  <2>3. CASE ~ Complete(found)
    BY <1>4, <2>1, <2>3
  <2> QED
    BY <2>2, <2>3
<1> QED
  BY <1>1, <1>2, <1>3, <1>4

\* What the counter finds are nodes that the server has accepted.
LEMMA FoundAccepted ==
    ASSUME GroupInv, NEW n \in Node, NEW k \in 0 .. Len(pktIn[n])
    PROVE  /\ counter[n].nodes \subseteq FoundIn(n, k)
           /\ FoundIn(n, k) \subseteq Node
           /\ FoundIn(n, k) \subseteq accepted \union {n}
           /\ n \notin accepted => FoundIn(n, k) \subseteq {n}
<1>1. /\ pktIn[n] \in Seq(Packet) /\ net[n] \in Seq(Packet) /\ accepted \subseteq Node
      /\ HearInv(n) /\ CountInv(n)
  BY DEF GroupInv
<1>2. /\ Len(pktIn[n]) \in Nat /\ Len(net[n]) \in Nat
      /\ Len(Coming(n)) = Len(pktIn[n]) + Len(net[n])
      /\ \A i \in 1 .. Len(pktIn[n]) : Coming(n)[i] = pktIn[n][i]
  <2>1. \A a, b \in Seq(Packet) :
           /\ Len(a) \in Nat /\ Len(b) \in Nat /\ Len(a \o b) = Len(a) + Len(b)
           /\ \A i \in 1 .. Len(a) : (a \o b)[i] = a[i]
    BY Joined
  <2> QED
    BY <1>1, <2>1, Zenon DEF Coming
<1>3. Len(pktIn[n]) <= Len(Coming(n)) /\ Len(Coming(n)) \in Nat
  <2>1. /\ Len(pktIn[n]) \in Nat /\ Len(net[n]) \in Nat
        /\ Len(Coming(n)) = Len(pktIn[n]) + Len(net[n])
    BY <1>2
  <2>2. \A x, y \in Nat : \A z : z = x + y => x <= z /\ z \in Nat
    OBVIOUS
  <2> QED
    BY <2>1, <2>2, Zenon
<1>4. ASSUME NEW i \in 1 .. k PROVE n \in accepted /\ pktIn[n][i].src \in accepted
  <2>1. i \in 1 .. Len(pktIn[n]) /\ i \in 1 .. Len(Coming(n))
    <3>1. Len(pktIn[n]) \in Nat
      BY <1>2
    <3>2. i \in 1 .. Len(pktIn[n])
      BY <3>1
    <3> QED
      BY <1>3, <3>2
  <2>2. Coming(n) # <<>>
    BY <2>1
  <2> QED
    BY <1>1, <1>2, <2>1, <2>2 DEF HearInv
<1>5. /\ counter[n].nodes \subseteq accepted \union {n}
      /\ n \notin accepted => counter[n].nodes \subseteq {n}
  BY <1>1 DEF CountInv
<1> QED
  BY <1>1, <1>4, <1>5 DEF FoundIn

LEMMA CountStep ==
    ASSUME GroupInv, NEW n \in Node, Count(n)
    PROVE  GroupInv' /\ [Lossy!Next]_(Lossy!vars)
<1> DEFINE k == ReadByCounter(n)
           found == FoundIn(n, k)
           c == [counter[n] EXCEPT !.cnt = (@ + 1) % AnnouncePeriod, !.nodes = found]
           p == [cmd |-> "THATSME", src |-> n]
<1>1. /\ skStatus[n] = "COUNTING" /\ counter[n].status = "COUNTING"
      /\ Take(n, k) /\ counter' = [counter EXCEPT ![n] = CountDown(c, found)]
      /\ Write(n, p) \/ UNCHANGED out
      /\ UNCHANGED <<status, nodes, step, remote, deferred, ctx, key,
                     skStatus, wire, net, joined, accepted, owed, log>>
  BY DEF Count, netVars, Take
<1>2. /\ pktIn[n] \in Seq(Packet) /\ out \in [Node -> Seq(Packet)]
      /\ counter \in [Node -> Counter] /\ accepted \subseteq joined
      /\ \A m \in Node : SendInv(m) /\ HearInv(m) /\ CountInv(m)
  BY DEF GroupInv
<1>3. Len(pktIn[n]) \in Nat
  BY <1>2, LenProperties
<1>4. k \in 0 .. Len(pktIn[n])
  BY <1>3, ReadByCounterType
<1> HIDE DEF k
<1>5. nodes[n] = {} /\ Active(n)
  BY <1>1, <1>2 DEF CountInv, Active
<1>6. /\ counter[n].nodes \subseteq found /\ found \subseteq Node
      /\ found \subseteq accepted \union {n} /\ (n \notin accepted => found \subseteq {n})
  BY <1>4, FoundAccepted
<1> HIDE DEF found
<1>7. /\ c \in Counter /\ c.status = "COUNTING" /\ c.nodes = found
      /\ c.loops > 0 => found = Node
  <2>1. counter[n] \in Counter
    BY <1>2
  <2>2. (counter[n].cnt + 1) % AnnouncePeriod \in 0 .. AnnouncePeriod - 1
    BY <2>1, CounterAssumption DEF Counter
  <2>3. /\ c \in Counter /\ c.status = counter[n].status /\ c.nodes = found
        /\ c.loops = counter[n].loops
    BY <1>6, <2>1, <2>2 DEF Counter
  <2>4. counter[n].loops > 0 => found = Node
    BY <1>2, <1>6 DEF CountInv
  <2> QED
    BY <1>1, <2>3, <2>4
<1> HIDE DEF c
<1>8. /\ CountDown(c, found) \in Counter
      /\ CountDown(c, found).nodes = found
      /\ CountDown(c, found).status = "COMPLETED" \/ CountDown(c, found).loops > 0
           => found = Node
  BY <1>6, <1>7, CountedDown
<1>9. /\ counter' \in [Node -> Counter] /\ counter'[n] = CountDown(c, found)
      /\ \A m \in Node \ {n} : counter'[m] = counter[m]
  BY <1>1, <1>2, <1>8
<1>10. ASSUME NEW m \in Node PROVE CountInv(m)'
  <2>1. CASE m = n
    BY <1>1, <1>2, <1>5, <1>6, <1>8, <1>9, <2>1 DEF CountInv
  <2>2. CASE m # n
    BY <1>1, <1>2, <1>9, <2>2, SameFound
  <2> QED
    BY <2>1, <2>2
<1>11. /\ \A m \in Node : HearInv(m)'
       /\ pktIn' \in [Node -> Seq(Packet)] /\ places' \in [Node -> Seq(Nat)]
       /\ pos' \in [Node -> 0 .. Len(log')]
  <2>1. \A m \in Node : Active(m)' => Active(m)
    BY <1>1 DEF Active
  <2> QED
    BY <1>1, <1>4, <1>5, <2>1, TakeKeeps
<1>12. [Lossy!Next]_(Lossy!vars)
  <2>1. UNCHANGED Lossy!mkaVars
    BY <1>1 DEF Lossy!mkaVars
  <2>2. CASE pos'[n] = pos[n]
    <3>1. pos' = pos
      <4>1. pos' = [pos EXCEPT ![n] = pos'[n]]
        BY <1>1, <1>4, <1>5, TakenPosition
      <4>2. pos \in [Node -> 0 .. Len(log)]
        BY DEF GroupInv
      <4> QED
        BY <2>2, <4>1, <4>2
    <3> QED
      BY <1>1, <2>1, <3>1 DEF Lossy!vars
  <2>3. CASE pos'[n] # pos[n]
    <3>1. /\ pos' = [pos EXCEPT ![n] = pos'[n]]
          /\ pos'[n] \in pos[n] + 1 .. Len(log) /\ log[pos'[n]].src # n
      BY <1>1, <1>4, <1>5, <2>3, TakenPosition
    <3>2. Lossy!Miss(n)
      BY <1>1, <1>5, <2>1, <3>1 DEF Lossy!Miss, Lossy!Counting
    <3> QED
      BY <3>2 DEF Lossy!Next
  <2> QED
    BY <2>2, <2>3
<1>13. out' \in [Node -> Seq(Packet)] /\ \A m \in Node : SendInv(m)'
  <2>1. CASE Write(n, p)
    <3>1. out' = [out EXCEPT ![n] = Append(@, p)]
      BY <2>1 DEF Write
    <3>2. p \in Packet
      BY DEF Packet, OtherPacket
    <3> HIDE DEF p
    <3>3. \A q \in Seq(Packet) : Append(q, p) \in Seq(Packet)
      BY <3>2, AppendProperties
    <3>4. ASSUME NEW m \in Node PROVE SendInv(m)'
      <4>1. CASE m = n
        BY <1>1, <1>2, <1>5, <3>1, <4>1, AnnouncementWritten DEF p
      <4>2. CASE m # n
        BY <1>1, <1>2, <3>1, <4>2, SameSend
      <4> QED
        BY <4>1, <4>2
    <3> QED
      BY <1>2, <3>1, <3>3, <3>4
  <2>2. CASE UNCHANGED out
    BY <1>1, <1>2, <2>2, SameSend
  <2> QED
    BY <1>1, <2>1, <2>2
<1>14. /\ skStatus' \in [Node -> SKNXStatus]
       /\ accepted' \subseteq joined' /\ joined' \subseteq Node
       /\ wire' \in [Node -> Seq(Packet)] /\ net' \in [Node -> Seq(Packet)]
       /\ log' \in Seq(MKAPacket) /\ owed' \in [Node -> Seq(MKAPacket)]
       /\ (log' # <<>> => accepted' = Node)
  BY <1>1 DEF GroupInv
<1> QED
  BY <1>9, <1>10, <1>11, <1>12, <1>13, <1>14 DEF GroupInv

(***************************************************************************)
(* The whole group.                                                        *)
(***************************************************************************)
LEMMA InitGroup == Init => GroupInv /\ Lossy!Init
<1> SUFFICES ASSUME Init PROVE GroupInv /\ Lossy!Init
  OBVIOUS
<1>1. \A S : <<>> \in Seq(S) /\ Len(<<>>) = 0
  BY EmptySeq
<1>2. <<>> \o <<>> = <<>>
  BY <1>1, ConcatEmptySeq
<1>3. /\ skStatus \in [Node -> SKNXStatus] /\ accepted \subseteq joined /\ joined \subseteq Node
      /\ wire \in [Node -> Seq(Packet)] /\ out \in [Node -> Seq(Packet)]
      /\ pktIn \in [Node -> Seq(Packet)] /\ net \in [Node -> Seq(Packet)]
      /\ log \in Seq(MKAPacket) /\ owed \in [Node -> Seq(MKAPacket)]
      /\ pos \in [Node -> 0 .. Len(log)] /\ places \in [Node -> Seq(Nat)]
      /\ log = <<>>
  BY <1>1 DEF Init, MKAInit, SKNXStatus
<1>4. counter \in [Node -> Counter]
  BY CounterAssumption DEF Init, Counter
<1>5. ASSUME NEW n \in Node PROVE SendInv(n) /\ HearInv(n) /\ CountInv(n)
  <2>1. Waiting(n) = <<>> /\ owed[n] = <<>>
    BY <1>2 DEF Init, MKAInit, Waiting
  <2>2. Ahead(n) = 0
    BY <1>1, <2>1 DEF Ahead
  <2>3. Coming(n) = <<>> /\ places[n] = <<>>
    BY <1>2 DEF Init, Coming
  <2>4. SendInv(n)
    BY <1>1, <2>1, <2>2 DEF SendInv
  <2>5. HearInv(n)
    BY <1>1, <2>3 DEF HearInv, Init
  <2>6. CountInv(n)
    BY NotAlone DEF CountInv, Init, MKAInit
  <2> QED
    BY <2>4, <2>5, <2>6
<1>6. Lossy!Init
  BY DEF Init, MKAInit, Lossy!Init, Lossy!MKAInit, NoPoints, Lossy!NoPoints
<1> QED
  BY <1>3, <1>4, <1>5, <1>6 DEF GroupInv

LEMMA NextGroup ==
    GroupInv /\ Lossy!IInv /\ [Next]_vars => GroupInv' /\ [Lossy!Next]_(Lossy!vars)
<1> SUFFICES ASSUME GroupInv, Lossy!IInv, [Next]_vars
             PROVE  GroupInv' /\ [Lossy!Next]_(Lossy!vars)
  OBVIOUS
<1>1. CASE Tick \/ UNCHANGED vars
  <2>1. \E n : n \in Node
    BY NodeAssumption, FS_EmptySet
  <2> QED
    BY <1>1, <2>1, QuietSteps
<1>2. ASSUME NEW n \in Node, Join(n) PROVE GroupInv' /\ [Lossy!Next]_(Lossy!vars)
  BY <1>2, JoinStep
<1>3. ASSUME NEW n \in Node, Accept(n) PROVE GroupInv' /\ [Lossy!Next]_(Lossy!vars)
  BY <1>3, AcceptStep
<1>4. ASSUME NEW n \in Node, Relay(n) PROVE GroupInv' /\ [Lossy!Next]_(Lossy!vars)
  BY <1>4, RelayStep
<1>5. ASSUME NEW n \in Node, Update(n) PROVE GroupInv' /\ [Lossy!Next]_(Lossy!vars)
  <2>1. CASE Pump(n)
    BY <2>1, PumpStep
  <2>2. CASE Count(n)
    BY <2>2, CountStep
  <2>3. CASE StartKey(n)
    BY <2>3, StartKeyStep
  <2>4. CASE HandshakeTurn(n)
    BY <2>4, HandshakeTurnStep
  <2>5. CASE EndHandshake(n) \/ HandshakeFails(n) \/ Finish(n) \/ GoOnline(n)
    BY <2>5, QuietSteps
  <2> QED
    BY <1>5, <2>1, <2>2, <2>3, <2>4, <2>5 DEF Update
<1> QED
  BY <1>1, <1>2, <1>3, <1>4, <1>5 DEF Next

\* The inductive invariant of the group, at any speed of the clients and of
\* the server: nobody starts the exchange before the server has accepted
\* everyone, the packets of the handshake reach every node in the order of the
\* server, and each node's exchange is that of the lock-step run.
THEOREM GroupFollowsLockstep == Spec => [](GroupInv /\ Lossy!IInv)
<1>1. Init => GroupInv /\ Lossy!IInv
  <2>1. Lossy!Init => Lossy!IInv
    BY LossyAssumptions, Lossy!InitIInv
  <2> QED
    BY InitGroup, <2>1
<1>2. (GroupInv /\ Lossy!IInv) /\ [Next]_vars => (GroupInv /\ Lossy!IInv)'
  BY NextGroup, LossyKeeps
<1> QED
  BY <1>1, <1>2, PTL DEF Spec

\* Counters, handshakes and network together are a run of MKA in which a node
\* may miss packets while it counts: every other step of the clients and of
\* the server is invisible to the exchange.
THEOREM ImplementsLossyMKA == Spec => Lossy!Spec
<1>1. Init => Lossy!Init
  BY InitGroup
<1>2. (GroupInv /\ Lossy!IInv) /\ [Next]_vars => [Lossy!Next]_(Lossy!vars)
  BY NextGroup
<1> QED
  BY <1>1, <1>2, GroupFollowsLockstep, PTL DEF Spec, Lossy!Spec

\* The group is a contributory key agreement: a client completes with the
\* product of all secrets, and only after every client has published.
THEOREM GroupAgrees == Spec => Lossy!ImplementsGroupKey
<1>1. Lossy!Spec => Lossy!ImplementsGroupKey
  BY LossyAssumptions, Lossy!Refinement
<1> QED
  BY <1>1, ImplementsLossyMKA

(***************************************************************************)
(* The key a client leaves with.                                           *)
(***************************************************************************)

\* The bounds of the model.
Bounds ==
    /\ did \in [Node -> 0 .. MaxRate]
    /\ \A n \in Node : Len(wire[n]) <= MaxQueue /\ Len(net[n]) <= MaxQueue

LEMMA BoundsKept ==
    GroupInv /\ Lossy!IInv /\ Bounds /\ [Next]_vars => Bounds'
<1> SUFFICES ASSUME GroupInv, Lossy!IInv, Bounds, [Next]_vars PROVE Bounds'
  OBVIOUS
<1>1. /\ MaxRate \in Nat \ {0} /\ MaxQueue \in Nat \ {0} /\ Len(<<>>) = 0
      /\ wire \in [Node -> Seq(Packet)] /\ net \in [Node -> Seq(Packet)]
      /\ out \in [Node -> Seq(Packet)]
  BY CounterAssumption, EmptySeq DEF GroupInv
<1>2. CASE UNCHANGED <<wire, net, did>>
  BY <1>2 DEF Bounds
<1>3. CASE Tick
  BY <1>1, <1>3 DEF Tick, netVars, Bounds
<1>4. ASSUME NEW n \in Node, Relay(n) PROVE Bounds'
  <2> DEFINE p == Head(wire[n])
  <2>1. /\ wire[n] # <<>> /\ wire' = [wire EXCEPT ![n] = Tail(@)]
        /\ net' = Sent(n, net, p) /\ UNCHANGED did
        /\ \A m \in Readers(n) : Len(net[m]) < MaxQueue
    BY <1>4 DEF Relay
  <2>2. p \in Packet
    BY <1>1, <2>1, FirstRest
  <2> HIDE DEF p
  <2>3. \A q \in Seq(Packet) : /\ Len(q) \in Nat /\ Len(Append(q, p)) = Len(q) + 1
                               /\ q # <<>> => Len(Tail(q)) = Len(q) - 1
    BY <2>2, LenProperties, AppendProperties, HeadTailProperties
  <2>4. ASSUME NEW m \in Node PROVE Len(wire'[m]) <= MaxQueue
    <3>1. Len(wire[m]) <= MaxQueue /\ Len(wire[m]) \in Nat
      BY <1>1, <2>3 DEF Bounds
    <3>2. CASE m = n
      <4>1. Len(wire'[m]) = Len(wire[m]) - 1
        BY <1>1, <2>1, <2>3, <3>2
      <4> QED
        BY <1>1, <3>1, <4>1
    <3>3. CASE m # n
      BY <1>1, <2>1, <3>1, <3>3
    <3> QED
      BY <3>2, <3>3
  <2>5. ASSUME NEW m \in Node PROVE Len(net'[m]) <= MaxQueue
    <3>1. CASE m \in Readers(n)
      <4>1. Len(net'[m]) = Len(net[m]) + 1 /\ Len(net[m]) < MaxQueue /\ Len(net[m]) \in Nat
        BY <1>1, <2>1, <2>3, <3>1 DEF Sent
      <4> QED
        BY <1>1, <4>1
    <3>2. CASE m \notin Readers(n)
      BY <2>1, <3>2 DEF Sent, Bounds
    <3> QED
      BY <3>1, <3>2
  <2> QED
    BY <2>1, <2>4, <2>5 DEF Bounds
<1>5. ASSUME NEW n \in Node, Pump(n) PROVE Bounds'
  <2>1. /\ wire' = [wire EXCEPT ![n] = @ \o out[n]] /\ net' = [net EXCEPT ![n] = <<>>]
        /\ Len(wire[n]) + Len(out[n]) <= MaxQueue
        /\ did' = IF Timed THEN [did EXCEPT ![n] = @ + 1] ELSE did
        /\ Timed => did[n] < MaxRate
    BY <1>5 DEF Pump, ToSend, InTime
  <2>2. \A a, b \in Seq(Packet) : Len(a \o b) = Len(a) + Len(b)
    BY ConcatProperties
  <2>3. Len(wire[n] \o out[n]) <= MaxQueue
    <3>1. Len(wire[n] \o out[n]) = Len(wire[n]) + Len(out[n])
      BY <1>1, <2>2
    <3> QED
      BY <2>1, <3>1, Zenon
  <2>4. \A m \in Node : Len(wire'[m]) <= MaxQueue
    BY <1>1, <2>1, <2>3 DEF Bounds
  <2>5. \A m \in Node : Len(net'[m]) <= MaxQueue
    BY <1>1, <2>1 DEF Bounds
  <2>6. did' \in [Node -> 0 .. MaxRate]
    BY <1>1, <2>1 DEF Bounds
  <2> QED
    BY <2>4, <2>5, <2>6 DEF Bounds
<1>6. ASSUME NEW n \in Node,
             Join(n) \/ Accept(n) \/ Count(n) \/ StartKey(n) \/ HandshakeTurn(n)
               \/ EndHandshake(n) \/ HandshakeFails(n) \/ Finish(n) \/ GoOnline(n)
      PROVE  UNCHANGED <<wire, net, did>>
  BY <1>6 DEF Join, Accept, Count, StartKey, HandshakeTurn, EndHandshake, HandshakeFails,
              Finish, GoOnline, netVars
<1>7. CASE UNCHANGED vars
  BY <1>2, <1>7 DEF vars, netVars
<1> QED
  BY <1>2, <1>3, <1>4, <1>5, <1>6, <1>7 DEF Next, Update

LEMMA TypeFollows ==
    GroupInv /\ IInv /\ Bounds /\ Lossy!TypeOK => TypeOK
<1> SUFFICES ASSUME GroupInv, IInv, Bounds, Lossy!TypeOK PROVE TypeOK
  OBVIOUS
<1>1. MKATypeOK
  <2>1. Lossy!MKATypeOK
    BY DEF Lossy!TypeOK
  <2>2. out \in [Node -> Seq(Packet)]
    BY DEF GroupInv
  <2>3. Lossy!MKAPacket = MKAPacket /\ Lossy!Status = Status
    BY SameMath DEF Lossy!MKAPacket, MKAPacket, Lossy!Status, Status
  <2>4. Lossy!Cardinality(Node) = Cardinality(Node)
    BY SameCount
  <2>5. Lossy!Point = Point /\ Lossy!Context = Context
    BY SameMath
  <2>6. /\ status \in [Node -> Status] /\ nodes \in [Node -> SUBSET Node]
        /\ step \in [Node -> 0 .. Cardinality(Node) - 1]
        /\ DOMAIN remote = Node
        /\ \A n \in Node : /\ DOMAIN remote[n] \subseteq Node \ {n}
                           /\ \A j \in DOMAIN remote[n] : remote[n][j] \in Point
        /\ deferred \in [Node -> Seq(MKAPacket)]
        /\ ctx \in [Node -> Context \union {NoCtx}]
        /\ key \in [Node -> Point \union {NoKey}]
    BY <2>1, <2>3, <2>4, <2>5, Zenon DEF Lossy!MKATypeOK
  <2> QED
    BY <2>2, <2>6 DEF MKATypeOK
<1> QED
  BY <1>1 DEF TypeOK, GroupInv, IInv, Bounds

LEMMA OnlineKey ==
    IInv /\ Lossy!IInv => \A n \in Node : skStatus[n] = "ONLINE" => key[n] = GroupSecret
<1> SUFFICES ASSUME IInv, Lossy!IInv, NEW n \in Node, skStatus[n] = "ONLINE"
             PROVE  key[n] = GroupSecret
  OBVIOUS
<1>1. status[n] = "COMPLETED"
  BY DEF IInv, Flushed
<1>2. key[n] = Lossy!ComputeKey(n, Lockstep[Lossy!Last][n])
  BY <1>1 DEF Lossy!IInv, Lossy!NodeInv
<1>3. Lossy!ComputeKey(n, Lockstep[Lossy!Last][n]) = Lossy!GroupSecret
  BY LossyAssumptions DEF Lossy!LockstepAgreement
<1> QED
  BY <1>2, <1>3, SameSecret

\* Every client that leaves ClientSmoke::init online holds the key of the whole
\* group, at any speed of the clients and of the server and whichever calls of
\* the crypto library fail.
THEOREM EveryoneHoldsTheKey == Spec => []OnlineAgreement
<1>1. Init => Bounds
  <2>1. MaxRate \in Nat \ {0} /\ MaxQueue \in Nat \ {0} /\ Len(<<>>) = 0
    BY CounterAssumption, EmptySeq
  <2> QED
    BY <2>1 DEF Init, Bounds
<1>2. Spec => []Bounds
  BY <1>1, BoundsKept, GroupFollowsLockstep, PTL DEF Spec
<1>3. Lossy!Spec => []Lossy!TypeOK
  BY LossyAssumptions, Lossy!TypeCorrect
<1>4. GroupInv /\ IInv /\ Bounds /\ Lossy!TypeOK /\ Lossy!IInv => OnlineAgreement
  BY TypeFollows, OnlineKey DEF OnlineAgreement
<1> QED
  BY <1>2, <1>3, <1>4, ImplementsLossyMKA, GroupFollowsLockstep, ClientsAlwaysIInv, PTL
=============================================================================
