---------------------------- MODULE ServerProofs ----------------------------
(***************************************************************************)
(* Proofs about Server for every number of clients, every way recv() cuts  *)
(* what arrives and every moment at which a client connects or hangs up.   *)
(***************************************************************************)
EXTENDS Server, TLAPS, SequenceTheorems

(***************************************************************************)
(* Facts about sequences.                                                  *)
(***************************************************************************)
LEMMA SubSeqOfLonger ==
    ASSUME NEW S, NEW s \in Seq(S), NEW t \in Seq(S),
           NEW a \in Nat, NEW b \in Nat, b <= Len(s)
    PROVE  SubSeq(s \o t, a + 1, b) = SubSeq(s, a + 1, b)
<1>1. CASE b < a + 1
  BY <1>1, SubSeqEmpty
<1>2. CASE b >= a + 1
  BY <1>2, SubSeqOfConcat1
<1> QED
  BY <1>1, <1>2

LEMMA SubSeqOfLast ==
    ASSUME NEW S, NEW s \in Seq(S), NEW t \in Seq(S)
    PROVE  SubSeq(s \o t, Len(s) + 1, Len(s) + Len(t)) = t
  BY ConcatProperties, SubSeqProperties, SeqEqual

\* Two neighbouring pieces of a sequence make one.
LEMMA TwoPieces ==
    ASSUME NEW S, NEW s \in Seq(S),
           NEW a \in Nat, NEW b \in Nat, NEW c \in Nat, a <= b, b <= c, c <= Len(s)
    PROVE  SubSeq(s, a + 1, b) \o SubSeq(s, b + 1, c) = SubSeq(s, a + 1, c)
  BY ConcatAdjacentSubSeq

\* The cuts when the sequence they cut grows by one piece.
LEMMA OneCutMore ==
    ASSUME NEW n \in Nat, NEW old \in Nat, NEW new \in Nat, old <= new,
           NEW cuts \in [1 .. n -> 0 .. old]
    PROVE  \E more \in [1 .. n + 1 -> 0 .. new] :
              (\A i \in 1 .. n : more[i] = cuts[i]) /\ more[n + 1] = new
<1> DEFINE more == [i \in 1 .. n + 1 |-> IF i \in 1 .. n THEN cuts[i] ELSE new]
<1>1. more \in [1 .. n + 1 -> 0 .. new]
  OBVIOUS
<1>2. \A i \in 1 .. n : i \in 1 .. n + 1 /\ more[i] = cuts[i]
  OBVIOUS
<1>3. n + 1 \in 1 .. n + 1 /\ n + 1 \notin 1 .. n
  OBVIOUS
<1>4. more[n + 1] = new
  BY <1>3
<1> QED
  BY <1>1, <1>2, <1>4

LEMMA PieceOf ==
    ASSUME NEW S, NEW s \in Seq(S),
           NEW a \in Nat, NEW b \in Nat, a <= b, b <= Len(s)
    PROVE  SubSeq(s, a + 1, b) \in Seq(S) /\ Len(SubSeq(s, a + 1, b)) = b - a
  BY SubSeqProperties

\* What is left of a sequence without repetitions when one item is taken out.
LEMMA OneRemoved ==
    ASSUME NEW S, NEW s \in Seq(S), IsInjective(s), NEW i \in 1 .. Len(s)
    PROVE  /\ RemoveAt(s, i) \in Seq(S)
           /\ Len(RemoveAt(s, i)) = Len(s) - 1
           /\ \A k \in 1 .. Len(s) - 1 :
                 RemoveAt(s, i)[k] = IF k < i THEN s[k] ELSE s[k + 1]
           /\ IsInjective(RemoveAt(s, i))
           /\ ToSet(RemoveAt(s, i)) = ToSet(s) \ {s[i]}
<1> DEFINE u == SubSeq(s, 1, i - 1)
           v == SubSeq(s, i + 1, Len(s))
           r == RemoveAt(s, i)
<1>0. Len(s) \in Nat /\ i \in Nat
  OBVIOUS
<1>1. /\ u \in Seq(S) /\ Len(u) = i - 1
      /\ v \in Seq(S) /\ Len(v) = Len(s) - i
      /\ \A k \in 1 .. i - 1 : u[k] = s[k]
      /\ \A k \in 1 .. Len(s) - i : v[k] = s[i + k]
  BY SubSeqProperties
<1>2. /\ r \in Seq(S) /\ Len(r) = Len(s) - 1
      /\ \A k \in 1 .. Len(s) - 1 : r[k] = IF k < i THEN s[k] ELSE s[k + 1]
  <2>1. r = u \o v
    BY DEF RemoveAt
  <2> HIDE DEF u, v, r
  <2>2. /\ r \in Seq(S) /\ Len(r) = Len(s) - 1
        /\ \A k \in 1 .. Len(s) - 1 : r[k] = IF k <= Len(u) THEN u[k] ELSE v[k - Len(u)]
    <3>1. /\ u \o v \in Seq(S) /\ Len(u \o v) = Len(u) + Len(v)
          /\ \A k \in 1 .. Len(u) + Len(v) :
                (u \o v)[k] = IF k <= Len(u) THEN u[k] ELSE v[k - Len(u)]
      BY <1>1, ConcatProperties
    <3>2. Len(u) + Len(v) = Len(s) - 1
      BY <1>0, <1>1
    <3> QED
      BY <2>1, <3>1, <3>2
  <2>3. ASSUME NEW k \in 1 .. Len(s) - 1 PROVE r[k] = IF k < i THEN s[k] ELSE s[k + 1]
    <3>1. CASE k < i
      BY <1>0, <1>1, <2>2, <3>1
    <3>2. CASE ~ (k < i)
      <4>1. r[k] = v[k - (i - 1)] /\ k - (i - 1) \in 1 .. Len(s) - i
        BY <1>0, <1>1, <2>2, <3>2
      <4>2. v[k - (i - 1)] = s[i + (k - (i - 1))] /\ i + (k - (i - 1)) = k + 1
        BY <1>0, <1>1, <4>1
      <4> QED
        BY <3>2, <4>1, <4>2
    <3> QED
      BY <3>1, <3>2
  <2> QED
    BY <2>2, <2>3
<1>9. DOMAIN r = 1 .. Len(s) - 1 /\ DOMAIN s = 1 .. Len(s)
  BY <1>2, LenProperties
<1> HIDE DEF u, v, r
<1>3. IsInjective(r)
  <2> SUFFICES ASSUME NEW k \in 1 .. Len(s) - 1, NEW l \in 1 .. Len(s) - 1, r[k] = r[l]
               PROVE  k = l
    BY <1>9 DEF IsInjective
  <2> DEFINE at1 == IF k < i THEN k ELSE k + 1
             at2 == IF l < i THEN l ELSE l + 1
  <2>1. at1 \in 1 .. Len(s) /\ at2 \in 1 .. Len(s) /\ s[at1] = s[at2]
    BY <1>0, <1>2
  <2>2. at1 = at2
    BY <1>9, <2>1 DEF IsInjective
  <2> QED
    BY <1>0, <2>2
<1>4. \A k \in 1 .. Len(s) - 1 : r[k] \in ToSet(s) \ {s[i]}
  BY <1>0, <1>2, <1>9 DEF IsInjective, ToSet
<1>5. ASSUME NEW k \in 1 .. Len(s), k # i PROVE s[k] \in ToSet(r)
  <2>1. CASE k < i
    BY <1>0, <1>2, <1>9, <2>1 DEF ToSet
  <2>2. CASE k > i
    <3>1. k - 1 \in DOMAIN r /\ r[k - 1] = s[k]
      BY <1>0, <1>2, <1>9, <2>2
    <3> QED
      BY <3>1 DEF ToSet
  <2> QED
    BY <1>5, <2>1, <2>2
<1>6. ToSet(r) = ToSet(s) \ {s[i]}
  BY <1>2, <1>4, <1>5, <1>9 DEF ToSet
<1> QED
  BY <1>2, <1>3, <1>6 DEF r

LEMMA OneAppended ==
    ASSUME NEW S, NEW s \in Seq(S), IsInjective(s), NEW x \in S, x \notin ToSet(s)
    PROVE  /\ Append(s, x) \in Seq(S) /\ Len(Append(s, x)) = Len(s) + 1
           /\ \A k \in 1 .. Len(s) : Append(s, x)[k] = s[k]
           /\ Append(s, x)[Len(s) + 1] = x
           /\ IsInjective(Append(s, x))
           /\ ToSet(Append(s, x)) = ToSet(s) \union {x}
  BY AppendProperties DEF IsInjective, ToSet

(***************************************************************************)
(* Steps that leave the account alone.                                     *)
(***************************************************************************)
accountVars == <<clients, mustDelete, pktQueue, got, stream, from>>

LEMMA SameAccount ==
    ASSUME TypeOK, Accounted, UNCHANGED accountVars,
           \A i \in 1 .. Len(clients) : clients[i] \notin mustDelete => (Passed(i)' <=> Passed(i))
    PROVE  Accounted'
<1>1. PICK cuts \in [1 .. Len(pktQueue) + 1 -> 0 .. Len(stream)] : Cuts(cuts) /\ Account(cuts)
  BY DEF Accounted
<1>2. Cuts(cuts)'
  BY <1>1 DEF Cuts, accountVars
<1>3. Account(cuts)'
  BY <1>1 DEF Account, accountVars, Reached
<1> QED
  BY <1>2, <1>3 DEF Accounted, accountVars

LEMMA SamePieces ==
    ASSUME Pieces, UNCHANGED <<conn, got, stream, from>>
    PROVE  Pieces'
  BY DEF Pieces, Reached

\* Steps of the clients and the kernel that run() does not see yet.
LEMMA OutsideKeeps ==
    ASSUME IInv, UNCHANGED <<clients, mustDelete, pktQueue, phase, at, conn, got, stream, from>>
    PROVE  (Fresh /\ Settled /\ Pieces /\ Accounted)'
<1>1. Accounted'
  BY SameAccount DEF IInv, Passed, accountVars
<1> QED
  BY <1>1, SamePieces DEF IInv, Fresh, Settled

LEMMA StartServerKeeps == IInv /\ StartServer => IInv'
<1> SUFFICES ASSUME IInv, StartServer PROVE IInv'
  OBVIOUS
<1>1. TypeOK'
  BY DEF IInv, StartServer, TypeOK, runVars, netVars
<1> QED
  BY <1>1, OutsideKeeps DEF IInv, StartServer, runVars, netVars

LEMMA MessageType ==
    ASSUME NEW p \in Peer, NEW m \in 1 .. MaxMessages
    PROVE  Message(p, m) \in Seq(Unit)
  BY ServerAssumption DEF Message, Unit

LEMMA SendMessageKeeps ==
    ASSUME IInv, NEW p \in Peer, SendMessage(p)
    PROVE  IInv'
<1>1. messages[p] + 1 \in 1 .. MaxMessages
  BY ServerAssumption DEF IInv, TypeOK, SendMessage
<1>2. toServer[p] \o Message(p, messages[p] + 1) \in Seq(Unit)
  BY <1>1, MessageType, ConcatProperties DEF IInv, TypeOK
<1>3. TypeOK'
  BY <1>1, <1>2 DEF IInv, TypeOK, SendMessage, runVars
<1> QED
  BY <1>3, OutsideKeeps DEF IInv, SendMessage, runVars

LEMMA ReadKeeps ==
    ASSUME IInv, NEW p \in Peer, Read(p)
    PROVE  IInv'
<1>1. TypeOK'
  BY ServerAssumption DEF IInv, Read, TypeOK, runVars
<1> QED
  BY <1>1, OutsideKeeps DEF IInv, Read, runVars

LEMMA HangUpKeeps ==
    ASSUME IInv, NEW p \in Peer, HangUp(p)
    PROVE  IInv'
<1>1. TypeOK'
  BY DEF IInv, HangUp, TypeOK, runVars
<1> QED
  BY <1>1, OutsideKeeps DEF IInv, HangUp, runVars

LEMMA ConnectKeeps ==
    ASSUME IInv, NEW p \in Peer, Connect(p)
    PROVE  IInv'
<1>1. conn' = [conn EXCEPT ![p] = "backlog"] /\ conn[p] = "none"
  BY DEF Connect
<1>2. \A q \in Peer : conn'[q] = IF q = p THEN "backlog" ELSE conn[q]
  BY <1>1 DEF IInv, TypeOK
<1>3. TypeOK'
  BY <1>1, <1>2 DEF IInv, Connect, TypeOK, runVars
<1>4. Accounted'
  BY SameAccount DEF IInv, Passed, accountVars, Connect, runVars
<1>5. Fresh' /\ Pieces'
  BY <1>1, <1>2 DEF IInv, Fresh, Pieces, Reached, Connect
<1>6. Settled'
  BY DEF IInv, Settled, Connect, runVars
<1> QED
  BY <1>3, <1>4, <1>5, <1>6 DEF IInv

\* The steps of run() that only move on.
LEMMA SelectKeeps == IInv /\ Select => IInv'
<1> SUFFICES ASSUME IInv, Select PROVE IInv'
  OBVIOUS
<1>1. TypeOK'
  BY DEF IInv, Select, TypeOK, netVars, Phases, Readable, ToSet
<1>2. Accounted'
  BY SameAccount DEF IInv, Passed, accountVars, Select, netVars
<1> QED
  BY <1>1, <1>2, SamePieces DEF IInv, Select, netVars, Fresh, Settled

LEMMA AdvanceType ==
    ASSUME TypeOK, at <= Len(clients), Advance, UNCHANGED clients
    PROVE  at \in Nat /\ Len(clients) \in Nat /\ at' = at + 1 /\ at' \in 1 .. Len(clients') + 1
<1>1. Len(clients) \in Nat /\ at \in 1 .. Len(clients) + 1
  BY LenProperties DEF TypeOK
<1>2. at + 1 \in 1 .. Len(clients) + 1
  BY <1>1
<1> QED
  BY <1>1, <1>2 DEF Advance

LEMMA NoNewKeeps == IInv /\ NoNew => IInv'
<1> SUFFICES ASSUME IInv, NoNew PROVE IInv'
  OBVIOUS
<1>1. TypeOK'
  BY DEF IInv, NoNew, TypeOK, netVars, Phases
<1>2. Accounted'
  BY SameAccount DEF IInv, Passed, accountVars, NoNew, netVars
<1> QED
  BY <1>1, <1>2, SamePieces DEF IInv, NoNew, netVars, Fresh, Settled

LEMMA NotReadableKeeps == IInv /\ NotReadable => IInv'
<1> SUFFICES ASSUME IInv, NotReadable PROVE IInv'
  OBVIOUS
<1>0. at \in Nat /\ Len(clients) \in Nat /\ at' = at + 1 /\ at' \in 1 .. Len(clients') + 1
  BY AdvanceType DEF IInv, NotReadable
<1>1. TypeOK'
  BY <1>0 DEF IInv, NotReadable, TypeOK, netVars, Phases
<1>2. Accounted'
  BY SameAccount DEF IInv, Passed, accountVars, NotReadable, netVars
<1> QED
  BY <1>1, <1>2, SamePieces DEF IInv, NotReadable, netVars, Fresh, Settled

LEMMA EndRecvKeeps == IInv /\ EndRecv => IInv'
<1> SUFFICES ASSUME IInv, EndRecv PROVE IInv'
  OBVIOUS
<1>1. TypeOK'
  BY DEF IInv, EndRecv, TypeOK, netVars, Phases
<1>2. Accounted'
  BY SameAccount DEF IInv, Passed, accountVars, EndRecv, netVars
<1> QED
  BY <1>1, <1>2, SamePieces DEF IInv, EndRecv, netVars, Fresh, Settled

LEMMA SkipClientKeeps == IInv /\ SkipClient => IInv'
<1> SUFFICES ASSUME IInv, SkipClient PROVE IInv'
  OBVIOUS
<1>0. at \in Nat /\ Len(clients) \in Nat /\ at' = at + 1 /\ at' \in 1 .. Len(clients') + 1
  BY AdvanceType DEF IInv, SkipClient
<1>1. TypeOK'
  BY <1>0 DEF IInv, SkipClient, TypeOK, netVars, Phases
<1>2. ASSUME NEW i \in 1 .. Len(clients), clients[i] \notin mustDelete
      PROVE  (Passed(i)' <=> Passed(i))
  <2>1. i # at
    BY <1>2 DEF SkipClient, Skips, Current
  <2> QED
    BY <1>0, <2>1 DEF SkipClient, Passed
<1>3. Accounted'
  BY <1>2, SameAccount DEF IInv, accountVars, SkipClient, netVars
<1> QED
  BY <1>1, <1>3, SamePieces DEF IInv, SkipClient, netVars, Fresh, Settled

LEMMA EndSendKeeps == IInv /\ EndSend => IInv'
<1> SUFFICES ASSUME IInv, EndSend PROVE IInv'
  OBVIOUS
<1>1. TypeOK'
  BY DEF IInv, EndSend, TypeOK, netVars, Phases
<1>2. Accounted'
  BY SameAccount DEF IInv, Passed, accountVars, EndSend, netVars
<1> QED
  BY <1>1, <1>2, SamePieces DEF IInv, EndSend, netVars, Fresh, Settled

LEMMA KeepClientKeeps == IInv /\ KeepClient => IInv'
<1> SUFFICES ASSUME IInv, KeepClient PROVE IInv'
  OBVIOUS
<1>0. at \in Nat /\ Len(clients) \in Nat /\ at' = at + 1 /\ at' \in 1 .. Len(clients') + 1
  BY AdvanceType DEF IInv, KeepClient
<1>1. TypeOK'
  BY <1>0 DEF IInv, KeepClient, TypeOK, netVars, Phases
<1>2. Accounted'
  BY SameAccount DEF IInv, Passed, accountVars, KeepClient, netVars
<1>3. Settled'
  BY <1>0 DEF IInv, Settled, KeepClient, Current
<1> QED
  BY <1>1, <1>2, <1>3, SamePieces DEF IInv, KeepClient, netVars, Fresh

LEMMA EndRemoveKeeps == IInv /\ EndRemove => IInv'
<1> SUFFICES ASSUME IInv, EndRemove PROVE IInv'
  OBVIOUS
<1>1. TypeOK'
  BY DEF IInv, EndRemove, TypeOK, netVars, Phases
<1>2. mustDelete = {}
  BY DEF IInv, TypeOK, Settled, EndRemove, ToSet
<1>3. Accounted'
  BY SameAccount DEF IInv, Passed, accountVars, EndRemove, netVars
<1> QED
  BY <1>1, <1>2, <1>3, SamePieces DEF IInv, EndRemove, netVars, Fresh, Settled

(***************************************************************************)
(* Steps that change the clients, the queue or what was sent.              *)
(***************************************************************************)
LEMMA Registered ==
    ASSUME TypeOK
    PROVE  /\ Len(clients) \in Nat
           /\ \A i \in 1 .. Len(clients) :
                 clients[i] \in Peer /\ clients[i] \in ToSet(clients) /\ conn[clients[i]] = "open"
           /\ \A i, k \in 1 .. Len(clients) : clients[i] = clients[k] => i = k
           /\ \A p \in ToSet(clients) : \E i \in 1 .. Len(clients) : p = clients[i]
<1>1. Len(clients) \in Nat /\ DOMAIN clients = 1 .. Len(clients)
  BY LenProperties DEF TypeOK
<1>2. \A i \in 1 .. Len(clients) : clients[i] \in Peer
  BY ElementOfSeq DEF TypeOK
<1>3. \A i \in 1 .. Len(clients) : clients[i] \in ToSet(clients)
  BY <1>1 DEF ToSet
<1>4. \A i \in 1 .. Len(clients) : conn[clients[i]] = "open"
  BY <1>3 DEF TypeOK
<1>5. \A i, k \in 1 .. Len(clients) : clients[i] = clients[k] => i = k
  BY <1>1 DEF TypeOK, IsInjective
<1>6. \A p \in ToSet(clients) : \E i \in 1 .. Len(clients) : p = clients[i]
  BY <1>1 DEF ToSet
<1> QED
  BY <1>1, <1>2, <1>3, <1>4, <1>5, <1>6

LEMMA Lengths ==
    ASSUME TypeOK
    PROVE  /\ Len(pktQueue) \in Nat /\ Len(stream) \in Nat
           /\ \A p \in Peer : Len(got[p]) \in Nat /\ from[p] \in Nat /\ from[p] <= Len(stream)
           /\ \A p \in Peer : got[p] \in Seq(Unit)
           /\ pktQueue \in Seq(Seq(Unit)) /\ stream \in Seq(Unit)
  BY LenProperties DEF TypeOK

LEMMA ShutdownKeeps == IInv /\ Shutdown => IInv'
<1> SUFFICES ASSUME IInv, Shutdown PROVE IInv'
  OBVIOUS
<1>1. clients' = <<>> /\ Len(clients') = 0 /\ ToSet(clients') = {} /\ IsInjective(clients')
  BY DEF Shutdown, ToSet, IsInjective
<1>2. \A p \in Peer :
          /\ conn'[p] # "open"
          /\ conn'[p] \in {"none", "backlog"} => conn'[p] = conn[p]
          /\ conn'[p] \in {"none", "backlog", "open", "closed"}
  BY DEF IInv, TypeOK, Shutdown, AllClosed
<1>3. TypeOK'
  <2>1. at = 1 /\ at' = 1
    BY DEF IInv, Settled, Shutdown
  <2>2. conn' \in [Peer -> {"none", "backlog", "open", "closed"}]
    BY DEF IInv, TypeOK, Shutdown, AllClosed
  <2>3. {p \in Peer : conn'[p] = "open"} = {}
    BY <1>2
  <2>4. clients' \in Seq(Peer)
    BY <1>1, EmptySeq
  <2>5. at' \in 1 .. Len(clients') + 1 /\ mustDelete' = {}
    BY <1>1, <2>1 DEF Shutdown
  <2> QED
    BY <1>1, <2>2, <2>3, <2>4, <2>5 DEF IInv, TypeOK, Shutdown
<1>4. Fresh' /\ Pieces' /\ Settled'
  BY <1>1, <1>2 DEF IInv, Fresh, Pieces, Settled, Shutdown
<1>5. Accounted'
  <2>1. PICK cuts \in [1 .. Len(pktQueue) + 1 -> 0 .. Len(stream)] : Cuts(cuts)
    BY DEF IInv, Accounted
  <2>2. Cuts(cuts)' /\ Account(cuts)'
    BY <1>1, <2>1 DEF Cuts, Account, Shutdown
  <2> QED
    BY <2>2 DEF Accounted, Shutdown
<1> QED
  BY <1>3, <1>4, <1>5 DEF IInv

LEMMA AcceptNewKeeps ==
    ASSUME IInv, NEW p \in Peer, AcceptNew(p)
    PROVE  IInv'
<1>1. conn[p] = "backlog" /\ p \notin ToSet(clients) /\ got[p] = <<>>
  BY DEF IInv, TypeOK, AcceptNew, Backlog, Fresh
<1>2. /\ clients' \in Seq(Peer) /\ Len(clients') = Len(clients) + 1
      /\ \A k \in 1 .. Len(clients) : clients'[k] = clients[k]
      /\ clients'[Len(clients) + 1] = p
      /\ IsInjective(clients')
      /\ ToSet(clients') = ToSet(clients) \union {p}
  BY <1>1, OneAppended DEF IInv, TypeOK, AcceptNew
<1>3. /\ \A q \in Peer : conn'[q] = IF q = p THEN "open" ELSE conn[q]
      /\ \A q \in Peer : from'[q] = IF q = p THEN Len(stream) ELSE from[q]
      /\ pktQueue = <<>> /\ Len(pktQueue) = 0 /\ mustDelete = {}
  BY DEF IInv, TypeOK, AcceptNew, Settled
<1>4. Len(stream) \in Nat /\ Len(clients) \in Nat
  BY LenProperties DEF IInv, TypeOK
<1>5. TypeOK'
  BY <1>2, <1>3, <1>4 DEF IInv, TypeOK, AcceptNew, Phases
<1>6. Fresh' /\ Settled'
  BY <1>2, <1>3 DEF IInv, Fresh, Settled, AcceptNew
<1>7. Pieces'
  <2> SUFFICES ASSUME NEW q \in Peer, conn'[q] = "open"
               PROVE  /\ Reached(q)' <= Len(stream)
                      /\ got[q] = SubSeq(stream, from'[q] + 1, Reached(q)')
    BY DEF Pieces, AcceptNew
  <2>1. CASE q = p
    <3>1. Reached(q)' = Len(stream) /\ from'[q] = Len(stream)
      BY <1>1, <1>3, <1>4, <2>1 DEF Reached, AcceptNew
    <3>2. SubSeq(stream, Len(stream) + 1, Len(stream)) = <<>>
      BY <1>4, SubSeqEmpty
    <3>3. got[q] = <<>>
      BY <1>1, <2>1
    <3>4. SubSeq(stream, from'[q] + 1, Reached(q)') = <<>>
      BY <3>1, <3>2
    <3>5. Reached(q)' <= Len(stream)
      BY <1>4, <3>1
    <3> QED
      BY <3>3, <3>4, <3>5
  <2>2. CASE q # p
    BY <1>3, <2>2 DEF IInv, Pieces, Reached, AcceptNew
  <2> QED
    BY <2>1, <2>2
<1>8. Accounted'
  <2>1. PICK cuts \in [1 .. Len(pktQueue) + 1 -> 0 .. Len(stream)] : Cuts(cuts) /\ Account(cuts)
    BY DEF IInv, Accounted
  <2>2. Cuts(cuts)'
    BY <2>1 DEF Cuts, AcceptNew
  <2>3. cuts[1] = Len(stream)
    BY <1>3, <2>1 DEF Cuts
  <2>4. Account(cuts)'
    <3> SUFFICES ASSUME NEW i \in 1 .. Len(clients) + 1
                 PROVE  Reached(clients[i])' = cuts[1]
      BY <1>2, <1>3 DEF Account, Passed, AcceptNew
    <3>0. UNCHANGED <<got, stream>>
      BY DEF AcceptNew
    <3>1. CASE i = Len(clients) + 1
      BY <1>1, <1>2, <1>3, <1>4, <2>3, <3>0, <3>1 DEF Reached
    <3>2. CASE i \in 1 .. Len(clients)
      <4>1. Reached(clients[i]) = cuts[1] /\ clients'[i] = clients[i]
        BY <1>2, <1>3, <2>1, <3>2 DEF Account, Passed, AcceptNew
      <4>2. clients[i] \in Peer /\ clients[i] # p
        BY <1>1, <3>2, Registered DEF IInv
      <4> QED
        BY <1>3, <3>0, <4>1, <4>2 DEF Reached
    <3> QED
      BY <1>4, <3>1, <3>2
  <2> QED
    BY <2>2, <2>4 DEF Accounted, AcceptNew
<1> QED
  BY <1>5, <1>6, <1>7, <1>8 DEF IInv

LEMMA MarkedType ==
    ASSUME TypeOK, at <= Len(clients), mustDelete' = mustDelete \union {Current},
           UNCHANGED clients
    PROVE  mustDelete' \subseteq ToSet(clients')
<1>1. at \in 1 .. Len(clients)
  BY Registered DEF TypeOK
<1>2. Current \in ToSet(clients)
  BY <1>1, Registered DEF Current
<1> QED
  BY <1>2 DEF TypeOK

\* A client that is marked no longer counts.
LEMMA MarkingAccount ==
    ASSUME TypeOK, Accounted, UNCHANGED <<clients, pktQueue, got, stream, from>>,
           mustDelete \subseteq mustDelete',
           \A i \in 1 .. Len(clients) : clients[i] \notin mustDelete' => (Passed(i)' <=> Passed(i))
    PROVE  Accounted'
<1>1. PICK cuts \in [1 .. Len(pktQueue) + 1 -> 0 .. Len(stream)] : Cuts(cuts) /\ Account(cuts)
  BY DEF Accounted
<1>2. Cuts(cuts)'
  BY <1>1 DEF Cuts
<1>3. Account(cuts)'
  BY <1>1 DEF Account, Reached
<1> QED
  BY <1>2, <1>3 DEF Accounted

LEMMA RecvFailsKeeps == IInv /\ RecvFails => IInv'
<1> SUFFICES ASSUME IInv, RecvFails PROVE IInv'
  OBVIOUS
<1>0. at \in Nat /\ Len(clients) \in Nat /\ at' = at + 1 /\ at' \in 1 .. Len(clients') + 1
  BY AdvanceType DEF IInv, RecvFails
<1>1. mustDelete' \subseteq ToSet(clients')
  BY MarkedType DEF IInv, RecvFails
<1>2. TypeOK'
  BY <1>0, <1>1 DEF IInv, RecvFails, TypeOK, netVars, Phases
<1>3. Accounted'
  BY MarkingAccount DEF IInv, Passed, RecvFails, netVars
<1> QED
  BY <1>2, <1>3, SamePieces DEF IInv, RecvFails, netVars, Fresh, Settled

LEMMA SendFailsKeeps == IInv /\ SendFails => IInv'
<1> SUFFICES ASSUME IInv, SendFails PROVE IInv'
  OBVIOUS
<1>0. at \in Nat /\ Len(clients) \in Nat /\ at' = at + 1 /\ at' \in 1 .. Len(clients') + 1
  BY AdvanceType DEF IInv, SendFails
<1>1. mustDelete' \subseteq ToSet(clients')
  BY MarkedType DEF IInv, SendFails
<1>2. TypeOK'
  BY <1>0, <1>1 DEF IInv, SendFails, TypeOK, netVars, Phases
<1>3. ASSUME NEW i \in 1 .. Len(clients), clients[i] \notin mustDelete'
      PROVE  Passed(i)' <=> Passed(i)
  <2>1. i # at
    BY <1>3 DEF SendFails, Current
  <2> QED
    BY <1>0, <2>1 DEF SendFails, Passed
<1>4. Accounted'
  BY <1>3, MarkingAccount DEF IInv, SendFails, netVars
<1> QED
  BY <1>2, <1>4, SamePieces DEF IInv, SendFails, netVars, Fresh, Settled

\* The process dies: nobody is served any more, and nothing is queued.
LEMMA SendKillsKeeps == IInv /\ SendKills => IInv'
<1> SUFFICES ASSUME IInv, SendKills PROVE IInv'
  OBVIOUS
<1>1. /\ clients' = <<>> /\ Len(clients') = 0 /\ ToSet(clients') = {} /\ IsInjective(clients')
      /\ pktQueue' = <<>> /\ Len(pktQueue') = 0 /\ phase' = "killed" /\ at' = 1
      /\ UNCHANGED <<got, stream, from>>
  BY DEF SendKills, ToSet, IsInjective
<1>2. \A p \in Peer :
          /\ conn'[p] # "open"
          /\ conn'[p] \in {"none", "backlog"} => conn'[p] = conn[p]
  BY DEF IInv, TypeOK, SendKills, AllClosed
<1>3. TypeOK'
  <2>1. conn' \in [Peer -> {"none", "backlog", "open", "closed"}]
    BY DEF IInv, TypeOK, SendKills, AllClosed
  <2>2. {p \in Peer : conn'[p] = "open"} = {}
    BY <1>2
  <2>3. clients' \in Seq(Peer) /\ pktQueue' \in Seq(Seq(Unit))
    BY <1>1, EmptySeq
  <2>4. at' \in 1 .. Len(clients') + 1
    BY <1>1
  <2>5. mustDelete' = {} /\ ready' \in BOOLEAN
    BY DEF SendKills
  <2> QED
    BY <1>1, <2>1, <2>2, <2>3, <2>4, <2>5 DEF IInv, TypeOK, SendKills, Phases
<1>4. Fresh' /\ Pieces' /\ Settled'
  BY <1>1, <1>2 DEF IInv, Fresh, Pieces, Settled
<1>5. Accounted'
  <2>1. PICK n \in Nat : n = Len(stream)
    BY Lengths DEF IInv
  <2> DEFINE end == [i \in 1 .. 1 |-> n]
  <2>2. end \in [1 .. Len(pktQueue') + 1 -> 0 .. Len(stream')]
    BY <1>1, <2>1
  <2>3. Cuts(end)' /\ Account(end)'
    BY <1>1, <2>1 DEF Cuts, Account
  <2> QED
    BY <2>2, <2>3 DEF Accounted
<1> QED
  BY <1>3, <1>4, <1>5 DEF IInv

LEMMA RecvKeeps ==
    ASSUME IInv, NEW k \in 1 .. BUFSZ, Recv(k)
    PROVE  IInv'
<1> DEFINE chunk == SubSeq(toServer[Current], 1, k)
           old == Len(stream)
<1>0. at \in Nat /\ Len(clients) \in Nat /\ at' = at + 1 /\ at' \in 1 .. Len(clients') + 1
  BY AdvanceType DEF IInv, Recv
<1>1. Current \in Peer /\ toServer[Current] \in Seq(Unit)
  <2>1. at \in 1 .. Len(clients)
    BY <1>0 DEF Recv, IInv, TypeOK
  <2> QED
    BY <2>1, Registered DEF IInv, Current, TypeOK
<1>2. k \in Nat /\ k >= 1 /\ k <= Len(toServer[Current]) /\ Len(toServer[Current]) \in Nat
  BY <1>1, ServerAssumption, LenProperties DEF Recv
<1>3. chunk \in Seq(Unit) /\ Len(chunk) = k
  BY <1>1, <1>2, SubSeqProperties, ElementOfSeq
<1>4. SubSeq(toServer[Current], k + 1, Len(toServer[Current])) \in Seq(Unit)
  BY <1>1, <1>2, SubSeqProperties, ElementOfSeq
<1> HIDE DEF chunk
<1>5. /\ pktQueue' = Append(pktQueue, chunk)
      /\ stream' = stream \o chunk
      /\ phase' = "recv" /\ phase = "recv"
      /\ UNCHANGED <<clients, mustDelete, conn, got, from>>
  BY DEF Recv, Queued, chunk
<1>6. /\ stream' \in Seq(Unit) /\ Len(stream') = old + k /\ old \in Nat
      /\ SubSeq(stream', old + 1, old + k) = chunk
  BY <1>3, <1>5, ConcatProperties, SubSeqOfLast, Lengths DEF IInv
<1>7. /\ pktQueue' \in Seq(Seq(Unit)) /\ Len(pktQueue') = Len(pktQueue) + 1
      /\ Len(pktQueue) \in Nat
      /\ \A i \in 1 .. Len(pktQueue) : pktQueue'[i] = pktQueue[i]
      /\ pktQueue'[Len(pktQueue) + 1] = chunk
  BY <1>3, <1>5, AppendProperties, LenProperties DEF IInv, TypeOK
<1>8. TypeOK'
  <2>1. toServer' \in [Peer -> Seq(Unit)]
    BY <1>1, <1>4 DEF IInv, TypeOK, Recv
  <2>2. from' \in [Peer -> 0 .. Len(stream')]
    BY <1>2, <1>5, <1>6 DEF IInv, TypeOK
  <2> QED
    BY <1>0, <1>6, <1>7, <2>1, <2>2 DEF IInv, TypeOK, Recv, Phases
<1>9. Fresh' /\ Settled'
  BY <1>5 DEF IInv, Fresh, Settled
<1>10. \A a, b \in Nat : b <= old => SubSeq(stream', a + 1, b) = SubSeq(stream, a + 1, b)
  BY <1>3, <1>5, SubSeqOfLonger DEF IInv, TypeOK
<1>11. Pieces'
  <2> SUFFICES ASSUME NEW p \in Peer, conn[p] = "open"
               PROVE  /\ Reached(p) <= Len(stream')
                      /\ got[p] = SubSeq(stream', from[p] + 1, Reached(p))
    BY <1>5 DEF Pieces, Reached
  <2>1. Reached(p) <= old /\ got[p] = SubSeq(stream, from[p] + 1, Reached(p))
    BY DEF IInv, Pieces
  <2>2. from[p] \in Nat /\ Reached(p) \in Nat
    BY Lengths DEF IInv, Reached
  <2> QED
    <3>1. Reached(p) <= Len(stream')
      BY <1>2, <1>6, <2>1, <2>2
    <3>2. SubSeq(stream', from[p] + 1, Reached(p)) = SubSeq(stream, from[p] + 1, Reached(p))
      BY <1>10, <2>1, <2>2
    <3> QED
      BY <2>1, <3>1, <3>2
<1>12. Accounted'
  <2>1. PICK cuts \in [1 .. Len(pktQueue) + 1 -> 0 .. old] : Cuts(cuts) /\ Account(cuts)
    BY DEF IInv, Accounted
  <2>2. PICK more \in [1 .. Len(pktQueue') + 1 -> 0 .. Len(stream')] :
            /\ \A i \in 1 .. Len(pktQueue) + 1 : more[i] = cuts[i]
            /\ more[Len(pktQueue) + 2] = old + k
    <3>1. Len(pktQueue) + 1 \in Nat /\ old + k \in Nat /\ old <= old + k
      BY <1>2, <1>6, <1>7
    <3>2. Len(pktQueue') + 1 = (Len(pktQueue) + 1) + 1 /\ Len(pktQueue) + 2 = (Len(pktQueue) + 1) + 1
      BY <1>7
    <3>3. \E more \in [1 .. (Len(pktQueue) + 1) + 1 -> 0 .. old + k] :
            /\ \A i \in 1 .. Len(pktQueue) + 1 : more[i] = cuts[i]
            /\ more[(Len(pktQueue) + 1) + 1] = old + k
      BY <1>6, <3>1, OneCutMore
    <3> QED
      BY <1>6, <3>2, <3>3
  <2>3. /\ \A i \in 1 .. Len(pktQueue) + 1 : more[i] = cuts[i] /\ cuts[i] \in 0 .. old
        /\ more[Len(pktQueue) + 2] = old + k
    BY <2>2
  <2>4. Cuts(more)'
    <3>1. more[Len(pktQueue') + 1] = Len(stream')
      BY <1>6, <1>7, <2>3
    <3>2. ASSUME NEW i \in 1 .. Len(pktQueue')
          PROVE  more[i] < more[i + 1] /\ pktQueue'[i] = SubSeq(stream', more[i] + 1, more[i + 1])
      <4>1. CASE i \in 1 .. Len(pktQueue)
        <5>1. i + 1 \in 1 .. Len(pktQueue) + 1 /\ i \in 1 .. Len(pktQueue) + 1
          BY <1>7, <4>1
        <5>2. /\ more[i] = cuts[i] /\ more[i + 1] = cuts[i + 1]
              /\ cuts[i] \in Nat /\ cuts[i + 1] \in Nat /\ cuts[i + 1] <= old
          BY <2>3, <5>1
        <5>3. cuts[i] < cuts[i + 1] /\ pktQueue[i] = SubSeq(stream, cuts[i] + 1, cuts[i + 1])
          BY <2>1, <4>1 DEF Cuts
        <5> QED
          BY <1>7, <1>10, <4>1, <5>2, <5>3
      <4>2. CASE i = Len(pktQueue) + 1
        <5>1. more[i] = old /\ more[i + 1] = old + k
          <6>1. cuts[Len(pktQueue) + 1] = old
            BY <2>1 DEF Cuts
          <6>2. i \in 1 .. Len(pktQueue) + 1 /\ i + 1 = Len(pktQueue) + 2
            BY <1>7, <4>2
          <6> QED
            BY <2>3, <4>2, <6>1, <6>2
        <5> QED
          BY <1>2, <1>6, <1>7, <4>2, <5>1
      <4> QED
        BY <1>7, <4>1, <4>2
    <3> QED
      BY <3>1, <3>2 DEF Cuts
  <2>5. Account(more)'
    <3>1. more[1] = cuts[1]
      BY <1>7, <2>3
    <3>2. \A i \in 1 .. Len(clients) : ~ Passed(i) /\ ~ Passed(i)'
      BY <1>5 DEF Passed
    <3>3. \A i \in 1 .. Len(clients) : Reached(clients[i])' = Reached(clients[i])
      BY <1>5 DEF Reached
    <3> QED
      BY <1>5, <2>1, <3>1, <3>2, <3>3 DEF Account
  <2> QED
    BY <2>4, <2>5 DEF Accounted
<1> QED
  BY <1>8, <1>9, <1>11, <1>12 DEF IInv

\* What send() gives a client comes next in the stream.
LEMMA NextPiece ==
    ASSUME IInv, Send
    PROVE  /\ at \in 1 .. Len(clients)
           /\ Current \in Peer /\ Current \in ToSet(clients) /\ conn[Current] = "open"
           /\ Len(Head(pktQueue)) \in Nat \ {0}
           /\ Reached(Current) \in Nat /\ from[Current] \in Nat
           /\ Reached(Current) + Len(Head(pktQueue)) <= Len(stream)
           /\ got[Current] \o Head(pktQueue) =
                 SubSeq(stream, from[Current] + 1, Reached(Current) + Len(Head(pktQueue)))
           /\ got[Current] \o Head(pktQueue) \in Seq(Unit)
           /\ Len(got[Current] \o Head(pktQueue)) = Len(got[Current]) + Len(Head(pktQueue))
           /\ \A cuts \in [1 .. Len(pktQueue) + 1 -> 0 .. Len(stream)] :
                 Cuts(cuts) /\ Account(cuts) =>
                     Reached(Current) + Len(Head(pktQueue)) = cuts[2]
<1>1. at \in 1 .. Len(clients)
  BY Registered DEF IInv, TypeOK, Send
<1>2. /\ Current \in Peer /\ Current \in ToSet(clients) /\ conn[Current] = "open"
      /\ Current \notin mustDelete
  BY <1>1, Registered DEF IInv, Current, Send, Skips
<1>3. /\ Len(pktQueue) \in Nat \ {0} /\ Head(pktQueue) = pktQueue[1]
      /\ Head(pktQueue) \in Seq(Unit)
  BY EmptySeq, HeadTailProperties DEF IInv, TypeOK, Send
<1>4. /\ Reached(Current) \in Nat /\ from[Current] \in Nat /\ Reached(Current) <= Len(stream)
      /\ got[Current] = SubSeq(stream, from[Current] + 1, Reached(Current))
      /\ from[Current] <= Reached(Current)
  BY <1>2, Lengths DEF IInv, Reached, Pieces
<1>5. ASSUME NEW cuts \in [1 .. Len(pktQueue) + 1 -> 0 .. Len(stream)],
             Cuts(cuts), Account(cuts)
      PROVE  /\ Reached(Current) = cuts[1] /\ cuts[2] \in Nat
             /\ cuts[1] < cuts[2] /\ cuts[2] <= Len(stream)
             /\ Head(pktQueue) = SubSeq(stream, cuts[1] + 1, cuts[2])
             /\ Len(Head(pktQueue)) = cuts[2] - cuts[1]
  <2>1. ~ Passed(at)
    BY <1>1 DEF Passed
  <2>2. Reached(Current) = cuts[1]
    BY <1>1, <1>2, <1>5, <2>1 DEF Account, Current
  <2>3. cuts[1] \in 0 .. Len(stream) /\ cuts[2] \in 0 .. Len(stream)
    BY <1>3
  <2>4. cuts[1] < cuts[2] /\ Head(pktQueue) = SubSeq(stream, cuts[1] + 1, cuts[2])
    BY <1>3, <1>5 DEF Cuts
  <2>5. Len(Head(pktQueue)) = cuts[2] - cuts[1]
    BY <2>3, <2>4, Lengths, PieceOf DEF IInv
  <2> QED
    BY <2>2, <2>3, <2>4, <2>5, Lengths DEF IInv
<1>6. PICK next \in Nat :
        /\ Reached(Current) < next /\ next <= Len(stream)
        /\ Head(pktQueue) = SubSeq(stream, Reached(Current) + 1, next)
        /\ Len(Head(pktQueue)) = next - Reached(Current)
  BY <1>5 DEF IInv, Accounted
<1>7. got[Current] \o Head(pktQueue) = SubSeq(stream, from[Current] + 1, next)
  <2>1. stream \in Seq(Unit) /\ Len(stream) \in Nat
    BY Lengths DEF IInv
  <2>2. from[Current] <= Reached(Current) /\ Reached(Current) <= next /\ next <= Len(stream)
    BY <1>4, <1>6
  <2>3. SubSeq(stream, from[Current] + 1, Reached(Current))
            \o SubSeq(stream, Reached(Current) + 1, next)
          = SubSeq(stream, from[Current] + 1, next)
    BY <1>4, <2>1, <2>2, TwoPieces
  <2> QED
    BY <1>4, <1>6, <2>3
<1>8. got[Current] \in Seq(Unit)
  BY <1>2 DEF IInv, TypeOK
<1>9. /\ got[Current] \o Head(pktQueue) \in Seq(Unit)
      /\ Len(got[Current] \o Head(pktQueue)) = Len(got[Current]) + Len(Head(pktQueue))
  BY <1>3, <1>8, ConcatProperties
<1>10. Len(Head(pktQueue)) \in Nat \ {0} /\ Reached(Current) + Len(Head(pktQueue)) = next
  BY <1>4, <1>6
<1>11. Reached(Current) + Len(Head(pktQueue)) <= Len(stream)
  BY <1>6, <1>10
<1> QED
  <2>1. \A c \in [1 .. Len(pktQueue) + 1 -> 0 .. Len(stream)] :
            Cuts(c) /\ Account(c) => Reached(Current) + Len(Head(pktQueue)) = c[2]
    <3> SUFFICES ASSUME NEW c \in [1 .. Len(pktQueue) + 1 -> 0 .. Len(stream)], Cuts(c), Account(c)
                 PROVE  Reached(Current) + Len(Head(pktQueue)) = c[2]
      OBVIOUS
    <3>1. Reached(Current) = c[1] /\ c[2] \in Nat /\ Len(Head(pktQueue)) = c[2] - c[1]
      BY <1>5
    <3> QED
      BY <1>4, <3>1
  <2>2. got[Current] \o Head(pktQueue)
          = SubSeq(stream, from[Current] + 1, Reached(Current) + Len(Head(pktQueue)))
    BY <1>7, <1>10
  <2> QED
    BY <1>1, <1>2, <1>4, <1>9, <1>10, <1>11, <2>1, <2>2

LEMMA SendKeeps == IInv /\ Send => IInv'
<1> SUFFICES ASSUME IInv, Send PROVE IInv'
  OBVIOUS
<1> DEFINE size == Len(Head(pktQueue))
<1>0. at \in Nat /\ Len(clients) \in Nat /\ at' = at + 1 /\ at' \in 1 .. Len(clients') + 1
  BY AdvanceType DEF IInv, Send
<1>a. /\ at \in 1 .. Len(clients) /\ Current \in Peer /\ conn[Current] = "open"
      /\ size \in Nat \ {0} /\ Reached(Current) \in Nat /\ from[Current] \in Nat
      /\ Reached(Current) + size <= Len(stream)
      /\ got[Current] \o Head(pktQueue) \in Seq(Unit)
      /\ Len(got[Current] \o Head(pktQueue)) = Len(got[Current]) + size
  BY NextPiece
<1> HIDE DEF size
<1>1. /\ \A p \in Peer : got'[p] = IF p = Current THEN got[p] \o Head(pktQueue) ELSE got[p]
      /\ UNCHANGED <<clients, mustDelete, pktQueue, stream, from, conn>>
  BY DEF IInv, TypeOK, Send
<1>2. TypeOK'
  <2>1. got' \in [Peer -> Seq(Unit)]
    BY <1>a DEF IInv, TypeOK, Send
  <2>2. unread' \in [Peer -> 0 .. SockBuf]
    <3>1. unread' = [unread EXCEPT ![Current] = @ + size] /\ unread[Current] + size <= SockBuf
      BY DEF Send, size
    <3>2. unread[Current] \in Nat /\ SockBuf \in Nat
      BY <1>a, ServerAssumption DEF IInv, TypeOK
    <3>3. unread[Current] + size \in 0 .. SockBuf
      BY <1>a, <3>1, <3>2
    <3> QED
      BY <3>1, <3>3 DEF IInv, TypeOK
  <2> QED
    BY <1>0, <2>1, <2>2 DEF IInv, TypeOK, Send, Phases
<1>3. \A p \in Peer : Reached(p)' = IF p = Current THEN Reached(p) + size ELSE Reached(p)
  <2>1. \A p \in Peer : Len(got[p]) \in Nat /\ from[p] \in Nat
    BY Lengths DEF IInv
  <2> SUFFICES ASSUME NEW p \in Peer
               PROVE  Reached(p)' = IF p = Current THEN Reached(p) + size ELSE Reached(p)
    OBVIOUS
  <2>2. Reached(p)' = from[p] + Len(got'[p])
    BY <1>1 DEF Reached
  <2>3. CASE p = Current
    <3>1. Len(got'[p]) = Len(got[p]) + size
      BY <1>1, <1>a, <2>3
    <3> QED
      BY <1>a, <2>1, <2>2, <2>3, <3>1 DEF Reached
  <2>4. CASE p # Current
    BY <1>1, <2>2, <2>4 DEF Reached
  <2> QED
    BY <2>3, <2>4
<1>4. Fresh' /\ Settled'
  BY <1>1, <1>a DEF IInv, Fresh, Settled, Send
<1>5. Pieces'
  <2> SUFFICES ASSUME NEW p \in Peer, conn[p] = "open"
               PROVE  /\ Reached(p)' <= Len(stream)
                      /\ got'[p] = SubSeq(stream, from[p] + 1, Reached(p)')
    BY <1>1 DEF Pieces
  <2>1. CASE p = Current
    <3>1. got[Current] \o Head(pktQueue) = SubSeq(stream, from[Current] + 1, Reached(Current) + size)
      BY NextPiece DEF size
    <3> QED
      BY <1>1, <1>a, <1>3, <2>1, <3>1
  <2>2. CASE p # Current
    BY <1>1, <1>3, <2>2 DEF IInv, Pieces
  <2> QED
    BY <2>1, <2>2
<1>6. Accounted'
  <2>1. PICK cuts \in [1 .. Len(pktQueue) + 1 -> 0 .. Len(stream)] : Cuts(cuts) /\ Account(cuts)
    BY DEF IInv, Accounted
  <2>2. Cuts(cuts)'
    BY <1>1, <2>1 DEF Cuts
  <2>3. Account(cuts)'
    <3> SUFFICES ASSUME NEW i \in 1 .. Len(clients), clients[i] \notin mustDelete
                 PROVE  Reached(clients[i])' = IF Passed(i)' THEN cuts[2] ELSE cuts[1]
      BY <1>1 DEF Account
    <3>1. CASE i = at
      <4>1. Passed(i)'
        BY <1>0, <1>1, <3>1 DEF Passed, Send
      <4>2. clients[i] = Current
        BY <3>1 DEF Current
      <4>3. Reached(Current) + size = cuts[2]
        BY <2>1, NextPiece DEF size
      <4>4. Reached(clients[i])' = Reached(Current) + size
        BY <1>a, <1>1, <1>3, <4>2 DEF Reached
      <4> QED
        BY <4>1, <4>3, <4>4
    <3>2. CASE i # at
      <4>1. Passed(i)' <=> Passed(i)
        BY <1>0, <1>1, <3>2 DEF Passed, Send
      <4>2. clients[i] \in Peer /\ clients[i] # Current
        BY <1>a, <3>2, Registered DEF IInv, Current
      <4>3. Reached(clients[i]) = IF Passed(i) THEN cuts[2] ELSE cuts[1]
        BY <2>1 DEF Account
      <4>4. Reached(clients[i])' = Reached(clients[i])
        BY <1>1, <1>3, <4>2 DEF Reached
      <4> QED
        BY <4>1, <4>3, <4>4
    <3> QED
      BY <3>1, <3>2
  <2> QED
    BY <1>1, <2>2, <2>3 DEF Accounted
<1> QED
  BY <1>2, <1>4, <1>5, <1>6 DEF IInv

\* The cuts when the sequence they cut loses its first piece.
LEMMA OneCutLess ==
    ASSUME NEW n \in Nat, NEW size \in Nat, NEW cuts \in [1 .. n + 2 -> 0 .. size]
    PROVE  \E less \in [1 .. n + 1 -> 0 .. size] : \A i \in 1 .. n + 1 : less[i] = cuts[i + 1]
<1> DEFINE less == [i \in 1 .. n + 1 |-> cuts[i + 1]]
<1>1. less \in [1 .. n + 1 -> 0 .. size]
  OBVIOUS
<1> QED
  BY <1>1

LEMMA PopChunkKeeps == IInv /\ PopChunk => IInv'
<1> SUFFICES ASSUME IInv, PopChunk PROVE IInv'
  OBVIOUS
<1> DEFINE n == Len(pktQueue) - 1
<1>1. /\ n \in Nat /\ Len(pktQueue) = n + 1
      /\ pktQueue' \in Seq(Seq(Unit)) /\ Len(pktQueue') = n
      /\ \A i \in 1 .. n : pktQueue'[i] = pktQueue[i + 1]
  BY EmptySeq, HeadTailProperties DEF IInv, TypeOK, PopChunk
<1> HIDE DEF n
<1>2. /\ UNCHANGED <<clients, mustDelete, phase, conn, got, stream, from>>
      /\ phase = "send" /\ pktQueue # <<>> /\ at' = 1
      /\ at \in Nat /\ at > Len(clients) /\ Len(clients) \in Nat
  BY Registered DEF IInv, TypeOK, PopChunk, netVars
<1>3. TypeOK'
  BY <1>1, <1>2 DEF IInv, TypeOK, PopChunk, netVars
<1>4. Fresh' /\ Settled' /\ Pieces'
  BY <1>2, SamePieces DEF IInv, Fresh, Settled
<1>5. Accounted'
  <2>1. PICK cuts \in [1 .. n + 2 -> 0 .. Len(stream)] :
            /\ cuts[n + 2] = Len(stream)
            /\ \A i \in 1 .. n + 1 :
                  cuts[i] < cuts[i + 1] /\ pktQueue[i] = SubSeq(stream, cuts[i] + 1, cuts[i + 1])
            /\ Account(cuts)
    <3>1. Len(pktQueue) + 1 = n + 2
      BY <1>1
    <3> QED
      BY <1>1, <3>1 DEF IInv, Accounted, Cuts
  <2>2. PICK less \in [1 .. n + 1 -> 0 .. Len(stream)] :
            \A i \in 1 .. n + 1 : less[i] = cuts[i + 1]
    BY <1>1, OneCutLess, Lengths DEF IInv
  <2>3. Cuts(less)'
    <3>1. less[n + 1] = Len(stream)
      BY <1>1, <2>1, <2>2
    <3>2. ASSUME NEW i \in 1 .. n
          PROVE  less[i] < less[i + 1] /\ pktQueue'[i] = SubSeq(stream, less[i] + 1, less[i + 1])
      <4>1. i \in 1 .. n + 1 /\ i + 1 \in 1 .. n + 1
        BY <1>1
      <4>2. less[i] = cuts[i + 1] /\ less[i + 1] = cuts[(i + 1) + 1]
        BY <2>2, <4>1
      <4> QED
        BY <1>1, <2>1, <4>1, <4>2
    <3> QED
      BY <1>1, <1>2, <3>1, <3>2 DEF Cuts
  <2>4. Account(less)'
    <3>1. \A i \in 1 .. Len(clients) : Passed(i) /\ ~ Passed(i)'
      BY <1>2 DEF Passed
    <3>2. less[1] = cuts[2]
      BY <1>1, <2>2
    <3>3. \A i \in 1 .. Len(clients) : Reached(clients[i])' = Reached(clients[i])
      BY <1>2 DEF Reached
    <3> QED
      BY <1>2, <2>1, <3>1, <3>2, <3>3 DEF Account
  <2> QED
    BY <1>1, <1>2, <2>3, <2>4 DEF Accounted
<1> QED
  BY <1>3, <1>4, <1>5 DEF IInv

LEMMA RemoveClosedKeeps == IInv /\ RemoveClosed => IInv'
<1> SUFFICES ASSUME IInv, RemoveClosed PROVE IInv'
  OBVIOUS
<1>1. /\ at \in 1 .. Len(clients) /\ Len(clients) \in Nat
      /\ Current = clients[at] /\ Current \in Peer /\ Current \in mustDelete
  BY Registered DEF IInv, TypeOK, RemoveClosed, Current
<1>2. /\ clients' \in Seq(Peer)
      /\ Len(clients') = Len(clients) - 1
      /\ \A k \in 1 .. Len(clients) - 1 :
            clients'[k] = IF k < at THEN clients[k] ELSE clients[k + 1]
      /\ IsInjective(clients')
      /\ ToSet(clients') = ToSet(clients) \ {Current}
  <2>1. clients \in Seq(Peer) /\ IsInjective(clients) /\ clients' = RemoveAt(clients, at)
    BY DEF IInv, TypeOK, RemoveClosed
  <2> QED
    BY <1>1, <2>1, OneRemoved
<1>3. /\ \A p \in Peer : conn'[p] = IF p = Current THEN "closed" ELSE conn[p]
      /\ mustDelete' = mustDelete \ {Current}
      /\ phase = "remove" /\ pktQueue = <<>>
      /\ UNCHANGED <<at, phase, pktQueue, got, stream, from>>
  BY <1>1 DEF IInv, TypeOK, Settled, RemoveClosed
<1>4. TypeOK'
  <2>1. ToSet(clients') = {p \in Peer : conn'[p] = "open"}
    BY <1>2, <1>3 DEF IInv, TypeOK
  <2>2. at' \in 1 .. Len(clients') + 1
    BY <1>1, <1>2, <1>3
  <2>3. mustDelete' \subseteq ToSet(clients')
    BY <1>2, <1>3 DEF IInv, TypeOK
  <2>4. conn' \in [Peer -> {"none", "backlog", "open", "closed"}]
    BY <1>1 DEF IInv, TypeOK, RemoveClosed
  <2> QED
    BY <1>2, <2>1, <2>2, <2>3, <2>4 DEF IInv, TypeOK, RemoveClosed
<1>5. Fresh' /\ Pieces'
  BY <1>3 DEF IInv, Fresh, Pieces, Reached
<1>6. Settled'
  <2>1. \A i \in 1 .. at - 1 : clients[i] \notin mustDelete
    BY <1>3 DEF IInv, Settled
  <2>2. \A i \in 1 .. at - 1 : clients'[i] = clients[i]
    BY <1>1, <1>2
  <2> QED
    BY <1>3, <2>1, <2>2 DEF Settled
<1>7. Accounted'
  <2>1. PICK cuts \in [1 .. Len(pktQueue) + 1 -> 0 .. Len(stream)] : Cuts(cuts) /\ Account(cuts)
    BY DEF IInv, Accounted
  <2>2. Cuts(cuts)'
    BY <1>3, <2>1 DEF Cuts
  <2>3. Account(cuts)'
    <3> SUFFICES ASSUME NEW i \in 1 .. Len(clients'), clients'[i] \notin mustDelete'
                 PROVE  Reached(clients[i])' = cuts[1]
      <4>1. \A i \in 1 .. Len(clients') : ~ Passed(i)'
        BY <1>3 DEF Passed
      <4> QED
        BY <4>1 DEF Account
    <3>1. PICK k \in 1 .. Len(clients) : k # at /\ clients'[i] = clients[k]
      BY <1>1, <1>2
    <3>2. clients[k] \notin mustDelete
      BY <1>1, <1>3, <3>1, Registered DEF IInv
    <3>3. Reached(clients[k]) = cuts[1]
      BY <1>3, <2>1, <3>2 DEF Account, Passed
    <3>4. Reached(clients[i])' = from[clients'[i]] + Len(got[clients'[i]])
      BY <1>3 DEF Reached
    <3> QED
      BY <3>1, <3>3, <3>4 DEF Reached
  <2> QED
    BY <1>3, <2>2, <2>3 DEF Accounted
<1> QED
  BY <1>4, <1>5, <1>6, <1>7 DEF IInv

LEMMA InitIInv == Init => IInv
<1> SUFFICES ASSUME Init PROVE IInv
  OBVIOUS
<1>1. ToSet(<<>>) = {} /\ IsInjective(<<>>) /\ Len(<<>>) = 0
  BY DEF ToSet, IsInjective
<1>2. TypeOK
  <2>1. <<>> \in Seq(Peer) /\ <<>> \in Seq(Seq(Unit)) /\ <<>> \in Seq(Unit)
    BY EmptySeq
  <2>2. /\ clients \in Seq(Peer) /\ IsInjective(clients) /\ mustDelete \subseteq ToSet(clients)
        /\ pktQueue \in Seq(Seq(Unit)) /\ stream \in Seq(Unit)
        /\ at \in 1 .. Len(clients) + 1
        /\ toServer \in [Peer -> Seq(Unit)] /\ got \in [Peer -> Seq(Unit)]
    BY <1>1, <2>1 DEF Init
  <2>3. /\ ToSet(clients) = {p \in Peer : conn[p] = "open"}
        /\ conn \in [Peer -> {"none", "backlog", "open", "closed"}]
    BY <1>1 DEF Init
  <2>4. /\ messages \in [Peer -> 0 .. MaxMessages] /\ unread \in [Peer -> 0 .. SockBuf]
        /\ from \in [Peer -> 0 .. Len(stream)]
    BY <1>1, ServerAssumption DEF Init
  <2> QED
    BY <2>2, <2>3, <2>4 DEF Init, TypeOK, Phases
<1>3. Fresh /\ Pieces /\ Settled
  BY DEF Init, Fresh, Pieces, Settled
<1>4. Accounted
  <2> DEFINE none == [i \in 1 .. 1 |-> 0]
  <2>1. none \in [1 .. Len(pktQueue) + 1 -> 0 .. Len(stream)]
    BY <1>1 DEF Init
  <2>2. Cuts(none) /\ Account(none)
    BY <1>1 DEF Cuts, Account, Init
  <2> QED
    BY <2>1, <2>2 DEF Accounted
<1> QED
  BY <1>2, <1>3, <1>4 DEF IInv

LEMMA StutterKeeps == IInv /\ UNCHANGED vars => IInv'
<1> SUFFICES ASSUME IInv, UNCHANGED vars PROVE IInv'
  OBVIOUS
<1>1. TypeOK'
  BY DEF IInv, TypeOK, vars, runVars, netVars
<1> QED
  BY <1>1, OutsideKeeps DEF IInv, vars, runVars, netVars

\* Every step keeps the account between the stream, the chunks that wait and
\* what the clients were sent (run() and what happens around it).
THEOREM StepKeepsIInv == IInv /\ [Next]_vars => IInv'
<1> SUFFICES ASSUME IInv, [Next]_vars PROVE IInv'
  OBVIOUS
<1>1. CASE StartServer \/ Shutdown
  BY <1>1, StartServerKeeps, ShutdownKeeps
<1>2. CASE Run
  BY <1>2, SelectKeeps, NoNewKeeps, AcceptNewKeeps, RecvKeeps, RecvFailsKeeps, NotReadableKeeps,
     EndRecvKeeps, SendKeeps, SendFailsKeeps, SendKillsKeeps, SkipClientKeeps, PopChunkKeeps, EndSendKeeps,
     RemoveClosedKeeps, KeepClientKeeps, EndRemoveKeeps DEF Run
<1>3. CASE \E p \in Peer : Connect(p) \/ SendMessage(p) \/ Read(p) \/ HangUp(p)
  BY <1>3, ConnectKeeps, SendMessageKeeps, ReadKeeps, HangUpKeeps
<1>4. CASE UNCHANGED vars
  BY <1>4, StutterKeeps
<1> QED
  BY <1>1, <1>2, <1>3, <1>4 DEF Next

\* In every run of the server, with any number of clients, the chunks of
\* pktQueue are consecutive pieces of the stream up to its end and every
\* client that is served has been sent all that comes before (run()).
THEOREM AlwaysIInv == Spec => []IInv
  BY InitIInv, StepKeepsIInv, PTL DEF Spec

\* No client joins or leaves with a chunk half distributed: when run()
\* returns, every registered client has been sent the stream to its end.
THEOREM AlwaysCaughtUp == Spec => []CaughtUp
<1>1. IInv => CaughtUp
  <2> SUFFICES ASSUME IInv, phase = "out", NEW p \in ToSet(clients)
               PROVE  from[p] + Len(got[p]) = Len(stream)
    BY DEF CaughtUp, IInv
  <2>1. PICK i \in 1 .. Len(clients) : p = clients[i]
    BY Registered DEF IInv
  <2>2. mustDelete = {} /\ Len(pktQueue) = 0
    BY DEF IInv, Settled
  <2>3. PICK cuts \in [1 .. Len(pktQueue) + 1 -> 0 .. Len(stream)] : Cuts(cuts) /\ Account(cuts)
    BY DEF IInv, Accounted
  <2>4. cuts[1] = Len(stream)
    BY <2>2, <2>3 DEF Cuts
  <2> QED
    BY <2>1, <2>2, <2>3, <2>4 DEF Account, Passed, Reached
<1> QED
  BY <1>1, AlwaysIInv, PTL

(***************************************************************************)
(* The server implements one ordered broadcast.                            *)
(***************************************************************************)
LEMMA QuietStep ==
    ASSUME UNCHANGED <<stream, clients, got, from>>
    PROVE  UNCHANGED OB!abstractVars
  BY DEF OB!abstractVars

LEMMA AcceptAttaches ==
    ASSUME IInv, NEW p \in Peer, AcceptNew(p)
    PROVE  OB!Attach(p)
<1>1. conn[p] = "backlog" /\ p \notin ToSet(clients) /\ got[p] = <<>>
  BY DEF IInv, TypeOK, AcceptNew, Backlog, Fresh
<1>2. ToSet(clients') = ToSet(clients) \union {p}
  <2>1. clients \in Seq(Peer) /\ IsInjective(clients) /\ clients' = Append(clients, p)
    BY DEF IInv, TypeOK, AcceptNew
  <2> QED
    BY <1>1, <2>1, OneAppended
<1>3. got' = [got EXCEPT ![p] = <<>>]
  BY <1>1 DEF IInv, TypeOK, AcceptNew
<1> QED
  BY <1>1, <1>2, <1>3 DEF OB!Attach, AcceptNew

LEMMA RecvPublishes ==
    ASSUME IInv, NEW k \in 1 .. BUFSZ, Recv(k)
    PROVE  OB!Publish
<1>1. at \in 1 .. Len(clients)
  BY Registered DEF IInv, TypeOK, Recv
<1>2. Current \in Peer /\ toServer[Current] \in Seq(Unit)
  BY <1>1, Registered DEF IInv, Current, TypeOK
<1>3. k \in Nat /\ k >= 1 /\ k <= Len(toServer[Current])
  BY ServerAssumption DEF Recv
<1>4. SubSeq(toServer[Current], 1, k) \in Seq(Unit)
  BY <1>2, <1>3, SubSeqProperties
<1>5. stream' = stream \o SubSeq(toServer[Current], 1, k)
  BY DEF Recv
<1>6. IsPrefix(stream, stream')
  BY <1>4, <1>5, ConcatProperties, Lengths, SubSeqOfLonger DEF IInv, IsPrefix
<1> QED
  BY <1>6 DEF OB!Publish, OB!IsPrefix, IsPrefix, Recv

LEMMA SendDelivers ==
    ASSUME IInv, Send
    PROVE  Current \in Peer /\ OB!Deliver(Current)
<1> DEFINE k == Len(Head(pktQueue))
<1>1. /\ Current \in Peer /\ Current \in ToSet(clients)
      /\ k \in Nat \ {0} /\ Reached(Current) \in Nat /\ from[Current] \in Nat
      /\ Reached(Current) + k <= Len(stream)
      /\ got[Current] \o Head(pktQueue) = SubSeq(stream, from[Current] + 1, Reached(Current) + k)
  BY NextPiece
<1>2. Len(stream) \in Nat /\ Len(got[Current]) \in Nat
  BY <1>1, Lengths DEF IInv
<1> HIDE DEF k
<1>3. k \in 1 .. Len(stream) - from[Current] - Len(got[Current])
  BY <1>1, <1>2 DEF Reached
<1>4. got' = [got EXCEPT ![Current] = @ \o Head(pktQueue)]
  BY DEF Send
<1>5. got' = [got EXCEPT ![Current] =
                 SubSeq(stream, from[Current] + 1, from[Current] + Len(got[Current]) + k)]
  BY <1>1, <1>4 DEF Reached
<1>6. UNCHANGED <<stream, clients, from>>
  BY DEF Send
<1> QED
  BY <1>1, <1>3, <1>5, <1>6 DEF OB!Deliver

LEMMA RemoveLeaves ==
    ASSUME IInv, RemoveClosed
    PROVE  \E S \in SUBSET Peer : OB!Leave(S)
<1>1. at \in 1 .. Len(clients) /\ Current = clients[at]
  BY Registered DEF IInv, TypeOK, RemoveClosed, Current
<1>2. Current \in Peer /\ Current \in ToSet(clients)
  BY <1>1, Registered DEF IInv
<1>3. clients \in Seq(Peer) /\ IsInjective(clients) /\ clients' = RemoveAt(clients, at)
  BY DEF IInv, TypeOK, RemoveClosed
<1>4. ToSet(clients') = ToSet(clients) \ {Current}
  BY <1>1, <1>3, OneRemoved
<1>5. OB!Leave({Current})
  BY <1>2, <1>4 DEF OB!Leave, RemoveClosed
<1> QED
  BY <1>2, <1>5

\* Stopped or killed, the server leaves all its clients at once.
LEMMA StopLeaves ==
    ASSUME IInv, Shutdown \/ SendKills
    PROVE  \E S \in SUBSET Peer : OB!Leave(S)
<1>1. ToSet(clients') = {} /\ ToSet(clients) \in SUBSET Peer
  BY DEF IInv, TypeOK, Shutdown, SendKills, ToSet
<1>2. OB!Leave(ToSet(clients))
  BY <1>1 DEF OB!Leave, Shutdown, SendKills
<1> QED
  BY <1>1, <1>2

\* All clients get the same units in the same order, each from where it was
\* accepted and without a gap, whatever recv() cuts and whoever leaves: every
\* step of the server is one of the ordered broadcast, or none.
THEOREM BroadcastRefined == Spec => ImplementsBroadcast
<1>1. Init => OB!Init
  <2>1. ToSet(<<>>) = {}
    BY DEF ToSet
  <2> QED
    BY <2>1 DEF Init, OB!Init
<1>2. ASSUME IInv, [Next]_vars PROVE [OB!Next]_(OB!abstractVars)
  <2>1. CASE StartServer
    BY <2>1, QuietStep DEF StartServer, runVars, netVars
  <2>2. CASE Shutdown \/ SendKills
    BY <1>2, <2>2, StopLeaves DEF OB!Next
  <2>3. CASE \E p \in Peer : AcceptNew(p)
    BY <1>2, <2>3, AcceptAttaches DEF OB!Next
  <2>4. CASE \E k \in 1 .. BUFSZ : Recv(k)
    BY <1>2, <2>4, RecvPublishes DEF OB!Next
  <2>5. CASE Send
    BY <1>2, <2>5, SendDelivers DEF OB!Next
  <2>6. CASE RemoveClosed
    BY <1>2, <2>6, RemoveLeaves DEF OB!Next
  <2>7. CASE Select \/ NoNew \/ EndRecv \/ EndSend \/ KeepClient \/ EndRemove
    BY <2>7, QuietStep DEF Select, NoNew, EndRecv, EndSend, KeepClient, EndRemove, netVars
  <2>8. CASE RecvFails \/ NotReadable \/ SendFails \/ SkipClient \/ PopChunk
    BY <2>8, QuietStep DEF RecvFails, NotReadable, SendFails, SkipClient, PopChunk, netVars
  <2>9. CASE \E p \in Peer : Connect(p) \/ SendMessage(p) \/ Read(p) \/ HangUp(p)
    BY <2>9, QuietStep DEF Connect, SendMessage, Read, HangUp, runVars
  <2>10. CASE UNCHANGED vars
    BY <2>10, QuietStep DEF vars, runVars, netVars
  <2> QED
    BY <1>2, <2>1, <2>2, <2>3, <2>4, <2>5, <2>6, <2>7, <2>8, <2>9, <2>10 DEF Next, Run
<1> QED
  BY <1>1, <1>2, AlwaysIInv, PTL DEF ImplementsBroadcast, OB!Spec, Spec
=============================================================================
