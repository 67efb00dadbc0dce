-------------------------- MODULE ReassemblyProofs --------------------------
(***************************************************************************)
(* Proofs about Reassembly, for any number of senders, rings and packets.  *)
(*                                                                         *)
(* What one sender's telegrams, ring and packets have to do with each      *)
(* other is stated about sequences; the steps of the receiver then only    *)
(* have to name the sequences they change.                                 *)
(***************************************************************************)
EXTENDS Reassembly, TLAPS, SequenceTheorems, FiniteSetTheorems

\* Concatenation, for the leaves whose provers should not look into it.
Cat(s, t) == s \o t

LEMMA CatIs ==
    ASSUME NEW S, NEW s \in Seq(S), NEW t \in Seq(S), NEW m \in Nat, NEW n \in Nat,
           Len(s) = m, Len(t) = n
    PROVE  /\ Cat(s, t) \in Seq(S) /\ Len(Cat(s, t)) = m + n
           /\ \A k \in 1 .. m : k \in 1 .. m + n /\ Cat(s, t)[k] = s[k]
           /\ \A k \in 1 .. n : m + k \in 1 .. m + n /\ Cat(s, t)[m + k] = t[k]
           /\ \A i \in 1 .. m + n : i \in 1 .. m \/ \E k \in 1 .. n : i = m + k
<1>1. PICK j \in Seq(S) : j = s \o t
  BY ConcatProperties
<1>2. Len(j) = m + n /\ \A i \in 1 .. m + n : j[i] = IF i <= m THEN s[i] ELSE t[i - m]
  <2>1. /\ Len(s \o t) = Len(s) + Len(t)
        /\ \A i \in 1 .. Len(s) + Len(t) : (s \o t)[i] = IF i <= Len(s) THEN s[i] ELSE t[i - Len(s)]
    BY ConcatProperties
  <2> QED
    BY <1>1, <2>1
<1>3. \A k \in 1 .. m : k \in 1 .. m + n /\ j[k] = s[k]
  BY <1>2
<1>4. ASSUME NEW k \in 1 .. n PROVE m + k \in 1 .. m + n /\ j[m + k] = t[k]
  <2>1. m + k \in 1 .. m + n /\ ~ (m + k <= m) /\ (m + k) - m = k
    OBVIOUS
  <2> QED
    BY <1>2, <2>1
<1>5. ASSUME NEW i \in 1 .. m + n, i \notin 1 .. m PROVE \E k \in 1 .. n : i = m + k
  <2>1. i - m \in 1 .. n /\ i = m + (i - m)
    BY <1>5
  <2> QED
    BY <2>1
<1>6. Cat(s, t) = j
  BY <1>1, Zenon DEF Cat
<1> QED
  BY <1>2, <1>3, <1>4, <1>5, <1>6

LEMMA TailIs ==
    ASSUME NEW S, NEW s \in Seq(S), s # <<>>
    PROVE  /\ Tail(s) \in Seq(S) /\ Head(s) = s[1] /\ 1 \in DOMAIN s /\ Head(s) \in S
           /\ \E n \in Nat : /\ Len(Tail(s)) = n /\ Len(s) = n + 1
                             /\ \A i \in 1 .. n : i + 1 \in DOMAIN s /\ Tail(s)[i] = s[i + 1]
<1>1. /\ Tail(s) \in Seq(S) /\ Len(Tail(s)) = Len(s) - 1
      /\ \A i \in 1 .. Len(Tail(s)) : Tail(s)[i] = s[i + 1]
      /\ Len(s) \in Nat \ {0} /\ Head(s) = s[1] /\ DOMAIN s = 1 .. Len(s)
  BY HeadTailProperties, LenProperties, EmptySeq
<1>2. PICK n \in Nat : Len(Tail(s)) = n /\ Len(s) = n + 1
  <2>1. Len(Tail(s)) \in Nat /\ Len(s) = Len(Tail(s)) + 1
    BY <1>1
  <2> QED
    BY <2>1
<1>3. \A i \in 1 .. n : i + 1 \in DOMAIN s /\ Tail(s)[i] = s[i + 1]
  BY <1>1, <1>2
<1>4. 1 \in DOMAIN s
  BY <1>1, <1>2
<1> QED
  BY <1>1, <1>2, <1>3, <1>4, LenProperties

LEMMA SizeIs ==
    ASSUME NEW w \in Seq(Written), NEW p \in DOMAIN w
    PROVE  SizeOf(w, p) \in Nat /\ SizeOf(w, p) >= 1 /\ p \in Nat /\ p >= 1
           /\ w[p].dest \in Dest /\ w[p].body \in Nat /\ SizeOf(w, p) = Header + w[p].body
           /\ SizeOf(w, p) >= Header
<1>1. w[p] \in Written /\ p \in 1 .. Len(w) /\ Len(w) \in Nat
  BY LenProperties
<1>2. w[p].body \in Nat /\ w[p].dest \in Dest
  BY <1>1, ReassemblyAssumption DEF Written
<1> QED
  BY <1>1, <1>2, ReassemblyAssumption DEF SizeOf

(***************************************************************************)
(* Telegrams on the line.                                                  *)
(***************************************************************************)
\* Telegrams with at least one byte.
IsLine(l) == l \in Seq(Telegram) /\ \A i \in DOMAIN l : Len(l[i].bytes) \in Nat \ {0}

\* A telegram has the n bytes of packet p from place a on.
IsPiece(w, t, p, a, n) ==
    /\ Len(t.bytes) = n /\ t.dest = w[p].dest /\ (a + n) - 1 <= SizeOf(w, p)
    /\ t.bytes[1] = Place(p, a)
    /\ \A k \in 1 .. n : t.bytes[k] = Place(p, (a + k) - 1)

\* What comes behind them.
Behind(w, p, a, n) == IF (a + n) - 1 = SizeOf(w, p) THEN Place(p + 1, 1) ELSE Place(p, a + n)

LEMMA PlaceIs ==
    ASSUME NEW p, NEW a PROVE Place(p, a).pkt = p /\ Place(p, a).at = a
  BY DEF Place

LEMMA GaplessAt ==
    ASSUME NEW w \in Seq(Written), NEW l, IsLine(l), Gapless(w, l), NEW i \in DOMAIN l
    PROVE  \E p \in DOMAIN w, a \in Nat \ {0}, n \in Nat \ {0} :
              IsPiece(w, l[i], p, a, n) /\ Following(w, l, i) = Behind(w, p, a, n)
<1>1. l[i] \in Telegram /\ Len(l[i].bytes) \in Nat \ {0}
  BY LenProperties DEF IsLine
<1>2. PICK t \in Telegram, n \in Nat \ {0} : t = l[i] /\ n = Len(t.bytes)
  BY <1>1
<1>3. t.bytes \in Seq(Byte)
  BY DEF Telegram
<1>4. DOMAIN t.bytes = 1 .. n /\ 1 \in 1 .. n /\ t.bytes[1] \in Byte
  BY <1>2, <1>3, LenProperties
<1>5. PICK p, a \in Nat \ {0} : p = t.bytes[1].pkt /\ a = t.bytes[1].at
  BY <1>4 DEF Byte
<1>6. /\ p \in DOMAIN w /\ t.dest = w[p].dest /\ a + n - 1 <= SizeOf(w, p)
      /\ \A k \in 1 .. n : t.bytes[k] = Place(p, a + k - 1)
      /\ Following(w, l, i) = IF a + n - 1 = SizeOf(w, p) THEN Place(p + 1, 1)
                                                          ELSE Place(p, a + n - 1 + 1)
  BY <1>2, <1>4, <1>5, Zenon DEF Gapless
<1>7. a + n - 1 = (a + n) - 1 /\ a + n - 1 + 1 = a + n /\ a + 1 - 1 = a
      /\ \A k \in 1 .. n : a + k - 1 = (a + k) - 1
  OBVIOUS
<1>8. t.bytes[1] = Place(p, a)
  BY <1>4, <1>6, <1>7
<1>9. IsPiece(w, t, p, a, n)
  BY <1>2, <1>6, <1>7, <1>8 DEF IsPiece
<1>10. Following(w, l, i) = Behind(w, p, a, n)
  BY <1>6, <1>7 DEF Behind
<1> QED
  BY <1>2, <1>5, <1>6, <1>9, <1>10

LEMMA GaplessIs ==
    ASSUME NEW w \in Seq(Written), NEW l, IsLine(l),
           \A i \in DOMAIN l : \E p \in DOMAIN w, a \in Nat \ {0}, n \in Nat \ {0} :
              IsPiece(w, l[i], p, a, n) /\ Following(w, l, i) = Behind(w, p, a, n)
    PROVE  Gapless(w, l)
<1>1. ASSUME NEW i \in DOMAIN l
      PROVE  LET t    == l[i]
                 p    == t.bytes[1].pkt
                 last == t.bytes[1].at + Len(t.bytes) - 1
             IN  /\ p \in DOMAIN w /\ t.dest = w[p].dest /\ last <= SizeOf(w, p)
                 /\ \A k \in DOMAIN t.bytes : t.bytes[k] = Place(p, t.bytes[1].at + k - 1)
                 /\ Following(w, l, i) = IF last = SizeOf(w, p) THEN Place(p + 1, 1)
                                                                ELSE Place(p, last + 1)
  <2>1. PICK p \in DOMAIN w, a \in Nat \ {0}, n \in Nat \ {0} :
              IsPiece(w, l[i], p, a, n) /\ Following(w, l, i) = Behind(w, p, a, n)
    OBVIOUS
  <2>2. PICK t \in Telegram : t = l[i]
    BY LenProperties DEF IsLine
  <2>3. /\ Len(t.bytes) = n /\ t.dest = w[p].dest /\ (a + n) - 1 <= SizeOf(w, p)
        /\ t.bytes[1] = Place(p, a) /\ \A k \in 1 .. n : t.bytes[k] = Place(p, (a + k) - 1)
    BY <2>1, <2>2 DEF IsPiece
  <2>4. t.bytes[1].pkt = p /\ t.bytes[1].at = a
    BY <2>3, PlaceIs
  <2>5. DOMAIN t.bytes = 1 .. n
    BY <2>3, LenProperties DEF Telegram
  <2>6. a + n - 1 = (a + n) - 1 /\ a + n - 1 + 1 = a + n
        /\ \A k \in 1 .. n : a + k - 1 = (a + k) - 1
    OBVIOUS
  <2>7. \A k \in DOMAIN t.bytes : t.bytes[k] = Place(p, a + k - 1)
    BY <2>3, <2>5, <2>6
  <2>8. Following(w, l, i) = IF a + n - 1 = SizeOf(w, p) THEN Place(p + 1, 1)
                                                         ELSE Place(p, a + n - 1 + 1)
    BY <2>1, <2>6 DEF Behind
  <2>9. a + n - 1 <= SizeOf(w, p)
    BY <2>3, <2>6
  <2> QED
    BY <2>2, <2>3, <2>4, <2>7, <2>8, <2>9, Zenon
<1> QED
  BY <1>1, Zenon DEF Gapless

\* The first telegram is taken from the line.
LEMMA LineCut ==
    ASSUME NEW w \in Seq(Written), NEW l, IsLine(l), Gapless(w, l), l # <<>>, NEW r, r = Tail(l)
    PROVE  IsLine(r) /\ Gapless(w, r) /\ Following(w, r, 0) = Following(w, l, 1)
<1>1. PICK n \in Nat : /\ Len(r) = n /\ Len(l) = n + 1 /\ r \in Seq(Telegram)
                       /\ \A i \in 1 .. n : i + 1 \in DOMAIN l /\ r[i] = l[i + 1]
  BY TailIs DEF IsLine
<1>2. DOMAIN r = 1 .. n
  BY <1>1, LenProperties
<1>3. IsLine(r)
  BY <1>1, <1>2 DEF IsLine
<1>4. ASSUME NEW i \in 0 .. n PROVE Following(w, r, i) = Following(w, l, i + 1)
  <2>1. CASE i < n
    <3>1. i + 1 \in 1 .. n /\ i + 1 < n + 1
      BY <2>1
    <3>2. r[i + 1] = l[(i + 1) + 1]
      BY <1>1, <3>1
    <3> QED
      BY <1>1, <2>1, <3>1, <3>2 DEF Following
  <2>2. CASE ~ (i < n)
    <3>1. ~ (i + 1 < n + 1)
      BY <2>2
    <3> QED
      BY <1>1, <2>2, <3>1 DEF Following
  <2> QED
    BY <2>1, <2>2
<1>5. ASSUME NEW i \in DOMAIN r
      PROVE  \E p \in DOMAIN w, a \in Nat \ {0}, k \in Nat \ {0} :
                IsPiece(w, r[i], p, a, k) /\ Following(w, r, i) = Behind(w, p, a, k)
  <2>1. i \in 1 .. n /\ i \in 0 .. n
    BY <1>2
  <2>2. i + 1 \in DOMAIN l /\ r[i] = l[i + 1] /\ Following(w, r, i) = Following(w, l, i + 1)
    BY <1>1, <1>4, <2>1
  <2>3. PICK j \in DOMAIN l : j = i + 1
    BY <2>2
  <2>4. \E p \in DOMAIN w, a \in Nat \ {0}, k \in Nat \ {0} :
           IsPiece(w, l[j], p, a, k) /\ Following(w, l, j) = Behind(w, p, a, k)
    BY GaplessAt
  <2> QED
    BY <2>2, <2>3, <2>4, Zenon
<1>6. Gapless(w, r)
  BY <1>3, <1>5, GaplessIs
<1>7. Following(w, r, 0) = Following(w, l, 1)
  <2>1. 0 \in 0 .. n /\ 0 + 1 = 1
    OBVIOUS
  <2> QED
    BY <1>4, <2>1
<1> QED
  BY <1>3, <1>6, <1>7

\* v are the packets w and one more.
IsLonger(v, w) == Len(v) = Len(w) + 1 /\ \A p \in DOMAIN w : p \in DOMAIN v /\ v[p] = w[p]

\* A packet is written; u are its telegrams.
LEMMA LineGrows ==
    ASSUME NEW w \in Seq(Written), NEW v \in Seq(Written), IsLonger(v, w),
           NEW l, IsLine(l), Gapless(w, l), NEW u, IsLine(u), Gapless(v, u), u # <<>>,
           Following(v, u, 0) = Place(Len(w) + 1, 1)
    PROVE  /\ IsLine(Cat(l, u)) /\ Gapless(v, Cat(l, u))
           /\ Following(v, Cat(l, u), 0) = Following(w, l, 0)
<1>1. PICK m \in Nat, n \in Nat : Len(l) = m /\ Len(u) = n /\ DOMAIN l = 1 .. m /\ DOMAIN u = 1 .. n
  BY LenProperties DEF IsLine
<1>2. PICK j : j = Cat(l, u)
  OBVIOUS
<1>3. /\ j \in Seq(Telegram) /\ Len(j) = m + n
      /\ \A k \in 1 .. m : k \in 1 .. m + n /\ j[k] = l[k]
      /\ \A k \in 1 .. n : m + k \in 1 .. m + n /\ j[m + k] = u[k]
      /\ \A i \in 1 .. m + n : i \in 1 .. m \/ \E k \in 1 .. n : i = m + k
  BY <1>1, <1>2, CatIs DEF IsLine
<1>4. DOMAIN j = 1 .. m + n
  BY <1>3, LenProperties
<1>5. IsLine(j)
  <2>1. ASSUME NEW i \in 1 .. m + n PROVE Len(j[i].bytes) \in Nat \ {0}
    <3>1. CASE i \in 1 .. m
      BY <1>1, <1>3, <3>1 DEF IsLine
    <3>2. CASE \E k \in 1 .. n : i = m + k
      <4>1. PICK k \in 1 .. n : i = m + k
        BY <3>2
      <4> QED
        BY <1>1, <1>3, <4>1 DEF IsLine
    <3> QED
      BY <1>3, <3>1, <3>2
  <2> QED
    BY <1>3, <1>4, <2>1 DEF IsLine
<1>6. n >= 1
  BY <1>1, EmptySeq DEF IsLine
<1>7. u[1].bytes[1] = Place(Len(w) + 1, 1)
  BY <1>1, <1>6 DEF Following
<1>8. \A i \in DOMAIN l : \E p \in DOMAIN w, a \in Nat \ {0}, k \in Nat \ {0} :
        IsPiece(w, l[i], p, a, k) /\ Following(w, l, i) = Behind(w, p, a, k)
  BY GaplessAt
<1>9. \A i \in DOMAIN u : \E p \in DOMAIN v, a \in Nat \ {0}, k \in Nat \ {0} :
        IsPiece(v, u[i], p, a, k) /\ Following(v, u, i) = Behind(v, p, a, k)
  BY GaplessAt
<1>10. ASSUME NEW i \in 0 .. m PROVE Following(v, j, i) = Following(w, l, i)
  <2>1. i < m + n
    BY <1>6
  <2>2. CASE i < m
    <3>1. i + 1 \in 1 .. m
      BY <2>2
    <3> QED
      BY <1>1, <1>3, <2>1, <2>2, <3>1 DEF Following
  <2>3. CASE ~ (i < m)
    <3>1. i = m /\ 1 \in 1 .. n
      BY <1>6, <2>3
    <3>2. j[i + 1] = u[1]
      BY <1>3, <3>1
    <3> QED
      BY <1>1, <1>3, <1>7, <2>1, <2>3, <3>2 DEF Following
  <2> QED
    BY <2>2, <2>3
<1>11. ASSUME NEW i \in 1 .. n PROVE Following(v, j, m + i) = Following(v, u, i)
  <2>1. CASE i < n
    <3>1. i + 1 \in 1 .. n /\ m + i < m + n /\ m + (i + 1) = (m + i) + 1
      BY <2>1
    <3>2. j[(m + i) + 1] = u[i + 1]
      BY <1>3, <3>1
    <3> QED
      BY <1>1, <1>3, <2>1, <3>1, <3>2 DEF Following
  <2>2. CASE ~ (i < n)
    <3>1. ~ (m + i < m + n)
      BY <2>2
    <3> QED
      BY <1>1, <1>3, <2>2, <3>1 DEF Following
  <2> QED
    BY <2>1, <2>2
<1>12. ASSUME NEW i \in DOMAIN j
       PROVE  \E p \in DOMAIN v, a \in Nat \ {0}, k \in Nat \ {0} :
                 IsPiece(v, j[i], p, a, k) /\ Following(v, j, i) = Behind(v, p, a, k)
  <2>1. CASE i \in 1 .. m
    <3>1. PICK p \in DOMAIN w, a \in Nat \ {0}, k \in Nat \ {0} :
            IsPiece(w, l[i], p, a, k) /\ Following(w, l, i) = Behind(w, p, a, k)
      BY <1>1, <1>8, <2>1, Zenon
    <3>2. p \in DOMAIN v /\ v[p] = w[p]
      BY DEF IsLonger
    <3>3. IsPiece(v, l[i], p, a, k) /\ Behind(v, p, a, k) = Behind(w, p, a, k)
      BY <3>1, <3>2, Zenon DEF IsPiece, Behind, SizeOf
    <3>4. i \in 0 .. m /\ j[i] = l[i]
      BY <1>3, <2>1
    <3>5. Following(v, j, i) = Following(w, l, i)
      BY <1>10, <3>4
    <3> QED
      BY <3>1, <3>2, <3>3, <3>4, <3>5, Zenon
  <2>2. CASE \E k \in 1 .. n : i = m + k
    <3>1. PICK h2 \in 1 .. n : i = m + h2
      BY <2>2
    <3>2. PICK p \in DOMAIN v, a \in Nat \ {0}, k \in Nat \ {0} :
            IsPiece(v, u[h2], p, a, k) /\ Following(v, u, h2) = Behind(v, p, a, k)
      BY <1>1, <1>9, <3>1, Zenon
    <3>3. j[i] = u[h2] /\ Following(v, j, i) = Following(v, u, h2)
      BY <1>3, <1>11, <3>1
    <3> QED
      BY <3>2, <3>3, Zenon
  <2> QED
    BY <1>3, <1>4, <2>1, <2>2
<1>13. Gapless(v, j)
  BY <1>5, <1>12, GaplessIs
<1>14. Following(v, j, 0) = Following(w, l, 0)
  BY <1>10
<1> QED
  BY <1>2, <1>5, <1>13, <1>14

(***************************************************************************)
(* _packetize                                                              *)
(***************************************************************************)
LEMMA Ceiling ==
    ASSUME NEW P \in Nat \ {0}, NEW N \in Nat \ {0}, NEW c, c = (N + (P - 1)) \div P
    PROVE  c \in Nat \ {0} /\ c * P >= N /\ (c - 1) * P < N
  OBVIOUS

LEMMA Products ==
    ASSUME NEW P \in Nat \ {0}, NEW i \in Nat, NEW j \in Nat, i <= j
    PROVE  i * P \in Nat /\ i * P <= j * P /\ (i + 1) * P = i * P + P
  OBVIOUS

LEMMA MinIs ==
    ASSUME NEW a \in Int, NEW b \in Int
    PROVE  Min({a, b}) = IF a <= b THEN a ELSE b
<1>1. \E x \in {a, b} : \A y \in {a, b} : x <= y
  OBVIOUS
<1>2. PICK m : m = Min({a, b})
  OBVIOUS
<1>3. m \in {a, b} /\ \A y \in {a, b} : m <= y
  BY <1>1, <1>2 DEF Min
<1> QED
  BY <1>2, <1>3

\* The places at which the parts of n bytes begin.
Start(i) == (i - 1) * Payload + 1

LEMMA PartsAre ==
    ASSUME NEW bytes \in Seq(Byte), NEW size \in Nat \ {0}, Len(bytes) = size
    PROVE  \E c \in Nat \ {0} :
              /\ DOMAIN Packetize(bytes) = 1 .. c
              /\ Start(1) = 1
              /\ \A i \in 1 .. c :
                    /\ Start(i) \in 1 .. size
                    /\ \E n \in 1 .. Payload :
                          /\ Packetize(bytes)[i] \in Seq(Byte) /\ Len(Packetize(bytes)[i]) = n
                          /\ \A k \in 1 .. n : Packetize(bytes)[i][k] = bytes[(Start(i) + k) - 1]
                          /\ (Start(i) + n) - 1 = IF i = c THEN size ELSE Start(i + 1) - 1
<1>1. PICK P \in Nat \ {0} : P = Payload
  BY ReassemblyAssumption
<1>2. PICK c : c = (size + (P - 1)) \div P
  OBVIOUS
<1>3. c \in Nat \ {0} /\ c * P >= size /\ (c - 1) * P < size
  BY <1>2, Ceiling
<1>4. Packetize(bytes) = [i \in 1 .. c |-> SubSeq(bytes, (i - 1) * P + 1, Min({i * P, size}))]
  <2>1. Len(bytes) + Payload - 1 = size + (P - 1)
    BY <1>1
  <2> QED
    BY <1>1, <1>2, <2>1, Zenon DEF Packetize
<1>5. ASSUME NEW i \in 1 .. c
      PROVE  /\ Start(i) \in 1 .. size
             /\ \E n \in 1 .. P :
                   /\ Packetize(bytes)[i] \in Seq(Byte) /\ Len(Packetize(bytes)[i]) = n
                   /\ \A k \in 1 .. n : Packetize(bytes)[i][k] = bytes[(Start(i) + k) - 1]
                   /\ (Start(i) + n) - 1 = IF i = c THEN size ELSE Start(i + 1) - 1
  <2>1. PICK b \in Nat : b = (i - 1) * P /\ b + P = i * P /\ b <= (c - 1) * P
    <3>1. i - 1 \in Nat /\ c - 1 \in Nat /\ i - 1 <= c - 1 /\ (i - 1) + 1 = i
      BY <1>3
    <3> QED
      BY <3>1, Products
  <2>2. PICK e \in Nat : e = IF i = c THEN size ELSE b + P
    OBVIOUS
  <2>3. i # c => b + P <= (c - 1) * P
    <3>1. i # c => i \in Nat /\ c - 1 \in Nat /\ i <= c - 1
      BY <1>3
    <3> QED
      BY <2>1, <3>1, Products
  <2>4. Min({i * P, size}) = e
    <3>1. i = c => b + P >= size
      BY <1>3, <2>1
    <3>2. i # c => b + P < size
      <4>1. PICK x \in Int : x = (c - 1) * P
        BY <1>3
      <4> QED
        BY <1>3, <2>3, <4>1
    <3>3. Min({b + P, size}) = IF b + P <= size THEN b + P ELSE size
      BY MinIs
    <3>4. e = IF b + P <= size THEN b + P ELSE size
      BY <2>2, <3>1, <3>2
    <3> QED
      BY <2>1, <3>3, <3>4, Zenon
  <2>5. b + 1 \in 1 .. size /\ e \in b + 1 .. size /\ e - b \in 1 .. P
    <3>1. PICK x \in Int : x = (c - 1) * P /\ x < size
      BY <1>3
    <3>2. b < size
      BY <2>1, <3>1
    <3>3. i # c => b + P < size
      BY <2>3, <3>1
    <3>4. i = c => size <= b + P
      <4>1. PICK y \in Int : y = c * P /\ y >= size
        BY <1>3
      <4> QED
        BY <2>1, <4>1
    <3> QED
      BY <2>2, <3>2, <3>3, <3>4
  <2>6. Start(i) = b + 1
    BY <1>1, <2>1 DEF Start
  <2>7. Start(i + 1) = (b + P) + 1
    <3>1. (i + 1) - 1 = i
      OBVIOUS
    <3> QED
      BY <1>1, <2>1, <3>1 DEF Start
  <2>8. Packetize(bytes)[i] = SubSeq(bytes, b + 1, e)
    BY <1>4, <2>1, <2>4, Zenon
  <2>9. PICK n \in 1 .. P : n = e - b /\ e = b + n
    BY <2>5
  <2>10. /\ SubSeq(bytes, b + 1, e) \in Seq(Byte) /\ Len(SubSeq(bytes, b + 1, e)) = n
         /\ \A k \in 1 .. n : SubSeq(bytes, b + 1, e)[k] = bytes[b + k]
    BY <2>5, <2>9, SubSeqProperties
  <2>11. PICK s : s = SubSeq(bytes, b + 1, e)
    OBVIOUS
  <2>12. \A k \in 1 .. n : (Start(i) + k) - 1 = b + k
    BY <2>6
  <2>13. /\ s \in Seq(Byte) /\ Len(s) = n
         /\ \A k \in 1 .. n : s[k] = bytes[(Start(i) + k) - 1]
    BY <2>10, <2>11, <2>12
  <2>14. (Start(i) + n) - 1 = IF i = c THEN size ELSE Start(i + 1) - 1
    BY <2>2, <2>6, <2>7, <2>9
  <2> QED
    BY <2>5, <2>6, <2>8, <2>11, <2>13, <2>14
<1>6. DOMAIN Packetize(bytes) = 1 .. c
  BY <1>4
<1>7. Start(1) = 1
  <2>1. (1 - 1) * P = 0
    OBVIOUS
  <2> QED
    BY <1>1, <2>1 DEF Start
<1> QED
  BY <1>1, <1>3, <1>5, <1>6, <1>7

\* The parts of packet p, c of them.
Cut(parts, p, size, c) ==
    /\ DOMAIN parts = 1 .. c /\ Start(1) = 1
    /\ \A i \in 1 .. c :
          /\ Start(i) \in 1 .. size
          /\ \E n \in 1 .. Payload :
                /\ parts[i] \in Seq(Byte) /\ Len(parts[i]) = n
                /\ \A k \in 1 .. n : parts[i][k] = Place(p, (Start(i) + k) - 1)
                /\ (Start(i) + n) - 1 = IF i = c THEN size ELSE Start(i + 1) - 1

LEMMA PacketIs ==
    ASSUME NEW p \in Nat \ {0}, NEW body \in Nat
    PROVE  /\ Packet(p, body) \in Seq(Byte) /\ Len(Packet(p, body)) = Header + body
           /\ \A k \in 1 .. Header + body : Packet(p, body)[k] = Place(p, k)
           /\ \A q \in Seq(Byte) : Holds(q, p, Header + body) => q = Packet(p, body)
<1>1. PICK size \in Nat \ {0} : size = Header + body
  BY ReassemblyAssumption
<1>2. Packet(p, body) = [k \in 1 .. size |-> Place(p, k)]
  BY <1>1 DEF Packet, Place
<1>3. PICK bytes : bytes = [k \in 1 .. size |-> Place(p, k)]
  OBVIOUS
<1>4. bytes \in Seq(Byte) /\ Len(bytes) = size /\ \A k \in 1 .. size : bytes[k] = Place(p, k)
  <2>1. \A k \in 1 .. size : Place(p, k) \in Byte
    BY DEF Place, Byte
  <2>2. bytes \in [1 .. size -> Byte]
    BY <1>3, <2>1
  <2> QED
    BY <1>3, <2>2
<1>5. ASSUME NEW q \in Seq(Byte), Holds(q, p, size) PROVE q = bytes
  <2>1. Len(q) = size /\ \A k \in 1 .. size : q[k] = Place(p, k)
    BY <1>5 DEF Holds
  <2> QED
    BY <1>4, <2>1, SeqEqual
<1> QED
  BY <1>1, <1>2, <1>3, <1>4, <1>5, Zenon

LEMMA PacketIsCut ==
    ASSUME NEW p \in Nat \ {0}, NEW body \in Nat
    PROVE  \E c \in Nat \ {0} : Cut(Packetize(Packet(p, body)), p, Header + body, c)
<1>1. PICK size \in Nat \ {0} : size = Header + body
  BY ReassemblyAssumption
<1>2. PICK bytes \in Seq(Byte) : /\ bytes = Packet(p, body) /\ Len(bytes) = size
                                 /\ \A k \in 1 .. size : bytes[k] = Place(p, k)
  BY <1>1, PacketIs
<1>3. PICK c \in Nat \ {0} :
        /\ DOMAIN Packetize(bytes) = 1 .. c
        /\ Start(1) = 1
        /\ \A i \in 1 .. c :
              /\ Start(i) \in 1 .. size
              /\ \E n \in 1 .. Payload :
                    /\ Packetize(bytes)[i] \in Seq(Byte) /\ Len(Packetize(bytes)[i]) = n
                    /\ \A k \in 1 .. n : Packetize(bytes)[i][k] = bytes[(Start(i) + k) - 1]
                    /\ (Start(i) + n) - 1 = IF i = c THEN size ELSE Start(i + 1) - 1
  <2>1. Len(bytes) = size
    BY <1>2
  <2> QED
    BY <2>1, PartsAre, Zenon
<1>4. PICK parts :
        /\ parts = Packetize(bytes)
        /\ DOMAIN parts = 1 .. c
        /\ \A i \in 1 .. c :
              /\ Start(i) \in 1 .. size
              /\ \E n \in 1 .. Payload :
                    /\ parts[i] \in Seq(Byte) /\ Len(parts[i]) = n
                    /\ \A k \in 1 .. n : parts[i][k] = bytes[(Start(i) + k) - 1]
                    /\ (Start(i) + n) - 1 = IF i = c THEN size ELSE Start(i + 1) - 1
  BY <1>3, Zenon
<1>5. ASSUME NEW i \in 1 .. c
      PROVE  \E n \in 1 .. Payload :
                /\ parts[i] \in Seq(Byte) /\ Len(parts[i]) = n
                /\ \A k \in 1 .. n : parts[i][k] = Place(p, (Start(i) + k) - 1)
                /\ (Start(i) + n) - 1 = IF i = c THEN size ELSE Start(i + 1) - 1
  <2>1. PICK n \in 1 .. Payload :
          /\ parts[i] \in Seq(Byte) /\ Len(parts[i]) = n
          /\ \A k \in 1 .. n : parts[i][k] = bytes[(Start(i) + k) - 1]
          /\ (Start(i) + n) - 1 = IF i = c THEN size ELSE Start(i + 1) - 1
    BY <1>4
  <2>2. PICK a \in 1 .. size : a = Start(i)
    BY <1>4
  <2>3. n \in Nat \ {0}
    BY ReassemblyAssumption
  <2>4. (a + n) - 1 <= size
    <3>1. i # c => i + 1 \in 1 .. c
      OBVIOUS
    <3>2. i # c => Start(i + 1) \in 1 .. size
      BY <1>4, <3>1
    <3> QED
      BY <2>1, <2>2, <3>2
  <2>5. \A k \in 1 .. n : (a + k) - 1 \in 1 .. size
    BY <2>3, <2>4
  <2>6. \A k \in 1 .. n : parts[i][k] = Place(p, (Start(i) + k) - 1)
    BY <1>2, <2>1, <2>2, <2>5
  <2> QED
    BY <2>1, <2>6
<1>6. Cut(parts, p, size, c)
  BY <1>3, <1>4, <1>5, Zenon DEF Cut
<1> QED
  BY <1>1, <1>2, <1>4, <1>6, Zenon

\* The telegrams of a new packet.
LEMMA LineOfCut ==
    ASSUME NEW v \in Seq(Written), NEW p \in DOMAIN v, p = Len(v), NEW parts, NEW c \in Nat \ {0},
           Cut(parts, p, SizeOf(v, p), c), NEW u,
           DOMAIN u = 1 .. c, u \in Seq(Telegram),
           \A i \in 1 .. c : u[i].bytes = parts[i] /\ u[i].dest = v[p].dest
    PROVE  /\ IsLine(u) /\ \A i \in DOMAIN u : Len(u[i].bytes) \in 1 .. Payload
           /\ u # <<>> /\ Gapless(v, u) /\ Following(v, u, 0) = Place(p, 1)
<1>1. PICK size \in Nat \ {0} : /\ size = SizeOf(v, p) /\ size = Header + v[p].body
                                /\ p \in Nat \ {0}
  BY SizeIs
<1>2. Len(u) = c
  BY LenProperties
<1>3. PICK P \in Nat \ {0} : P = Payload
  BY ReassemblyAssumption
<1>4. /\ Start(1) = 1
      /\ \A i \in 1 .. c :
            /\ Start(i) \in 1 .. size
            /\ \E n \in 1 .. P :
                  /\ parts[i] \in Seq(Byte) /\ Len(parts[i]) = n
                  /\ \A k \in 1 .. n : parts[i][k] = Place(p, (Start(i) + k) - 1)
                  /\ (Start(i) + n) - 1 = IF i = c THEN size ELSE Start(i + 1) - 1
  BY <1>1, <1>3, Zenon DEF Cut
<1>5. ASSUME NEW i \in 1 .. c PROVE Len(u[i].bytes) \in 1 .. P
  <2>1. u[i].bytes = parts[i]
    OBVIOUS
  <2>2. PICK n \in 1 .. P : Len(parts[i]) = n
    BY <1>4
  <2> QED
    BY <2>1, <2>2
<1>6. IsLine(u)
  BY <1>5 DEF IsLine
<1>7. u # <<>>
  BY <1>2, EmptySeq
<1>8. ASSUME NEW i \in 1 .. c
      PROVE  \E a \in 1 .. size, n \in 1 .. P :
                /\ a = Start(i) /\ IsPiece(v, u[i], p, a, n)
                /\ (a + n) - 1 = IF i = c THEN size ELSE Start(i + 1) - 1
  <2>1. PICK n \in 1 .. P :
          /\ parts[i] \in Seq(Byte) /\ Len(parts[i]) = n
          /\ \A k \in 1 .. n : parts[i][k] = Place(p, (Start(i) + k) - 1)
          /\ (Start(i) + n) - 1 = IF i = c THEN size ELSE Start(i + 1) - 1
    BY <1>4
  <2>2. PICK a \in 1 .. size : a = Start(i)
    BY <1>4
  <2>3. (a + n) - 1 <= size
    <3>1. i # c => i + 1 \in 1 .. c
      OBVIOUS
    <3>2. i # c => Start(i + 1) \in 1 .. size
      BY <1>4, <3>1
    <3> QED
      BY <2>1, <2>2, <3>2
  <2>4. parts[i][1] = Place(p, a)
    <3>1. 1 \in 1 .. n /\ (a + 1) - 1 = a
      OBVIOUS
    <3> QED
      BY <2>1, <2>2, <3>1
  <2>5. IsPiece(v, u[i], p, a, n)
    BY <1>1, <2>1, <2>2, <2>3, <2>4, Zenon DEF IsPiece
  <2> QED
    BY <2>1, <2>2, <2>5
<1>9. ASSUME NEW i \in DOMAIN u
      PROVE  \E x \in DOMAIN v, a \in Nat \ {0}, n \in Nat \ {0} :
                IsPiece(v, u[i], x, a, n) /\ Following(v, u, i) = Behind(v, x, a, n)
  <2>1. i \in 1 .. c
    OBVIOUS
  <2>2. PICK a \in 1 .. size, n \in 1 .. P :
          /\ a = Start(i) /\ IsPiece(v, u[i], p, a, n)
          /\ (a + n) - 1 = IF i = c THEN size ELSE Start(i + 1) - 1
    BY <1>8, <2>1
  <2>3. CASE i = c
    <3>1. Following(v, u, i) = Place(p + 1, 1)
      BY <1>2, <2>3 DEF Following
    <3>2. Behind(v, p, a, n) = Place(p + 1, 1)
      BY <1>1, <2>2, <2>3 DEF Behind
    <3> QED
      BY <2>2, <3>1, <3>2
  <2>4. CASE i # c
    <3>1. i + 1 \in 1 .. c /\ i < c
      BY <2>1, <2>4
    <3>2. PICK b \in 1 .. size, k \in 1 .. P : b = Start(i + 1) /\ IsPiece(v, u[i + 1], p, b, k)
      BY <1>8, <3>1
    <3>3. Following(v, u, i) = Place(p, b)
      BY <1>2, <3>1, <3>2 DEF Following, IsPiece
    <3>4. a + n = b /\ (a + n) - 1 # size
      <4>1. (a + n) - 1 = b - 1
        BY <2>2, <2>4, <3>2
      <4> QED
        BY <4>1
    <3>5. Behind(v, p, a, n) = Place(p, b)
      BY <1>1, <3>4 DEF Behind
    <3> QED
      BY <2>2, <3>3, <3>5
  <2> QED
    BY <2>3, <2>4
<1>10. Gapless(v, u)
  BY <1>6, <1>9, GaplessIs
<1>11. Following(v, u, 0) = Place(p, 1)
  <2>1. 1 \in 1 .. c /\ 0 < c /\ 0 + 1 = 1
    OBVIOUS
  <2>2. PICK a \in 1 .. size, n \in 1 .. P : a = Start(1) /\ IsPiece(v, u[1], p, a, n)
    BY <1>8, <2>1
  <2>3. u[1].bytes[1] = Place(p, 1)
    BY <1>4, <2>2 DEF IsPiece
  <2> QED
    BY <1>2, <2>1, <2>3 DEF Following
<1> QED
  BY <1>3, <1>5, <1>6, <1>7, <1>10, <1>11

LinesOf(v, p, parts, u) ==
    /\ parts = Packetize(Packet(p, v[p].body))
    /\ u = [i \in DOMAIN parts |-> [dest |-> v[p].dest, bytes |-> parts[i]]]

LEMMA LineOfPacket ==
    ASSUME NEW v \in Seq(Written), NEW p \in DOMAIN v, p = Len(v), NEW parts, NEW u,
           LinesOf(v, p, parts, u)
    PROVE  /\ IsLine(u) /\ \A i \in DOMAIN u : Len(u[i].bytes) \in 1 .. Payload
           /\ u # <<>> /\ Gapless(v, u) /\ Following(v, u, 0) = Place(p, 1)
<1>1. /\ SizeOf(v, p) = Header + v[p].body /\ p \in Nat \ {0} /\ v[p].dest \in Dest
      /\ v[p].body \in Nat
  BY SizeIs
<1>2. PICK c \in Nat \ {0} : Cut(parts, p, SizeOf(v, p), c)
  <2>1. parts = Packetize(Packet(p, v[p].body))
    BY Zenon DEF LinesOf
  <2> QED
    BY <1>1, <2>1, PacketIsCut
<1>3. DOMAIN parts = 1 .. c /\ \A i \in 1 .. c : parts[i] \in Seq(Byte)
  BY <1>2, Zenon DEF Cut
<1>4. PICK d \in Dest : d = v[p].dest
  BY <1>1
<1>5. u = [i \in 1 .. c |-> [dest |-> d, bytes |-> parts[i]]]
  <2>1. u = [i \in DOMAIN parts |-> [dest |-> v[p].dest, bytes |-> parts[i]]]
    BY Zenon DEF LinesOf
  <2> QED
    BY <1>3, <1>4, <2>1
<1>6. \A i \in 1 .. c : u[i] \in Telegram /\ u[i].bytes = parts[i] /\ u[i].dest = d
  BY <1>3, <1>5 DEF Telegram
<1>7. u \in Seq(Telegram) /\ DOMAIN u = 1 .. c
  <2>1. u \in [1 .. c -> Telegram]
    BY <1>5, <1>6
  <2> QED
    BY <2>1
<1>8. \A i \in 1 .. c : u[i].bytes = parts[i] /\ u[i].dest = v[p].dest
  BY <1>4, <1>6
<1> QED
  BY <1>2, <1>7, <1>8, LineOfCut

(***************************************************************************)
(* One sender: its packets w, its telegrams l, the numbers m of the        *)
(* packets for this receiver, its ring q and what came out of it g.        *)
(***************************************************************************)
\* Where the line goes on.
LEMMA NextIs ==
    ASSUME NEW w \in Seq(Written), NEW l, IsLine(l), Gapless(w, l)
    PROVE  \E x \in Nat \ {0}, a \in Nat \ {0} :
              /\ Following(w, l, 0) = Place(x, a) /\ x <= Len(w) + 1
              /\ x \in DOMAIN w => a <= SizeOf(w, x)
              /\ x \notin DOMAIN w => x = Len(w) + 1 /\ a = 1
              /\ l = <<>> => x = Len(w) + 1
<1>1. PICK N \in Nat : N = Len(w) /\ DOMAIN w = 1 .. N
  BY LenProperties
<1>2. CASE l = <<>>
  <2>1. Following(w, l, 0) = Place(N + 1, 1)
    BY <1>1, <1>2 DEF Following
  <2> QED
    BY <1>1, <1>2, <2>1
<1>3. CASE l # <<>>
  <2>1. 1 \in DOMAIN l /\ Len(l) \in Nat \ {0}
    BY <1>3, LenProperties, EmptySeq DEF IsLine
  <2>2. PICK p \in DOMAIN w, a \in Nat \ {0}, n \in Nat \ {0} : IsPiece(w, l[1], p, a, n)
    BY <2>1, GaplessAt
  <2>3. Following(w, l, 0) = Place(p, a)
    <3>1. l[1].bytes[1] = Place(p, a)
      BY <2>2 DEF IsPiece
    <3> QED
      BY <2>1, <3>1 DEF Following
  <2>4. a <= SizeOf(w, p)
    <3>1. PICK z \in Nat : z = SizeOf(w, p)
      BY SizeIs
    <3>2. (a + n) - 1 <= z
      BY <2>2, <3>1 DEF IsPiece
    <3> QED
      BY <3>1, <3>2
  <2>5. p \in Nat \ {0} /\ p <= Len(w) + 1
    BY <1>1
  <2> QED
    BY <1>3, <2>3, <2>4, <2>5
<1> QED
  BY <1>2, <1>3

\* Its first telegram, with n bytes from place a of packet p on.
LEMMA HeadIs ==
    ASSUME NEW w \in Seq(Written), NEW l, IsLine(l), Gapless(w, l), l # <<>>
    PROVE  \E p \in DOMAIN w, a \in Nat \ {0}, n \in Nat \ {0} :
              /\ IsPiece(w, Head(l), p, a, n) /\ Following(w, l, 0) = Place(p, a)
              /\ Head(l).bytes \in Seq(Byte) /\ Head(l).dest = w[p].dest
              /\ Following(w, Tail(l), 0) = Behind(w, p, a, n)
<1>1. 1 \in DOMAIN l /\ Len(l) \in Nat \ {0} /\ Head(l) = l[1] /\ l[1] \in Telegram
  BY LenProperties, EmptySeq, HeadTailProperties DEF IsLine
<1>2. PICK p \in DOMAIN w, a \in Nat \ {0}, n \in Nat \ {0} :
        IsPiece(w, l[1], p, a, n) /\ Following(w, l, 1) = Behind(w, p, a, n)
  BY <1>1, GaplessAt
<1>3. Following(w, Tail(l), 0) = Following(w, l, 1)
  BY LineCut
<1>4. Following(w, l, 0) = Place(p, a)
  <2>1. l[1].bytes[1] = Place(p, a)
    BY <1>2 DEF IsPiece
  <2> QED
    BY <1>1, <2>1 DEF Following
<1>5. l[1].bytes \in Seq(Byte) /\ l[1].dest = w[p].dest
  BY <1>1, <1>2 DEF IsPiece, Telegram
<1> QED
  BY <1>1, <1>2, <1>3, <1>4, <1>5

\* Between and Complete, with the place of the next byte named.
BetweenAt(w, m, q, g, x, a) ==
    OutBefore(w, m, g, x) /\ Holds(q, x, IF x \in DOMAIN w /\ w[x].dest # "other" THEN a - 1 ELSE 0)
CompleteAt(w, m, q, g, p) ==
    p \in DOMAIN w /\ w[p].dest # "other" /\ OutBefore(w, m, g, p) /\ Holds(q, p, SizeOf(w, p))

LEMMA BetweenIs ==
    ASSUME NEW w, NEW l, NEW m, NEW q, NEW g, NEW x \in Nat, NEW a \in Nat,
           Following(w, l, 0) = Place(x, a)
    PROVE  /\ Between(w, l, m, q, g) <=> BetweenAt(w, m, q, g, x, a)
           /\ Complete(w, l, m, q, g) <=> a = 1 /\ CompleteAt(w, m, q, g, x - 1)
<1>1. Following(w, l, 0).pkt = x /\ Following(w, l, 0).at = a
  BY PlaceIs
<1> QED
  BY <1>1, Zenon DEF Between, BetweenAt, Complete, CompleteAt

\* The packets for this receiver are in order.
LEMMA NumberIs ==
    ASSUME NEW w \in Seq(Written), NEW m \in Seq(Nat), Numbers(w, m), NEW i \in DOMAIN m
    PROVE  m[i] \in DOMAIN w /\ w[m[i]].dest # "other" /\ m[i] \in Nat /\ i \in Nat /\ i >= 1
<1>1. m[i] \in DOMAIN w
  BY Zenon DEF Numbers
<1>2. \E j \in DOMAIN m : m[j] = m[i]
  OBVIOUS
<1>3. w[m[i]].dest # "other"
  BY <1>1, <1>2, Zenon DEF Numbers
<1> QED
  BY <1>1, <1>3, LenProperties

\* n are the numbers m and, unless the new packet is for others, its number.
NewNumbers(w, d, m, n) == n = IF d = "other" THEN m ELSE Append(m, Len(w) + 1)

LEMMA NumbersGrow ==
    ASSUME NEW w \in Seq(Written), NEW v \in Seq(Written), IsLonger(v, w), NEW m \in Seq(Nat),
           Numbers(w, m), NEW n, NewNumbers(w, v[Len(v)].dest, m, n)
    PROVE  /\ n \in Seq(Nat) /\ Numbers(v, n) /\ Len(m) <= Len(n)
           /\ \A i \in DOMAIN m : i \in DOMAIN n /\ n[i] = m[i]
           /\ \A i \in DOMAIN n : i \notin DOMAIN m => n[i] = Len(w) + 1 /\ i > Len(m)
<1>1. PICK N \in Nat, M \in Nat : /\ N = Len(w) /\ DOMAIN w = 1 .. N /\ Len(v) = N + 1
                                  /\ DOMAIN v = 1 .. N + 1 /\ M = Len(m) /\ DOMAIN m = 1 .. M
  BY LenProperties DEF IsLonger
<1>2. PICK d : d = v[N + 1].dest
  OBVIOUS
<1>3. n = IF d = "other" THEN m ELSE Append(m, N + 1)
  BY <1>1, <1>2 DEF NewNumbers
<1>4. \A p \in 1 .. N : v[p] = w[p]
  BY <1>1 DEF IsLonger
<1>5. \A i \in 1 .. M : m[i] \in 1 .. N
  BY <1>1, NumberIs
<1>6. CASE d = "other"
  <2>1. Numbers(v, m)
    <3>1. ASSUME NEW p \in 1 .. N + 1
          PROVE  v[p].dest # "other" <=> \E i \in DOMAIN m : m[i] = p
      <4>1. CASE p \in 1 .. N
        BY <1>1, <1>4, <4>1 DEF Numbers
      <4>2. CASE p = N + 1
        <5>1. ~ \E i \in DOMAIN m : m[i] = p
          BY <1>1, <1>5, <4>2
        <5> QED
          BY <1>2, <1>6, <4>2, <5>1
      <4> QED
        BY <4>1, <4>2
    <3>2. \A i \in DOMAIN m : m[i] \in DOMAIN v
      BY <1>1, <1>5
    <3>3. \A i, j \in DOMAIN m : i < j => m[i] < m[j]
      BY DEF Numbers
    <3> QED
      BY <1>1, <3>1, <3>2, <3>3, Zenon DEF Numbers
  <2> QED
    BY <1>1, <1>3, <1>6, <2>1
<1>7. CASE d # "other"
  <2>1. /\ n \in Seq(Nat) /\ Len(n) = M + 1 /\ DOMAIN n = 1 .. M + 1
        /\ n[M + 1] = N + 1 /\ \A i \in 1 .. M : n[i] = m[i]
    BY <1>1, <1>3, <1>7, AppendProperties, LenProperties
  <2>2. Numbers(v, n)
    <3>1. ASSUME NEW p \in 1 .. N + 1
          PROVE  v[p].dest # "other" <=> \E i \in DOMAIN n : n[i] = p
      <4>1. CASE p \in 1 .. N
        <5>1. v[p].dest # "other" <=> \E i \in 1 .. M : m[i] = p
          BY <1>1, <1>4, <4>1 DEF Numbers
        <5>2. n[M + 1] # p
          BY <2>1, <4>1
        <5>3. (\E i \in 1 .. M : m[i] = p) => \E i \in 1 .. M + 1 : n[i] = p
          BY <2>1
        <5>4. (\E i \in 1 .. M + 1 : n[i] = p) => \E i \in 1 .. M : m[i] = p
          <6> SUFFICES ASSUME NEW i \in 1 .. M + 1, n[i] = p PROVE i \in 1 .. M /\ m[i] = p
            OBVIOUS
          <6>1. i # M + 1
            BY <5>2
          <6>2. i \in 1 .. M
            BY <6>1
          <6> QED
            BY <2>1, <6>2
        <5> QED
          BY <2>1, <5>1, <5>3, <5>4
      <4>2. CASE p = N + 1
        <5>1. M + 1 \in 1 .. M + 1
          OBVIOUS
        <5> QED
          BY <1>2, <1>7, <2>1, <4>2, <5>1
      <4> QED
        BY <4>1, <4>2
    <3>2. ASSUME NEW i \in 1 .. M + 1 PROVE n[i] \in 1 .. N + 1
      <4>1. CASE i = M + 1
        BY <2>1, <4>1
      <4>2. CASE i # M + 1
        <5>1. i \in 1 .. M
          BY <4>2
        <5>2. n[i] = m[i] /\ m[i] \in 1 .. N
          BY <1>5, <2>1, <5>1
        <5> QED
          BY <5>2
      <4> QED
        BY <4>1, <4>2
    <3>3. ASSUME NEW i \in 1 .. M + 1, NEW j \in 1 .. M + 1, i < j PROVE n[i] < n[j]
      <4>1. i \in 1 .. M /\ n[i] = m[i] /\ m[i] \in 1 .. N
        BY <1>5, <2>1, <3>3
      <4>2. CASE j = M + 1
        BY <2>1, <4>1, <4>2
      <4>3. CASE j \in 1 .. M
        <5>1. m[i] < m[j]
          BY <1>1, <3>3, <4>1, <4>3 DEF Numbers
        <5> QED
          BY <2>1, <4>1, <4>3, <5>1
      <4> QED
        BY <4>2, <4>3
    <3> QED
      BY <1>1, <2>1, <3>1, <3>2, <3>3, Zenon DEF Numbers
  <2>3. \A i \in 1 .. M + 1 : i \notin 1 .. M => n[i] = N + 1 /\ i > M
    BY <2>1
  <2> QED
    BY <1>1, <2>1, <2>2, <2>3
<1> QED
  BY <1>6, <1>7

LEMMA OutBeforeGrows ==
    ASSUME NEW w \in Seq(Written), NEW v \in Seq(Written), IsLonger(v, w), NEW m \in Seq(Nat),
           Numbers(w, m), NEW n, NewNumbers(w, v[Len(v)].dest, m, n),
           NEW g \in Seq(Seq(Byte)), NEW x \in Nat, x <= Len(w) + 1, OutBefore(w, m, g, x)
    PROVE  OutBefore(v, n, g, x)
<1>1. PICK N \in Nat, M \in Nat, G \in Nat :
        N = Len(w) /\ M = Len(m) /\ G = Len(g) /\ DOMAIN m = 1 .. M /\ DOMAIN g = 1 .. G
  BY LenProperties
<1>2. /\ n \in Seq(Nat) /\ M <= Len(n)
      /\ \A i \in DOMAIN m : i \in DOMAIN n /\ n[i] = m[i]
      /\ \A i \in DOMAIN n : i \notin DOMAIN m => n[i] = N + 1 /\ i > M
  BY <1>1, NumbersGrow
<1>3. /\ \A i \in DOMAIN m : i <= G <=> m[i] < x
      /\ G <= M /\ \A i \in DOMAIN g : g[i] = Packet(m[i], w[m[i]].body)
  BY <1>1, Zenon DEF OutBefore
<1>4. ASSUME NEW i \in DOMAIN n PROVE i <= G <=> n[i] < x
  <2>1. CASE i \in DOMAIN m
    BY <1>2, <1>3, <2>1
  <2>2. CASE i \notin DOMAIN m
    <3>1. n[i] = N + 1 /\ i > M /\ i \in Nat
      BY <1>2, <2>2, LenProperties
    <3>2. ~ (i <= G) /\ ~ (N + 1 < x)
      BY <1>1, <1>3, <3>1
    <3> QED
      BY <3>1, <3>2
  <2> QED
    BY <2>1, <2>2
<1>5. G <= Len(n)
  BY <1>2, <1>3, LenProperties
<1>6. ASSUME NEW i \in DOMAIN g PROVE g[i] = Packet(n[i], v[n[i]].body)
  <2>1. i \in DOMAIN m
    BY <1>1, <1>3
  <2>2. n[i] = m[i] /\ m[i] \in DOMAIN w
    BY <1>2, <2>1, NumberIs
  <2>3. v[m[i]] = w[m[i]]
    BY <2>2 DEF IsLonger
  <2> QED
    BY <1>3, <2>2, <2>3
<1> QED
  BY <1>1, <1>4, <1>5, <1>6, Zenon DEF OutBefore

\* A packet is written: the receiver does not see it yet.
LEMMA WriteKeeps ==
    ASSUME NEW w \in Seq(Written), NEW v \in Seq(Written), IsLonger(v, w), NEW m \in Seq(Nat),
           Numbers(w, m), NEW n, NewNumbers(w, v[Len(v)].dest, m, n),
           NEW g \in Seq(Seq(Byte)), NEW q \in Seq(Byte), NEW l, IsLine(l), Gapless(w, l),
           NEW j, Following(v, j, 0) = Following(w, l, 0)
    PROVE  /\ Between(w, l, m, q, g) => Between(v, j, n, q, g)
           /\ Complete(w, l, m, q, g) => Complete(v, j, n, q, g)
<1>1. PICK x \in Nat \ {0}, a \in Nat \ {0} :
        /\ Following(w, l, 0) = Place(x, a) /\ x <= Len(w) + 1
        /\ x \notin DOMAIN w => x = Len(w) + 1 /\ a = 1
  BY NextIs
<1>2. Following(v, j, 0) = Place(x, a)
  BY <1>1
<1>3. PICK y \in Nat : y = x - 1
  OBVIOUS
<1>4. \A p \in DOMAIN w : p \in DOMAIN v /\ v[p] = w[p]
  BY DEF IsLonger
<1>5. BetweenAt(w, m, q, g, x, a) => BetweenAt(v, n, q, g, x, a)
  <2> SUFFICES ASSUME BetweenAt(w, m, q, g, x, a) PROVE BetweenAt(v, n, q, g, x, a)
    OBVIOUS
  <2>1. OutBefore(v, n, g, x)
    BY <1>1, OutBeforeGrows DEF BetweenAt
  <2>2. CASE x \in DOMAIN w
    BY <1>4, <2>1, <2>2, Zenon DEF BetweenAt
  <2>3. CASE x \notin DOMAIN w
    <3>1. Holds(q, x, 0) /\ a - 1 = 0
      BY <1>1, <2>3 DEF BetweenAt
    <3> QED
      BY <2>1, <3>1, Zenon DEF BetweenAt
  <2> QED
    BY <2>2, <2>3
<1>6. CompleteAt(w, m, q, g, y) => CompleteAt(v, n, q, g, y)
  <2> SUFFICES ASSUME CompleteAt(w, m, q, g, y) PROVE CompleteAt(v, n, q, g, y)
    OBVIOUS
  <2>1. y \in DOMAIN v /\ v[y] = w[y]
    BY <1>4 DEF CompleteAt
  <2>2. OutBefore(v, n, g, y)
    <3>1. y <= Len(w) + 1
      BY LenProperties DEF CompleteAt
    <3> QED
      BY <3>1, OutBeforeGrows DEF CompleteAt
  <2> QED
    BY <2>1, <2>2, Zenon DEF CompleteAt, SizeOf
<1> QED
  <2>1. /\ Between(w, l, m, q, g) <=> BetweenAt(w, m, q, g, x, a)
        /\ Complete(w, l, m, q, g) <=> a = 1 /\ CompleteAt(w, m, q, g, x - 1)
    BY <1>1, BetweenIs, Zenon
  <2>2. /\ Between(v, j, n, q, g) <=> BetweenAt(v, n, q, g, x, a)
        /\ Complete(v, j, n, q, g) <=> a = 1 /\ CompleteAt(v, n, q, g, x - 1)
    BY <1>2, BetweenIs, Zenon
  <2> QED
    BY <1>3, <1>5, <1>6, <2>1, <2>2, Zenon

\* A telegram for others leaves the line.
LEMMA SkipKeeps ==
    ASSUME NEW w \in Seq(Written), NEW m \in Seq(Nat), Numbers(w, m),
           NEW g \in Seq(Seq(Byte)), NEW q \in Seq(Byte), NEW l, IsLine(l), Gapless(w, l),
           l # <<>>, Head(l).dest = "other", Between(w, l, m, q, g)
    PROVE  Between(w, Tail(l), m, q, g)
<1>1. PICK p \in DOMAIN w, a \in Nat \ {0}, n \in Nat \ {0} :
        /\ Following(w, l, 0) = Place(p, a) /\ Head(l).dest = w[p].dest
        /\ Following(w, Tail(l), 0) = Behind(w, p, a, n)
  BY HeadIs
<1>2. p \in Nat /\ w[p].dest = "other"
  BY <1>1, SizeIs
<1>3. BetweenAt(w, m, q, g, p, a)
  BY <1>1, <1>2, BetweenIs
<1>4. OutBefore(w, m, g, p) /\ Len(q) = 0
  BY <1>2, <1>3, Zenon DEF BetweenAt, Holds
<1>5. \A y, b : Holds(q, y, IF y \in DOMAIN w /\ w[y].dest # "other" THEN 1 - 1 ELSE 0)
  BY <1>4 DEF Holds
<1>6. CASE Following(w, Tail(l), 0) = Place(p + 1, 1)
  <2>1. ASSUME NEW i \in DOMAIN m PROVE m[i] < p + 1 <=> m[i] < p
    <3>1. m[i] \in Nat /\ m[i] # p
      BY <1>2, NumberIs
    <3> QED
      BY <1>2, <3>1
  <2>2. OutBefore(w, m, g, p + 1)
    BY <1>4, <2>1, Zenon DEF OutBefore
  <2>3. PICK y \in Nat : y = p + 1
    BY <1>2
  <2>4. BetweenAt(w, m, q, g, y, 1)
    BY <1>5, <2>2, <2>3, Zenon DEF BetweenAt
  <2> QED
    BY <1>6, <2>3, <2>4, BetweenIs
<1>7. CASE Following(w, Tail(l), 0) = Place(p, a + n)
  <2>1. PICK b \in Nat : b = a + n
    OBVIOUS
  <2>2. BetweenAt(w, m, q, g, p, b)
    BY <1>2, <1>3, Zenon DEF BetweenAt
  <2> QED
    BY <1>2, <1>7, <2>1, <2>2, BetweenIs
<1> QED
  BY <1>1, <1>6, <1>7, Zenon DEF Behind

\* _recompose: the telegram is put behind what the ring holds. Together they
\* are no more than a packet.
LEMMA RecomposeKeeps ==
    ASSUME NEW w \in Seq(Written), NEW m, NEW g,
           NEW q \in Seq(Byte), NEW l, IsLine(l), Gapless(w, l),
           l # <<>>, Head(l).dest # "other", Between(w, l, m, q, g)
    PROVE  /\ \/ Between(w, Tail(l), m, Cat(q, Head(l).bytes), g)
              \/ Complete(w, Tail(l), m, Cat(q, Head(l).bytes), g)
           /\ \E p \in DOMAIN w : Len(q) + Len(Head(l).bytes) <= SizeOf(w, p)
<1>1. PICK p \in DOMAIN w, a \in Nat \ {0}, n \in Nat \ {0}, b \in Seq(Byte) :
        /\ IsPiece(w, Head(l), p, a, n) /\ Following(w, l, 0) = Place(p, a)
        /\ b = Head(l).bytes /\ Head(l).dest = w[p].dest
        /\ Following(w, Tail(l), 0) = Behind(w, p, a, n)
  BY HeadIs
<1>2. PICK z \in Nat : z = SizeOf(w, p) /\ p \in Nat
  BY SizeIs
<1>3. w[p].dest # "other"
  BY <1>1
<1>4. Len(b) = n /\ (a + n) - 1 <= z /\ \A k \in 1 .. n : b[k] = Place(p, (a + k) - 1)
  BY <1>1, <1>2, Zenon DEF IsPiece
<1>5. BetweenAt(w, m, q, g, p, a)
  BY <1>1, <1>2, BetweenIs
<1>6. OutBefore(w, m, g, p) /\ Len(q) = a - 1 /\ \A k \in 1 .. a - 1 : q[k] = Place(p, k)
  BY <1>3, <1>5, Zenon DEF BetweenAt, Holds
<1>7. PICK c \in Nat, e \in Nat : c = a - 1 /\ e = c + n /\ e = (a + n) - 1 /\ Len(q) = c
  BY <1>6
<1>8. /\ Cat(q, b) \in Seq(Byte) /\ Len(Cat(q, b)) = c + n
      /\ \A k \in 1 .. c : Cat(q, b)[k] = q[k]
      /\ \A k \in 1 .. n : Cat(q, b)[c + k] = b[k]
      /\ \A i \in 1 .. c + n : i \in 1 .. c \/ \E k \in 1 .. n : i = c + k
  <2>1. Len(q) = c /\ Len(b) = n
    BY <1>4, <1>7
  <2> QED
    BY <2>1, CatIs
<1>9. PICK y \in Seq(Byte) : y = Cat(q, b)
  BY <1>8
<1>10. Holds(y, p, e)
  <2>1. /\ Len(y) = c + n
        /\ \A k \in 1 .. c : y[k] = q[k]
        /\ \A k \in 1 .. n : y[c + k] = b[k]
        /\ \A i \in 1 .. c + n : i \in 1 .. c \/ \E k \in 1 .. n : i = c + k
    BY <1>8, <1>9
  <2>2. ASSUME NEW i \in 1 .. c + n PROVE y[i] = Place(p, i)
    <3>1. CASE i \in 1 .. c
      BY <1>6, <1>7, <2>1, <3>1
    <3>2. CASE \E k \in 1 .. n : i = c + k
      <4>1. PICK k \in 1 .. n : i = c + k
        BY <3>2
      <4>2. (a + k) - 1 = i
        BY <1>7, <4>1
      <4>3. y[i] = b[k]
        BY <2>1, <4>1
      <4>4. b[k] = Place(p, (a + k) - 1)
        BY <1>4
      <4> QED
        BY <4>2, <4>3, <4>4
    <3> QED
      BY <2>1, <3>1, <3>2
  <2> QED
    BY <1>7, <2>1, <2>2 DEF Holds
<1>11. Len(q) + Len(Head(l).bytes) <= SizeOf(w, p)
  <2>1. c + n <= z
    BY <1>4, <1>7
  <2> QED
    BY <1>1, <1>2, <1>4, <1>7, <2>1, Zenon
<1>12. CASE e = z
  <2>1. Following(w, Tail(l), 0) = Place(p + 1, 1)
    BY <1>1, <1>2, <1>7, <1>12, Zenon DEF Behind
  <2>2. CompleteAt(w, m, y, g, p)
    BY <1>2, <1>3, <1>6, <1>10, <1>12, Zenon DEF CompleteAt
  <2>3. PICK x \in Nat : x = p + 1 /\ x - 1 = p
    BY <1>2
  <2>4. Complete(w, Tail(l), m, y, g) <=> 1 = 1 /\ CompleteAt(w, m, y, g, x - 1)
    BY <2>1, <2>3, BetweenIs
  <2>5. Complete(w, Tail(l), m, y, g)
    BY <2>2, <2>3, <2>4, Zenon
  <2> QED
    BY <1>1, <1>9, <1>11, <2>5, Zenon
<1>13. CASE e # z
  <2>1. Following(w, Tail(l), 0) = Place(p, a + n)
    BY <1>1, <1>2, <1>7, <1>13, Zenon DEF Behind
  <2>2. PICK x \in Nat : x = a + n /\ x - 1 = e
    BY <1>7
  <2>3. BetweenAt(w, m, y, g, p, x)
    BY <1>3, <1>6, <1>10, <2>2, Zenon DEF BetweenAt
  <2>4. Between(w, Tail(l), m, y, g)
    BY <1>2, <2>1, <2>2, <2>3, BetweenIs
  <2> QED
    BY <1>1, <1>9, <1>11, <2>4, Zenon
<1> QED
  BY <1>12, <1>13

\* What the ring of a sender holds before read() has its packet.
LEMMA CompleteRing ==
    ASSUME NEW w \in Seq(Written), NEW l, IsLine(l), Gapless(w, l), NEW m, NEW g,
           NEW q \in Seq(Byte), Complete(w, l, m, q, g)
    PROVE  \E p \in DOMAIN w : /\ Following(w, l, 0) = Place(p + 1, 1)
                               /\ CompleteAt(w, m, q, g, p) /\ Holds(q, p, SizeOf(w, p))
<1>1. PICK x \in Nat \ {0}, a \in Nat \ {0} : Following(w, l, 0) = Place(x, a)
  BY NextIs
<1>2. a = 1 /\ CompleteAt(w, m, q, g, x - 1)
  BY <1>1, BetweenIs, Zenon
<1>3. PICK p \in Nat : p = x - 1 /\ p + 1 = x
  OBVIOUS
<1>4. CompleteAt(w, m, q, g, p)
  BY <1>2, <1>3
<1> QED
  BY <1>1, <1>2, <1>3, <1>4, Zenon DEF CompleteAt

\* Between two telegrams it is short of a packet, and begins with a header.
LEMMA BetweenRing ==
    ASSUME NEW w \in Seq(Written), NEW l, IsLine(l), Gapless(w, l), NEW m, NEW g,
           NEW q \in Seq(Byte), Between(w, l, m, q, g), Len(q) >= 1
    PROVE  \E p \in DOMAIN w, n \in Nat : Holds(q, p, n) /\ n < SizeOf(w, p)
<1>1. PICK x \in Nat \ {0}, a \in Nat \ {0} :
        /\ Following(w, l, 0) = Place(x, a)
        /\ x \in DOMAIN w => a <= SizeOf(w, x)
  BY NextIs
<1>2. BetweenAt(w, m, q, g, x, a)
  BY <1>1, BetweenIs, Zenon
<1>3. Holds(q, x, IF x \in DOMAIN w /\ w[x].dest # "other" THEN a - 1 ELSE 0)
  BY <1>2, Zenon DEF BetweenAt
<1>4. x \in DOMAIN w /\ w[x].dest # "other"
  BY <1>3 DEF Holds
<1>5. PICK z \in Nat, n \in Nat : z = SizeOf(w, x) /\ n = a - 1 /\ n < z
  <2>1. SizeOf(w, x) \in Nat /\ a <= SizeOf(w, x)
    BY <1>1, <1>4, SizeIs
  <2> QED
    BY <2>1
<1> QED
  BY <1>3, <1>4, <1>5

\* A complete packet is the next one for this receiver.
LEMMA NextOut ==
    ASSUME NEW w \in Seq(Written), NEW m \in Seq(Nat), Numbers(w, m),
           NEW g \in Seq(Seq(Byte)), NEW q \in Seq(Byte), NEW p \in DOMAIN w,
           CompleteAt(w, m, q, g, p)
    PROVE  Len(g) + 1 \in DOMAIN m /\ m[Len(g) + 1] = p /\ q = Packet(p, w[p].body)
<1>1. PICK M \in Nat, G \in Nat, h \in Nat :
        /\ M = Len(m) /\ G = Len(g) /\ DOMAIN m = 1 .. M /\ DOMAIN g = 1 .. G /\ h = G + 1
  BY LenProperties
<1>2. /\ \A i \in 1 .. M : i <= G <=> m[i] < p
      /\ G <= M /\ \A i \in 1 .. G : g[i] = Packet(m[i], w[m[i]].body)
  BY <1>1, Zenon DEF CompleteAt, OutBefore
<1>3. p \in Nat /\ p >= 1 /\ SizeOf(w, p) = Header + w[p].body /\ w[p].body \in Nat
  BY SizeIs
<1>4. q = Packet(p, w[p].body)
  <2>1. PICK body \in Nat, x \in Nat \ {0} : body = w[p].body /\ x = p
    BY <1>3
  <2>2. Holds(q, x, Header + body)
    BY <1>3, <2>1, Zenon DEF CompleteAt
  <2> QED
    BY <2>1, <2>2, PacketIs
<1>5. \A i \in 1 .. M : m[i] \in Nat
  BY <1>1
<1>6. \A i, j \in 1 .. M : i < j => m[i] < m[j]
  BY <1>1, Zenon DEF Numbers
<1>7. PICK i0 \in 1 .. M : m[i0] = p
  BY <1>1, Zenon DEF Numbers, CompleteAt
<1>8. h \in 1 .. M /\ m[h] = p
  <2>1. ~ (i0 <= G)
    BY <1>2, <1>3, <1>7
  <2>2. h \in 1 .. M /\ h <= i0
    BY <1>1, <2>1
  <2>3. m[h] \in Nat /\ ~ (m[h] < p)
    BY <1>1, <1>2, <1>5, <2>2
  <2>4. h < i0 => m[h] < m[i0]
    BY <1>6, <2>2
  <2>5. h = i0
    BY <1>3, <1>7, <2>2, <2>3, <2>4
  <2> QED
    BY <1>7, <2>5
<1> QED
  BY <1>1, <1>4, <1>8

\* read(): the packet comes out, and the ring is empty.
LEMMA TakeKeeps ==
    ASSUME NEW w \in Seq(Written), NEW l, NEW m \in Seq(Nat), Numbers(w, m),
           NEW g \in Seq(Seq(Byte)), NEW q \in Seq(Byte), NEW p \in DOMAIN w,
           Following(w, l, 0) = Place(p + 1, 1), CompleteAt(w, m, q, g, p),
           NEW f, f = Append(g, q)
    PROVE  Between(w, l, m, <<>>, f)
<1>1. PICK M \in Nat, G \in Nat, h \in Nat :
        /\ M = Len(m) /\ G = Len(g) /\ DOMAIN m = 1 .. M /\ DOMAIN g = 1 .. G /\ h = G + 1
  BY LenProperties
<1>2. /\ \A i \in 1 .. M : i <= G <=> m[i] < p
      /\ G <= M /\ \A i \in 1 .. G : g[i] = Packet(m[i], w[m[i]].body)
  BY <1>1, Zenon DEF CompleteAt, OutBefore
<1>3. p \in Nat
  BY SizeIs
<1>4. h \in 1 .. M /\ m[h] = p /\ q = Packet(p, w[p].body)
  BY <1>1, NextOut
<1>5. \A i \in 1 .. M : m[i] \in Nat
  BY <1>1
<1>6. \A i, j \in 1 .. M : i < j => m[i] < m[j]
  BY <1>1, Zenon DEF Numbers
<1>9. PICK y \in Nat : y = p + 1
  BY <1>3
<1>10. f \in Seq(Seq(Byte)) /\ Len(f) = h /\ DOMAIN f = 1 .. h
       /\ f[h] = q /\ \A i \in 1 .. G : f[i] = g[i]
  BY <1>1, AppendProperties, LenProperties
<1>11. OutBefore(w, m, f, y)
  <2>1. ASSUME NEW i \in 1 .. M PROVE i <= h <=> m[i] < y
    <3>1. CASE i <= G
      BY <1>1, <1>2, <1>3, <1>5, <1>9, <3>1
    <3>2. CASE i = h
      BY <1>3, <1>4, <1>9, <3>2
    <3>3. CASE h < i
      <4>1. m[h] < m[i]
        BY <1>6, <1>4, <3>3
      <4> QED
        BY <1>3, <1>5, <1>4, <1>9, <3>3, <4>1
    <3> QED
      BY <1>1, <3>1, <3>2, <3>3
  <2>2. ASSUME NEW i \in 1 .. h PROVE f[i] = Packet(m[i], w[m[i]].body)
    <3>1. CASE i \in 1 .. G
      BY <1>2, <1>10, <3>1
    <3>2. CASE i = h
      BY <1>4, <1>4, <1>10, <3>2
    <3> QED
      BY <1>1, <3>1, <3>2
  <2>3. h <= M
    BY <1>4
  <2> QED
    BY <1>1, <1>10, <2>1, <2>2, <2>3, Zenon DEF OutBefore
<1>12. BetweenAt(w, m, <<>>, f, y, 1)
  <2>1. \A x : Holds(<<>>, x, 0)
    BY DEF Holds
  <2>2. 1 - 1 = 0
    OBVIOUS
  <2> QED
    BY <1>11, <2>1, <2>2, Zenon DEF BetweenAt
<1>13. Between(w, l, m, <<>>, f)
  BY <1>9, <1>12, BetweenIs
<1> QED
  BY <1>13

\* Nothing on the line and no call of _recompose: every packet has come out.
LEMMA AllOut ==
    ASSUME NEW w \in Seq(Written), NEW m \in Seq(Nat), Numbers(w, m), NEW q,
           NEW g \in Seq(Seq(Byte)), Between(w, <<>>, m, q, g)
    PROVE  g = [i \in DOMAIN m |-> Packet(m[i], w[m[i]].body)]
<1>1. PICK M \in Nat, G \in Nat, N \in Nat :
        /\ M = Len(m) /\ G = Len(g) /\ DOMAIN m = 1 .. M /\ DOMAIN g = 1 .. G
        /\ N = Len(w) /\ DOMAIN w = 1 .. N
  BY LenProperties
<1>2. PICK x \in Nat : x = N + 1
  OBVIOUS
<1>3. Following(w, <<>>, 0) = Place(x, 1)
  BY <1>1, <1>2 DEF Following
<1>4. BetweenAt(w, m, q, g, x, 1)
  BY <1>2, <1>3, BetweenIs
<1>5. /\ \A i \in 1 .. M : i <= G <=> m[i] < x
      /\ G <= M /\ \A i \in 1 .. G : g[i] = Packet(m[i], w[m[i]].body)
  BY <1>1, <1>4, Zenon DEF BetweenAt, OutBefore
<1>6. G = M
  <2>1. M >= 1 => m[M] \in 1 .. N
    BY <1>1, NumberIs
  <2> QED
    BY <1>2, <1>5, <2>1
<1> QED
  BY <1>1, <1>5, <1>6

(***************************************************************************)
(* The steps.                                                              *)
(***************************************************************************)
\* What IInv says of one sender.
Sender(s) ==
    /\ Gapless(written[s], line[s]) /\ Numbers(written[s], meant[s])
    /\ s \notin damaged => InPlace(s)

LEMMA Typed ==
    ASSUME TypeOK, NEW s \in Source
    PROVE  /\ written[s] \in Seq(Written) /\ meant[s] \in Seq(Nat) /\ got[s] \in Seq(Seq(Byte))
           /\ line[s] \in Seq(Telegram) /\ IsLine(line[s])
           /\ \A i \in DOMAIN line[s] : Len(line[s][i].bytes) \in 1 .. Payload
           /\ RingOf(s) \in Seq(Byte) /\ Len(RingOf(s)) <= RingSize
           /\ \A k \in DOMAIN RingOf(s) : RingOf(s)[k].pkt \in DOMAIN written[s]
<1>1. /\ written[s] \in Seq(Written) /\ meant[s] \in Seq(Nat) /\ got[s] \in Seq(Seq(Byte))
      /\ line[s] \in Seq(Telegram) /\ \A i \in DOMAIN line[s] : Len(line[s][i].bytes) \in 1 .. Payload
  BY DEF TypeOK
<1>2. IsLine(line[s])
  <2>1. \A n \in 1 .. Payload : n \in Nat \ {0}
    BY ReassemblyAssumption
  <2> QED
    BY <1>1, <2>1, Zenon DEF IsLine
<1>3. /\ RingOf(s) \in Seq(Byte) /\ Len(RingOf(s)) <= RingSize
      /\ \A k \in DOMAIN RingOf(s) : RingOf(s)[k].pkt \in DOMAIN written[s]
  <2>1. CASE s \in DOMAIN rings
    <3>1. RingOf(s) = rings[s]
      BY <2>1 DEF RingOf
    <3> QED
      BY <2>1, <3>1, Zenon DEF TypeOK
  <2>2. CASE s \notin DOMAIN rings
    <3>1. RingOf(s) = <<>>
      BY <2>2 DEF RingOf
    <3>2. <<>> \in Seq(Byte) /\ Len(<<>>) = 0 /\ DOMAIN <<>> = {}
      OBVIOUS
    <3> QED
      BY <3>1, <3>2, ReassemblyAssumption
  <2> QED
    BY <2>1, <2>2
<1> QED
  BY <1>1, <1>2, <1>3

\* A step that does not touch a sender.
LEMMA Untouched ==
    ASSUME NEW t \in Source, Sender(t), written'[t] = written[t], line'[t] = line[t],
           meant'[t] = meant[t], got'[t] = got[t], RingOf(t)' = RingOf(t),
           current = t => current' = t, damaged \subseteq damaged'
    PROVE  Sender(t)'
<1>1. Gapless(written[t], line[t])' /\ Numbers(written[t], meant[t])'
  BY Zenon DEF Sender
<1>2. ASSUME t \notin damaged' PROVE InPlace(t)'
  <2>1. InPlace(t)
    BY <1>2 DEF Sender
  <2> QED
    BY <2>1, Zenon DEF InPlace
<1> QED
  BY <1>1, <1>2 DEF Sender

\* The packets of a sender grow by one to v, and with them the numbers of
\* those for this receiver.
Longer(s, dest, body, v, p) ==
    /\ written' = [written EXCEPT ![s] = v] /\ IsLonger(v, written[s])
    /\ p \in DOMAIN v /\ p = Len(v) /\ p = Len(written[s]) + 1
    /\ v[p] = [dest |-> dest, body |-> body]
    /\ meant' = [meant EXCEPT ![s] = IF dest = "other" THEN meant[s] ELSE Append(meant[s], p)]

LEMMA WriteIs ==
    ASSUME TypeOK, NEW s \in Source, NEW dest \in Dest, NEW body \in Bodies, Write(s, dest, body)
    PROVE  \E v \in Seq(Written), p \in Nat : Longer(s, dest, body, v, p)
<1>1. PICK w \in Seq(Written) : w = written[s]
  BY Typed
<1>2. PICK e \in Written : e = [dest |-> dest, body |-> body]
  BY DEF Written
<1>3. PICK v : v = Append(w, e)
  OBVIOUS
<1>4. PICK N \in Nat : N = Len(w) /\ DOMAIN w = 1 .. N
  BY LenProperties
<1>5. /\ v \in Seq(Written) /\ Len(v) = N + 1 /\ DOMAIN v = 1 .. N + 1
      /\ v[N + 1] = e /\ \A i \in 1 .. N : v[i] = w[i]
  BY <1>3, <1>4, AppendProperties, LenProperties
<1>6. IsLonger(v, w)
  BY <1>4, <1>5 DEF IsLonger
<1>7. written' = [written EXCEPT ![s] = v]
  BY <1>1, <1>2, <1>3, Zenon DEF Write
<1>8. PICK p \in Nat : p = N + 1 /\ p \in 1 .. N + 1
  OBVIOUS
<1>9. meant' = [meant EXCEPT ![s] = IF dest = "other" THEN meant[s] ELSE Append(meant[s], p)]
  BY <1>1, <1>4, <1>8, Zenon DEF Write
<1> QED
  BY <1>1, <1>2, <1>4, <1>5, <1>6, <1>7, <1>8, <1>9, Zenon DEF Longer

LEMMA WriteKeepsIInv ==
    ASSUME IInv, NEW s \in Source, NEW dest \in Dest, NEW body \in Bodies, Write(s, dest, body)
    PROVE  IInv'
<1>1. TypeOK /\ \A t \in Source : Sender(t)
  BY DEF IInv, Sender
<1>2. PICK w \in Seq(Written), l \in Seq(Telegram), m \in Seq(Nat), g \in Seq(Seq(Byte)), q \in Seq(Byte), d \in Dest,
           e \in Written :
        /\ w = written[s] /\ l = line[s] /\ m = meant[s] /\ g = got[s] /\ q = RingOf(s) /\ d = dest
        /\ e = [dest |-> dest, body |-> body]
  <2>1. /\ written[s] \in Seq(Written) /\ meant[s] \in Seq(Nat) /\ got[s] \in Seq(Seq(Byte))
        /\ RingOf(s) \in Seq(Byte) /\ line[s] \in Seq(Telegram)
    BY <1>1, Typed, Zenon
  <2>2. [dest |-> dest, body |-> body] \in Written
    BY DEF Written
  <2> QED
    BY <2>1, <2>2, Zenon
<1>3. IsLine(l) /\ Gapless(w, l) /\ Numbers(w, m)
  BY <1>1, <1>2, Typed, Zenon DEF Sender
<1>4. PICK v \in Seq(Written), p \in Nat :
        /\ written' = [written EXCEPT ![s] = v] /\ IsLonger(v, w)
        /\ p \in DOMAIN v /\ p = Len(v) /\ p = Len(w) + 1 /\ v[p] = e
        /\ meant' = [meant EXCEPT ![s] = IF d = "other" THEN m ELSE Append(m, p)]
  <2>1. PICK v \in Seq(Written), p \in Nat : Longer(s, dest, body, v, p)
    BY <1>1, WriteIs
  <2>2. /\ written' = [written EXCEPT ![s] = v] /\ IsLonger(v, w)
        /\ p \in DOMAIN v /\ p = Len(v) /\ p = Len(w) + 1 /\ v[p] = e
        /\ meant' = [meant EXCEPT ![s] = IF d = "other" THEN m ELSE Append(m, p)]
    BY <1>2, <2>1, Zenon DEF Longer
  <2> QED
    BY <2>2, Zenon
<1>5. PICK n : n = IF d = "other" THEN m ELSE Append(m, p)
  OBVIOUS
<1>6. meant' = [meant EXCEPT ![s] = n]
  BY <1>4, <1>5, Zenon
<1>7. NewNumbers(w, v[Len(v)].dest, m, n)
  <2>1. v[Len(v)].dest = d
    BY <1>2, <1>4
  <2> QED
    BY <1>4, <1>5, <2>1, Zenon DEF NewNumbers
<1>8. PICK parts : parts = Packetize(Packet(p, v[p].body))
  OBVIOUS
<1>9. PICK u : u = [i \in DOMAIN parts |-> [dest |-> v[p].dest, bytes |-> parts[i]]]
  OBVIOUS
<1>10. line' = [line EXCEPT ![s] = Cat(l, u)]
  <2>1. v[p].dest = dest /\ v[p].body = body
    BY <1>2, <1>4
  <2>2. parts = Packetize(Packet(Len(written[s]) + 1, body))
    BY <1>2, <1>4, <1>8, <2>1, Zenon
  <2>3. line' = [line EXCEPT ![s] = line[s] \o
                   [i \in DOMAIN parts |-> [dest |-> dest, bytes |-> parts[i]]]]
    BY <2>2, Zenon DEF Write
  <2>4. line' = [line EXCEPT ![s] = line[s] \o u]
    BY <1>9, <2>1, <2>3, Zenon
  <2> QED
    BY <1>2, <2>4, Zenon DEF Cat
<1>11. /\ IsLine(u) /\ u # <<>> /\ Gapless(v, u) /\ Following(v, u, 0) = Place(p, 1)
       /\ \A i \in DOMAIN u : Len(u[i].bytes) \in 1 .. Payload
  <2>1. LinesOf(v, p, parts, u)
    BY <1>8, <1>9, Zenon DEF LinesOf
  <2>2. p \in DOMAIN v /\ p = Len(v)
    BY <1>4
  <2> QED
    BY <2>1, <2>2, LineOfPacket
<1>12. PICK j : j = Cat(l, u)
  OBVIOUS
<1>13. IsLine(j) /\ Gapless(v, j) /\ Following(v, j, 0) = Following(w, l, 0)
  <2>1. Following(v, u, 0) = Place(Len(w) + 1, 1)
    BY <1>4, <1>11
  <2> QED
    BY <1>3, <1>4, <1>11, <1>12, <2>1, LineGrows, Zenon
<1>14. n \in Seq(Nat) /\ Numbers(v, n)
  BY <1>3, <1>4, <1>7, NumbersGrow
<1>15. /\ Between(w, l, m, q, g) => Between(v, j, n, q, g)
       /\ Complete(w, l, m, q, g) => Complete(v, j, n, q, g)
  BY <1>3, <1>4, <1>7, <1>13, WriteKeeps, Zenon
<1>16. UNCHANGED <<mMaxRings, rings, current, got, damaged>>
  BY Zenon DEF Write
<1>17. \A t \in Source : RingOf(t)' = RingOf(t)
  BY <1>16, Zenon DEF RingOf
<1>18. /\ written'[s] = v /\ line'[s] = j /\ meant'[s] = n
       /\ \A t \in Source : t # s => /\ written'[t] = written[t] /\ line'[t] = line[t]
                                     /\ meant'[t] = meant[t]
  BY <1>1, <1>4, <1>6, <1>10, <1>12 DEF TypeOK
<1>19. Sender(s)'
  <2>1. Gapless(written[s], line[s])' /\ Numbers(written[s], meant[s])'
    BY <1>13, <1>14, <1>18, Zenon
  <2>2. ASSUME s \notin damaged' PROVE InPlace(s)'
    <3>1. InPlace(s)
      BY <1>1, <1>16, <2>2, Zenon DEF Sender
    <3> QED
      BY <1>2, <1>15, <1>16, <1>17, <1>18, <3>1, Zenon DEF InPlace
  <2> QED
    BY <2>1, <2>2 DEF Sender
<1>20. \A t \in Source : t # s => Sender(t)'
  BY <1>1, <1>16, <1>17, <1>18, Untouched, Zenon
<1>21. TypeOK'
  <2>1. written' \in [Source -> Seq(Written)] /\ meant' \in [Source -> Seq(Nat)]
    BY <1>1, <1>4, <1>6, <1>14 DEF TypeOK
  <2>2. \A i \in DOMAIN l : Len(l[i].bytes) \in 1 .. Payload
    BY <1>1, <1>2, Typed, Zenon
  <2>3. j \in Seq(Telegram) /\ \A i \in DOMAIN j : Len(j[i].bytes) \in 1 .. Payload
    <3>1. PICK a \in Nat, b \in Nat :
            Len(l) = a /\ Len(u) = b /\ DOMAIN l = 1 .. a /\ DOMAIN u = 1 .. b
      BY <1>3, <1>11, LenProperties DEF IsLine
    <3>2. /\ Cat(l, u) \in Seq(Telegram) /\ Len(Cat(l, u)) = a + b
          /\ \A k \in 1 .. a : Cat(l, u)[k] = l[k]
          /\ \A k \in 1 .. b : Cat(l, u)[a + k] = u[k]
          /\ \A i \in 1 .. a + b : i \in 1 .. a \/ \E k \in 1 .. b : i = a + k
      BY <1>3, <1>11, <3>1, CatIs DEF IsLine
    <3>3. ASSUME NEW i \in 1 .. a + b PROVE Len(Cat(l, u)[i].bytes) \in 1 .. Payload
      <4>1. CASE i \in 1 .. a
        BY <2>2, <3>1, <3>2, <4>1
      <4>2. CASE \E k \in 1 .. b : i = a + k
        BY <1>11, <3>1, <3>2, <4>2
      <4> QED
        BY <3>2, <4>1, <4>2
    <3>4. DOMAIN Cat(l, u) = 1 .. a + b
      BY <3>2, LenProperties
    <3> QED
      BY <1>12, <3>2, <3>3, <3>4
  <2>4. line' \in [Source -> Seq(Telegram)]
    BY <1>1, <1>10, <1>12, <2>3 DEF TypeOK
  <2>5. \A t \in Source : \A i \in DOMAIN line'[t] : Len(line'[t][i].bytes) \in 1 .. Payload
    <3>1. \A t \in Source : \A i \in DOMAIN line[t] : Len(line[t][i].bytes) \in 1 .. Payload
      BY <1>1 DEF TypeOK
    <3> QED
      BY <1>18, <2>3, <3>1
  <2>6. \A t \in Source : DOMAIN written[t] \subseteq DOMAIN written'[t]
    BY <1>2, <1>4, <1>18 DEF IsLonger
  <2>7. \A t \in DOMAIN rings : \A k \in DOMAIN rings[t] : rings[t][k].pkt \in DOMAIN written'[t]
    BY <1>1, <2>6, Zenon DEF TypeOK
  <2> QED
    BY <1>1, <1>16, <2>1, <2>4, <2>5, <2>7, Zenon DEF TypeOK
<1> QED
  BY <1>19, <1>20, <1>21, Zenon DEF IInv, Sender

\* The first telegram of a sender arrives.
LEMMA Arrival ==
    ASSUME TypeOK, NEW s \in Source, Gapless(written[s], line[s]), Arrives(s)
    PROVE  /\ current = NoSource /\ line[s] # <<>>
           /\ line' \in [Source -> Seq(Telegram)]
           /\ \A t \in Source : \A i \in DOMAIN line'[t] : Len(line'[t][i].bytes) \in 1 .. Payload
           /\ line'[s] = Tail(line[s]) /\ Gapless(written[s], Tail(line[s]))
           /\ \A t \in Source : t # s => line'[t] = line[t]
<1>1. /\ current = NoSource /\ line[s] # <<>> /\ line' = [line EXCEPT ![s] = Tail(line[s])]
      /\ line \in [Source -> Seq(Telegram)]
  BY Zenon DEF Arrives, TypeOK
<1>2. PICK l \in Seq(Telegram) : l = line[s]
  BY <1>1
<1>3. IsLine(l) /\ l # <<>> /\ written[s] \in Seq(Written)
      /\ \A i \in DOMAIN l : Len(l[i].bytes) \in 1 .. Payload
  BY <1>1, <1>2, Typed, Zenon
<1>4. PICK r : r = Tail(l)
  OBVIOUS
<1>5. Gapless(written[s], r)
  <2>1. Gapless(written[s], l)
    BY <1>2
  <2> QED
    BY <1>3, <1>4, <2>1, LineCut, Zenon
<1>6. r \in Seq(Telegram) /\ \A i \in DOMAIN r : Len(r[i].bytes) \in 1 .. Payload
  <2>1. PICK n \in Nat : /\ Len(Tail(l)) = n /\ Tail(l) \in Seq(Telegram)
                         /\ \A i \in 1 .. n : i + 1 \in DOMAIN l /\ Tail(l)[i] = l[i + 1]
    BY <1>3, TailIs
  <2>2. DOMAIN Tail(l) = 1 .. n
    BY <2>1, LenProperties
  <2>3. \A i \in DOMAIN Tail(l) : Len(Tail(l)[i].bytes) \in 1 .. Payload
    BY <1>3, <2>1, <2>2
  <2> QED
    BY <1>4, <2>1, <2>3
<1>7. line' = [line EXCEPT ![s] = r]
  BY <1>1, <1>2, <1>4, Zenon
<1>8. line' \in [Source -> Seq(Telegram)] /\ line'[s] = r
      /\ \A t \in Source : t # s => line'[t] = line[t]
  BY <1>1, <1>6, <1>7
<1>9. \A t \in Source : \A i \in DOMAIN line[t] : Len(line[t][i].bytes) \in 1 .. Payload
  BY Zenon DEF TypeOK
<1>10. \A t \in Source : \A i \in DOMAIN line'[t] : Len(line'[t][i].bytes) \in 1 .. Payload
  BY <1>6, <1>8, <1>9
<1>11. r = Tail(line[s])
  BY <1>2, <1>4
<1> QED
  BY <1>1, <1>5, <1>8, <1>10, <1>11

\* A telegram that does not reach a ring: it is for others, or discarded.
LEMMA IgnoredKeepsIInv ==
    ASSUME IInv, NEW s \in Source, Arrives(s),
           UNCHANGED <<mMaxRings, written, meant, rings, current, got>>,
           \/ damaged' = damaged /\ Head(line[s]).dest = "other"
           \/ damaged' = damaged \union {s}
    PROVE  IInv'
<1>1. TypeOK /\ \A t \in Source : Sender(t)
  BY DEF IInv, Sender
<1>2. Gapless(written[s], line[s]) /\ Numbers(written[s], meant[s])
  BY <1>1 DEF Sender
<1>3. /\ current = NoSource /\ line[s] # <<>>
      /\ line' \in [Source -> Seq(Telegram)]
      /\ \A t \in Source : \A i \in DOMAIN line'[t] : Len(line'[t][i].bytes) \in 1 .. Payload
      /\ line'[s] = Tail(line[s]) /\ Gapless(written[s], Tail(line[s]))
      /\ \A t \in Source : t # s => line'[t] = line[t]
  BY <1>1, <1>2, Arrival
<1>4. damaged \subseteq damaged' /\ damaged' \subseteq Source
  BY <1>1 DEF TypeOK
<1>5. TypeOK'
  BY <1>1, <1>3, <1>4, Zenon DEF TypeOK
<1>6. \A t \in Source : RingOf(t)' = RingOf(t)
  BY Zenon DEF RingOf
<1>7. \A t \in Source : t # s => Sender(t)'
  BY <1>1, <1>3, <1>4, <1>6, Untouched, Zenon
<1>8. ASSUME s \notin damaged' PROVE InPlace(s)'
  <2>1. s \notin damaged /\ Head(line[s]).dest = "other"
    BY <1>8
  <2>2. current # s
    BY <1>3, ReassemblyAssumption
  <2>3. Between(written[s], line[s], meant[s], RingOf(s), got[s])
    BY <1>1, <2>1, <2>2, Zenon DEF Sender, InPlace
  <2>4. Between(written[s], Tail(line[s]), meant[s], RingOf(s), got[s])
    BY <1>1, <1>2, <1>3, <2>1, <2>3, Typed, SkipKeeps, Zenon
  <2> QED
    BY <1>3, <1>6, <2>4, Zenon DEF InPlace
<1>9. Sender(s)'
  BY <1>2, <1>3, <1>8, Zenon DEF Sender
<1> QED
  BY <1>5, <1>7, <1>9, Zenon DEF IInv, Sender

\* MultiRings: no ring that holds anything is taken away, and there are never
\* more than there may be.
LEMMA RingsHeld ==
    ASSUME TypeOK, NEW s \in Source, ~ Exhausted(s)
    PROVE  /\ s \in DOMAIN WithRing(s) /\ DOMAIN WithRing(s) \subseteq Source
           /\ WithRing(s) = [t \in DOMAIN WithRing(s) |-> WithRing(s)[t]]
           /\ \A t \in DOMAIN WithRing(s) : WithRing(s)[t] = RingOf(t)
           /\ \A t \in Source : t \notin DOMAIN WithRing(s) => RingOf(t) = <<>>
           /\ IsFiniteSet(DOMAIN WithRing(s)) /\ Cardinality(DOMAIN WithRing(s)) <= mMaxRings
<1>1. /\ DOMAIN rings \subseteq Source /\ IsFiniteSet(DOMAIN rings)
      /\ Cardinality(DOMAIN rings) <= mMaxRings
      /\ rings = [t \in DOMAIN rings |-> rings[t]]
      /\ mMaxRings \in Pools
  BY Zenon DEF TypeOK
<1>2. mMaxRings \in Nat /\ Cardinality(DOMAIN rings) \in Nat
  BY <1>1, ReassemblyAssumption, FS_CardinalityType
<1>3. CASE s \in DOMAIN rings
  <2>1. WithRing(s) = rings
    BY <1>3 DEF WithRing
  <2> QED
    BY <1>1, <1>3, <2>1, Zenon DEF RingOf
<1>4. CASE s \notin DOMAIN rings
  <2>1. PICK kept : kept = IF Cardinality(DOMAIN rings) < mMaxRings THEN DOMAIN rings ELSE Kept
    OBVIOUS
  <2>2. WithRing(s) = [t \in kept \union {s} |-> IF t \in kept THEN rings[t] ELSE <<>>]
    BY <1>4, <2>1, Zenon DEF WithRing
  <2>3. PICK j : j = WithRing(s)
    OBVIOUS
  <2>4. kept \subseteq DOMAIN rings /\ \A t \in DOMAIN rings : t \notin kept => rings[t] = <<>>
    BY <2>1 DEF Kept
  <2>5. IsFiniteSet(kept) /\ Cardinality(kept) \in Nat /\ Cardinality(kept) <= Cardinality(DOMAIN rings)
    BY <1>1, <2>4, FS_Subset, FS_CardinalityType
  <2>6. Cardinality(kept) < mMaxRings
    <3>1. CASE Cardinality(DOMAIN rings) < mMaxRings
      BY <2>1, <3>1
    <3>2. CASE ~ (Cardinality(DOMAIN rings) < mMaxRings)
      <4>1. Cardinality(DOMAIN rings) = mMaxRings
        BY <1>1, <1>2, <3>2
      <4>2. kept = Kept
        BY <2>1, <3>2
      <4>3. Cardinality(Kept) # mMaxRings
        BY <1>4, <4>1, Zenon DEF Exhausted
      <4> QED
        BY <1>2, <2>5, <4>1, <4>2, <4>3
    <3> QED
      BY <3>1, <3>2
  <2>7. s \notin kept
    BY <1>4, <2>4
  <2>8. IsFiniteSet(kept \union {s}) /\ Cardinality(kept \union {s}) = Cardinality(kept) + 1
    BY <2>5, <2>7, FS_AddElement
  <2>9. Cardinality(kept \union {s}) <= mMaxRings
    BY <1>2, <2>5, <2>6, <2>8
  <2>10. /\ DOMAIN j = kept \union {s} /\ \A t \in kept : j[t] = rings[t]
         /\ j[s] = <<>> /\ j = [t \in DOMAIN j |-> j[t]]
    BY <2>2, <2>3, <2>7
  <2>11. \A t \in DOMAIN j : j[t] = RingOf(t)
    BY <1>4, <2>4, <2>10 DEF RingOf
  <2>12. \A t \in Source : t \notin DOMAIN j => RingOf(t) = <<>>
    BY <2>4, <2>10 DEF RingOf
  <2>13. s \in DOMAIN j /\ DOMAIN j \subseteq Source
    BY <1>1, <2>4, <2>10
  <2> QED
    BY <2>3, <2>8, <2>9, <2>10, <2>11, <2>12, <2>13, Zenon
<1> QED
  BY <1>3, <1>4

\* The bytes of a telegram are bytes of a packet its sender wrote.
LEMMA HeadBytes ==
    ASSUME NEW w \in Seq(Written), NEW l, IsLine(l), Gapless(w, l), l # <<>>
    PROVE  /\ Head(l).bytes \in Seq(Byte)
           /\ \A k \in DOMAIN Head(l).bytes : Head(l).bytes[k].pkt \in DOMAIN w
<1>1. PICK p \in DOMAIN w, a \in Nat \ {0}, n \in Nat \ {0}, b \in Seq(Byte) :
        IsPiece(w, Head(l), p, a, n) /\ b = Head(l).bytes
  BY HeadIs
<1>2. Len(b) = n /\ \A k \in 1 .. n : b[k] = Place(p, (a + k) - 1)
  BY <1>1, Zenon DEF IsPiece
<1>3. \A k \in 1 .. n : b[k].pkt = p
  BY <1>2, PlaceIs
<1>4. DOMAIN b = 1 .. n
  BY <1>2, LenProperties
<1> QED
  BY <1>1, <1>3, <1>4

\* The ring of the sender, with room for the telegram or without.
LEMMA RecomposeIs ==
    ASSUME TypeOK, NEW s \in Source, Recompose(s)
    PROVE  LET b    == Head(line[s]).bytes
               fits == Len(RingOf(s)) + Len(b) <= RingSize
           IN  /\ DOMAIN rings' = DOMAIN WithRing(s) /\ s \in DOMAIN rings'
               /\ rings' = [t \in DOMAIN rings' |-> rings'[t]]
               /\ \A t \in DOMAIN rings' : t # s => rings'[t] = RingOf(t)
               /\ rings'[s] = IF fits THEN Cat(RingOf(s), b) ELSE RingOf(s)
               /\ damaged' = IF fits THEN damaged ELSE damaged \union {s}
<1>1. /\ s \in DOMAIN WithRing(s)
      /\ WithRing(s) = [t \in DOMAIN WithRing(s) |-> WithRing(s)[t]]
      /\ \A t \in DOMAIN WithRing(s) : WithRing(s)[t] = RingOf(t)
  <2>1. ~ Exhausted(s)
    BY DEF Recompose
  <2> QED
    BY <2>1, RingsHeld, Zenon
<1>2. PICK ring, b, q : ring = WithRing(s) /\ b = Head(line[s]).bytes /\ q = RingOf(s)
  OBVIOUS
<1>3. ring[s] = q
  BY <1>1, <1>2
<1>4. PICK fits \in BOOLEAN : fits <=> Len(q) + Len(b) <= RingSize
  OBVIOUS
<1>5. /\ rings' = IF fits THEN [ring EXCEPT ![s] = Cat(q, b)] ELSE ring
      /\ damaged' = IF fits THEN damaged ELSE damaged \union {s}
  <2>1. LET fit == Len(ring[s]) + Len(b) <= RingSize
        IN  /\ rings' = IF fit THEN [ring EXCEPT ![s] = ring[s] \o b] ELSE ring
            /\ damaged' = IF fit THEN damaged ELSE damaged \union {s}
    BY <1>2, Zenon DEF Recompose
  <2> QED
    BY <1>3, <1>4, <2>1, Zenon DEF Cat
<1>6. PICK y : y = Cat(q, b)
  OBVIOUS
<1>7. /\ DOMAIN rings' = DOMAIN ring
      /\ rings' = [t \in DOMAIN rings' |-> rings'[t]]
      /\ \A t \in DOMAIN rings' : t # s => rings'[t] = ring[t]
      /\ rings'[s] = IF fits THEN y ELSE q
  <2>1. rings' = IF fits THEN [ring EXCEPT ![s] = y] ELSE ring
    BY <1>5, <1>6
  <2>2. s \in DOMAIN ring /\ ring = [t \in DOMAIN ring |-> ring[t]]
    BY <1>1, <1>2
  <2> QED
    BY <1>3, <2>1, <2>2
<1> QED
  BY <1>1, <1>2, <1>4, <1>5, <1>6, <1>7, Zenon

LEMMA RecomposeKeepsIInv ==
    ASSUME IInv, NEW s \in Source, Recompose(s)
    PROVE  /\ IInv'
           /\ s \in damaged' \ damaged => \E p \in DOMAIN written[s] : SizeOf(written[s], p) > RingSize
<1>1. TypeOK /\ \A t \in Source : Sender(t)
  BY DEF IInv, Sender
<1>2. Gapless(written[s], line[s]) /\ Numbers(written[s], meant[s])
  BY <1>1 DEF Sender
<1>3. /\ current = NoSource /\ line[s] # <<>>
      /\ line' \in [Source -> Seq(Telegram)]
      /\ \A t \in Source : \A i \in DOMAIN line'[t] : Len(line'[t][i].bytes) \in 1 .. Payload
      /\ line'[s] = Tail(line[s]) /\ Gapless(written[s], Tail(line[s]))
      /\ \A t \in Source : t # s => line'[t] = line[t]
  <2>1. Arrives(s)
    BY DEF Recompose
  <2> QED
    BY <1>1, <1>2, <2>1, Arrival
<1>4. /\ Head(line[s]).dest # "other" /\ ~ Exhausted(s) /\ current' = s
      /\ UNCHANGED <<mMaxRings, written, meant, got>>
  BY Zenon DEF Recompose
<1>5. /\ written[s] \in Seq(Written) /\ IsLine(line[s]) /\ RingOf(s) \in Seq(Byte)
      /\ Len(RingOf(s)) <= RingSize
      /\ \A k \in DOMAIN RingOf(s) : RingOf(s)[k].pkt \in DOMAIN written[s]
  BY <1>1, Typed
<1>6. PICK q \in Seq(Byte), b \in Seq(Byte) : q = RingOf(s) /\ b = Head(line[s]).bytes
  BY <1>2, <1>3, <1>5, HeadBytes
<1>7. PICK fits \in BOOLEAN : fits <=> Len(q) + Len(b) <= RingSize
  OBVIOUS
<1>8. /\ DOMAIN rings' = DOMAIN WithRing(s) /\ s \in DOMAIN rings'
      /\ rings' = [t \in DOMAIN rings' |-> rings'[t]]
      /\ \A t \in DOMAIN rings' : t # s => rings'[t] = RingOf(t)
      /\ rings'[s] = IF fits THEN Cat(q, b) ELSE q
      /\ damaged' = IF fits THEN damaged ELSE damaged \union {s}
  BY <1>1, <1>6, <1>7, RecomposeIs, Zenon
<1>9. /\ DOMAIN rings' \subseteq Source
      /\ \A t \in Source : t \notin DOMAIN rings' => RingOf(t) = <<>>
      /\ IsFiniteSet(DOMAIN rings') /\ Cardinality(DOMAIN rings') <= mMaxRings
  BY <1>1, <1>4, <1>8, RingsHeld, Zenon
<1>10. ASSUME NEW t \in Source, t # s PROVE RingOf(t)' = RingOf(t)
  BY <1>8, <1>9, <1>10, Zenon DEF RingOf
<1>11. RingOf(s)' = rings'[s]
  BY <1>8, Zenon DEF RingOf
<1>12. damaged \subseteq damaged' /\ damaged' \subseteq Source
  BY <1>1, <1>8 DEF TypeOK
<1>13. /\ rings'[s] \in Seq(Byte) /\ Len(rings'[s]) <= RingSize
       /\ \A k \in DOMAIN rings'[s] : rings'[s][k].pkt \in DOMAIN written[s]
  <2>1. CASE ~ fits
    BY <1>5, <1>6, <1>8, <2>1, Zenon
  <2>2. CASE fits
    <3>1. \A k \in DOMAIN b : b[k].pkt \in DOMAIN written[s]
      BY <1>2, <1>3, <1>5, <1>6, HeadBytes, Zenon
    <3>2. PICK m \in Nat, n \in Nat : Len(q) = m /\ Len(b) = n /\ DOMAIN q = 1 .. m /\ DOMAIN b = 1 .. n
      BY LenProperties
    <3>3. /\ Cat(q, b) \in Seq(Byte) /\ Len(Cat(q, b)) = m + n
          /\ \A k \in 1 .. m : Cat(q, b)[k] = q[k]
          /\ \A k \in 1 .. n : Cat(q, b)[m + k] = b[k]
          /\ \A i \in 1 .. m + n : i \in 1 .. m \/ \E k \in 1 .. n : i = m + k
      <4>1. Len(q) = m /\ Len(b) = n
        BY <3>2
      <4> QED
        BY <4>1, CatIs
    <3>4. DOMAIN Cat(q, b) = 1 .. m + n
      BY <3>3, LenProperties
    <3>5. ASSUME NEW i \in 1 .. m + n PROVE Cat(q, b)[i].pkt \in DOMAIN written[s]
      <4>1. CASE i \in 1 .. m
        BY <1>5, <1>6, <3>2, <3>3, <4>1
      <4>2. CASE \E k \in 1 .. n : i = m + k
        <5>1. PICK k \in 1 .. n : i = m + k
          BY <4>2
        <5>2. Cat(q, b)[i] = b[k] /\ b[k].pkt \in DOMAIN written[s]
          BY <3>1, <3>2, <3>3, <5>1
        <5> QED
          BY <5>2
      <4> QED
        BY <3>3, <4>1, <4>2
    <3>6. Len(Cat(q, b)) <= RingSize
      BY <1>7, <2>2, <3>2, <3>3
    <3> QED
      BY <1>8, <2>2, <3>3, <3>4, <3>5, <3>6
  <2> QED
    BY <2>1, <2>2
<1>14. TypeOK'
  <2>1. ASSUME NEW t \in DOMAIN rings'
        PROVE  /\ rings'[t] \in Seq(Byte) /\ Len(rings'[t]) <= RingSize
               /\ \A k \in DOMAIN rings'[t] : rings'[t][k].pkt \in DOMAIN written'[t]
    <3>1. CASE t = s
      BY <1>4, <1>13, <3>1, Zenon
    <3>2. CASE t # s
      <4>1. t \in Source /\ rings'[t] = RingOf(t)
        BY <1>8, <1>9, <3>2
      <4>2. /\ RingOf(t) \in Seq(Byte) /\ Len(RingOf(t)) <= RingSize
            /\ \A k \in DOMAIN RingOf(t) : RingOf(t)[k].pkt \in DOMAIN written[t]
        BY <1>1, <4>1, Typed
      <4> QED
        BY <1>4, <4>1, <4>2, Zenon
    <3> QED
      BY <3>1, <3>2
  <2>2. current' \in DOMAIN rings' \union {NoSource}
    BY <1>4, <1>8
  <2> QED
    BY <1>1, <1>3, <1>4, <1>8, <1>9, <1>12, <2>1, <2>2, Zenon DEF TypeOK
<1>15. ASSUME NEW t \in Source, t # s PROVE Sender(t)'
  <2>1. current # t
    BY <1>3, ReassemblyAssumption
  <2> QED
    BY <1>1, <1>3, <1>4, <1>10, <1>12, <1>15, <2>1, Untouched, Zenon
<1>16. ASSUME s \notin damaged
       PROVE  /\ \/ Between(written[s], Tail(line[s]), meant[s], Cat(q, b), got[s])
                 \/ Complete(written[s], Tail(line[s]), meant[s], Cat(q, b), got[s])
              /\ \E p \in DOMAIN written[s] : Len(q) + Len(b) <= SizeOf(written[s], p)
  <2>1. current # s
    BY <1>3, ReassemblyAssumption
  <2>2. Between(written[s], line[s], meant[s], q, got[s])
    BY <1>1, <1>6, <1>16, <2>1, Zenon DEF Sender, InPlace
  <2> QED
    BY <1>2, <1>3, <1>4, <1>5, <1>6, <2>2, RecomposeKeeps, Zenon
<1>17. ASSUME s \notin damaged' PROVE InPlace(s)'
  <2>1. fits /\ s \notin damaged
    BY <1>8, <1>17
  <2> QED
    BY <1>3, <1>4, <1>8, <1>11, <1>16, <2>1, Zenon DEF InPlace
<1>18. Sender(s)'
  BY <1>2, <1>3, <1>4, <1>17, Zenon DEF Sender
<1>19. ASSUME s \in damaged' \ damaged
       PROVE  \E p \in DOMAIN written[s] : SizeOf(written[s], p) > RingSize
  <2>1. ~ fits
    BY <1>8, <1>19
  <2>2. PICK p \in DOMAIN written[s] : Len(q) + Len(b) <= SizeOf(written[s], p)
    BY <1>16, <1>19
  <2>3. SizeOf(written[s], p) \in Nat /\ Len(q) \in Nat /\ Len(b) \in Nat /\ RingSize \in Nat
    BY <1>5, SizeIs, LenProperties, ReassemblyAssumption
  <2>4. SizeOf(written[s], p) > RingSize
    BY <1>7, <2>1, <2>2, <2>3
  <2> QED
    BY <2>4
<1>20. IInv'
  BY <1>14, <1>15, <1>18, Zenon DEF IInv, Sender
<1> QED
  BY <1>19, <1>20

LEMMA CurrentRing ==
    ASSUME TypeOK, current # NoSource
    PROVE  /\ current \in Source /\ current \in DOMAIN rings /\ RingOf(current) = rings[current]
           /\ rings[current] \in Seq(Byte) /\ Len(rings[current]) <= RingSize
           /\ \A k \in DOMAIN rings[current] : rings[current][k].pkt \in DOMAIN written[current]
<1>1. current \in DOMAIN rings /\ DOMAIN rings \subseteq Source
  BY DEF TypeOK
<1>2. RingOf(current) = rings[current]
  BY <1>1 DEF RingOf
<1> QED
  BY <1>1, <1>2, Zenon DEF TypeOK

\* The size that a header says is a size.
LEMMA SizesAre ==
    ASSUME TypeOK, current # NoSource, Len(rings[current]) >= Header
    PROVE  DataSizes(current) \subseteq Nat
<1>1. PICK q \in Seq(Byte), w \in Seq(Written) : q = rings[current] /\ w = written[current]
  BY CurrentRing, Typed
<1>2. Len(q) >= Header
  BY <1>1
<1>3. 1 \in DOMAIN q
  BY <1>2, LenProperties, ReassemblyAssumption
<1>4. q[1].pkt \in DOMAIN w
  BY <1>1, <1>3, CurrentRing, Zenon
<1>5. w[q[1].pkt].body \in Nat
  BY <1>4, SizeIs
<1>6. Bodies \union {0, RingSize} \subseteq Nat
  BY ReassemblyAssumption
<1>7. DataSizes(current) \subseteq {w[q[1].pkt].body} \union (Bodies \union {0, RingSize})
  BY <1>1 DEF DataSizes
<1> QED
  BY <1>5, <1>6, <1>7

\* A ring that begins with the header of a packet says the size of its body.
LEMMA SizeOfHeader ==
    ASSUME TypeOK, current # NoSource, NEW p \in DOMAIN written[current], NEW n \in Nat,
           Holds(rings[current], p, n), n >= Header
    PROVE  DataSizes(current) = {written[current][p].body}
<1>1. PICK q : q = rings[current]
  OBVIOUS
<1>2. \A k \in 1 .. n : q[k] = Place(p, k)
  BY <1>1, Zenon DEF Holds
<1>3. 1 \in 1 .. n /\ \A k \in 1 .. Header : k \in 1 .. n
  BY ReassemblyAssumption
<1>4. q[1].pkt = p
  BY <1>2, <1>3, PlaceIs
<1>5. \A k \in 1 .. Header : q[k] = [pkt |-> p, at |-> k]
  BY <1>2, <1>3, Zenon DEF Place
<1> QED
  BY <1>1, <1>4, <1>5, Zenon DEF DataSizes

\* read() takes the packet of such a ring when it is complete, and only then.
LEMMA WholeIs ==
    ASSUME IInv, current # NoSource, current \notin damaged, Len(rings[current]) >= Header
    PROVE  \A size \in DataSizes(current) :
              /\ Whole(current, size) <=> Complete(written[current], line[current], meant[current],
                                                   rings[current], got[current])
              /\ Whole(current, size) => Len(rings[current]) = Header + size
<1>1. TypeOK /\ current \in Source /\ RingOf(current) = rings[current]
  BY CurrentRing DEF IInv
<1>2. PICK q \in Seq(Byte), w \in Seq(Written), l \in Seq(Telegram), m \in Seq(Nat),
           g \in Seq(Seq(Byte)) :
        /\ q = rings[current] /\ w = written[current] /\ l = line[current] /\ m = meant[current]
        /\ g = got[current]
  <2>1. /\ written[current] \in Seq(Written) /\ line[current] \in Seq(Telegram)
        /\ meant[current] \in Seq(Nat) /\ got[current] \in Seq(Seq(Byte))
        /\ rings[current] \in Seq(Byte)
    BY <1>1, Typed, Zenon
  <2> QED
    BY <2>1
<1>3. /\ IsLine(l) /\ Gapless(w, l)
      /\ Between(w, l, m, q, g) \/ Complete(w, l, m, q, g)
  BY <1>1, <1>2, Typed, Zenon DEF IInv, InPlace
<1>4. PICK L \in Nat : L = Len(q) /\ L >= Header /\ L >= 1 /\ Header \in Nat
  BY <1>2, LenProperties, ReassemblyAssumption
<1>5. CASE Complete(w, l, m, q, g)
  <2>1. PICK p \in DOMAIN w : Holds(q, p, SizeOf(w, p))
    BY <1>3, <1>5, CompleteRing, Zenon
  <2>2. PICK z \in Nat : z = SizeOf(w, p) /\ z = Header + w[p].body /\ z >= Header
    BY SizeIs
  <2>3. DataSizes(current) = {w[p].body}
    BY <1>1, <1>2, <2>1, <2>2, SizeOfHeader, Zenon
  <2>4. Len(q) = z
    BY <2>1, <2>2, Zenon DEF Holds
  <2> QED
    BY <1>2, <1>5, <2>2, <2>3, <2>4 DEF Whole
<1>6. CASE ~ Complete(w, l, m, q, g)
  <2>1. PICK p \in DOMAIN w, n \in Nat : Holds(q, p, n) /\ n < SizeOf(w, p)
    BY <1>3, <1>4, <1>6, BetweenRing, Zenon
  <2>2. PICK z \in Nat : z = SizeOf(w, p) /\ z = Header + w[p].body
    BY SizeIs
  <2>3. Len(q) = n /\ n >= Header
    BY <1>4, <2>1 DEF Holds
  <2>4. DataSizes(current) = {w[p].body}
    BY <1>1, <1>2, <2>1, <2>3, SizeOfHeader, Zenon
  <2>5. ~ (Len(q) >= Header + w[p].body)
    BY <2>1, <2>2, <2>3
  <2> QED
    BY <1>2, <1>6, <2>4, <2>5 DEF Whole
<1> QED
  BY <1>5, <1>6

LEMMA TakeIs ==
    ASSUME IInv, Take
    PROVE  \E taken \in Nat :
              /\ 1 <= taken /\ taken <= Len(rings[current])
              /\ got' = [got EXCEPT ![current] = Append(got[current], SubSeq(rings[current], 1, taken))]
              /\ rings' = [rings EXCEPT ![current] =
                              SubSeq(rings[current], taken + 1, Len(rings[current]))]
              /\ current \notin damaged =>
                    /\ Complete(written[current], line[current], meant[current],
                                rings[current], got[current])
                    /\ taken = Len(rings[current])
<1>1. TypeOK /\ current # NoSource /\ Len(rings[current]) >= Header
  BY DEF IInv, Take
<1>2. PICK size \in DataSizes(current) :
        /\ Whole(current, size)
        /\ LET taken == Min({Header + size, Len(rings[current])})
           IN  /\ got' = [got EXCEPT ![current] =
                             Append(got[current], SubSeq(rings[current], 1, taken))]
               /\ rings' = [rings EXCEPT ![current] =
                               SubSeq(rings[current], taken + 1, Len(rings[current]))]
  BY Zenon DEF Take
<1>3. size \in Nat
  BY <1>1, SizesAre
<1>4. PICK L \in Nat : L = Len(rings[current])
  BY <1>1, CurrentRing, LenProperties
<1>5. PICK taken \in Nat : taken = Header + size
  BY <1>3, ReassemblyAssumption
<1>6. 1 <= taken /\ taken <= L
  BY <1>2, <1>3, <1>4, <1>5, ReassemblyAssumption DEF Whole
<1>7. Min({Header + size, Len(rings[current])}) = taken
  <2>1. Min({taken, L}) = taken
    BY <1>6, MinIs
  <2> QED
    BY <1>4, <1>5, <2>1
<1>8. current \notin damaged =>
         /\ Complete(written[current], line[current], meant[current], rings[current], got[current])
         /\ L = Header + size
  BY <1>1, <1>2, <1>4, WholeIs, Zenon
<1> QED
  BY <1>2, <1>4, <1>5, <1>6, <1>7, <1>8, Zenon

LEMMA TakeKeepsIInv ==
    ASSUME IInv, Take
    PROVE  IInv'
<1>1. TypeOK /\ \A t \in Source : Sender(t)
  BY DEF IInv, Sender
<1>2. PICK s \in Source : s = current
  BY <1>1, CurrentRing DEF Take
<1>3. UNCHANGED <<mMaxRings, written, meant, line, current, damaged>>
  BY Zenon DEF Take
<1>4. /\ s \in DOMAIN rings /\ RingOf(s) = rings[s] /\ rings[s] \in Seq(Byte)
      /\ Len(rings[s]) <= RingSize
      /\ \A k \in DOMAIN rings[s] : rings[s][k].pkt \in DOMAIN written[s]
  <2>1. current # NoSource
    BY DEF Take
  <2> QED
    BY <1>1, <1>2, <2>1, CurrentRing, Zenon
<1>5. PICK q \in Seq(Byte), L \in Nat : q = rings[s] /\ L = Len(q) /\ DOMAIN q = 1 .. L /\ L <= RingSize
  BY <1>4, LenProperties
<1>6. PICK taken \in Nat :
        /\ 1 <= taken /\ taken <= L
        /\ got' = [got EXCEPT ![s] = Append(got[s], SubSeq(q, 1, taken))]
        /\ rings' = [rings EXCEPT ![s] = SubSeq(q, taken + 1, L)]
        /\ s \notin damaged =>
              Complete(written[s], line[s], meant[s], q, got[s]) /\ taken = L
  BY <1>2, <1>5, TakeIs, Zenon
<1>7. PICK b \in Nat : b = taken + 1
  OBVIOUS
<1>8. /\ SubSeq(q, 1, taken) \in Seq(Byte) /\ Len(SubSeq(q, 1, taken)) = taken
      /\ \A k \in 1 .. taken : SubSeq(q, 1, taken)[k] = q[k]
  <2>1. \A k \in 1 .. taken : (1 + k) - 1 = k
    OBVIOUS
  <2> QED
    BY <1>5, <1>6, <2>1, SubSeqProperties
<1>9. /\ SubSeq(q, b, L) \in Seq(Byte) /\ Len(SubSeq(q, b, L)) \in Nat
      /\ Len(SubSeq(q, b, L)) <= L /\ (taken = L => SubSeq(q, b, L) = <<>>)
      /\ \A k \in DOMAIN SubSeq(q, b, L) : \E i \in 1 .. L : SubSeq(q, b, L)[k] = q[i]
  <2>1. CASE b <= L
    <3>1. /\ SubSeq(q, b, L) \in Seq(Byte) /\ Len(SubSeq(q, b, L)) = (L - b) + 1
          /\ \A k \in 1 .. (L - b) + 1 : SubSeq(q, b, L)[k] = q[(b + k) - 1]
      <4>1. \A i \in b .. L : i \in 1 .. Len(q)
        BY <1>5, <1>7
      <4> QED
        BY <1>5, <1>7, <2>1, <4>1, SubSeqProperties
    <3>2. DOMAIN SubSeq(q, b, L) = 1 .. (L - b) + 1
      BY <3>1, LenProperties
    <3>3. \A k \in 1 .. (L - b) + 1 : (b + k) - 1 \in 1 .. L
      BY <1>7
    <3>4. taken # L /\ (L - b) + 1 \in Nat /\ (L - b) + 1 <= L
      BY <1>7, <2>1
    <3> QED
      BY <3>1, <3>2, <3>3, <3>4
  <2>2. CASE ~ (b <= L)
    <3>1. SubSeq(q, b, L) = <<>>
      BY <1>5, <2>2, SubSeqProperties
    <3>2. <<>> \in Seq(Byte) /\ Len(<<>>) = 0 /\ DOMAIN <<>> = {}
      OBVIOUS
    <3> QED
      BY <3>1, <3>2
  <2> QED
    BY <2>1, <2>2
<1>10. PICK e \in Seq(Byte), h \in Seq(Byte) : e = SubSeq(q, b, L) /\ h = SubSeq(q, 1, taken)
  BY <1>8, <1>9
<1>11. rings' = [rings EXCEPT ![s] = e] /\ got' = [got EXCEPT ![s] = Append(got[s], h)]
  BY <1>6, <1>7, <1>10, Zenon
<1>12. /\ DOMAIN rings' = DOMAIN rings /\ rings'[s] = e /\ rings' = [t \in DOMAIN rings' |-> rings'[t]]
       /\ \A t \in DOMAIN rings : t # s => rings'[t] = rings[t]
  BY <1>4, <1>11
<1>13. PICK f : f = Append(got[s], h)
  OBVIOUS
<1>14. got \in [Source -> Seq(Seq(Byte))] /\ got[s] \in Seq(Seq(Byte))
  BY <1>1 DEF TypeOK
<1>15. f \in Seq(Seq(Byte))
  BY <1>10, <1>13, <1>14, AppendProperties
<1>16. /\ got' \in [Source -> Seq(Seq(Byte))] /\ got'[s] = f
       /\ \A t \in Source : t # s => got'[t] = got[t]
  BY <1>11, <1>13, <1>14, <1>15
<1>17. TypeOK'
  <2>1. /\ Len(e) <= RingSize /\ \A k \in DOMAIN e : e[k].pkt \in DOMAIN written[s]
    <3>1. Len(e) <= RingSize
      BY <1>5, <1>9, <1>10, ReassemblyAssumption
    <3>2. \A i \in 1 .. L : q[i].pkt \in DOMAIN written[s]
      BY <1>4, <1>5
    <3> QED
      BY <1>9, <1>10, <3>1, <3>2
  <2>2. ASSUME NEW t \in DOMAIN rings'
        PROVE  /\ rings'[t] \in Seq(Byte) /\ Len(rings'[t]) <= RingSize
               /\ \A k \in DOMAIN rings'[t] : rings'[t][k].pkt \in DOMAIN written'[t]
    <3>1. CASE t = s
      BY <1>3, <1>12, <2>1, <3>1, Zenon
    <3>2. CASE t # s
      <4>1. t \in DOMAIN rings /\ rings'[t] = rings[t]
        BY <1>12, <3>2
      <4> QED
        BY <1>1, <1>3, <4>1, Zenon DEF TypeOK
    <3> QED
      BY <3>1, <3>2
  <2> QED
    BY <1>1, <1>3, <1>12, <1>16, <2>2, Zenon DEF TypeOK
<1>18. ASSUME NEW t \in Source, t # s PROVE Sender(t)'
  <2>1. RingOf(t)' = RingOf(t)
    BY <1>12, <1>18, Zenon DEF RingOf
  <2> QED
    BY <1>1, <1>3, <1>16, <1>18, <2>1, Untouched, Zenon
<1>19. ASSUME s \notin damaged PROVE Between(written[s], line[s], meant[s], <<>>, f) /\ e = <<>>
  <2>1. Complete(written[s], line[s], meant[s], q, got[s]) /\ taken = L
    BY <1>6, <1>19
  <2>2. e = <<>>
    BY <1>9, <1>10, <2>1
  <2>3. h = q
    BY <1>5, <1>8, <1>10, <2>1, SeqEqual
  <2>4. /\ written[s] \in Seq(Written) /\ meant[s] \in Seq(Nat) /\ IsLine(line[s])
        /\ Gapless(written[s], line[s]) /\ Numbers(written[s], meant[s])
    BY <1>1, Typed, Zenon DEF Sender
  <2>5. PICK p \in DOMAIN written[s] :
          /\ Following(written[s], line[s], 0) = Place(p + 1, 1)
          /\ CompleteAt(written[s], meant[s], q, got[s], p)
    BY <2>1, <2>4, CompleteRing, Zenon
  <2>6. f = Append(got[s], q)
    BY <1>13, <2>3
  <2> QED
    BY <1>14, <2>2, <2>4, <2>5, <2>6, TakeKeeps, Zenon
<1>20. RingOf(s)' = e
  BY <1>4, <1>12, Zenon DEF RingOf
<1>21. ASSUME s \notin damaged' PROVE InPlace(s)'
  BY <1>3, <1>16, <1>19, <1>20, <1>21, Zenon DEF InPlace
<1>22. Sender(s)'
  BY <1>1, <1>3, <1>21, Zenon DEF Sender
<1> QED
  BY <1>17, <1>18, <1>22, Zenon DEF IInv, Sender

LEMMA EndTakeKeepsIInv ==
    ASSUME IInv, EndTake
    PROVE  IInv'
<1>1. TypeOK /\ \A t \in Source : Sender(t)
  BY DEF IInv, Sender
<1>2. /\ current # NoSource /\ current' = NoSource
      /\ UNCHANGED <<mMaxRings, written, meant, line, rings, got, damaged>>
      /\ Len(rings[current]) >= Header => \E size \in DataSizes(current) : ~ Whole(current, size)
  BY Zenon DEF EndTake
<1>3. TypeOK'
  BY <1>1, <1>2, Zenon DEF TypeOK
<1>4. \A t \in Source : RingOf(t)' = RingOf(t)
  BY <1>2, Zenon DEF RingOf
<1>5. ASSUME NEW t \in Source, t # current PROVE Sender(t)'
  BY <1>1, <1>2, <1>4, <1>5, Untouched, Zenon
<1>6. current \in Source /\ RingOf(current) = rings[current]
  BY <1>1, <1>2, CurrentRing
<1>7. ASSUME current \notin damaged
      PROVE  Between(written[current], line[current], meant[current], RingOf(current), got[current])
  <2> SUFFICES ASSUME Complete(written[current], line[current], meant[current],
                               rings[current], got[current])
               PROVE  FALSE
    BY <1>1, <1>6, <1>7, Zenon DEF Sender, InPlace
  <2>1. Len(rings[current]) >= Header
    <3>1. PICK w \in Seq(Written), l \in Seq(Telegram), m \in Seq(Nat), q \in Seq(Byte),
               g \in Seq(Seq(Byte)) :
            /\ w = written[current] /\ l = line[current] /\ m = meant[current] /\ q = rings[current]
            /\ g = got[current]
      <4>1. /\ written[current] \in Seq(Written) /\ line[current] \in Seq(Telegram)
            /\ meant[current] \in Seq(Nat) /\ got[current] \in Seq(Seq(Byte))
            /\ rings[current] \in Seq(Byte)
        BY <1>1, <1>6, Typed, Zenon
      <4> QED
        BY <4>1
    <3>2. Complete(w, l, m, q, g) /\ IsLine(l) /\ Gapless(w, l)
      BY <1>1, <1>6, <3>1, Typed, Zenon DEF Sender
    <3>3. PICK p \in DOMAIN w : Holds(q, p, SizeOf(w, p))
      BY <3>2, CompleteRing, Zenon
    <3>4. SizeOf(w, p) >= Header
      BY SizeIs
    <3> QED
      BY <3>1, <3>3, <3>4 DEF Holds
  <2>2. PICK size \in DataSizes(current) : ~ Whole(current, size)
    BY <1>2, <2>1
  <2> QED
    BY <1>2, <1>7, <2>1, <2>2, WholeIs, Zenon
<1>8. ASSUME NEW s \in Source, s = current PROVE Sender(s)'
  <2>1. ASSUME s \notin damaged' PROVE InPlace(s)'
    <3>1. Between(written[s], line[s], meant[s], RingOf(s), got[s])
      BY <1>2, <1>7, <1>8, <2>1, Zenon
    <3> QED
      BY <1>2, <1>4, <3>1, Zenon DEF InPlace
  <2> QED
    BY <1>1, <1>2, <2>1, Zenon DEF Sender
<1>9. \A t \in Source : Sender(t)'
  BY <1>5, <1>8
<1> QED
  BY <1>3, <1>9, Zenon DEF IInv, Sender

LEMMA InitIInv ==
    ASSUME Init PROVE IInv
<1>1. TypeOK
  <2>1. /\ mMaxRings \in Pools /\ written = [s \in Source |-> <<>>] /\ meant = [s \in Source |-> <<>>]
        /\ line = [s \in Source |-> <<>>] /\ rings = [s \in {} |-> <<>>] /\ current = NoSource
        /\ got = [s \in Source |-> <<>>] /\ damaged = {}
    BY DEF Init
  <2>2. mMaxRings \in Nat
    BY <2>1, ReassemblyAssumption
  <2>3. DOMAIN rings = {} /\ rings = [s \in DOMAIN rings |-> rings[s]]
    BY <2>1
  <2>4. IsFiniteSet(DOMAIN rings) /\ Cardinality(DOMAIN rings) <= mMaxRings
    BY <2>2, <2>3, FS_EmptySet
  <2>5. /\ written \in [Source -> Seq(Written)] /\ meant \in [Source -> Seq(Nat)]
        /\ got \in [Source -> Seq(Seq(Byte))] /\ line \in [Source -> Seq(Telegram)]
    BY <2>1
  <2>6. \A s \in Source : DOMAIN line[s] = {}
    BY <2>1
  <2> QED
    BY <2>1, <2>3, <2>4, <2>5, <2>6 DEF TypeOK
<1>2. ASSUME NEW s \in Source
      PROVE  Gapless(written[s], line[s]) /\ Numbers(written[s], meant[s]) /\ InPlace(s)
  <2>1. written[s] = <<>> /\ line[s] = <<>> /\ meant[s] = <<>> /\ got[s] = <<>> /\ RingOf(s) = <<>>
    BY DEF Init, RingOf
  <2>2. DOMAIN <<>> = {} /\ Len(<<>>) = 0
    OBVIOUS
  <2>3. Gapless(<<>>, <<>>) /\ Numbers(<<>>, <<>>)
    BY <2>2 DEF Gapless, Numbers
  <2>4. Following(<<>>, <<>>, 0) = Place(1, 1)
    BY <2>2 DEF Following
  <2>5. OutBefore(<<>>, <<>>, <<>>, 1)
    BY <2>2 DEF OutBefore
  <2>6. Holds(<<>>, 1, 0)
    BY DEF Holds
  <2>7. BetweenAt(<<>>, <<>>, <<>>, <<>>, 1, 1)
    BY <2>2, <2>5, <2>6 DEF BetweenAt
  <2>8. Between(<<>>, <<>>, <<>>, <<>>, <<>>)
    BY <2>4, <2>7, BetweenIs
  <2> QED
    BY <2>1, <2>3, <2>8, Zenon DEF InPlace
<1> QED
  BY <1>1, <1>2, Zenon DEF IInv

\* Every step of a sender or the receiver keeps the inductive invariant.
LEMMA ReassemblyStepKeepsIInv ==
    ASSUME IInv, [Next]_vars PROVE IInv'
<1>1. CASE UNCHANGED vars
  <2>1. UNCHANGED <<mMaxRings, written, meant, line, rings, current, got, damaged>>
    BY <1>1 DEF vars
  <2>2. TypeOK'
    BY <2>1, Zenon DEF IInv, TypeOK
  <2>3. \A s \in Source : Sender(s)'
    BY <2>1, Zenon DEF IInv, Sender, InPlace, RingOf
  <2> QED
    BY <2>2, <2>3, Zenon DEF IInv, Sender
<1>2. ASSUME NEW s \in Source, \E dest \in Dest, body \in Bodies : Write(s, dest, body) PROVE IInv'
  BY <1>2, WriteKeepsIInv, Zenon
<1>3. ASSUME NEW s \in Source, Skip(s) PROVE IInv'
  <2>1. Arrives(s) /\ UNCHANGED <<mMaxRings, written, meant, rings, current, got>>
        /\ damaged' = damaged /\ Head(line[s]).dest = "other"
    BY <1>3, Zenon DEF Skip
  <2> QED
    BY <2>1, IgnoredKeepsIInv, Zenon
<1>4. ASSUME NEW s \in Source, Corrupted(s) \/ OutOfRings(s) PROVE IInv'
  <2>1. Arrives(s) /\ UNCHANGED <<mMaxRings, written, meant, rings, current, got>>
        /\ damaged' = damaged \union {s}
    BY <1>4, Zenon DEF Corrupted, OutOfRings
  <2> QED
    BY <2>1, IgnoredKeepsIInv, Zenon
<1>5. ASSUME NEW s \in Source, Recompose(s) PROVE IInv'
  BY <1>5, RecomposeKeepsIInv
<1>6. CASE Take
  BY <1>6, TakeKeepsIInv
<1>7. CASE EndTake
  BY <1>7, EndTakeKeepsIInv
<1> QED
  BY <1>1, <1>2, <1>3, <1>4, <1>5, <1>6, <1>7, Zenon DEF Next

\* The inductive invariant holds in every state (PKTWrapper, MultiRings).
THEOREM ReassemblyAlwaysIInv == Spec => []IInv
<1>1. Init => IInv
  BY InitIInv
<1>2. IInv /\ [Next]_vars => IInv'
  BY ReassemblyStepKeepsIInv
<1> QED
  BY <1>1, <1>2, PTL DEF Spec

\* Whatever the interleaving of the senders and whatever of others is lost,
\* once nothing of a sender is on its way all it wrote for this receiver has
\* come out, whole and in order (PKTWrapper::update, _recompose).
THEOREM AlwaysIsolation == Spec => []Isolation
<1>1. ASSUME IInv, NEW s \in Source, s \notin damaged, line[s] = <<>>, current = NoSource
      PROVE  got[s] = Wanted(s)
  <2>1. TypeOK /\ Numbers(written[s], meant[s]) /\ InPlace(s)
    BY <1>1 DEF IInv
  <2>2. current # s
    BY <1>1, ReassemblyAssumption
  <2>3. Between(written[s], <<>>, meant[s], RingOf(s), got[s])
    BY <1>1, <2>1, <2>2, Zenon DEF InPlace
  <2> QED
    BY <2>1, <2>3, Typed, AllOut, Zenon DEF Wanted
<1>2. IInv => Isolation
  BY <1>1 DEF IInv, Isolation
<1> QED
  BY <1>2, ReassemblyAlwaysIInv, PTL

\* A telegram is discarded in no other case than those named (MultiRings::get,
\* RingBuffer::write).
THEOREM AlwaysLossOnlyWhenFull == Spec => LossOnlyWhenFull
<1> DEFINE Lost(s) ==
        \/ Corrupted(s)
        \/ Cardinality({t \in DOMAIN rings \ {s} : rings[t] # <<>>}) = mMaxRings
        \/ \E p \in Range(written[s]) : Header + p.body > RingSize
<1>1. ASSUME IInv, Next, NEW s \in damaged' \ damaged PROVE Lost(s)
  <2>1. ASSUME NEW t \in Source, Corrupted(t) PROVE Lost(s)
    <3>1. s = t
      BY <2>1 DEF Corrupted
    <3> QED
      BY <2>1, <3>1
  <2>2. ASSUME NEW t \in Source, OutOfRings(t) PROVE Lost(s)
    <3>1. s = t /\ Exhausted(t)
      BY <2>2 DEF OutOfRings
    <3>2. {u \in DOMAIN rings \ {s} : rings[u] # <<>>} = Kept
      BY <3>1 DEF Exhausted, Kept
    <3> QED
      BY <3>1, <3>2 DEF Exhausted
  <2>3. ASSUME NEW t \in Source, Recompose(t) PROVE Lost(s)
    <3>1. s = t
      BY <2>3, Zenon DEF Recompose
    <3>2. PICK p \in DOMAIN written[s] : SizeOf(written[s], p) > RingSize
      BY <1>1, <2>3, <3>1, RecomposeKeepsIInv
    <3>3. written[s][p] \in Range(written[s])
      BY DEF Range
    <3> QED
      BY <3>2, <3>3 DEF SizeOf
  <2>4. ASSUME NEW t \in Source, Skip(t) \/ \E dest \in Dest, body \in Bodies : Write(t, dest, body)
        PROVE  FALSE
    BY <2>4, Zenon DEF Skip, Write
  <2>5. CASE Take \/ EndTake
    BY <2>5, Zenon DEF Take, EndTake
  <2> QED
    BY <1>1, <2>1, <2>2, <2>3, <2>4, <2>5 DEF Next
<1>2. IInv /\ [Next]_vars => [\A s \in damaged' \ damaged : Lost(s)]_vars
  BY <1>1
<1> QED
  BY <1>2, ReassemblyAlwaysIInv, PTL DEF Spec, LossOnlyWhenFull

\* What a sender wrote for this receiver, of the packets w with the numbers m.
Wants(w, m) == [i \in DOMAIN m |-> Packet(m[i], w[m[i]].body)]

LEMMA WantsGrow ==
    ASSUME NEW w \in Seq(Written), NEW v \in Seq(Written), IsLonger(v, w), NEW m \in Seq(Nat),
           Numbers(w, m), NEW n, NewNumbers(w, v[Len(v)].dest, m, n)
    PROVE  \/ Wants(v, n) = Wants(w, m)
           \/ /\ Len(Wants(v, n)) = Len(Wants(w, m)) + 1
              /\ SubSeq(Wants(v, n), 1, Len(Wants(w, m))) = Wants(w, m)
<1>1. PICK M \in Nat, c \in Seq(Nat) :
        /\ M = Len(m) /\ DOMAIN m = 1 .. M /\ c = n
        /\ \A i \in 1 .. M : i \in DOMAIN c /\ c[i] = m[i]
  <2>1. n \in Seq(Nat) /\ \A i \in DOMAIN m : i \in DOMAIN n /\ n[i] = m[i]
    BY NumbersGrow
  <2> QED
    BY <2>1, LenProperties
<1>2. \A i \in 1 .. M : v[m[i]] = w[m[i]]
  BY <1>1, NumberIs DEF IsLonger
<1>3. \A i \in 1 .. M : Wants(v, c)[i] = Wants(w, m)[i]
  BY <1>1, <1>2 DEF Wants
<1>4. /\ Wants(w, m) \in Seq(Seq(Byte)) /\ Len(Wants(w, m)) = M
      /\ DOMAIN Wants(w, m) = 1 .. M
  <2>1. \A i \in 1 .. M : Packet(m[i], w[m[i]].body) \in Seq(Byte)
    <3>1. ASSUME NEW i \in 1 .. M PROVE m[i] \in Nat \ {0} /\ w[m[i]].body \in Nat
      BY <1>1, NumberIs, SizeIs
    <3> QED
      BY <3>1, PacketIs
  <2> QED
    BY <1>1, <2>1 DEF Wants
<1>5. CASE v[Len(v)].dest = "other"
  <2>1. n = m
    BY <1>5 DEF NewNumbers
  <2>2. Wants(v, m) = Wants(w, m)
    BY <1>1, <1>2 DEF Wants
  <2> QED
    BY <2>1, <2>2
<1>6. CASE v[Len(v)].dest # "other"
  <2>1. PICK N \in Nat : N = Len(w) + 1
    BY LenProperties
  <2>2. n = Append(m, N)
    BY <1>6, <2>1 DEF NewNumbers
  <2>3. DOMAIN c = 1 .. M + 1 /\ Len(c) = M + 1
    BY <1>1, <2>2, AppendProperties, LenProperties
  <2>4. PICK a : a = Wants(v, c)
    OBVIOUS
  <2>5. a \in Seq(Seq(Byte)) /\ Len(a) = M + 1
    <3>1. ASSUME NEW i \in 1 .. M + 1 PROVE c[i] \in Nat \ {0} /\ v[c[i]].body \in Nat
      <4>1. Numbers(v, c)
        BY <1>1, NumbersGrow
      <4> QED
        BY <2>3, <4>1, NumberIs, SizeIs
    <3>2. \A i \in 1 .. M + 1 : Packet(c[i], v[c[i]].body) \in Seq(Byte)
      BY <3>1, PacketIs
    <3> QED
      BY <2>3, <2>4, <3>2 DEF Wants
  <2>6. PICK b : b = Wants(w, m)
    OBVIOUS
  <2>7. SubSeq(a, 1, M) = b
    <3>1. /\ SubSeq(a, 1, M) \in Seq(Seq(Byte)) /\ Len(SubSeq(a, 1, M)) = M
          /\ \A i \in 1 .. M : SubSeq(a, 1, M)[i] = a[(1 + i) - 1]
      BY <2>5, SubSeqProperties
    <3>2. \A i \in 1 .. M : SubSeq(a, 1, M)[i] = b[i]
      BY <1>3, <2>4, <2>6, <3>1
    <3>3. b \in Seq(Seq(Byte)) /\ Len(b) = M
      BY <1>4, <2>6
    <3> QED
      BY <3>1, <3>2, <3>3, SeqEqual
  <2> QED
    BY <1>1, <1>4, <2>4, <2>5, <2>6, <2>7
<1> QED
  BY <1>5, <1>6

\* The channel of a sender none of whose telegrams was discarded.
LEMMA ChannelStep ==
    ASSUME IInv, Next, NEW s \in Source, s \notin damaged'
    PROVE  Channel(s)!Next \/ UNCHANGED Channel(s)!abstractVars
<1>1. TypeOK /\ Sender(s)
  BY DEF IInv, Sender
<1>2. PICK w \in Seq(Written), m \in Seq(Nat), g \in Seq(Seq(Byte)) :
        w = written[s] /\ m = meant[s] /\ g = got[s] /\ Numbers(w, m)
  <2>1. /\ written[s] \in Seq(Written) /\ meant[s] \in Seq(Nat) /\ got[s] \in Seq(Seq(Byte))
        /\ Numbers(written[s], meant[s])
    BY <1>1, Typed, Zenon DEF Sender
  <2> QED
    BY <2>1
<1>3. Wanted(s) = Wants(w, m)
  BY <1>2, Zenon DEF Wanted, Wants
<1>4. Numbers(w, m)
  BY <1>2
<1>5. ASSUME got'[s] = got[s], written'[s] = written[s], meant'[s] = meant[s]
      PROVE  UNCHANGED Channel(s)!abstractVars
  BY <1>5, Zenon DEF Channel!abstractVars, Wanted
<1>6. ASSUME NEW t \in Source, NEW dest \in Dest, NEW body \in Bodies, Write(t, dest, body)
      PROVE  Channel(s)!Next \/ UNCHANGED Channel(s)!abstractVars
  <2>1. PICK v \in Seq(Written), p \in Nat :
          /\ written' = [written EXCEPT ![t] = v] /\ IsLonger(v, written[t])
          /\ p \in DOMAIN v /\ p = Len(v) /\ p = Len(written[t]) + 1
          /\ v[p] = [dest |-> dest, body |-> body]
          /\ meant' = [meant EXCEPT ![t] = IF dest = "other" THEN meant[t] ELSE Append(meant[t], p)]
    <3>1. PICK v \in Seq(Written), p \in Nat : Longer(t, dest, body, v, p)
      BY <1>1, <1>6, WriteIs
    <3> QED
      BY <3>1, Zenon DEF Longer
  <2>2. got' = got
    BY <1>6, Zenon DEF Write
  <2>3. CASE s # t
    <3>1. written'[s] = written[s] /\ meant'[s] = meant[s]
      BY <1>1, <2>1, <2>3 DEF TypeOK
    <3> QED
      BY <1>5, <2>2, <3>1
  <2>4. CASE s = t
    <3>1. PICK n : n = IF dest = "other" THEN m ELSE Append(m, p)
      OBVIOUS
    <3>2. written'[s] = v /\ meant'[s] = n
      BY <1>1, <1>2, <2>1, <2>4, <3>1 DEF TypeOK
    <3>3. IsLonger(v, w) /\ NewNumbers(w, v[Len(v)].dest, m, n)
      <4>1. v[Len(v)].dest = dest
        BY <2>1
      <4>2. p = Len(w) + 1
        BY <1>2, <2>1, <2>4
      <4> QED
        BY <1>2, <2>1, <2>4, <3>1, <4>1, <4>2, Zenon DEF NewNumbers
    <3>4. Wanted(s)' = Wants(v, n)
      BY <3>2, Zenon DEF Wanted, Wants
    <3>5. \/ Wanted(s)' = Wanted(s)
          \/ /\ Len(Wanted(s)') = Len(Wanted(s)) + 1
             /\ SubSeq(Wanted(s)', 1, Len(Wanted(s))) = Wanted(s)
      <4>1. \/ Wants(v, n) = Wants(w, m)
            \/ /\ Len(Wants(v, n)) = Len(Wants(w, m)) + 1
               /\ SubSeq(Wants(v, n), 1, Len(Wants(w, m))) = Wants(w, m)
        BY <1>4, <3>3, WantsGrow
      <4> QED
        BY <1>3, <3>4, <4>1, Zenon
    <3> QED
      BY <2>2, <3>5, Zenon DEF Channel!Next, Channel!Send, Channel!abstractVars
  <2> QED
    BY <2>3, <2>4
<1>7. ASSUME NEW t \in Source, Skip(t) \/ Corrupted(t) \/ OutOfRings(t) \/ Recompose(t)
      PROVE  UNCHANGED Channel(s)!abstractVars
  <2>1. UNCHANGED <<written, meant, got>>
    BY <1>7, Zenon DEF Skip, Corrupted, OutOfRings, Recompose
  <2> QED
    BY <1>5, <2>1
<1>8. CASE EndTake
  <2>1. UNCHANGED <<written, meant, got>>
    BY <1>8, Zenon DEF EndTake
  <2> QED
    BY <1>5, <2>1
<1>9. CASE Take
  <2>1. UNCHANGED <<written, meant, damaged>>
    BY <1>9, Zenon DEF Take
  <2>2. PICK taken \in Nat :
          /\ got' = [got EXCEPT ![current] = Append(got[current], SubSeq(rings[current], 1, taken))]
          /\ current \notin damaged =>
                /\ Complete(written[current], line[current], meant[current],
                            rings[current], got[current])
                /\ taken = Len(rings[current])
    BY <1>9, TakeIs
  <2>3. CASE s # current
    <3>1. got'[s] = got[s]
      BY <1>1, <2>2, <2>3 DEF TypeOK
    <3> QED
      BY <1>5, <2>1, <3>1
  <2>4. CASE s = current
    <3>1. PICK q \in Seq(Byte), l \in Seq(Telegram) : q = rings[s] /\ l = line[s]
      <4>1. current # NoSource
        BY <1>9 DEF Take
      <4> QED
        BY <1>1, <2>4, <4>1, CurrentRing, Typed
    <3>2. Complete(w, l, m, q, g) /\ got' = [got EXCEPT ![s] = Append(g, SubSeq(q, 1, Len(q)))]
      BY <1>2, <2>1, <2>2, <2>4, <3>1, Zenon
    <3>3. SubSeq(q, 1, Len(q)) = q
      <4>1. PICK L \in Nat : L = Len(q)
        BY LenProperties
      <4>2. /\ SubSeq(q, 1, L) \in Seq(Byte) /\ Len(SubSeq(q, 1, L)) = L
            /\ \A k \in 1 .. L : SubSeq(q, 1, L)[k] = q[(1 + k) - 1]
        BY <4>1, SubSeqProperties
      <4>3. \A k \in 1 .. L : SubSeq(q, 1, L)[k] = q[k]
        BY <4>2
      <4> QED
        BY <4>1, <4>2, <4>3, SeqEqual
    <3>4. IsLine(l) /\ Gapless(w, l)
      BY <1>1, <1>2, <3>1, Typed, Zenon DEF Sender
    <3>5. PICK p \in DOMAIN w : Following(w, l, 0) = Place(p + 1, 1) /\ CompleteAt(w, m, q, g, p)
      BY <3>2, <3>4, CompleteRing, Zenon
    <3>6. PICK f : f = Append(g, q)
      OBVIOUS
    <3>7. Len(g) + 1 \in DOMAIN m /\ m[Len(g) + 1] = p /\ q = Packet(p, w[p].body)
      BY <1>4, <3>5, NextOut
    <3>8. got'[s] = Append(g, Wants(w, m)[Len(g) + 1])
      <4>1. Wants(w, m)[Len(g) + 1] = q
        BY <3>7 DEF Wants
      <4>2. got'[s] = Append(g, q)
        BY <1>1, <3>2, <3>3 DEF TypeOK
      <4> QED
        BY <4>1, <4>2
    <3>9. Len(g) < Len(Wants(w, m))
      <4>1. PICK M \in Nat, G \in Nat : M = Len(m) /\ DOMAIN m = 1 .. M /\ G = Len(g)
        BY LenProperties
      <4>2. Len(Wants(w, m)) = M
        BY <4>1 DEF Wants
      <4> QED
        BY <3>7, <4>1, <4>2
    <3>10. Wanted(s)' = Wanted(s)
      BY <2>1, Zenon DEF Wanted
    <3>11. Channel(s)!Deliver
      BY <1>2, <1>3, <3>8, <3>9, <3>10, Zenon DEF Channel!Deliver
    <3> QED
      BY <3>11, Zenon DEF Channel!Next
  <2> QED
    BY <2>3, <2>4
<1> QED
  BY <1>6, <1>7, <1>8, <1>9, Zenon DEF Next

\* The channel of every sender is a FIFO channel: the packets it writes for
\* this receiver come out once, whole and in order (write(), read()).
THEOREM ChannelsRefined == Spec => ImplementsChannels
<1>1. Init => \A s \in Source : Channel(s)!Init
  <2>1. ASSUME Init, NEW s \in Source PROVE Channel(s)!Init
    <3>1. meant[s] = <<>> /\ got[s] = <<>>
      BY <2>1 DEF Init
    <3>2. Wanted(s) = <<>>
      BY <3>1 DEF Wanted
    <3> QED
      BY <3>1, <3>2 DEF Channel!Init
  <2> QED
    BY <2>1
<1>2. IInv /\ [Next]_vars =>
        [\A s \in Source \ damaged' : Channel(s)!Next \/ UNCHANGED Channel(s)!abstractVars]_vars
  BY ChannelStep
<1> QED
  BY <1>1, <1>2, ReassemblyAlwaysIInv, PTL DEF Spec, ImplementsChannels
=============================================================================
