--------------------------- MODULE TPUARTProofs ---------------------------
(***************************************************************************)
(* Proofs about TPUART, for every number of telegrams and every way the    *)
(* bytes of the line are read.                                             *)
(***************************************************************************)
EXTENDS TPUART, BackendProofs, FiniteSetTheorems

(***************************************************************************)
(* Sequences of bytes and commands.                                        *)
(***************************************************************************)
\* rest is what is left of s without its first n items.
IsRest(rest, s, n) == Len(s) = n + Len(rest) /\ \A k \in 1 .. Len(rest) : rest[k] = s[n + k]

Places(s, X) == {i \in DOMAIN s : s[i] \in X}
Confirmation == {[kind |-> "confirm"]}

LEMMA RestIs ==
    ASSUME NEW S, NEW s \in Seq(S), NEW n \in Nat, n <= Len(s)
    PROVE  SubSeq(s, n + 1, Len(s)) \in Seq(S) /\ IsRest(SubSeq(s, n + 1, Len(s)), s, n)
<1>1. PICK m \in Nat : Len(s) = n + m
  <2>1. Len(s) \in Nat
    BY LenProperties
  <2>2. Len(s) - n \in Nat /\ Len(s) = n + (Len(s) - n)
    BY <2>1
  <2> QED
    BY <2>2
<1>2. /\ SubSeq(s, n + 1, Len(s)) \in Seq(S) /\ Len(SubSeq(s, n + 1, Len(s))) = m
      /\ \A k \in 1 .. m : SubSeq(s, n + 1, Len(s))[k] = s[n + k]
  BY <1>1, Rest
<1> QED
  BY <1>1, <1>2 DEF IsRest

LEMMA TailIs ==
    ASSUME NEW S, NEW s \in Seq(S), s # <<>>
    PROVE  Tail(s) \in Seq(S) /\ IsRest(Tail(s), s, 1) /\ Head(s) = s[1] /\ 1 \in DOMAIN s
<1>1. /\ Tail(s) \in Seq(S) /\ Len(Tail(s)) = Len(s) - 1
      /\ \A i \in 1 .. Len(Tail(s)) : Tail(s)[i] = s[i + 1]
      /\ Len(s) \in Nat \ {0} /\ Head(s) = s[1]
  BY HeadTailProperties, LenProperties, EmptySeq
<1>2. Len(Tail(s)) \in Nat /\ DOMAIN s = 1 .. Len(s)
  BY <1>1, LenProperties
<1>3. \A i \in 1 .. Len(Tail(s)) : i + 1 = 1 + i
  BY <1>2
<1> QED
  BY <1>1, <1>2, <1>3 DEF IsRest

LEMMA PlacesJoined ==
    ASSUME NEW S, NEW s \in Seq(S), NEW t \in Seq(S), NEW X
    PROVE  /\ Places(t, X) = {} => Places(s \o t, X) = Places(s, X)
           /\ Places(s, X) = {} => Places(s \o t, X) = {Len(s) + i : i \in Places(t, X)}
           /\ \A i \in Places(s, X) : (s \o t)[i] = s[i]
<1>1. PICK m \in Nat, n \in Nat : /\ Len(s) = m /\ Len(t) = n
                                  /\ DOMAIN s = 1 .. m /\ DOMAIN t = 1 .. n
  BY LenProperties
<1>2. PICK j \in Seq(S) : j = s \o t
  BY ConcatProperties
<1>3. /\ Len(j) = m + n /\ DOMAIN j = 1 .. m + n
      /\ \A i \in 1 .. m + n : j[i] = IF i <= m THEN s[i] ELSE t[i - m]
  <2>1. /\ Len(s \o t) = Len(s) + Len(t)
        /\ \A i \in 1 .. Len(s) + Len(t) : (s \o t)[i] = IF i <= Len(s) THEN s[i] ELSE t[i - Len(s)]
    BY ConcatProperties
  <2>2. DOMAIN j = 1 .. Len(j)
    BY LenProperties
  <2> QED
    BY <1>1, <1>2, <2>1, <2>2
<1>4. \A i \in 1 .. m : i \in 1 .. m + n /\ j[i] = s[i]
  BY <1>3
<1>5. \A i \in 1 .. n : m + i \in 1 .. m + n /\ j[m + i] = t[i]
  <2> SUFFICES ASSUME NEW i \in 1 .. n PROVE m + i \in 1 .. m + n /\ j[m + i] = t[i]
    OBVIOUS
  <2>1. m + i \in 1 .. m + n /\ ~ (m + i <= m) /\ (m + i) - m = i
    OBVIOUS
  <2> QED
    BY <1>3, <2>1
<1>6. \A i \in 1 .. m + n : i \in 1 .. m \/ \E k \in 1 .. n : i = m + k
  <2> SUFFICES ASSUME NEW i \in 1 .. m + n, i \notin 1 .. m PROVE \E k \in 1 .. n : i = m + k
    OBVIOUS
  <2>1. i - m \in 1 .. n /\ i = m + (i - m)
    OBVIOUS
  <2> QED
    BY <2>1
<1>7. Places(j, X) = Places(s, X) \union {m + i : i \in Places(t, X)}
  <2>1. ASSUME NEW i \in Places(j, X) PROVE i \in Places(s, X) \union {m + k : k \in Places(t, X)}
    <3>1. i \in 1 .. m + n /\ j[i] \in X
      BY <1>3, <2>1 DEF Places
    <3>2. CASE i \in 1 .. m
      BY <1>1, <1>4, <3>1, <3>2 DEF Places
    <3>3. CASE \E k \in 1 .. n : i = m + k
      BY <1>1, <1>5, <3>1, <3>3 DEF Places
    <3> QED
      BY <1>6, <3>1, <3>2, <3>3
  <2>2. ASSUME NEW i \in Places(s, X) PROVE i \in Places(j, X)
    BY <1>1, <1>3, <1>4 DEF Places
  <2>3. ASSUME NEW i \in Places(t, X) PROVE m + i \in Places(j, X)
    BY <1>1, <1>3, <1>5 DEF Places
  <2> QED
    BY <2>1, <2>2, <2>3
<1>8. \A i \in Places(s, X) : j[i] = s[i]
  BY <1>1, <1>4 DEF Places
<1> QED
  BY <1>1, <1>2, <1>7, <1>8

LEMMA PlacesRest ==
    ASSUME NEW S, NEW s \in Seq(S), NEW r \in Seq(S), NEW n \in Nat, IsRest(r, s, n), NEW X
    PROVE  /\ Places(s, X) = {} => Places(r, X) = {}
           /\ \A i : Places(s, X) = {i} /\ (\A k \in 1 .. n : s[k] \notin X) =>
                        /\ Places(r, X) = {i - n} /\ r[i - n] = s[i]
           /\ \A i : Places(s, X) = {i} /\ i <= n => Places(r, X) = {}
<1>1. PICK m \in Nat : /\ Len(r) = m /\ Len(s) = n + m
                       /\ DOMAIN r = 1 .. m /\ DOMAIN s = 1 .. n + m
  BY LenProperties DEF IsRest
<1>2. \A k \in 1 .. m : n + k \in 1 .. n + m /\ r[k] = s[n + k]
  BY <1>1 DEF IsRest
<1>3. \A k \in Places(r, X) : k \in Nat /\ k > 0 /\ n + k \in Places(s, X)
  BY <1>1, <1>2 DEF Places
<1>4. Places(s, X) = {} => Places(r, X) = {}
  BY <1>3
<1>5. ASSUME NEW i, Places(s, X) = {i}, \A k \in 1 .. n : s[k] \notin X
      PROVE  Places(r, X) = {i - n} /\ r[i - n] = s[i]
  <2>1. i \in 1 .. n + m /\ s[i] \in X
    BY <1>1, <1>5 DEF Places
  <2>2. i \notin 1 .. n
    BY <1>5, <2>1
  <2>3. PICK k \in 1 .. m : k = i - n /\ i = n + k
    BY <2>1, <2>2
  <2>4. k \in Places(r, X) /\ r[k] = s[i]
    BY <1>1, <1>2, <2>1, <2>3 DEF Places
  <2>5. \A l \in Places(r, X) : l = k
    BY <1>3, <1>5, <2>3
  <2> QED
    BY <2>3, <2>4, <2>5
<1>6. ASSUME NEW i, Places(s, X) = {i}, i <= n PROVE Places(r, X) = {}
  <2>1. i \in Nat
    BY <1>1, <1>6 DEF Places
  <2> QED
    BY <1>3, <1>6, <2>1
<1> QED
  BY <1>4, <1>5, <1>6

LEMMA PlacesAppended ==
    ASSUME NEW S, NEW s \in Seq(S), NEW e \in S, NEW X
    PROVE  /\ Append(s, e) \in Seq(S)
           /\ e \notin X => Places(Append(s, e), X) = Places(s, X)
           /\ e \in X /\ Places(s, X) = {} => Places(Append(s, e), X) = {Len(s) + 1}
           /\ Append(s, e)[Len(s) + 1] = e
           /\ \A i \in Places(s, X) : Append(s, e)[i] = s[i]
<1>1. PICK n \in Nat : Len(s) = n /\ DOMAIN s = 1 .. n
  BY LenProperties
<1>2. PICK r \in Seq(S) : r = Append(s, e)
  BY AppendProperties
<1>3. Len(r) = n + 1 /\ (\A i \in 1 .. n : r[i] = s[i]) /\ r[n + 1] = e /\ DOMAIN r = 1 .. n + 1
  BY <1>1, <1>2, AppendProperties, LenProperties
<1>4. \A i \in 1 .. n + 1 : i \in 1 .. n \/ i = n + 1
  OBVIOUS
<1>5. 1 .. n \subseteq 1 .. n + 1 /\ n + 1 \in 1 .. n + 1 /\ n + 1 \notin 1 .. n
  OBVIOUS
<1>6. \A i : i \in Places(r, X) <=> i \in Places(s, X) \/ (i = n + 1 /\ e \in X)
  BY <1>1, <1>3, <1>4, <1>5 DEF Places
<1>7. \A i \in Places(s, X) : r[i] = s[i]
  BY <1>1, <1>3 DEF Places
<1>8. e \notin X => Places(r, X) = Places(s, X)
  BY <1>6
<1>9. e \in X /\ Places(s, X) = {} => Places(r, X) = {n + 1}
  BY <1>6
<1> QED
  BY <1>1, <1>2, <1>3, <1>7, <1>8, <1>9

(***************************************************************************)
(* Whole telegrams on the line.                                            *)
(***************************************************************************)
Continues(bytes, i) ==
    /\ bytes[i].at \in 1 .. Size(bytes[i].of)
    /\ \A k \in 1 .. Size(bytes[i].of) :
          /\ (i - bytes[i].at) + k \in DOMAIN bytes
          /\ bytes[(i - bytes[i].at) + k] = [kind |-> "data", of |-> bytes[i].of, at |-> k]

LEMMA SizeOfTelegram ==
    ASSUME NEW t \in BusTelegram
    PROVE  Size(t) \in Nat /\ Size(t) >= Hdr + 1 /\ Size(t) <= Hdr + Payload + 1
<1>1. t.body \in 0 .. Payload
  BY DEF BusTelegram
<1> QED
  BY <1>1, TelegramAssumption DEF Size, TelegramSize

LEMMA DataByte ==
    ASSUME NEW b \in ChipByte, b.kind = "data"
    PROVE  b.of \in BusTelegram /\ b.at \in Nat /\ Size(b.of) \in Nat
           /\ b = [kind |-> "data", of |-> b.of, at |-> b.at]
<1>1. b \in [kind : {"data"}, of : BusTelegram, at : Nat]
  BY DEF ChipByte
<1> QED
  BY <1>1, SizeOfTelegram

\* A byte that was moved by n places, with all the bytes of its telegram.
LEMMA Shifted ==
    ASSUME NEW s \in Seq(ChipByte), NEW r \in Seq(ChipByte), NEW i \in DOMAIN s, NEW j \in DOMAIN r,
           s[i].kind = "data", s[i] = r[j], Continues(s, i), NEW n \in Int, j = i + n,
           \A k \in DOMAIN s : k >= (i - s[i].at) + 1 => k + n \in DOMAIN r /\ r[k + n] = s[k]
    PROVE  Continues(r, j)
<1>1. PICK t \in BusTelegram, a \in Nat, size \in Nat :
        s[i].of = t /\ s[i].at = a /\ Size(t) = size
  <2>1. s[i] \in ChipByte
    BY LenProperties
  <2> QED
    BY <2>1, DataByte
<1>2. /\ a \in 1 .. size
      /\ \A k \in 1 .. size : (i - a) + k \in DOMAIN s
                              /\ s[(i - a) + k] = [kind |-> "data", of |-> t, at |-> k]
  BY <1>1 DEF Continues
<1>3. i \in Nat /\ j \in Nat
  BY LenProperties
<1>4. ASSUME NEW k \in 1 .. size
      PROVE  (j - a) + k \in DOMAIN r /\ r[(j - a) + k] = [kind |-> "data", of |-> t, at |-> k]
  <2>1. PICK p \in Int : p = (i - a) + k
    BY <1>3
  <2>2. p \in DOMAIN s /\ p >= (i - a) + 1 /\ s[p] = [kind |-> "data", of |-> t, at |-> k]
    BY <1>2, <1>3, <2>1
  <2>3. p + n \in DOMAIN r /\ r[p + n] = s[p]
    BY <1>1, <2>2
  <2>4. p + n = (j - a) + k
    BY <1>3, <2>1
  <2> QED
    BY <2>2, <2>3, <2>4
<1> QED
  BY <1>1, <1>2, <1>4 DEF Continues

LEMMA WholeIs == \A s : Whole(s) <=> \A i \in DOMAIN s : s[i].kind = "data" => Continues(s, i)
  BY Zenon DEF Whole, Continues

LEMMA WholeJoined ==
    ASSUME NEW s \in Seq(ChipByte), NEW t \in Seq(ChipByte), Whole(s), Whole(t)
    PROVE  Whole(s \o t)
<1>1. PICK m \in Nat, n \in Nat : /\ Len(s) = m /\ Len(t) = n
                                  /\ DOMAIN s = 1 .. m /\ DOMAIN t = 1 .. n
  BY LenProperties
<1>2. PICK j \in Seq(ChipByte) : j = s \o t
  BY ConcatProperties
<1>3. /\ Len(j) = m + n /\ DOMAIN j = 1 .. m + n
      /\ \A i \in 1 .. m + n : j[i] = IF i <= m THEN s[i] ELSE t[i - m]
  <2>1. /\ Len(s \o t) = Len(s) + Len(t)
        /\ \A i \in 1 .. Len(s) + Len(t) : (s \o t)[i] = IF i <= Len(s) THEN s[i] ELSE t[i - Len(s)]
    BY ConcatProperties
  <2>2. DOMAIN j = 1 .. Len(j)
    BY LenProperties
  <2> QED
    BY <1>1, <1>2, <2>1, <2>2
<1>4. ASSUME NEW i \in 1 .. m + n, j[i].kind = "data" PROVE Continues(j, i)
  <2>1. CASE i <= m
    <3>1. i \in DOMAIN s /\ s[i] = j[i] /\ i \in DOMAIN j
      BY <1>1, <1>3, <2>1
    <3>2. Continues(s, i)
      BY <1>4, <3>1, WholeIs
    <3>3. \A k \in DOMAIN s : k + 0 \in DOMAIN j /\ j[k + 0] = s[k]
      BY <1>1, <1>3
    <3>4. i = i + 0 /\ 0 \in Int
      OBVIOUS
    <3> QED
      BY <1>4, <3>1, <3>2, <3>3, <3>4, Shifted
  <2>2. CASE ~ (i <= m)
    <3>1. PICK k \in 1 .. n : k = i - m /\ i = k + m
      BY <2>2
    <3>2. k \in DOMAIN t /\ t[k] = j[i] /\ i \in DOMAIN j
      BY <1>1, <1>3, <2>2, <3>1
    <3>3. Continues(t, k)
      BY <1>4, <3>2, WholeIs
    <3>4. \A l \in DOMAIN t : l + m \in DOMAIN j /\ j[l + m] = t[l]
      <4> SUFFICES ASSUME NEW l \in 1 .. n PROVE l + m \in 1 .. m + n /\ j[l + m] = t[l]
        BY <1>1, <1>3
      <4>1. l + m \in 1 .. m + n /\ ~ (l + m <= m) /\ (l + m) - m = l
        OBVIOUS
      <4> QED
        BY <1>3, <4>1
    <3> QED
      BY <1>4, <3>1, <3>2, <3>3, <3>4, Shifted
  <2> QED
    BY <2>1, <2>2
<1>5. Whole(j)
  BY <1>3, <1>4, WholeIs
<1> QED
  BY <1>2, <1>5

LEMMA FrontUnit ==
    ASSUME NEW s \in Seq(ChipByte), Whole(s), s # <<>>, s[1].kind = "data"
    PROVE  /\ s[1].at = 1 /\ s[1].of \in BusTelegram
           /\ Size(s[1].of) \in Nat /\ Size(s[1].of) <= Len(s)
           /\ \A k \in 1 .. Size(s[1].of) : s[k] = [kind |-> "data", of |-> s[1].of, at |-> k]
<1>1. PICK m \in Nat : Len(s) = m /\ DOMAIN s = 1 .. m /\ 1 \in 1 .. m
  BY LenProperties, EmptySeq
<1>2. PICK t \in BusTelegram, a \in Nat, size \in Nat :
        s[1].of = t /\ s[1].at = a /\ Size(t) = size
  BY <1>1, DataByte
<1>3. /\ a \in 1 .. size
      /\ \A k \in 1 .. size : (1 - a) + k \in 1 .. m
                              /\ s[(1 - a) + k] = [kind |-> "data", of |-> t, at |-> k]
  BY <1>1, <1>2, WholeIs DEF Continues
<1>4. a = 1
  <2>1. 1 \in 1 .. size
    BY <1>3
  <2>2. (1 - a) + 1 \in 1 .. m
    BY <1>3, <2>1
  <2> QED
    BY <1>3, <2>2
<1>5. \A k \in 1 .. size : k \in 1 .. m /\ s[k] = [kind |-> "data", of |-> t, at |-> k]
  <2> SUFFICES ASSUME NEW k \in 1 .. size
               PROVE  k \in 1 .. m /\ s[k] = [kind |-> "data", of |-> t, at |-> k]
    OBVIOUS
  <2>1. (1 - a) + k = k
    BY <1>4
  <2> QED
    BY <1>3, <2>1
<1>6. size \in 1 .. size
  BY <1>3
<1>7. size \in 1 .. m
  BY <1>5, <1>6
<1> QED
  BY <1>1, <1>2, <1>4, <1>5, <1>7

\* The bytes that are read at once: an answer, or a telegram.
UnitSize(s) == IF s[1].kind = "data" THEN Size(s[1].of) ELSE 1

LEMMA WholeCut ==
    ASSUME NEW s \in Seq(ChipByte), Whole(s), s # <<>>, NEW r \in Seq(ChipByte),
           IsRest(r, s, UnitSize(s))
    PROVE  Whole(r)
<1>1. PICK n \in Nat : UnitSize(s) = n
  BY FrontUnit DEF UnitSize
<1>2. PICK m \in Nat : /\ Len(r) = m /\ Len(s) = n + m
                       /\ DOMAIN r = 1 .. m /\ DOMAIN s = 1 .. n + m
  BY <1>1, LenProperties DEF IsRest
<1>3. \A k \in 1 .. m : n + k \in 1 .. n + m /\ r[k] = s[n + k]
  BY <1>1, <1>2 DEF IsRest
<1>4. ASSUME NEW j \in 1 .. m, r[j].kind = "data" PROVE Continues(r, j)
  <2>1. PICK i \in 1 .. n + m : i = n + j /\ s[i] = r[j]
    BY <1>3
  <2>2. PICK t \in BusTelegram, a \in Nat, size \in Nat :
          s[i].of = t /\ s[i].at = a /\ Size(t) = size
    <3>1. s[i] \in ChipByte
      BY <1>2
    <3> QED
      BY <1>4, <2>1, <3>1, DataByte
  <2>3. Continues(s, i)
    BY <1>2, <1>4, <2>1, WholeIs
  <2>4. /\ a \in 1 .. size
        /\ \A k \in 1 .. size : (i - a) + k \in 1 .. n + m
                                /\ s[(i - a) + k] = [kind |-> "data", of |-> t, at |-> k]
    BY <1>2, <2>2, <2>3 DEF Continues
  <2>5. PICK b \in Nat : b = i - a /\ b + 1 \in 1 .. n + m
                         /\ s[b + 1] = [kind |-> "data", of |-> t, at |-> 1]
    <3>1. 1 \in 1 .. size
      BY <2>4
    <3>2. (i - a) + 1 \in 1 .. n + m /\ s[(i - a) + 1] = [kind |-> "data", of |-> t, at |-> 1]
      BY <2>4, <3>1
    <3>3. i - a \in Nat
      BY <3>2
    <3> QED
      BY <3>2, <3>3
  <2>6. b >= n
    <3>1. CASE s[1].kind # "data"
      <4>1. n = 1
        BY <1>1, <3>1 DEF UnitSize
      <4>2. b # 0
        <5>1. b = 0 => b + 1 = 1
          OBVIOUS
        <5> QED
          BY <2>5, <3>1, <5>1
      <4> QED
        BY <4>1, <4>2
    <3>2. CASE s[1].kind = "data"
      <4>1. n = Size(s[1].of)
        BY <1>1, <3>2 DEF UnitSize
      <4>2. \A k \in 1 .. n : s[k] = [kind |-> "data", of |-> s[1].of, at |-> k]
        BY <3>2, <4>1, FrontUnit
      <4>3. CASE b < n
        <5>1. b + 1 \in 1 .. n
          BY <4>3
        <5>2. s[b + 1] = [kind |-> "data", of |-> s[1].of, at |-> b + 1]
          BY <4>2, <5>1
        <5>3. t = s[1].of /\ 1 = b + 1
          BY <2>5, <5>2
        <5>4. size = n /\ b = 0
          BY <2>2, <4>1, <5>3
        <5> QED
          BY <2>1, <2>4, <2>5, <5>4
      <4> QED
        BY <4>3
    <3> QED
      BY <3>1, <3>2
  <2>7. ASSUME NEW k \in 1 .. n + m, k >= (i - a) + 1 PROVE k + (-n) \in 1 .. m /\ r[k + (-n)] = s[k]
    <3>1. PICK l \in 1 .. m : l = k + (-n) /\ n + l = k
      BY <2>5, <2>6, <2>7
    <3> QED
      BY <1>3, <3>1
  <2>8. PICK back \in Int : back = -n
    OBVIOUS
  <2>9. i \in DOMAIN s /\ j \in DOMAIN r /\ s[i].kind = "data" /\ s[i] = r[j] /\ j = i + back
    BY <1>2, <1>4, <2>1, <2>8
  <2>10. \A k \in DOMAIN s : k >= (i - s[i].at) + 1 => k + back \in DOMAIN r /\ r[k + back] = s[k]
    BY <1>2, <2>2, <2>7, <2>8
  <2> QED
    BY <2>3, <2>9, <2>10, Shifted
<1> QED
  BY <1>2, <1>4, WholeIs

LEMMA ConfirmPlaces ==
    ASSUME NEW s \in Seq(ChipByte)
    PROVE  {i \in DOMAIN s : s[i].kind = "confirm"} = Places(s, Confirmation)
<1>1. \A i \in DOMAIN s : s[i] \in ChipByte
  BY LenProperties
<1>2. \A b \in ChipByte : b.kind = "confirm" <=> b \in Confirmation
  BY DEF ChipByte, Confirmation
<1> QED
  BY <1>1, <1>2 DEF Places

LEMMA SendPlaces ==
    ASSUME NEW s \in Seq(ChipCommand)
    PROVE  /\ {i \in DOMAIN s : s[i].name = "send"} = Places(s, SendCommand)
           /\ \A i \in Places(s, SendCommand) : s[i].telegram \in BusTelegram
<1>1. \A i \in DOMAIN s : s[i] \in ChipCommand
  BY LenProperties
<1>2. \A c \in ChipCommand : c.name = "send" <=> c \in SendCommand
  BY DEF ChipCommand, SendCommand
<1>3. \A c \in SendCommand : c.telegram \in BusTelegram
  BY DEF SendCommand
<1> QED
  BY <1>1, <1>2, <1>3 DEF Places

(***************************************************************************)
(* What the steps of the driver and of the chip do to the line.            *)
(***************************************************************************)
LEMMA Line ==
    ASSUME TTypeOK
    PROVE  /\ Contents(pktbuffer) \in Seq(ChipByte) /\ Len(Contents(pktbuffer)) = pktbuffer.plen
           /\ pktbuffer.plen \in Nat
           /\ Contents(pktbuffer) \o strm \in Seq(ChipByte) /\ Pending \in Seq(ChipByte)
           /\ pktbuffer.plen <= Len(Pending)
           /\ \A k \in 1 .. pktbuffer.plen : Pending[k] = Contents(pktbuffer)[k]
           /\ Confirms = Places(Pending, Confirmation) /\ Sends = Places(chip, SendCommand)
<1>1. /\ Contents(pktbuffer) \in Seq(ChipByte) /\ Len(Contents(pktbuffer)) = pktbuffer.plen
      /\ pktbuffer.plen \in Nat
  BY ContentsOf DEF TTypeOK
<1>2. PICK a \in Seq(ChipByte), b \in Seq(ChipByte), c \in Seq(ChipByte) :
        a = Contents(pktbuffer) /\ b = strm /\ c = line
  BY <1>1 DEF TTypeOK
<1>3. PICK n \in Nat, m \in Nat, l \in Nat : Len(a) = n /\ Len(b) = m /\ Len(c) = l
  BY LenProperties
<1>4. PICK d \in Seq(ChipByte) : d = a \o b
  BY ConcatProperties
<1>5. Len(d) = n + m /\ \A k \in 1 .. n + m : d[k] = IF k <= n THEN a[k] ELSE b[k - n]
  BY <1>3, <1>4, ConcatProperties
<1>6. PICK e \in Seq(ChipByte) : e = d \o c
  BY ConcatProperties
<1>7. /\ Len(e) = (n + m) + l
      /\ \A k \in 1 .. (n + m) + l : e[k] = IF k <= n + m THEN d[k] ELSE c[k - (n + m)]
  <2>1. /\ Len(d \o c) = Len(d) + Len(c)
        /\ \A k \in 1 .. Len(d) + Len(c) : (d \o c)[k] = IF k <= Len(d) THEN d[k] ELSE c[k - Len(d)]
    BY ConcatProperties
  <2> QED
    BY <1>3, <1>5, <1>6, <2>1
<1>8. Pending = e /\ Contents(pktbuffer) \o strm = d
  BY <1>2, <1>4, <1>6 DEF Pending
<1>9. \A k \in 1 .. n : e[k] = a[k]
  <2> SUFFICES ASSUME NEW k \in 1 .. n PROVE e[k] = a[k]
    OBVIOUS
  <2>1. k \in 1 .. n + m /\ k \in 1 .. (n + m) + l /\ k <= n + m /\ k <= n
    OBVIOUS
  <2> QED
    BY <1>5, <1>7, <2>1
<1>10. n <= Len(e)
  BY <1>7
<1>11. Confirms = Places(Pending, Confirmation) /\ Sends = Places(chip, SendCommand)
  BY <1>8, ConfirmPlaces, SendPlaces DEF Confirms, Sends, TTypeOK
<1> QED
  BY <1>1, <1>2, <1>3, <1>8, <1>9, <1>10, <1>11

\* The chip sends: bytes are added to the end.
LEMMA LineGrows ==
    ASSUME TTypeOK, NEW bytes \in Seq(ChipByte), line' = line \o bytes,
           UNCHANGED <<pktbuffer, strm>>
    PROVE  line' \in Seq(ChipByte) /\ Pending' = Pending \o bytes
<1>1. PICK a \in Seq(ChipByte), c \in Seq(ChipByte) : a = Contents(pktbuffer) \o strm /\ c = line
  BY Line DEF TTypeOK
<1>2. (a \o c) \o bytes = a \o (c \o bytes)
  BY ConcatAssoc
<1>3. c \o bytes \in Seq(ChipByte)
  BY ConcatProperties
<1> QED
  BY <1>1, <1>2, <1>3 DEF Pending

\* Concatenation, for the leaves whose provers should not look into it.
Cat(s, t) == s \o t

LEMMA CatIn ==
    ASSUME NEW S, NEW a \in Seq(S), NEW b \in Seq(S)
    PROVE  Cat(a, b) \in Seq(S)
BY ConcatProperties DEF Cat

LEMMA CatAssoc ==
    ASSUME NEW S, NEW a \in Seq(S), NEW b \in Seq(S), NEW c \in Seq(S)
    PROVE  Cat(Cat(a, b), c) = Cat(a, Cat(b, c))
<1>1. (a \o b) \o c = a \o (b \o c)
  BY ConcatAssoc
<1> QED
  BY <1>1, Zenon DEF Cat

LEMMA JoinedLonger ==
    ASSUME NEW S, NEW a \in Seq(S), NEW b \in Seq(S), NEW n \in Nat, n <= Len(a)
    PROVE  Cat(a, b) \in Seq(S) /\ n <= Len(Cat(a, b))
<1>1. PICK k \in Nat, m \in Nat : Len(a) = k /\ Len(b) = m
  BY LenProperties
<1>2. a \o b \in Seq(S) /\ Len(a \o b) = k + m
  <2>1. a \o b \in Seq(S) /\ Len(a \o b) = Len(a) + Len(b)
    BY ConcatProperties
  <2> QED
    BY <1>1, <2>1
<1> QED
  BY <1>1, <1>2 DEF Cat

LEMMA CatRest ==
    ASSUME NEW S, NEW a \in Seq(S), NEW b \in Seq(S), NEW n \in Nat, n <= Len(a)
    PROVE  Cat(SubSeq(a, n + 1, Len(a)), b) = SubSeq(Cat(a, b), n + 1, Len(Cat(a, b)))
<1>1. SubSeq(a, n + 1, Len(a)) \o b = SubSeq(a \o b, n + 1, Len(a \o b))
  BY RestOfJoined
<1> QED
  BY <1>1, Zenon DEF Cat

\* The parser removes bytes from the front.
LEMMA ParserCuts ==
    ASSUME TTypeOK, NEW n \in 0 .. pktbuffer.plen, pktbuffer' = RingRemove(pktbuffer, n),
           UNCHANGED <<strm, line>>
    PROVE  /\ IsRing(pktbuffer', ChipByte)
           /\ Pending' \in Seq(ChipByte) /\ IsRest(Pending', Pending, n)
<1>1. /\ IsRing(pktbuffer', ChipByte)
      /\ Contents(pktbuffer') = SubSeq(Contents(pktbuffer), n + 1, pktbuffer.plen)
  BY Removed DEF TTypeOK
<1>2. PICK a \in Seq(ChipByte), b \in Seq(ChipByte), c \in Seq(ChipByte) :
        a = Contents(pktbuffer) /\ b = strm /\ c = line
  BY Line DEF TTypeOK
<1>3. n \in Nat /\ n <= Len(a) /\ Len(a) = pktbuffer.plen
  BY <1>2, Line
<1>4. Cat(SubSeq(a, n + 1, Len(a)), b) = SubSeq(Cat(a, b), n + 1, Len(Cat(a, b)))
  BY <1>3, CatRest
<1>5. PICK d \in Seq(ChipByte) : d = Cat(a, b) /\ n <= Len(d)
  BY <1>3, JoinedLonger
<1>6. Cat(SubSeq(d, n + 1, Len(d)), c) = SubSeq(Cat(d, c), n + 1, Len(Cat(d, c)))
  BY <1>3, <1>5, CatRest
<1>7. PICK e \in Seq(ChipByte) : e = Cat(d, c) /\ n <= Len(e)
  BY <1>3, <1>5, JoinedLonger
<1>8. SubSeq(e, n + 1, Len(e)) \in Seq(ChipByte) /\ IsRest(SubSeq(e, n + 1, Len(e)), e, n)
  BY <1>3, <1>7, RestIs
<1>9. Pending = e
  BY <1>2, <1>5, <1>7, Zenon DEF Pending, Cat
<1>10. Pending' = SubSeq(e, n + 1, Len(e))
  <2>1. Pending' = Cat(Cat(SubSeq(a, n + 1, Len(a)), b), c)
    BY <1>1, <1>2, <1>3, Zenon DEF Pending, Cat
  <2> QED
    BY <1>4, <1>5, <1>6, <1>7, <2>1, Zenon
<1> QED
  BY <1>1, <1>8, <1>9, <1>10

\* init() reads an answer from the line.
LEMMA AnswerRead ==
    ASSUME TTypeOK, Unused, ReadAnswer, UNCHANGED <<pktbuffer, strm>>
    PROVE  /\ Pending = line /\ Pending' = line' /\ line' \in Seq(ChipByte)
           /\ Head(line) = Pending[1] /\ Pending # <<>> /\ IsRest(Pending', Pending, 1)
<1>1. Contents(pktbuffer) = <<>>
  <2>1. Contents(pktbuffer) \in Seq(ChipByte) /\ Len(Contents(pktbuffer)) = 0
    BY Line DEF Unused
  <2> QED
    BY <2>1, EmptySeq
<1>2. line \in Seq(ChipByte) /\ line # <<>> /\ line' = Tail(line)
  BY DEF TTypeOK, ReadAnswer
<1>3. line' \in Seq(ChipByte) /\ IsRest(line', line, 1) /\ Head(line) = line[1]
  BY <1>2, TailIs
<1>4. <<>> \o <<>> = <<>> /\ <<>> \o line = line /\ <<>> \o line' = line'
  BY <1>2, <1>3, ConcatEmptySeq, EmptySeq
<1>5. Pending = line /\ Pending' = line'
  BY <1>1, <1>4 DEF Pending, Unused
<1> QED
  BY <1>2, <1>3, <1>5

\* update() and the thread move bytes nearer to the parser.
LEMMA BytesMove ==
    ASSUME TTypeOK, NEW bytes \in Seq(ChipByte),
           pktbuffer.plen + Len(bytes) <= RingSize, pktbuffer' = RingWrite(pktbuffer, bytes),
           \/ strm = <<>> /\ strm' = <<>> /\ line = bytes \o line' /\ line' \in Seq(ChipByte)
           \/ strm = bytes /\ strm' = <<>> /\ line' = line
    PROVE  IsRing(pktbuffer', ChipByte) /\ Pending' = Pending
<1>1. /\ IsRing(pktbuffer', ChipByte)
      /\ Contents(pktbuffer') = Contents(pktbuffer) \o bytes
  BY Written DEF TTypeOK
<1>2. PICK a \in Seq(ChipByte) : a = Contents(pktbuffer)
  BY Line
<1>3. a \o bytes \in Seq(ChipByte)
  BY ConcatProperties
<1>4. a \o <<>> = a /\ (a \o bytes) \o <<>> = a \o bytes
  BY <1>3, ConcatEmptySeq
<1>5. CASE strm = <<>> /\ strm' = <<>> /\ line = bytes \o line' /\ line' \in Seq(ChipByte)
  <2>1. PICK l \in Seq(ChipByte) : l = line'
    BY <1>5
  <2>2. (a \o bytes) \o l = a \o (bytes \o l)
    BY ConcatAssoc
  <2>3. Pending = a \o (bytes \o l) /\ Pending' = (a \o bytes) \o l
    BY <1>1, <1>2, <1>4, <1>5, <2>1 DEF Pending
  <2> QED
    BY <1>1, <2>2, <2>3
<1>6. CASE strm = bytes /\ strm' = <<>> /\ line' = line
  BY <1>1, <1>2, <1>4, <1>6 DEF Pending
<1> QED
  BY <1>5, <1>6

LEMMA MiddleMoves ==
    ASSUME NEW S, NEW a \in Seq(S), NEW b \in Seq(S), NEW f \in Seq(S), NEW g \in Seq(S)
    PROVE  Cat(Cat(a, Cat(b, f)), g) = Cat(Cat(a, b), Cat(f, g))
<1>1. Cat(Cat(a, b), f) = Cat(a, Cat(b, f))
  BY CatAssoc
<1>2. Cat(a, b) \in Seq(S)
  BY CatIn
<1>3. Cat(Cat(Cat(a, b), f), g) = Cat(Cat(a, b), Cat(f, g))
  BY <1>2, CatAssoc
<1> QED
  BY <1>1, <1>3, Zenon

LEMMA ThreadMoves ==
    ASSUME TTypeOK, NEW k \in Nat, k <= Len(line),
           strm' = strm \o First(line, k), line' = After(line, k), UNCHANGED pktbuffer
    PROVE  strm' \in Seq(ChipByte) /\ line' \in Seq(ChipByte) /\ Pending' = Pending
<1>1. PICK a \in Seq(ChipByte), b \in Seq(ChipByte), c \in Seq(ChipByte) :
        a = Contents(pktbuffer) /\ b = strm /\ c = line
  BY Line DEF TTypeOK
<1>2. PICK f \in Seq(ChipByte), g \in Seq(ChipByte) : f = First(c, k) /\ g = After(c, k)
  BY <1>1, Parts
<1>3. f \o g = c
  BY <1>1, <1>2, Parts
<1>4. b \o f \in Seq(ChipByte)
  BY CatIn DEF Cat
<1>5. Pending = (a \o b) \o c /\ Pending' = (a \o (b \o f)) \o g
  BY <1>1, <1>2, Zenon DEF Pending
<1>6. Cat(Cat(a, Cat(b, f)), g) = Cat(Cat(a, b), Cat(f, g))
  BY MiddleMoves
<1>7. (a \o (b \o f)) \o g = (a \o b) \o (f \o g)
  BY <1>6, Zenon DEF Cat
<1> QED
  BY <1>1, <1>2, <1>3, <1>4, <1>5, <1>7, Zenon

(***************************************************************************)
(* What the steps preserve, part by part.                                  *)
(***************************************************************************)
\* A telegram, or an answer, leaves the front of the line.
LEMMA UnitGone ==
    ASSUME NEW s \in Seq(ChipByte), Whole(s), s # <<>>, NEW r \in Seq(ChipByte),
           IsRest(r, s, UnitSize(s))
    PROVE  /\ Whole(r)
           /\ Places(s, Confirmation) = {} => Places(r, Confirmation) = {}
           /\ s[1].kind = "confirm" /\ (\E i : Places(s, Confirmation) = {i})
                => Places(r, Confirmation) = {}
           /\ s[1].kind # "confirm" /\ (\E i : Places(s, Confirmation) = {i})
                => \E i : Places(r, Confirmation) = {i}
<1>1. Whole(r)
  BY WholeCut
<1>2. 1 \in DOMAIN s /\ s[1] \in ChipByte
  BY EmptySeq, LenProperties
<1>3. PICK n \in Nat : UnitSize(s) = n
  BY FrontUnit DEF UnitSize
<1>4. Places(s, Confirmation) = {} => Places(r, Confirmation) = {}
  BY <1>3, PlacesRest
<1>5. ASSUME s[1].kind = "confirm", NEW i, Places(s, Confirmation) = {i}
      PROVE  Places(r, Confirmation) = {}
  <2>1. 1 \in Places(s, Confirmation)
    BY <1>2, <1>5, ConfirmPlaces
  <2>2. i = 1 /\ n = 1
    BY <1>3, <1>5, <2>1 DEF UnitSize
  <2>3. Places(s, Confirmation) = {i} /\ i <= n /\ IsRest(r, s, n)
    BY <1>3, <1>5, <2>2
  <2>4. \A X : \A k : Places(s, X) = {k} /\ k <= n => Places(r, X) = {}
    BY <2>3, PlacesRest
  <2> QED
    BY <2>3, <2>4
<1>6. ASSUME s[1].kind # "confirm", NEW i, Places(s, Confirmation) = {i}
      PROVE  Places(r, Confirmation) = {i - n}
  <2>1. ASSUME NEW k \in 1 .. n PROVE s[k] \notin Confirmation
    <3>1. CASE s[1].kind = "data"
      <4>1. s[k] = [kind |-> "data", of |-> s[1].of, at |-> k]
        BY <1>3, <2>1, <3>1, FrontUnit DEF UnitSize
      <4> QED
        BY <4>1 DEF Confirmation
    <3>2. CASE s[1].kind # "data"
      <4>1. k = 1
        BY <1>3, <2>1, <3>2 DEF UnitSize
      <4> QED
        BY <1>6, <4>1 DEF Confirmation
    <3> QED
      BY <3>1, <3>2
  <2> QED
    BY <1>3, <1>6, <2>1, PlacesRest
<1> QED
  BY <1>1, <1>4, <1>5, <1>6

\* The bytes the chip makes of a telegram, and its answers.
LEMMA BytesOfTelegram ==
    ASSUME NEW t \in BusTelegram
    PROVE  Bytes(t) \in Seq(ChipByte) /\ Whole(Bytes(t)) /\ Places(Bytes(t), Confirmation) = {}
<1>1. PICK n \in Nat : n = Size(t)
  BY SizeOfTelegram
<1>2. PICK s : s = Bytes(t)
  OBVIOUS
<1>3. s = [k \in 1 .. n |-> [kind |-> "data", of |-> t, at |-> k]]
  BY <1>1, <1>2 DEF Bytes
<1>4. \A k \in 1 .. n : [kind |-> "data", of |-> t, at |-> k] \in ChipByte
  BY DEF ChipByte
<1>5. s \in [1 .. n -> ChipByte]
  BY <1>3, <1>4
<1>6. s \in Seq(ChipByte) /\ DOMAIN s = 1 .. n
  BY <1>5
<1>7. ASSUME NEW i \in 1 .. n PROVE Continues(s, i)
  <2>1. s[i].of = t /\ s[i].at = i /\ Size(t) = n
    BY <1>1, <1>3
  <2>2. ASSUME NEW k \in 1 .. n
        PROVE  (i - i) + k \in DOMAIN s /\ s[(i - i) + k] = [kind |-> "data", of |-> t, at |-> k]
    <3>1. (i - i) + k = k
      OBVIOUS
    <3> QED
      BY <1>3, <1>6, <3>1
  <2> QED
    BY <2>1, <2>2 DEF Continues
<1>8. Whole(s)
  BY <1>6, <1>7, WholeIs
<1>9. Places(s, Confirmation) = {}
  BY <1>3, <1>6 DEF Places, Confirmation
<1> QED
  BY <1>2, <1>6, <1>8, <1>9

LEMMA AnswerIs ==
    ASSUME NEW kind \in {"reset", "status", "error", "confirm"}
    PROVE  /\ Answer(kind) \in Seq(ChipByte) /\ Whole(Answer(kind))
           /\ kind # "confirm" => Places(Answer(kind), Confirmation) = {}
           /\ kind = "confirm" => Places(Answer(kind), Confirmation) = {1}
<1>1. PICK e : e = [kind |-> kind]
  OBVIOUS
<1>2. e \in ChipByte /\ e.kind = kind
  BY <1>1 DEF ChipByte
<1>3. PICK s : s = <<e>>
  OBVIOUS
<1>4. s \in Seq(ChipByte) /\ Len(s) = 1 /\ s[1] = e /\ DOMAIN s = {1}
  BY <1>2, <1>3
<1>5. Answer(kind) = s
  BY <1>1, <1>3 DEF Answer
<1>6. Whole(s)
  BY <1>2, <1>4, WholeIs
<1>7. e \in Confirmation <=> kind = "confirm"
  BY <1>1, <1>2 DEF Confirmation
<1> QED
  BY <1>4, <1>5, <1>6, <1>7 DEF Places

\* Who waits for what changes with the places only.
LEMMA AwaitedOn ==
    ASSUME Awaited, outgoing' = outgoing,
           Sends = {} => Sends' = {}, \A i : Sends = {i} => \E j : Sends' = {j},
           Confirms = {} => Confirms' = {},
           (\E i : Confirms = {i}) => \E j : Confirms' = {j}
    PROVE  Awaited'
<1>1. CASE ~ outgoing /\ Sends = {} /\ Confirms = {}
  BY <1>1 DEF Awaited
<1>2. CASE outgoing /\ Confirms = {} /\ \E i \in Sends : Sends = {i}
  <2>1. PICK j : Sends' = {j}
    BY <1>2
  <2> QED
    BY <1>2, <2>1 DEF Awaited
<1>3. CASE outgoing /\ Sends = {} /\ \E i \in Confirms : Confirms = {i}
  <2>1. PICK j : Confirms' = {j}
    BY <1>3
  <2> QED
    BY <1>3, <2>1 DEF Awaited
<1> QED
  BY <1>1, <1>2, <1>3 DEF Awaited

LEMMA CommandAppended ==
    ASSUME NEW c \in Seq(ChipCommand), NEW e \in ChipCommand, e \notin SendCommand
    PROVE  /\ Append(c, e) \in Seq(ChipCommand)
           /\ Places(Append(c, e), SendCommand) = Places(c, SendCommand)
           /\ \A i \in Places(c, SendCommand) : Append(c, e)[i] = c[i]
<1>1. Append(c, e) \in Seq(ChipCommand)
  BY PlacesAppended
<1>2. Places(Append(c, e), SendCommand) = Places(c, SendCommand)
  BY PlacesAppended
<1>3. ASSUME NEW i \in Places(c, SendCommand) PROVE Append(c, e)[i] = c[i]
  <2>1. i \in 1 .. Len(c)
    BY <1>3, LenProperties DEF Places
  <2> QED
    BY <2>1, AppendProperties
<1> QED
  BY <1>1, <1>2, <1>3

LEMMA TwoAppended ==
    ASSUME NEW S, NEW s \in Seq(S), NEW d \in S, NEW e \in S
    PROVE  s \o <<d, e>> = Append(Append(s, d), e)
<1>1. PICK t \in Seq(S) : t = Append(s, d)
  BY AppendProperties
<1> QED
  BY <1>1, AppendProperties, ConcatProperties

\* The commands to reset and to ask carry no telegram.
LEMMA CommandsWritten ==
    ASSUME chip \in Seq(ChipCommand), NEW name \in {"reset", "address", "status"},
           NEW c \in Seq(ChipCommand), Places(c, SendCommand) = Sends,
           \A i \in Sends : c[i] = chip[i]
    PROVE  /\ Append(c, Command(name)) \in Seq(ChipCommand)
           /\ Places(Append(c, Command(name)), SendCommand) = Sends
           /\ \A i \in Sends : Append(c, Command(name))[i] = chip[i]
<1>1. PICK e : e = Command(name)
  OBVIOUS
<1>2. e \in ChipCommand /\ e \notin SendCommand
  BY <1>1 DEF Command, ChipCommand, SendCommand
<1>3. /\ Append(c, e) \in Seq(ChipCommand)
      /\ Places(Append(c, e), SendCommand) = Places(c, SendCommand)
      /\ \A i \in Places(c, SendCommand) : Append(c, e)[i] = c[i]
  BY <1>2, CommandAppended
<1> QED
  BY <1>1, <1>3, Zenon

LEMMA InOrderOn ==
    ASSUME InOrder, UNCHANGED <<accepted, onBus, output>>,
           Sends' = Sends, \A i \in Sends : chip'[i] = chip[i]
    PROVE  InOrder'
<1>1. Sends' = {} => accepted' = onBus' \o output'
  BY Zenon DEF InOrder
<1>2. ASSUME NEW i \in Sends' PROVE accepted' = onBus' \o (<<chip'[i].telegram>> \o output')
  <2>1. i \in Sends
    BY <1>2, Zenon
  <2>2. accepted = onBus \o (<<chip[i].telegram>> \o output)
    BY <2>1, Zenon DEF InOrder
  <2> QED
    BY <2>1, <2>2, Zenon
<1> QED
  BY <1>1, <1>2, Zenon DEF InOrder

\* What holds as long as nothing was lost.
Good == /\ TTypeOK
        /\ stage \in {"closed", "reset", "status"} => Unused
        /\ port = "linux" => strm = <<>>
        /\ Whole(Pending)
        /\ Awaited
        /\ InOrder

(***************************************************************************)
(* init()                                                                  *)
(***************************************************************************)
LEMMA InitReads ==
    ASSUME Good, stage \in {"reset", "status"}, ReadAnswer, Head(line).kind # "data",
           UNCHANGED <<port, output, outgoing, strm, pktbuffer, onBus, accepted>>,
           chip' \in Seq(ChipCommand), Places(chip', SendCommand) = Sends,
           \A i \in Sends : chip'[i] = chip[i], stage' \in {"reset", "status", "open"}
    PROVE  Good'
<1>1. TTypeOK /\ Unused
  BY DEF Good
<1>2. /\ Pending \in Seq(ChipByte) /\ Confirms = Places(Pending, Confirmation)
      /\ Pending' \in Seq(ChipByte) /\ line' \in Seq(ChipByte)
      /\ Pending[1].kind # "data" /\ Pending # <<>> /\ IsRest(Pending', Pending, 1)
  BY <1>1, Line, AnswerRead
<1>3. IsRest(Pending', Pending, UnitSize(Pending))
  BY <1>2 DEF UnitSize
<1>4. /\ Whole(Pending')
      /\ Places(Pending, Confirmation) = {} => Places(Pending', Confirmation) = {}
  BY <1>2, <1>3, UnitGone DEF Good
<1>5. ~ outgoing /\ Sends = {} /\ Confirms = {}
  BY <1>1 DEF Good, Unused, Awaited
<1>6. Sends' = Sends
  BY SendPlaces DEF Sends
<1>7. Confirms' = Places(Pending', Confirmation)
  BY <1>2, ConfirmPlaces DEF Confirms
<1>8. Awaited'
  BY <1>2, <1>4, <1>5, <1>6, <1>7 DEF Awaited
<1>9. InOrder'
  BY <1>6, InOrderOn DEF Good
<1>10. TTypeOK'
  BY <1>1, <1>2 DEF TTypeOK, Stages
<1>11. Unused'
  BY <1>1 DEF Unused
<1>12. port' = "linux" => strm' = <<>>
  BY DEF Good
<1> QED
  BY <1>4, <1>8, <1>9, <1>10, <1>11, <1>12 DEF Good

LEMMA OpenKeeps == Good /\ Open => Good'
<1> SUFFICES ASSUME Good, Open PROVE Good'
  OBVIOUS
<1>1. TTypeOK /\ Unused /\ chip \in Seq(ChipCommand)
  BY DEF Good, Open, TTypeOK
<1>2. /\ stage' = "reset" /\ chip' = Append(chip, Command("reset"))
      /\ UNCHANGED <<port, output, outgoing, strm, pktbuffer, line, onBus, accepted>>
  BY DEF Open, WriteReset
<1>3. Places(chip, SendCommand) = Sends
  BY <1>1, Line
<1>4. /\ chip' \in Seq(ChipCommand) /\ Places(chip', SendCommand) = Sends
      /\ \A i \in Sends : chip'[i] = chip[i]
  BY <1>1, <1>2, <1>3, CommandsWritten
<1>5. Sends' = Sends
  BY <1>4, SendPlaces DEF Sends
<1>6. Pending' = Pending
  BY <1>2 DEF Pending
<1>7. Confirms' = Confirms
  BY <1>6 DEF Confirms
<1>8. Awaited'
  BY <1>2, <1>5, <1>7 DEF Good, Awaited
<1>9. InOrder'
  BY <1>2, <1>4, <1>5, InOrderOn DEF Good
<1>10. TTypeOK' /\ Unused'
  BY <1>1, <1>2, <1>4 DEF TTypeOK, Stages, Unused
<1> QED
  BY <1>2, <1>6, <1>8, <1>9, <1>10 DEF Good

LEMMA ResetDoneKeeps == Good /\ ~ lost /\ ResetDone /\ ~ lost' => Good'
<1> SUFFICES ASSUME Good, ~ lost, ResetDone, ~ lost' PROVE Good'
  OBVIOUS
<1>1. TTypeOK /\ chip \in Seq(ChipCommand)
  BY DEF Good, TTypeOK
<1>2. /\ stage = "reset" /\ ReadAnswer /\ Head(line).kind # "data"
      /\ UNCHANGED <<port, output, outgoing, strm, pktbuffer, onBus, accepted>>
      /\ chip' = chip \o <<Command("address"), Command("status")>> /\ stage' = "status"
  BY DEF ResetDone, Swallowed
<1>3. PICK c : c = Append(chip, Command("address"))
  OBVIOUS
<1>4. Places(chip, SendCommand) = Sends
  BY <1>1, Line
<1>5. /\ c \in Seq(ChipCommand) /\ Places(c, SendCommand) = Sends
      /\ \A i \in Sends : c[i] = chip[i]
  BY <1>1, <1>3, <1>4, CommandsWritten
<1>6. /\ Append(c, Command("status")) \in Seq(ChipCommand)
      /\ Places(Append(c, Command("status")), SendCommand) = Sends
      /\ \A i \in Sends : Append(c, Command("status"))[i] = chip[i]
  BY <1>1, <1>5, CommandsWritten
<1>7. chip' = Append(c, Command("status"))
  <2>1. Command("address") \in ChipCommand /\ Command("status") \in ChipCommand
    BY DEF Command, ChipCommand
  <2> QED
    BY <1>1, <1>2, <1>3, <2>1, TwoAppended
<1>8. /\ chip' \in Seq(ChipCommand) /\ Places(chip', SendCommand) = Sends
      /\ \A i \in Sends : chip'[i] = chip[i]
  BY <1>6, <1>7, Zenon
<1> QED
  BY <1>2, <1>8, InitReads

LEMMA ResetAgainKeeps == Good /\ ~ lost /\ ResetAgain /\ ~ lost' => Good'
<1> SUFFICES ASSUME Good, ~ lost, ResetAgain, ~ lost' PROVE Good'
  OBVIOUS
<1>1. TTypeOK /\ chip \in Seq(ChipCommand)
  BY DEF Good, TTypeOK
<1>2. /\ stage = "reset" /\ ReadAnswer /\ Head(line).kind # "data"
      /\ UNCHANGED <<port, output, outgoing, strm, pktbuffer, onBus, accepted>>
      /\ stage' = stage /\ (chip' = chip \/ chip' = Append(chip, Command("reset")))
  BY DEF ResetAgain, Swallowed, InitFails, WriteReset
<1>3. Places(chip, SendCommand) = Sends
  BY <1>1, Line
<1>4. CASE chip' = chip
  BY <1>1, <1>2, <1>3, <1>4, InitReads
<1>5. CASE chip' = Append(chip, Command("reset"))
  <2>1. /\ chip' \in Seq(ChipCommand) /\ Places(chip', SendCommand) = Sends
        /\ \A i \in Sends : chip'[i] = chip[i]
    BY <1>1, <1>3, <1>5, CommandsWritten
  <2> QED
    BY <1>2, <2>1, InitReads
<1> QED
  BY <1>2, <1>4, <1>5

LEMMA StatusKeeps == Good /\ ~ lost /\ (StatusAgain \/ CheckStatus) /\ ~ lost' => Good'
<1> SUFFICES ASSUME Good, ~ lost, StatusAgain \/ CheckStatus, ~ lost' PROVE Good'
  OBVIOUS
<1>1. TTypeOK /\ chip \in Seq(ChipCommand)
  BY DEF Good, TTypeOK
<1>2. /\ stage = "status" /\ ReadAnswer /\ Head(line).kind # "data"
      /\ UNCHANGED <<port, output, outgoing, strm, pktbuffer, chip, onBus, accepted>>
      /\ stage' \in {"status", "open"}
  BY DEF StatusAgain, CheckStatus, Swallowed, InitFails, driverVars
<1>3. Places(chip, SendCommand) = Sends
  BY <1>1, Line
<1>4. /\ chip' \in Seq(ChipCommand) /\ Places(chip', SendCommand) = Sends
      /\ stage' \in {"reset", "status", "open"} /\ stage \in {"reset", "status"}
      /\ \A i \in Sends : chip'[i] = chip[i]
  BY <1>1, <1>2, <1>3
<1> QED
  BY <1>2, <1>4, InitReads

(***************************************************************************)
(* The parser                                                              *)
(***************************************************************************)
LEMMA AtTheFront ==
    ASSUME Good, pktbuffer.plen > 0
    PROVE  /\ Opcode = Pending[1] /\ Pending # <<>> /\ Pending[1] \in ChipByte
           /\ Pending[1].kind = "data" => Pending[1].at = 1
<1>1. TTypeOK
  BY DEF Good
<1>2. /\ IsRing(pktbuffer, ChipByte) /\ pktbuffer.plen \in Nat /\ Pending \in Seq(ChipByte)
      /\ pktbuffer.plen <= Len(Pending)
      /\ \A k \in 1 .. pktbuffer.plen : Pending[k] = Contents(pktbuffer)[k]
  BY <1>1, Line DEF TTypeOK
<1>3. 1 \in 0 .. pktbuffer.plen /\ 1 \in 1 .. 1 /\ 1 \in 1 .. pktbuffer.plen
  BY <1>2
<1>4. RingPeek(pktbuffer, 1)[1] = Contents(pktbuffer)[1]
  BY <1>2, <1>3, Peeked
<1>5. Opcode = Pending[1]
  BY <1>2, <1>3, <1>4 DEF Opcode
<1>6. Len(Pending) \in Nat /\ Len(Pending) # 0
  BY <1>2, LenProperties
<1>7. Pending # <<>>
  BY <1>2, <1>6, EmptySeq
<1>8. Pending[1] \in ChipByte
  BY <1>2, <1>6, LenProperties
<1> QED
  BY <1>2, <1>5, <1>7, <1>8, FrontUnit DEF Good

LEMMA Parsed ==
    ASSUME Good, stage \notin {"closed", "reset", "status"}, NEW n \in 0 .. pktbuffer.plen,
           pktbuffer.plen > 0, n = UnitSize(Pending), pktbuffer' = RingRemove(pktbuffer, n),
           UNCHANGED <<port, stage, strm, line, chip, output, onBus, accepted>>,
           IF Pending[1].kind = "confirm" THEN outgoing' = FALSE ELSE outgoing' = outgoing
    PROVE  Good'
<1>1. TTypeOK
  BY DEF Good
<1>2. /\ Pending \in Seq(ChipByte) /\ Confirms = Places(Pending, Confirmation)
      /\ IsRing(pktbuffer', ChipByte) /\ Pending' \in Seq(ChipByte)
      /\ IsRest(Pending', Pending, UnitSize(Pending)) /\ Pending # <<>>
  BY <1>1, Line, ParserCuts, AtTheFront
<1>3. /\ Whole(Pending')
      /\ Confirms = {} => Places(Pending', Confirmation) = {}
      /\ Pending[1].kind = "confirm" /\ (\E i : Confirms = {i})
           => Places(Pending', Confirmation) = {}
      /\ Pending[1].kind # "confirm" /\ (\E i : Confirms = {i})
           => \E i : Places(Pending', Confirmation) = {i}
  BY <1>2, UnitGone DEF Good
<1>4. Confirms' = Places(Pending', Confirmation) /\ Sends' = Sends
  <2>1. Confirms' = Places(Pending', Confirmation)
    BY <1>2, ConfirmPlaces DEF Confirms
  <2> QED
    BY <2>1 DEF Sends
<1>5. Awaited'
  <2>1. CASE Pending[1].kind = "confirm"
    <3>1. 1 \in Confirms
      BY <1>2, <2>1, LenProperties, EmptySeq DEF Confirms
    <3>2. Sends = {} /\ \E i : Confirms = {i}
      BY <3>1 DEF Good, Awaited
    <3> QED
      BY <1>3, <1>4, <2>1, <3>2 DEF Awaited
  <2>2. CASE Pending[1].kind # "confirm"
    BY <1>3, <1>4, <2>2, AwaitedOn DEF Good
  <2> QED
    BY <2>1, <2>2
<1>6. InOrder'
  BY <1>4, InOrderOn DEF Good
<1>7. TTypeOK'
  BY <1>1, <1>2 DEF TTypeOK
<1>8. (port' = "linux" => strm' = <<>>) /\ stage' \notin {"closed", "reset", "status"}
  BY DEF Good
<1> QED
  BY <1>3, <1>5, <1>6, <1>7, <1>8 DEF Good

\* What a byte at the front looks like is what it is.
LEMMA LooksRight ==
    ASSUME NEW b \in ChipByte, b.kind = "data" => b.at = 1
    PROVE  /\ Looks(b, "confirm") => b.kind = "confirm"
           /\ Looks(b, "error") => b.kind \in {"status", "error"}
           /\ Looks(b, "data") => b.kind = "data"
<1>1. b.kind \in {"reset", "status", "error", "confirm", "data"}
  BY DEF ChipByte
<1>2. CASE b.kind = "data"
  <2>1. b.at = 1 /\ ~ (b.at > 1)
    BY <1>2
  <2> QED
    BY <1>2, <2>1 DEF Looks
<1>3. CASE b.kind = "confirm"
  BY <1>3 DEF Looks
<1>4. CASE b.kind \in {"status", "error"}
  BY <1>4 DEF Looks
<1>5. CASE b.kind = "reset"
  BY <1>5 DEF Looks
<1> QED
  BY <1>1, <1>2, <1>3, <1>4, <1>5

LEMMA AnswerParsed ==
    ASSUME Good, Confirm \/ ErrorCode
    PROVE  Good'
<1>1. /\ stage = "parsing" /\ pktbuffer.plen > 0
      /\ pktbuffer' = RingRemove(pktbuffer, 1)
      /\ UNCHANGED <<port, stage, strm, line, chip, output, onBus, accepted>>
  BY DEF Confirm, ErrorCode, worldVars
<1>2. /\ Opcode = Pending[1] /\ Pending[1] \in ChipByte
      /\ Pending[1].kind = "data" => Pending[1].at = 1
  BY <1>1, AtTheFront
<1>3. \/ Pending[1].kind = "confirm" /\ outgoing' = FALSE
      \/ Pending[1].kind \in {"status", "error"} /\ outgoing' = outgoing
  BY <1>2, LooksRight DEF Confirm, ErrorCode
<1>4. UnitSize(Pending) = 1
  BY <1>3 DEF UnitSize
<1>5. 1 \in 0 .. pktbuffer.plen
  BY <1>1, Line DEF Good
<1>6. IF Pending[1].kind = "confirm" THEN outgoing' = FALSE ELSE outgoing' = outgoing
  BY <1>3
<1> QED
  BY <1>1, <1>4, <1>5, <1>6, Parsed

\* The size the header gives is the one of the telegram that begins here.
LEMMA SizeRead ==
    ASSUME Good, pktbuffer.plen >= Hdr, Looks(Opcode, "data")
    PROVE  pktbuffer.plen > 0 /\ Pending[1].kind = "data" /\ DataSizes = {UnitSize(Pending)}
<1>1. TTypeOK /\ Hdr \in Nat \ {0} /\ IsRing(pktbuffer, ChipByte)
  BY TelegramAssumption DEF Good, TTypeOK
<1>2. /\ pktbuffer.plen \in Nat /\ pktbuffer.plen > 0 /\ Pending \in Seq(ChipByte)
      /\ \A k \in 1 .. pktbuffer.plen : Pending[k] = Contents(pktbuffer)[k]
  BY <1>1, Line
<1>3. Pending[1].kind = "data" /\ Pending # <<>>
  BY <1>2, AtTheFront, LooksRight
<1>4. PICK t : t = Pending[1].of
  OBVIOUS
<1>5. /\ t \in BusTelegram
      /\ \A k \in 1 .. Size(t) : Pending[k] = [kind |-> "data", of |-> t, at |-> k]
  BY <1>2, <1>3, <1>4, FrontUnit DEF Good
<1>6. Hdr \in 1 .. Size(t)
  BY <1>1, <1>5, SizeOfTelegram
<1>7. Pending[Hdr] = [kind |-> "data", of |-> t, at |-> Hdr]
  BY <1>5, <1>6
<1>8. Hdr \in 0 .. pktbuffer.plen /\ Hdr \in 1 .. Hdr /\ Hdr \in 1 .. pktbuffer.plen
  BY <1>1, <1>2
<1>9. RingPeek(pktbuffer, Hdr)[Hdr] = Contents(pktbuffer)[Hdr]
  BY <1>1, <1>8, Peeked
<1>10. PICK last : last = RingPeek(pktbuffer, Hdr)[Hdr]
  OBVIOUS
<1>11. last = [kind |-> "data", of |-> t, at |-> Hdr]
  BY <1>2, <1>7, <1>8, <1>9, <1>10
<1>12. DataSizes = {Size(t)}
  BY <1>10, <1>11 DEF DataSizes
<1> QED
  BY <1>2, <1>3, <1>4, <1>12 DEF UnitSize

LEMMA DataParsed ==
    ASSUME Good, DataPacket
    PROVE  Good'
<1>1. /\ stage = "parsing" /\ pktbuffer.plen >= Hdr /\ Looks(Opcode, "data")
      /\ UNCHANGED <<port, stage, outgoing, strm, line, chip, output, onBus, accepted>>
  BY DEF DataPacket, worldVars
<1>2. PICK size \in DataSizes : size <= pktbuffer.plen /\ pktbuffer' = RingRemove(pktbuffer, size)
  BY DEF DataPacket
<1>3. pktbuffer.plen > 0 /\ Pending[1].kind = "data" /\ size = UnitSize(Pending)
  BY <1>1, <1>2, SizeRead
<1>4. size \in 0 .. pktbuffer.plen
  <2>1. Pending # <<>> /\ pktbuffer.plen \in Nat /\ Pending \in Seq(ChipByte)
    BY <1>3, AtTheFront, Line DEF Good
  <2>2. size \in Nat
    BY <1>3, <2>1, FrontUnit DEF UnitSize, Good
  <2> QED
    BY <1>2, <2>1, <2>2
<1>5. IF Pending[1].kind = "confirm" THEN outgoing' = FALSE ELSE outgoing' = outgoing
  BY <1>1, <1>3
<1> QED
  BY <1>1, <1>2, <1>3, <1>4, <1>5, Parsed

LEMMA QuietKeeps ==
    ASSUME Good, UNCHANGED <<port, output, outgoing, strm, pktbuffer, line, chip, onBus, accepted>>,
           stage' = stage \/ (stage = "parsing" /\ stage' = "open")
    PROVE  Good'
<1>1. Pending' = Pending
  BY DEF Pending
<1>2. Sends' = Sends /\ Confirms' = Confirms
  BY <1>1 DEF Sends, Confirms
<1>3. Awaited'
  BY <1>2 DEF Good, Awaited
<1>4. InOrder'
  BY <1>2, InOrderOn DEF Good
<1>5. TTypeOK'
  BY DEF Good, TTypeOK, Stages
<1>6. stage' \in {"closed", "reset", "status"} => Unused'
  BY DEF Good, Unused
<1>7. port' = "linux" => strm' = <<>>
  BY DEF Good
<1> QED
  BY <1>1, <1>3, <1>4, <1>5, <1>6, <1>7 DEF Good

LEMMA ParseKeeps == Good /\ Parse => Good'
<1> SUFFICES ASSUME Good, Parse PROVE Good'
  OBVIOUS
<1>1. CASE Confirm \/ ErrorCode
  BY <1>1, AnswerParsed
<1>2. CASE DataPacket
  BY <1>2, DataParsed
<1>3. CASE EndParsing
  <2>1. /\ stage = "parsing" /\ stage' = "open"
        /\ UNCHANGED <<port, output, outgoing, strm, pktbuffer, line, chip, onBus, accepted>>
    BY <1>3 DEF EndParsing, worldVars
  <2> QED
    BY <2>1, QuietKeeps
<1> QED
  BY <1>1, <1>2, <1>3 DEF Parse

(***************************************************************************)
(* broadcast(), update() and the thread                                    *)
(***************************************************************************)
LEMMA HeadAndTail ==
    ASSUME NEW S, NEW s \in Seq(S), s # <<>>
    PROVE  Head(s) \in S /\ Tail(s) \in Seq(S) /\ s = Cat(<<Head(s)>>, Tail(s))
<1>1. PICK n \in Nat : Len(s) = n + 1 /\ DOMAIN s = 1 .. n + 1
  <2>1. Len(s) \in Nat /\ Len(s) # 0 /\ DOMAIN s = 1 .. Len(s)
    BY LenProperties, EmptySeq
  <2>2. Len(s) - 1 \in Nat /\ Len(s) = (Len(s) - 1) + 1
    BY <2>1
  <2> QED
    BY <2>1, <2>2
<1>2. PICK h \in S, t \in Seq(S) : h = Head(s) /\ t = Tail(s)
  BY <1>1, TailIs, LenProperties
<1>3. h = s[1]
  BY <1>2, TailIs
<1>4. Len(t) = n /\ \A k \in 1 .. n : t[k] = s[1 + k]
  <2>1. IsRest(t, s, 1) /\ Len(t) \in Nat
    BY <1>2, TailIs, LenProperties
  <2> QED
    BY <1>1, <2>1 DEF IsRest
<1>5. PICK o \in Seq(S) : o = <<h>> /\ Len(o) = 1 /\ o[1] = h
  <2>1. <<h>> \in Seq(S) /\ Len(<<h>>) = 1 /\ <<h>>[1] = h
    OBVIOUS
  <2> QED
    BY <2>1, Zenon
<1>6. PICK j \in Seq(S) : j = o \o t
  BY ConcatProperties
<1>7. Len(j) = 1 + n /\ \A k \in 1 .. 1 + n : j[k] = IF k <= 1 THEN o[k] ELSE t[k - 1]
  <2>1. /\ Len(o \o t) = Len(o) + Len(t)
        /\ \A k \in 1 .. Len(o) + Len(t) : (o \o t)[k] = IF k <= Len(o) THEN o[k] ELSE t[k - Len(o)]
    BY ConcatProperties
  <2> QED
    BY <1>4, <1>5, <1>6, <2>1
<1>8. ASSUME NEW k \in 1 .. n + 1 PROVE j[k] = s[k]
  <2>1. CASE k = 1
    BY <1>3, <1>5, <1>7, <2>1
  <2>2. CASE k # 1
    <3>1. PICK l \in 1 .. n : l = k - 1 /\ k = 1 + l
      BY <2>2
    <3>2. j[k] = t[l] /\ t[l] = s[k]
      BY <1>4, <1>7, <2>2, <3>1
    <3> QED
      BY <3>2
  <2> QED
    BY <2>1, <2>2
<1>9. DOMAIN j = 1 .. n + 1
  BY <1>7, LenProperties
<1>10. j = s
  BY <1>1, <1>8, <1>9
<1>11. Cat(<<Head(s)>>, Tail(s)) = j
  BY <1>2, <1>5, <1>6, Zenon DEF Cat
<1> QED
  BY <1>2, <1>3, <1>10, <1>11, Zenon

LEMMA AppendIs ==
    ASSUME NEW S, NEW s \in Seq(S), NEW e \in S
    PROVE  Append(s, e) = Cat(s, <<e>>) /\ <<e>> \in Seq(S)
<1>1. Append(s, e) = s \o <<e>>
  BY AppendProperties, ConcatProperties
<1>2. <<e>> \in Seq(S)
  OBVIOUS
<1> QED
  BY <1>1, <1>2 DEF Cat

\* A telegram that is added to a queue is added to everything that ends in it.
LEMMA AppendMoves ==
    ASSUME NEW S, NEW a \in Seq(S), NEW b \in Seq(S), NEW e \in S
    PROVE  Append(Cat(a, b), e) = Cat(a, Append(b, e))
<1>1. PICK o \in Seq(S) : o = <<e>>
  BY AppendIs
<1>2. Append(b, e) = Cat(b, o)
  BY <1>1, AppendIs
<1>3. Cat(a, b) \in Seq(S)
  BY CatIn
<1>4. Append(Cat(a, b), e) = Cat(Cat(a, b), o)
  BY <1>1, <1>3, AppendIs
<1>5. Cat(Cat(a, b), o) = Cat(a, Cat(b, o))
  BY CatAssoc
<1> QED
  BY <1>2, <1>4, <1>5, Zenon

\* The order of the telegrams, in terms of Cat.
LEMMA OrderIs ==
    ASSUME TTypeOK
    PROVE  /\ InOrder <=> /\ Sends = {} => accepted = Cat(onBus, output)
                          /\ \A i \in Sends : accepted = Cat(onBus, Cat(<<chip[i].telegram>>, output))
           /\ \A i \in Sends : chip[i].telegram \in BusTelegram
<1>1. \A i \in Sends : chip[i].telegram \in BusTelegram
  BY Line, SendPlaces DEF TTypeOK
<1> QED
  BY <1>1, Zenon DEF InOrder, Cat

LEMMA BroadcastKeepsGood == Good /\ BroadcastTPUART => Good'
<1> SUFFICES ASSUME Good, BroadcastTPUART PROVE Good'
  OBVIOUS
<1>1. TTypeOK
  BY DEF Good
<1>2. PICK t : t = Own(Len(accepted) + 1)
  OBVIOUS
<1>3. t \in BusTelegram
  <2>1. Len(accepted) + 1 \in Nat /\ 0 \in 0 .. Payload
    BY <1>1, LenProperties, TelegramAssumption DEF TTypeOK
  <2> QED
    BY <1>2, <2>1 DEF Own, BusTelegram
<1>4. /\ output' = Append(output, t) /\ accepted' = Append(accepted, t)
      /\ UNCHANGED <<port, stage, outgoing, strm, pktbuffer, chip, line, onBus>>
  BY <1>2 DEF BroadcastTPUART, worldVars
<1>5. PICK a \in Seq(BusTelegram), b \in Seq(BusTelegram), q \in Seq(BusTelegram) :
        a = accepted /\ b = onBus /\ q = output
  BY <1>1 DEF TTypeOK
<1>6. Pending' = Pending
  BY <1>4 DEF Pending
<1>7. Sends' = Sends /\ Confirms' = Confirms
  BY <1>4, <1>6 DEF Sends, Confirms
<1>8. Awaited'
  BY <1>4, <1>7 DEF Good, Awaited
<1>9. Append(q, t) \in Seq(BusTelegram) /\ Append(a, t) \in Seq(BusTelegram)
  BY <1>3, AppendProperties
<1>10. TTypeOK'
  BY <1>1, <1>4, <1>5, <1>9 DEF TTypeOK
<1>11. InOrder'
  <2>1. Sends = {} => Append(a, t) = Cat(b, Append(q, t))
    <3>1. Sends = {} => a = Cat(b, q)
      BY <1>1, <1>5, OrderIs DEF Good
    <3>2. Append(Cat(b, q), t) = Cat(b, Append(q, t))
      BY <1>3, AppendMoves
    <3> QED
      BY <3>1, <3>2, Zenon
  <2>2. ASSUME NEW i \in Sends
        PROVE  Append(a, t) = Cat(b, Cat(<<chip[i].telegram>>, Append(q, t)))
    <3>1. a = Cat(b, Cat(<<chip[i].telegram>>, q)) /\ chip[i].telegram \in BusTelegram
      BY <1>1, <1>5, <2>2, OrderIs, Zenon DEF Good
    <3>2. PICK o \in Seq(BusTelegram) : o = <<chip[i].telegram>>
      BY <3>1, AppendIs, Zenon
    <3>3. Cat(o, q) \in Seq(BusTelegram)
      BY CatIn
    <3>4. Append(Cat(b, Cat(o, q)), t) = Cat(b, Append(Cat(o, q), t))
      BY <1>3, <3>3, AppendMoves
    <3>5. Append(Cat(o, q), t) = Cat(o, Append(q, t))
      BY <1>3, AppendMoves
    <3> QED
      BY <3>1, <3>2, <3>4, <3>5, Zenon
  <2>3. Sends' = {} => accepted' = Cat(onBus', output')
    BY <1>4, <1>5, <1>7, <2>1, Zenon
  <2>4. \A i \in Sends' : accepted' = Cat(onBus', Cat(<<chip'[i].telegram>>, output'))
    BY <1>4, <1>5, <1>7, <2>2, Zenon
  <2> QED
    BY <2>3, <2>4, Zenon DEF InOrder, Cat
<1>12. stage' \in {"closed", "reset", "status"} => Unused'
  BY <1>4 DEF Good, Unused
<1>13. (port' = "linux" => strm' = <<>>) /\ Whole(Pending')
  BY <1>4, <1>6 DEF Good
<1> QED
  BY <1>8, <1>10, <1>11, <1>12, <1>13 DEF Good

\* A telegram goes to the chip when the one before is confirmed.
LEMMA OutgoingKeeps ==
    ASSUME Good, ProcessOutgoing, UNCHANGED <<accepted, onBus>>, Pending' = Pending
    PROVE  /\ Awaited' /\ InOrder' /\ chip' \in Seq(ChipCommand)
           /\ output' \in Seq(BusTelegram) /\ outgoing' \in BOOLEAN
<1>1. TTypeOK
  BY DEF Good
<1>2. Confirms' = Confirms
  BY DEF Confirms
<1>3. CASE ~ outgoing /\ output # <<>>
  <2>1. /\ outgoing' = TRUE /\ output' = Tail(output)
        /\ chip' = Append(chip, SendOf(Head(output)))
    BY <1>3 DEF ProcessOutgoing
  <2>2. PICK q \in Seq(BusTelegram), c \in Seq(ChipCommand), b \in Seq(BusTelegram),
              a \in Seq(BusTelegram) :
          q = output /\ c = chip /\ b = onBus /\ a = accepted
    BY <1>1 DEF TTypeOK
  <2>3. Head(q) \in BusTelegram /\ Tail(q) \in Seq(BusTelegram) /\ q = Cat(<<Head(q)>>, Tail(q))
    BY <1>3, <2>2, HeadAndTail
  <2>4. PICK e : e = SendOf(Head(q))
    OBVIOUS
  <2>5. e \in ChipCommand /\ e \in SendCommand /\ e.telegram = Head(q)
    BY <2>3, <2>4 DEF SendOf, ChipCommand, SendCommand
  <2>6. Sends = {} /\ Confirms = {} /\ Places(c, SendCommand) = {}
    BY <1>1, <1>3, <2>2, Line DEF Good, Awaited
  <2>7. Append(c, e) \in Seq(ChipCommand)
    BY <2>5, PlacesAppended
  <2>8. Places(Append(c, e), SendCommand) = {Len(c) + 1}
    BY <2>5, <2>6, PlacesAppended
  <2>9. Append(c, e)[Len(c) + 1] = e
    BY <2>5, AppendProperties
  <2>10. chip' = Append(c, e)
    BY <2>1, <2>2, <2>4, Zenon
  <2>11. PICK p, d : p = Len(c) + 1 /\ d = Append(c, e) /\ d \in Seq(ChipCommand)
    BY <2>7, Zenon
  <2>12. chip' = d /\ Places(d, SendCommand) = {p} /\ d[p] = e /\ d \in Seq(ChipCommand)
    BY <2>8, <2>9, <2>10, <2>11, Zenon
  <2>13. Sends' = {p} /\ chip'[p].telegram = Head(q)
    <3>1. {i \in DOMAIN d : d[i].name = "send"} = Places(d, SendCommand)
      BY <2>12, SendPlaces, Zenon
    <3>2. Sends' = Places(d, SendCommand)
      BY <2>12, <3>1, Zenon DEF Sends
    <3> QED
      BY <2>5, <2>12, <3>2, Zenon
  <2>14. Awaited'
    BY <1>2, <2>1, <2>6, <2>13 DEF Awaited
  <2>15. InOrder'
    <3>1. a = Cat(b, q)
      BY <1>1, <2>2, <2>6, OrderIs DEF Good
    <3>2. a = Cat(b, Cat(<<Head(q)>>, Tail(q)))
      BY <2>3, <3>1, Zenon
    <3>3. \A i \in Sends' : accepted' = Cat(onBus', Cat(<<chip'[i].telegram>>, output'))
      BY <2>1, <2>2, <2>13, <3>2, Zenon
    <3>4. Sends' # {}
      BY <2>13
    <3> QED
      BY <3>3, <3>4, Zenon DEF InOrder, Cat
  <2> QED
    BY <2>1, <2>2, <2>3, <2>12, <2>14, <2>15, Zenon
<1>4. CASE ~ (~ outgoing /\ output # <<>>)
  <2>1. UNCHANGED <<outgoing, output, chip>>
    BY <1>4 DEF ProcessOutgoing
  <2>2. Sends' = Sends
    BY <2>1 DEF Sends
  <2>3. Awaited' /\ InOrder'
    BY <1>2, <2>1, <2>2, InOrderOn DEF Good, Awaited
  <2> QED
    BY <1>1, <2>1, <2>3 DEF TTypeOK
<1> QED
  BY <1>3, <1>4

LEMMA UpdateKeepsGood == Good /\ UpdateTPUART /\ ~ lost' => Good' /\ Pending' = Pending
<1> SUFFICES ASSUME Good, UpdateTPUART, ~ lost' PROVE Good' /\ Pending' = Pending
  OBVIOUS
<1>1. TTypeOK /\ line \in Seq(ChipByte) /\ strm \in Seq(ChipByte)
  BY DEF Good, TTypeOK
<1> DEFINE Reads(bytes) ==
      /\ Feed(bytes) /\ ProcessOutgoing /\ stage = "open" /\ UNCHANGED <<port, onBus, accepted>>
      /\ bytes \in Seq(ChipByte)
      /\ \/ strm = <<>> /\ strm' = <<>> /\ line = bytes \o line' /\ line' \in Seq(ChipByte)
         \/ strm = bytes /\ strm' = <<>> /\ line' = line
<1>2. PICK bytes : Reads(bytes)
  <2>1. CASE UpdateMiosix
    BY <1>1, <2>1 DEF UpdateMiosix
  <2>2. ASSUME NEW k \in 0 .. RecvMax, UpdateLinux(k) PROVE \E bytes : Reads(bytes)
    <3>1. k \in Nat /\ k <= Len(line)
      BY <2>2, TelegramAssumption DEF UpdateLinux
    <3>2. /\ First(line, k) \in Seq(ChipByte) /\ After(line, k) \in Seq(ChipByte)
          /\ First(line, k) \o After(line, k) = line
      BY <1>1, <3>1, Parts
    <3>3. /\ Feed(First(line, k)) /\ ProcessOutgoing /\ stage = "open" /\ port = "linux"
          /\ UNCHANGED <<port, onBus, accepted, strm>> /\ line' = After(line, k)
      BY <2>2 DEF UpdateLinux
    <3>4. strm = <<>> /\ strm' = <<>>
      BY <3>3 DEF Good
    <3> QED
      BY <3>2, <3>3, <3>4, Zenon
  <2> QED
    BY <2>1, <2>2 DEF UpdateTPUART
<1>3. bytes \in Seq(ChipByte)
  BY <1>2
<1>4. /\ pktbuffer' = RingWrite(pktbuffer, bytes) /\ ~ (pktbuffer.plen + Len(bytes) > RingSize)
      /\ stage' \in {"open", "parsing"}
  BY <1>2 DEF Feed
<1>5. pktbuffer.plen + Len(bytes) <= RingSize
  <2>1. pktbuffer.plen \in Nat /\ Len(bytes) \in Nat /\ RingSize \in Nat
    BY <1>1, <1>3, Line, LenProperties, RingAssumption
  <2> QED
    BY <1>4, <2>1
<1>6. \/ strm = <<>> /\ strm' = <<>> /\ line = bytes \o line' /\ line' \in Seq(ChipByte)
      \/ strm = bytes /\ strm' = <<>> /\ line' = line
  BY <1>2, Zenon
<1>7. IsRing(pktbuffer', ChipByte) /\ Pending' = Pending
  BY <1>1, <1>3, <1>4, <1>5, <1>6, BytesMove
<1>8. /\ Awaited' /\ InOrder' /\ chip' \in Seq(ChipCommand)
      /\ output' \in Seq(BusTelegram) /\ outgoing' \in BOOLEAN
  BY <1>2, <1>7, OutgoingKeeps
<1>9. strm' = <<>> /\ line' \in Seq(ChipByte) /\ strm' \in Seq(ChipByte)
  BY <1>1, <1>2, EmptySeq
<1>10. TTypeOK'
  BY <1>1, <1>2, <1>4, <1>7, <1>8, <1>9 DEF TTypeOK, Stages
<1> QED
  BY <1>4, <1>7, <1>8, <1>9, <1>10 DEF Good

LEMMA ThreadKeepsGood ==
    Good /\ (\E k \in 1 .. RecvMax : ThreadPush(k)) => Good' /\ Pending' = Pending
<1> SUFFICES ASSUME Good, NEW k \in 1 .. RecvMax, ThreadPush(k) PROVE Good' /\ Pending' = Pending
  OBVIOUS
<1>1. TTypeOK /\ k \in Nat /\ k <= Len(line)
  BY TelegramAssumption DEF Good, ThreadPush
<1>2. /\ strm' = strm \o First(line, k) /\ line' = After(line, k) /\ port = "miosix"
      /\ stage = "open"
      /\ UNCHANGED <<port, stage, output, outgoing, pktbuffer, chip, onBus, accepted>>
  BY DEF ThreadPush
<1>3. strm' \in Seq(ChipByte) /\ line' \in Seq(ChipByte) /\ Pending' = Pending
  BY <1>1, <1>2, ThreadMoves
<1>4. Sends' = Sends /\ Confirms' = Confirms
  BY <1>2, <1>3 DEF Sends, Confirms
<1>5. Awaited'
  BY <1>2, <1>4 DEF Good, Awaited
<1>6. InOrder'
  BY <1>2, <1>4, InOrderOn DEF Good
<1>7. TTypeOK'
  BY <1>1, <1>2, <1>3 DEF TTypeOK
<1> QED
  BY <1>2, <1>3, <1>5, <1>6, <1>7 DEF Good

(***************************************************************************)
(* The chip and the bus                                                    *)
(***************************************************************************)
LEMMA BytesCome ==
    ASSUME Good, NEW bytes \in Seq(ChipByte), line' = line \o bytes, Whole(bytes),
           UNCHANGED <<port, stage, outgoing, output, strm, pktbuffer, accepted>>,
           chip' \in Seq(ChipCommand), onBus' \in Seq(BusTelegram), InOrder', Awaited'
    PROVE  Good'
<1>1. TTypeOK
  BY DEF Good
<1>2. line' \in Seq(ChipByte) /\ Pending' = Pending \o bytes /\ Pending \in Seq(ChipByte)
  BY <1>1, LineGrows, Line
<1>3. Whole(Pending \o bytes)
  BY <1>2, WholeJoined DEF Good
<1>4. Whole(Pending')
  BY <1>2, <1>3, Zenon
<1>5. TTypeOK'
  BY <1>1, <1>2 DEF TTypeOK
<1>6. stage' \in {"closed", "reset", "status"} => Unused'
  BY DEF Good, Unused
<1>7. port' = "linux" => strm' = <<>>
  BY DEF Good
<1> QED
  BY <1>4, <1>5, <1>6, <1>7 DEF Good

LEMMA ConfirmsJoined ==
    ASSUME NEW s \in Seq(ChipByte), NEW t \in Seq(ChipByte)
    PROVE  /\ Places(t, Confirmation) = {}
                => Places(s \o t, Confirmation) = Places(s, Confirmation)
           /\ Places(s, Confirmation) = {}
                => Places(s \o t, Confirmation) = {Len(s) + i : i \in Places(t, Confirmation)}
<1>1. Places(t, Confirmation) = {} => Places(s \o t, Confirmation) = Places(s, Confirmation)
  BY PlacesJoined
<1>2. Places(s, Confirmation) = {}
        => Places(s \o t, Confirmation) = {Len(s) + i : i \in Places(t, Confirmation)}
  BY PlacesJoined
<1> QED
  BY <1>1, <1>2, Zenon

\* The confirmations after bytes have come.
LEMMA ConfirmsCome ==
    ASSUME TTypeOK, NEW bytes \in Seq(ChipByte), line' = line \o bytes,
           UNCHANGED <<strm, pktbuffer>>
    PROVE  /\ Places(bytes, Confirmation) = {} => Confirms' = Confirms
           /\ Confirms = {} /\ (\E i : Places(bytes, Confirmation) = {i})
                => \E i : Confirms' = {i}
<1>1. PICK p \in Seq(ChipByte) : p = Pending /\ Confirms = Places(p, Confirmation)
  BY Line
<1>2. Pending' = p \o bytes /\ p \o bytes \in Seq(ChipByte)
  BY <1>1, LineGrows, ConcatProperties
<1>3. {i \in DOMAIN (p \o bytes) : (p \o bytes)[i].kind = "confirm"} = Places(p \o bytes, Confirmation)
  BY <1>2, ConfirmPlaces, Zenon
<1>4. Confirms' = Places(p \o bytes, Confirmation)
  BY <1>2, <1>3, Zenon DEF Confirms
<1>5. /\ Places(bytes, Confirmation) = {}
           => Places(p \o bytes, Confirmation) = Places(p, Confirmation)
      /\ Places(p, Confirmation) = {}
           => Places(p \o bytes, Confirmation) = {Len(p) + i : i \in Places(bytes, Confirmation)}
  BY ConfirmsJoined
<1>6. PICK x, y, z : /\ x = Places(p, Confirmation) /\ y = Places(bytes, Confirmation)
                     /\ z = Places(p \o bytes, Confirmation)
  OBVIOUS
<1>7. y = {} => z = x
  BY <1>5, <1>6, Zenon
<1>8. x = {} => z = {Len(p) + i : i \in y}
  BY <1>5, <1>6, Zenon
<1>9. x = {} /\ (\E i : y = {i}) => \E i : z = {i}
  BY <1>8
<1> QED
  BY <1>1, <1>4, <1>6, <1>7, <1>9, Zenon

LEMMA HearsKeeps == Good /\ Hears => Good'
<1> SUFFICES ASSUME Good, Hears PROVE Good'
  OBVIOUS
<1>1. PICK t \in Others : line' = line \o Bytes(t)
  BY DEF Hears
<1>2. t \in BusTelegram
  BY <1>1, TPUARTAssumption DEF Others, BusTelegram
<1>3. PICK bytes \in Seq(ChipByte) :
        bytes = Bytes(t) /\ Whole(bytes) /\ Places(bytes, Confirmation) = {}
  BY <1>2, BytesOfTelegram
<1>4. /\ UNCHANGED <<port, stage, outgoing, output, strm, pktbuffer, accepted, chip, onBus>>
      /\ line' = line \o bytes /\ TTypeOK
  BY <1>1, <1>3 DEF Hears, driverVars, Good
<1>5. Confirms' = Confirms /\ Sends' = Sends
  BY <1>3, <1>4, ConfirmsCome DEF Sends
<1>6. Awaited'
  BY <1>4, <1>5 DEF Good, Awaited
<1>7. InOrder'
  BY <1>4, <1>5, InOrderOn DEF Good
<1>8. chip' \in Seq(ChipCommand) /\ onBus' \in Seq(BusTelegram)
  BY <1>4 DEF TTypeOK
<1> QED
  BY <1>3, <1>4, <1>6, <1>7, <1>8, BytesCome

LEMMA ErrorKeeps == Good /\ ReportsError => Good'
<1> SUFFICES ASSUME Good, ReportsError PROVE Good'
  OBVIOUS
<1>1. PICK bytes \in Seq(ChipByte) :
        bytes = Answer("error") /\ Whole(bytes) /\ Places(bytes, Confirmation) = {}
  BY AnswerIs
<1>2. /\ UNCHANGED <<port, stage, outgoing, output, strm, pktbuffer, accepted, chip, onBus>>
      /\ line' = line \o bytes /\ TTypeOK
  BY <1>1 DEF ReportsError, driverVars, Good
<1>3. Confirms' = Confirms /\ Sends' = Sends
  BY <1>1, <1>2, ConfirmsCome DEF Sends
<1>4. Awaited'
  BY <1>2, <1>3 DEF Good, Awaited
<1>5. InOrder'
  BY <1>2, <1>3, InOrderOn DEF Good
<1>6. chip' \in Seq(ChipCommand) /\ onBus' \in Seq(BusTelegram)
  BY <1>2 DEF TTypeOK
<1> QED
  BY <1>1, <1>2, <1>4, <1>5, <1>6, BytesCome

LEMMA CommandTaken ==
    ASSUME NEW s \in Seq(ChipCommand), NEW r \in Seq(ChipCommand), NEW n \in Nat, n = 1,
           IsRest(r, s, n), 1 \in DOMAIN s
    PROVE  /\ s[1].name # "send" /\ Places(s, SendCommand) = {} => Places(r, SendCommand) = {}
           /\ s[1].name # "send" => \A i : Places(s, SendCommand) = {i}
                => Places(r, SendCommand) = {i - 1} /\ r[i - 1] = s[i]
           /\ s[1].name = "send" => /\ 1 \in Places(s, SendCommand)
                                    /\ Places(s, SendCommand) = {1} => Places(r, SendCommand) = {}
<1>1. s[1] \in ChipCommand
  BY LenProperties
<1>2. s[1].name = "send" <=> s[1] \in SendCommand
  BY <1>1 DEF ChipCommand, SendCommand
<1>3. Places(s, SendCommand) = {} => Places(r, SendCommand) = {}
  BY PlacesRest
<1>4. ASSUME s[1].name # "send", NEW i, Places(s, SendCommand) = {i}
      PROVE  Places(r, SendCommand) = {i - 1} /\ r[i - 1] = s[i]
  <2>1. \A k \in 1 .. n : s[k] \notin SendCommand
    BY <1>2, <1>4
  <2>2. Places(r, SendCommand) = {i - n} /\ r[i - n] = s[i]
    BY <1>4, <2>1, PlacesRest
  <2> QED
    BY <2>2
<1>5. s[1].name = "send" => 1 \in Places(s, SendCommand)
  BY <1>2 DEF Places
<1>6. ASSUME Places(s, SendCommand) = {1} PROVE Places(r, SendCommand) = {}
  <2>1. PICK i : i = 1
    OBVIOUS
  <2>2. Places(s, SendCommand) = {i} /\ i <= n
    BY <1>6, <2>1
  <2>3. \A X : \A k : Places(s, X) = {k} /\ k <= n => Places(r, X) = {}
    BY PlacesRest
  <2> QED
    BY <2>2, <2>3
<1> QED
  BY <1>3, <1>4, <1>5, <1>6

\* The chip carries out a command that is no telegram.
LEMMA OtherCommand ==
    ASSUME Good, chip # <<>>, chip' = Tail(chip), Head(chip).name # "send",
           NEW bytes \in Seq(ChipByte), Whole(bytes), Places(bytes, Confirmation) = {},
           line' = line \o bytes,
           UNCHANGED <<port, stage, outgoing, output, strm, pktbuffer, accepted, onBus>>
    PROVE  Good'
<1>1. TTypeOK
  BY DEF Good
<1>2. PICK c \in Seq(ChipCommand), r \in Seq(ChipCommand) :
        c = chip /\ chip' = r /\ c[1].name # "send" /\ IsRest(r, c, 1) /\ 1 \in DOMAIN c
  <2>1. /\ Tail(chip) \in Seq(ChipCommand) /\ IsRest(Tail(chip), chip, 1)
        /\ Head(chip) = chip[1] /\ 1 \in DOMAIN chip
    BY <1>1, TailIs DEF TTypeOK
  <2> QED
    BY <1>1, <2>1, Zenon DEF TTypeOK
<1>3. /\ Places(c, SendCommand) = {} => Places(r, SendCommand) = {}
      /\ \A i : Places(c, SendCommand) = {i} => Places(r, SendCommand) = {i - 1} /\ r[i - 1] = c[i]
  BY <1>2, CommandTaken
<1>4. Sends = Places(c, SendCommand) /\ Sends' = Places(r, SendCommand)
  <2>1. {i \in DOMAIN r : r[i].name = "send"} = Places(r, SendCommand)
    BY SendPlaces
  <2>2. Sends' = {i \in DOMAIN r : r[i].name = "send"}
    BY <1>2, Zenon DEF Sends
  <2> QED
    BY <1>1, <1>2, <2>1, <2>2, Line
<1>5. Confirms' = Confirms
  BY <1>1, ConfirmsCome
<1>6. Sends = {} => Sends' = {}
  BY <1>3, <1>4, Zenon
<1>7. \A i : Sends = {i} => Sends' = {i - 1} /\ r[i - 1] = c[i]
  BY <1>3, <1>4, Zenon
<1>8. Awaited'
  <2>1. \A i : Sends = {i} => \E j : Sends' = {j}
    BY <1>7
  <2> QED
    BY <1>5, <1>6, <2>1, AwaitedOn DEF Good
<1>9. InOrder'
  <2>1. CASE Sends = {}
    BY <1>6, <2>1, Zenon DEF Good, InOrder
  <2>2. CASE \E i : Sends = {i}
    <3>1. PICK i : Sends = {i}
      BY <2>2
    <3>2. accepted = onBus \o (<<c[i].telegram>> \o output)
      <4>1. i \in Sends
        BY <3>1
      <4> QED
        BY <1>2, <4>1, Zenon DEF Good, InOrder
    <3>3. PICK j : j = i - 1
      OBVIOUS
    <3>4. Sends' = {j} /\ chip'[j] = c[i]
      BY <1>2, <1>7, <3>1, <3>3
    <3>5. \A k \in Sends' : accepted' = onBus' \o (<<chip'[k].telegram>> \o output')
      <4> SUFFICES ASSUME NEW k \in Sends'
                   PROVE  accepted' = onBus' \o (<<chip'[k].telegram>> \o output')
        OBVIOUS
      <4>1. k = j
        BY <3>4
      <4> QED
        BY <3>2, <3>4, <4>1, Zenon
    <3>6. Sends' # {}
      BY <3>4
    <3> QED
      BY <3>5, <3>6, Zenon DEF InOrder
  <2> QED
    BY <2>1, <2>2 DEF Good, Awaited
<1>10. onBus' \in Seq(BusTelegram) /\ chip' \in Seq(ChipCommand)
  BY <1>1, <1>2 DEF TTypeOK
<1> QED
  BY <1>8, <1>9, <1>10, BytesCome

\* The chip sends the telegram, and with or without its echo confirms it.
LEMMA TelegramSent ==
    ASSUME Good, chip # <<>>, chip' = Tail(chip), Head(chip).name = "send",
           onBus' = Append(onBus, Head(chip).telegram), NEW echoed \in BOOLEAN,
           line' = line \o (IF echoed THEN Bytes(Head(chip).telegram) ELSE <<>>) \o Answer("confirm"),
           UNCHANGED <<port, stage, outgoing, output, strm, pktbuffer, accepted>>
    PROVE  Good'
<1>1. TTypeOK
  BY DEF Good
<1>2. PICK c \in Seq(ChipCommand), r \in Seq(ChipCommand) :
        /\ c = chip /\ chip' = r /\ c[1].name = "send" /\ IsRest(r, c, 1) /\ 1 \in DOMAIN c
        /\ Head(chip) = c[1]
  <2>1. /\ Tail(chip) \in Seq(ChipCommand) /\ IsRest(Tail(chip), chip, 1)
        /\ Head(chip) = chip[1] /\ 1 \in DOMAIN chip
    BY <1>1, TailIs DEF TTypeOK
  <2> QED
    BY <1>1, <2>1, Zenon DEF TTypeOK
<1>3. /\ 1 \in Places(c, SendCommand)
      /\ Places(c, SendCommand) = {1} => Places(r, SendCommand) = {}
  BY <1>2, CommandTaken
<1>4. Sends = Places(c, SendCommand) /\ Sends' = Places(r, SendCommand)
  <2>1. {i \in DOMAIN r : r[i].name = "send"} = Places(r, SendCommand)
    BY SendPlaces
  <2>2. Sends' = {i \in DOMAIN r : r[i].name = "send"}
    BY <1>2, Zenon DEF Sends
  <2> QED
    BY <1>1, <1>2, <2>1, <2>2, Line
<1>5. Sends = {1} /\ outgoing /\ Confirms = {}
  BY <1>3, <1>4 DEF Good, Awaited
<1>6. Sends' = {}
  BY <1>3, <1>4, <1>5
<1>7. PICK t \in BusTelegram : t = c[1].telegram /\ t = Head(chip).telegram
  BY <1>2, <1>3, SendPlaces
<1>8. PICK x \in Seq(ChipByte) : /\ x = IF echoed THEN Bytes(t) ELSE <<>>
                                 /\ Whole(x) /\ Places(x, Confirmation) = {}
  <2>1. /\ Bytes(t) \in Seq(ChipByte) /\ Whole(Bytes(t)) /\ Places(Bytes(t), Confirmation) = {}
    BY BytesOfTelegram
  <2>2. <<>> \in Seq(ChipByte) /\ Whole(<<>>) /\ Places(<<>>, Confirmation) = {}
    BY EmptySeq DEF Whole, Places
  <2> QED
    BY <2>1, <2>2, Zenon
<1>9. PICK y \in Seq(ChipByte) :
        y = Answer("confirm") /\ Whole(y) /\ Places(y, Confirmation) = {1}
  BY AnswerIs
<1>10. PICK bytes \in Seq(ChipByte) : bytes = x \o y
  BY ConcatProperties
<1>11. Whole(bytes)
  BY <1>8, <1>9, <1>10, WholeJoined, Zenon
<1>12. \E i : Places(bytes, Confirmation) = {i}
  <2>1. Places(x \o y, Confirmation) = {Len(x) + i : i \in Places(y, Confirmation)}
    BY <1>8, ConfirmsJoined
  <2>2. PICK z : z = Places(x \o y, Confirmation)
    OBVIOUS
  <2>3. PICK w : w = Places(y, Confirmation) /\ w = {1}
    BY <1>9
  <2>4. z = {Len(x) + i : i \in w}
    BY <2>1, <2>2, <2>3, Zenon
  <2>5. z = {Len(x) + 1}
    BY <2>3, <2>4
  <2> QED
    BY <1>10, <2>2, <2>5, Zenon
<1>13. line' = line \o bytes
  <2>1. PICK l \in Seq(ChipByte) : l = line
    BY <1>1 DEF TTypeOK
  <2>2. line' = Cat(Cat(l, x), y)
    BY <1>7, <1>8, <1>9, <2>1, Zenon DEF Cat
  <2>3. Cat(Cat(l, x), y) = Cat(l, Cat(x, y))
    BY CatAssoc
  <2> QED
    BY <1>10, <2>1, <2>2, <2>3, Zenon DEF Cat
<1>14. \E i : Confirms' = {i}
  BY <1>1, <1>5, <1>12, <1>13, ConfirmsCome
<1>15. Awaited'
  BY <1>5, <1>6, <1>14 DEF Awaited
<1>16. InOrder' /\ onBus' \in Seq(BusTelegram)
  <2>1. PICK b \in Seq(BusTelegram), q \in Seq(BusTelegram) : b = onBus /\ q = output
    BY <1>1 DEF TTypeOK
  <2>2. accepted = Cat(b, Cat(<<t>>, q))
    <3>1. 1 \in Sends
      BY <1>5
    <3> QED
      BY <1>1, <1>2, <1>7, <2>1, <3>1, OrderIs, Zenon DEF Good
  <2>3. PICK o \in Seq(BusTelegram) : o = <<t>> /\ Append(b, t) = Cat(b, o)
    BY AppendIs
  <2>4. Cat(Cat(b, o), q) = Cat(b, Cat(o, q))
    BY CatAssoc
  <2>5. Cat(b, o) \in Seq(BusTelegram)
    BY CatIn
  <2>6. onBus' = Cat(b, o)
    BY <1>7, <2>1, <2>3, Zenon
  <2>7. accepted' = Cat(onBus', output')
    BY <2>1, <2>2, <2>3, <2>4, <2>6, Zenon
  <2>8. InOrder'
    BY <1>6, <2>7, Zenon DEF InOrder, Cat
  <2> QED
    BY <2>5, <2>6, <2>8, Zenon
<1>17. chip' \in Seq(ChipCommand)
  BY <1>2
<1> QED
  BY <1>11, <1>13, <1>15, <1>16, <1>17, BytesCome

LEMMA ChipKeeps == Good /\ ChipAnswers => Good'
<1> SUFFICES ASSUME Good, ChipAnswers PROVE Good'
  OBVIOUS
<1>1. /\ chip # <<>> /\ chip' = Tail(chip)
      /\ UNCHANGED <<port, stage, outgoing, output, strm, pktbuffer, accepted>>
  BY DEF ChipAnswers, driverVars
<1>2. CASE /\ Head(chip).name = "send"
           /\ onBus' = Append(onBus, Head(chip).telegram)
           /\ \E echoed \in BOOLEAN :
                line' = line \o (IF echoed THEN Bytes(Head(chip).telegram) ELSE <<>>)
                             \o Answer("confirm")
  <2>1. PICK echoed \in BOOLEAN :
          line' = line \o (IF echoed THEN Bytes(Head(chip).telegram) ELSE <<>>) \o Answer("confirm")
    BY <1>2, Zenon
  <2> QED
    BY <1>1, <1>2, <2>1, TelegramSent
<1>3. CASE Head(chip).name = "address" /\ UNCHANGED <<line, onBus>>
  <2>1. line \in Seq(ChipByte)
    BY DEF Good, TTypeOK
  <2>2. <<>> \in Seq(ChipByte) /\ Whole(<<>>) /\ Places(<<>>, Confirmation) = {}
    BY EmptySeq DEF Whole, Places
  <2>3. line' = line \o <<>>
    BY <1>3, <2>1, ConcatEmptySeq
  <2> QED
    BY <1>1, <1>3, <2>2, <2>3, OtherCommand
<1>4. ASSUME NEW kind \in {"reset", "status"}, Head(chip).name = kind,
             line' = line \o Answer(kind), UNCHANGED onBus
      PROVE  Good'
  <2>1. PICK bytes \in Seq(ChipByte) :
          bytes = Answer(kind) /\ Whole(bytes) /\ Places(bytes, Confirmation) = {}
    BY <1>4, AnswerIs
  <2> QED
    BY <1>1, <1>4, <2>1, OtherCommand
<1> QED
  BY <1>2, <1>3, <1>4 DEF ChipAnswers

(***************************************************************************)
(* The theorems                                                            *)
(***************************************************************************)
LEMMA LostIsBoolean == lost \in BOOLEAN /\ TNext => lost' \in BOOLEAN
<1> SUFFICES ASSUME lost \in BOOLEAN, TNext PROVE lost' \in BOOLEAN
  OBVIOUS
<1>2. CASE Open \/ BroadcastTPUART \/ Parse \/ (\E k \in 1 .. RecvMax : ThreadPush(k))
           \/ ChipAnswers \/ Hears \/ ReportsError
  BY <1>2 DEF Open, BroadcastTPUART, Parse, Confirm, ErrorCode, DataPacket, EndParsing,
              ThreadPush, ChipAnswers, Hears, ReportsError
<1>3. CASE ShutdownTPUART \/ Restarts
  BY <1>3 DEF ShutdownTPUART, Restarts
<1>4. CASE ResetDone \/ ResetAgain \/ StatusAgain \/ CheckStatus
  BY <1>4 DEF ResetDone, ResetAgain, StatusAgain, CheckStatus, Swallowed, InitFails
<1>5. CASE UpdateTPUART
  BY <1>5 DEF UpdateTPUART, UpdateMiosix, UpdateLinux, Feed
<1> QED
  BY <1>2, <1>3, <1>4, <1>5 DEF TNext

\* The driver and the chip start with nothing on the line and nothing to send.
LEMMA InitTIInv == TInit => TIInv
<1> SUFFICES ASSUME TInit PROVE TIInv
  OBVIOUS
<1>1. /\ port \in {"linux", "miosix"} /\ stage = "closed" /\ output = <<>> /\ outgoing = FALSE
      /\ strm = <<>> /\ pktbuffer = EmptyRing /\ chip = <<>> /\ line = <<>>
      /\ accepted = <<>> /\ onBus = <<>> /\ lost = FALSE
  BY DEF TInit
<1>2. \A S : <<>> \in Seq(S)
  OBVIOUS
<1>3. IsRing(pktbuffer, ChipByte)
  BY <1>1, EmptyRingIsRing
<1>4. TTypeOK
  BY <1>1, <1>2, <1>3 DEF TTypeOK, Stages
<1>5. Unused
  BY <1>1 DEF Unused, EmptyRing
<1>6. Pending = <<>>
  <2>1. Contents(pktbuffer) \in Seq(ChipByte) /\ Len(Contents(pktbuffer)) = 0
    BY <1>4, <1>5, Line DEF Unused
  <2>2. Contents(pktbuffer) = <<>>
    BY <2>1, EmptySeq
  <2> QED
    BY <1>1, <2>2 DEF Pending
<1>7. Sends = {} /\ Confirms = {}
  BY <1>1, <1>6 DEF Sends, Confirms
<1>8. InOrder
  BY <1>1, <1>7 DEF InOrder
<1>9. Whole(Pending)
  BY <1>6 DEF Whole
<1> QED
  BY <1>1, <1>4, <1>5, <1>7, <1>8, <1>9 DEF TIInv, Awaited

\* Every step of init(), of update() and of its loop, of the thread, of the
\* program and of the chip keeps the invariant, or loses bytes.
THEOREM TPUARTStepKeepsTIInv == TIInv /\ [TNext]_tpuartVars => TIInv'
<1> SUFFICES ASSUME TIInv, [TNext]_tpuartVars PROVE TIInv'
  OBVIOUS
<1>1. TIInv <=> lost \in BOOLEAN /\ (~ lost => Good)
  BY DEF TIInv, Good
<1>2. CASE UNCHANGED tpuartVars
  <2>1. UNCHANGED <<port, stage, output, outgoing, strm, pktbuffer, line, chip, onBus, accepted, lost>>
    BY <1>2 DEF tpuartVars, driverVars, worldVars
  <2>2. ~ lost' => Good'
    BY <1>1, <2>1, QuietKeeps
  <2> QED
    BY <1>1, <2>1, <2>2 DEF TIInv, Good
<1>3. CASE TNext
  <2>1. ~ lost /\ Good
    BY <1>1, <1>3 DEF TNext
  <2>2. ASSUME ~ lost' PROVE Good'
    <3>1. CASE Open \/ ResetDone \/ ResetAgain \/ StatusAgain \/ CheckStatus
      BY <2>1, <2>2, <3>1, OpenKeeps, ResetDoneKeeps, ResetAgainKeeps, StatusKeeps
    <3>2. CASE ShutdownTPUART \/ Restarts
      BY <2>2, <3>2 DEF ShutdownTPUART, Restarts
    <3>3. CASE BroadcastTPUART \/ UpdateTPUART \/ (\E k \in 1 .. RecvMax : ThreadPush(k))
      BY <2>1, <2>2, <3>3, BroadcastKeepsGood, UpdateKeepsGood, ThreadKeepsGood
    <3>4. CASE Parse
      BY <2>1, <3>4, ParseKeeps
    <3>5. CASE ChipAnswers \/ Hears \/ ReportsError
      BY <2>1, <3>5, ChipKeeps, HearsKeeps, ErrorKeeps
    <3> QED
      BY <1>3, <3>1, <3>2, <3>3, <3>4, <3>5 DEF TNext
  <2>3. lost' \in BOOLEAN
    BY <1>1, <1>3, LostIsBoolean
  <2> QED
    BY <2>2, <2>3 DEF TIInv, Good
<1> QED
  BY <1>2, <1>3

\* As long as no byte went elsewhere, the bytes between the chip and the parser
\* are whole telegrams and answers.
THEOREM TPUARTAlwaysTIInv == TSpec => []TIInv
<1>1. TInit => TIInv
  BY InitTIInv
<1>2. TIInv /\ [TNext]_tpuartVars => TIInv'
  BY TPUARTStepKeepsTIInv
<1> QED
  BY <1>1, <1>2, PTL DEF TSpec

LEMMA OneWaits == TIInv => OneAtATime
<1> SUFFICES ASSUME TIInv, ~ lost
             PROVE  InOrder /\ Cardinality(Sends) + Cardinality(Confirms) = IF outgoing THEN 1 ELSE 0
  BY DEF OneAtATime
<1>1. InOrder /\ Awaited
  BY DEF TIInv
<1>2. Cardinality({}) = 0 /\ \A i : Cardinality({i}) = 1
  BY FS_EmptySet, FS_Singleton
<1>3. CASE ~ outgoing /\ Sends = {} /\ Confirms = {}
  BY <1>1, <1>2, <1>3
<1>4. CASE outgoing /\ Confirms = {} /\ \E i \in Sends : Sends = {i}
  <2>1. Cardinality(Sends) = 1 /\ Cardinality(Confirms) = 0
    BY <1>2, <1>4
  <2> QED
    BY <1>1, <1>4, <2>1
<1>5. CASE outgoing /\ Sends = {} /\ \E i \in Confirms : Confirms = {i}
  <2>1. Cardinality(Sends) = 0 /\ Cardinality(Confirms) = 1
    BY <1>2, <1>5
  <2> QED
    BY <1>1, <1>5, <2>1
<1> QED
  BY <1>1, <1>3, <1>4, <1>5 DEF Awaited

\* _is_packet_outgoing is up exactly while one telegram is in the chip or its
\* confirmation on the way, and the telegrams of broadcast() reach the bus in
\* order, each once.
THEOREM AlwaysOneAtATime == TSpec => []OneAtATime
<1>1. TIInv => OneAtATime
  BY OneWaits
<1> QED
  BY <1>1, TPUARTAlwaysTIInv, PTL

(***************************************************************************)
(* What the program is given: the telegrams of others, from the line to    *)
(* _pkts.                                                                  *)
(***************************************************************************)
Foreign(b) == b.kind = "data" /\ b.of.from = "other"

\* b comes before c among the bytes of others.
Precedes(b, c) == b.of.n < c.of.n \/ (b.of.n = c.of.n /\ b.at < c.at)

\* The bytes of others on the line are of telegrams the chip passed on, and in
\* their order, none twice.
Queued(bytes, told) ==
    /\ \A i \in DOMAIN bytes : Foreign(bytes[i]) => \E k \in DOMAIN told : bytes[i].of = told[k]
    /\ \A i, j \in DOMAIN bytes :
          i < j /\ Foreign(bytes[i]) /\ Foreign(bytes[j]) => Precedes(bytes[i], bytes[j])

\* Each good telegram is on the line or was given to the program; what was given
\* is in order, and before what is on the line.
Given(bytes, told, kept) ==
    /\ \A i \in DOMAIN kept : \E k \in DOMAIN told : told[k].good /\ kept[i] = Bytes(told[k])
    /\ \A i, j \in DOMAIN kept : i < j => kept[i][1].of.n < kept[j][1].of.n
    /\ \A i \in DOMAIN kept : \A j \in DOMAIN bytes :
          Foreign(bytes[j]) => kept[i][1].of.n < bytes[j].of.n
    /\ \A k \in DOMAIN told : told[k].good =>
          \/ \E i \in DOMAIN kept : kept[i] = Bytes(told[k])
          \/ \E i \in DOMAIN bytes : bytes[i].kind = "data" /\ bytes[i].of = told[k]

Told(told) == told \in Seq(BusTelegram)
              /\ \A k \in DOMAIN told : told[k].from = "other" /\ told[k].n = k

Passing(bytes, told, kept) ==
    /\ Told(told) /\ kept \in Seq(Seq(ChipByte))
    /\ Queued(bytes, told) /\ Given(bytes, told, kept)

OwnOnly == \A i \in DOMAIN accepted : accepted[i].from = "own"

\* The inductive invariant of what is given to the program.
HeardInv == TIInv /\ (~ lost => OwnOnly /\ Passing(Pending, heard, pushed))

LEMMA TelegramBytes ==
    ASSUME NEW t \in BusTelegram
    PROVE  /\ Bytes(t) \in Seq(ChipByte) /\ Size(t) \in Nat /\ DOMAIN Bytes(t) = 1 .. Size(t)
           /\ \A k \in 1 .. Size(t) : Bytes(t)[k] = [kind |-> "data", of |-> t, at |-> k]
           /\ 1 \in 1 .. Size(t) /\ Bytes(t)[1].of = t
<1>1. PICK n \in Nat : n = Size(t) /\ 1 \in 1 .. n
  BY SizeOfTelegram, TelegramAssumption
<1>2. PICK s : s = Bytes(t)
  OBVIOUS
<1>3. s = [k \in 1 .. n |-> [kind |-> "data", of |-> t, at |-> k]]
  BY <1>1, <1>2 DEF Bytes
<1>4. DOMAIN s = 1 .. n /\ \A k \in 1 .. n : s[k] = [kind |-> "data", of |-> t, at |-> k]
  BY <1>3
<1>5. s[1].of = t
  BY <1>1, <1>4
<1>6. s \in Seq(ChipByte)
  BY <1>2, BytesOfTelegram
<1> QED
  BY <1>1, <1>2, <1>4, <1>5, <1>6

\* j is s, which has n items, and t behind it.
Joined(j, s, t, n) ==
    /\ j = s \o t /\ DOMAIN s = 1 .. n
    /\ \A i \in DOMAIN s : i \in DOMAIN j /\ j[i] = s[i]
    /\ \A k \in DOMAIN t : n + k \in DOMAIN j /\ j[n + k] = t[k]
    /\ \A i \in DOMAIN j : i \in DOMAIN s \/ \E k \in DOMAIN t : i = n + k

LEMMA JoinedAt ==
    ASSUME NEW S, NEW s \in Seq(S), NEW t \in Seq(S)
    PROVE  \E n \in Nat : \E j \in Seq(S) : Joined(j, s, t, n)
<1>1. PICK m \in Nat, n \in Nat : /\ Len(s) = m /\ Len(t) = n
                                  /\ DOMAIN s = 1 .. m /\ DOMAIN t = 1 .. n
  BY LenProperties
<1>2. PICK j \in Seq(S) : j = s \o t
  BY ConcatProperties
<1>3. /\ DOMAIN j = 1 .. m + n
      /\ \A i \in 1 .. m + n : j[i] = IF i <= m THEN s[i] ELSE t[i - m]
  <2>1. /\ Len(s \o t) = Len(s) + Len(t)
        /\ \A i \in 1 .. Len(s) + Len(t) : (s \o t)[i] = IF i <= Len(s) THEN s[i] ELSE t[i - Len(s)]
    BY ConcatProperties
  <2>2. DOMAIN j = 1 .. Len(j)
    BY LenProperties
  <2> QED
    BY <1>1, <1>2, <2>1, <2>2
<1>4. \A i \in 1 .. m : i \in 1 .. m + n /\ j[i] = s[i]
  BY <1>3
<1>5. ASSUME NEW k \in 1 .. n PROVE m + k \in 1 .. m + n /\ j[m + k] = t[k]
  <2>1. m + k \in 1 .. m + n /\ ~ (m + k <= m) /\ (m + k) - m = k
    OBVIOUS
  <2> QED
    BY <1>3, <2>1
<1>6. ASSUME NEW i \in 1 .. m + n, i \notin 1 .. m PROVE \E k \in 1 .. n : i = m + k
  <2>1. i - m \in 1 .. n /\ i = m + (i - m)
    BY <1>6
  <2> QED
    BY <2>1
<1>7. /\ \A k \in DOMAIN t : m + k \in DOMAIN j /\ j[m + k] = t[k]
      /\ \A i \in DOMAIN j : i \in DOMAIN s \/ \E k \in DOMAIN t : i = m + k
  BY <1>1, <1>3, <1>5, <1>6
<1>8. \A i \in DOMAIN s : i \in DOMAIN j /\ j[i] = s[i]
  BY <1>1, <1>3, <1>4
<1> QED
  BY <1>1, <1>2, <1>7, <1>8, Zenon DEF Joined

LEMMA QuietBytes ==
    ASSUME NEW s \in Seq(ChipByte), NEW t \in Seq(ChipByte), NEW told, NEW kept,
           \A k \in DOMAIN t : ~ Foreign(t[k]), Passing(s, told, kept)
    PROVE  Passing(s \o t, told, kept)
<1> PICK n \in Nat, j \in Seq(ChipByte) : Joined(j, s, t, n)
  BY JoinedAt
<1>1. /\ j = s \o t /\ DOMAIN s = 1 .. n
      /\ \A i \in DOMAIN s : i \in DOMAIN j /\ j[i] = s[i]
      /\ \A k \in DOMAIN t : n + k \in DOMAIN j /\ j[n + k] = t[k]
      /\ \A i \in DOMAIN j : i \in DOMAIN s \/ \E k \in DOMAIN t : i = n + k
  BY Zenon DEF Joined
<1>2. \A i \in DOMAIN j : Foreign(j[i]) => i \in DOMAIN s /\ j[i] = s[i]
  BY <1>1
<1>3. Queued(j, told)
  <2>1. Queued(s, told)
    BY DEF Passing
  <2>2. ASSUME NEW i \in DOMAIN j, Foreign(j[i]) PROVE \E k \in DOMAIN told : j[i].of = told[k]
    BY <1>2, <2>1, <2>2 DEF Queued
  <2>3. ASSUME NEW i \in DOMAIN j, NEW l \in DOMAIN j, i < l, Foreign(j[i]), Foreign(j[l])
        PROVE  Precedes(j[i], j[l])
    <3>1. i \in DOMAIN s /\ l \in DOMAIN s /\ j[i] = s[i] /\ j[l] = s[l]
      BY <1>2, <2>3
    <3>2. Precedes(s[i], s[l])
      BY <2>1, <2>3, <3>1, Zenon DEF Queued
    <3> QED
      BY <3>1, <3>2
  <2> QED
    BY <2>2, <2>3, Zenon DEF Queued
<1>4. Given(j, told, kept)
  <2>1. Given(s, told, kept)
    BY DEF Passing
  <2>2. ASSUME NEW i \in DOMAIN kept, NEW l \in DOMAIN j, Foreign(j[l])
        PROVE  kept[i][1].of.n < j[l].of.n
    <3>1. l \in DOMAIN s /\ j[l] = s[l]
      BY <1>2, <2>2
    <3>2. Foreign(s[l])
      BY <2>2, <3>1, Zenon
    <3>3. kept[i][1].of.n < s[l].of.n
      BY <2>1, <3>1, <3>2, Zenon DEF Given
    <3> QED
      BY <3>1, <3>3, Zenon
  <2>3. ASSUME NEW k \in DOMAIN told, NEW i \in DOMAIN s, s[i].kind = "data", s[i].of = told[k]
        PROVE  \E l \in DOMAIN j : j[l].kind = "data" /\ j[l].of = told[k]
    BY <1>1, <2>3
  <2>4. ASSUME NEW k \in DOMAIN told, told[k].good
        PROVE  \/ \E i \in DOMAIN kept : kept[i] = Bytes(told[k])
               \/ \E i \in DOMAIN j : j[i].kind = "data" /\ j[i].of = told[k]
    BY <2>1, <2>3, <2>4, Zenon DEF Given
  <2> QED
    BY <2>1, <2>2, <2>4, Zenon DEF Given
<1> QED
  BY <1>1, <1>3, <1>4, Zenon DEF Passing

\* more is told, which has m telegrams, and t.
Longer(more, told, t, m) ==
    /\ more = Append(told, t) /\ Told(more) /\ t.n = m + 1
    /\ DOMAIN told = 1 .. m /\ DOMAIN more = 1 .. m + 1
    /\ more[m + 1] = t /\ \A k \in 1 .. m : more[k] = told[k]

LEMMA ToldMore ==
    ASSUME NEW told, Told(told), NEW t \in BusTelegram, t.from = "other", t.n = Len(told) + 1
    PROVE  \E m \in Nat : \E more \in Seq(BusTelegram) : Longer(more, told, t, m)
<1>1. PICK m \in Nat : Len(told) = m /\ DOMAIN told = 1 .. m
  BY LenProperties DEF Told
<1>2. PICK more \in Seq(BusTelegram) : more = Append(told, t)
  BY AppendProperties DEF Told
<1>3. Len(more) = m + 1 /\ (\A k \in 1 .. m : more[k] = told[k]) /\ more[m + 1] = t
  BY <1>1, <1>2, AppendProperties DEF Told
<1>4. DOMAIN more = 1 .. m + 1
  BY <1>3, LenProperties
<1>5. Told(more)
  <2>1. \A k \in 1 .. m + 1 : k \in 1 .. m \/ k = m + 1
    OBVIOUS
  <2>2. \A k \in 1 .. m : told[k].from = "other" /\ told[k].n = k
    BY <1>1 DEF Told
  <2>3. t.n = m + 1
    BY <1>1
  <2> QED
    BY <1>3, <1>4, <2>1, <2>2, <2>3 DEF Told
<1> QED
  BY <1>1, <1>2, <1>3, <1>4, <1>5, Zenon DEF Longer

\* The chip passes on a telegram of another device.
LEMMA TelegramHeard ==
    ASSUME NEW s \in Seq(ChipByte), NEW told, NEW kept, Passing(s, told, kept),
           NEW t \in BusTelegram, t.from = "other", t.n = Len(told) + 1
    PROVE  Passing(s \o Bytes(t), Append(told, t), kept)
<1>1. PICK size \in Nat, b \in Seq(ChipByte) :
        /\ b = Bytes(t) /\ DOMAIN b = 1 .. size /\ 1 \in 1 .. size
        /\ \A k \in 1 .. size : b[k] = [kind |-> "data", of |-> t, at |-> k]
  BY TelegramBytes
<1> PICK n \in Nat, j \in Seq(ChipByte) : Joined(j, s, b, n)
  BY JoinedAt
<1>2. /\ j = s \o b /\ DOMAIN s = 1 .. n
      /\ \A i \in DOMAIN s : i \in DOMAIN j /\ j[i] = s[i]
      /\ \A k \in DOMAIN b : n + k \in DOMAIN j /\ j[n + k] = b[k]
      /\ \A i \in DOMAIN j : i \in DOMAIN s \/ \E k \in DOMAIN b : i = n + k
  BY Zenon DEF Joined
<1>3. Told(told)
  BY DEF Passing
<1> PICK m \in Nat, more \in Seq(BusTelegram) : Longer(more, told, t, m)
  BY <1>3, ToldMore
<1>4. /\ more = Append(told, t) /\ Told(more) /\ t.n = m + 1
      /\ DOMAIN told = 1 .. m /\ DOMAIN more = 1 .. m + 1
      /\ more[m + 1] = t /\ \A k \in 1 .. m : more[k] = told[k]
  BY Zenon DEF Longer
<1>5. \A k \in DOMAIN told : k \in DOMAIN more /\ more[k] = told[k] /\ told[k].n = k /\ k < m + 1
  BY <1>3, <1>4 DEF Told
<1>6. ASSUME NEW k \in 1 .. size PROVE j[n + k].of = t /\ j[n + k].at = k /\ j[n + k].kind = "data"
  <2>1. j[n + k] = b[k] /\ b[k] = [kind |-> "data", of |-> t, at |-> k]
    BY <1>1, <1>2
  <2>2. PICK x : x = j[n + k]
    OBVIOUS
  <2>3. x = [kind |-> "data", of |-> t, at |-> k]
    BY <2>1, <2>2
  <2> QED
    BY <2>2, <2>3
<1>7. Queued(s, told) /\ Given(s, told, kept)
  BY DEF Passing
<1>8. ASSUME NEW i \in DOMAIN s, Foreign(s[i])
      PROVE  \E k \in DOMAIN told : s[i].of = told[k] /\ s[i].of.n < m + 1
  <2>1. PICK k \in DOMAIN told : s[i].of = told[k]
    BY <1>7, <1>8 DEF Queued
  <2> QED
    BY <1>5, <2>1
<1>9. Queued(j, more)
  <2>1. ASSUME NEW i \in DOMAIN j, Foreign(j[i]) PROVE \E k \in DOMAIN more : j[i].of = more[k]
    <3>1. CASE i \in DOMAIN s
      <4>1. Foreign(s[i]) /\ j[i] = s[i]
        BY <1>2, <2>1, <3>1
      <4> QED
        BY <1>5, <1>8, <3>1, <4>1
    <3>2. CASE \E k \in DOMAIN b : i = n + k
      <4>1. j[i].of = more[m + 1] /\ m + 1 \in DOMAIN more
        BY <1>1, <1>4, <1>6, <3>2
      <4> QED
        BY <4>1
    <3> QED
      BY <1>2, <3>1, <3>2
  <2>2. ASSUME NEW i \in DOMAIN j, NEW l \in DOMAIN j, i < l, Foreign(j[i]), Foreign(j[l])
        PROVE  Precedes(j[i], j[l])
    <3>1. CASE i \in DOMAIN s /\ l \in DOMAIN s
      <4>1. j[i] = s[i] /\ j[l] = s[l]
        BY <1>2, <3>1
      <4>2. Precedes(s[i], s[l])
        BY <1>7, <2>2, <3>1, <4>1, Zenon DEF Queued
      <4> QED
        BY <4>1, <4>2
    <3>2. ASSUME i \in DOMAIN s, NEW k \in 1 .. size, l = n + k PROVE Precedes(j[i], j[l])
      <4>1. j[i] = s[i] /\ Foreign(s[i])
        BY <1>2, <2>2, <3>2
      <4>2. j[i].of.n < m + 1
        BY <1>8, <3>2, <4>1
      <4>3. j[l].of.n = m + 1
        BY <1>4, <1>6, <3>2
      <4> QED
        BY <4>2, <4>3 DEF Precedes
    <3>3. ASSUME NEW h \in 1 .. size, NEW k \in 1 .. size, i = n + h, l = n + k
          PROVE  Precedes(j[i], j[l])
      <4>1. h < k
        BY <2>2, <3>3
      <4>2. j[i].of.n = j[l].of.n /\ j[i].at = h /\ j[l].at = k
        BY <1>6, <3>3
      <4> QED
        BY <4>1, <4>2 DEF Precedes
    <3>4. ASSUME NEW h \in 1 .. size, i = n + h, l \in DOMAIN s PROVE FALSE
      BY <1>2, <2>2, <3>4
    <3>5. \A x \in DOMAIN j : x \in DOMAIN s \/ \E k \in 1 .. size : x = n + k
      BY <1>1, <1>2
    <3> QED
      BY <3>1, <3>2, <3>3, <3>4, <3>5, Zenon
  <2> QED
    BY <2>1, <2>2, Zenon DEF Queued
<1>10. ASSUME NEW i \in DOMAIN kept
       PROVE  /\ \E k \in DOMAIN more : more[k].good /\ kept[i] = Bytes(more[k])
              /\ kept[i][1].of.n < m + 1
  <2>1. PICK k \in DOMAIN told : told[k].good /\ kept[i] = Bytes(told[k])
    BY <1>7, Zenon DEF Given
  <2>2. told[k] \in BusTelegram
    BY <1>3, LenProperties DEF Told
  <2>3. PICK u \in BusTelegram : u = told[k] /\ kept[i] = Bytes(u) /\ u.n = k /\ k < m + 1
    BY <1>5, <2>1, <2>2
  <2>4. Bytes(u)[1].of = u
    BY TelegramBytes
  <2>5. kept[i][1].of.n < m + 1
    BY <2>3, <2>4
  <2> QED
    BY <1>5, <2>1, <2>5
<1>11. Given(j, more, kept)
  <2>1. ASSUME NEW i \in DOMAIN kept, NEW l \in DOMAIN j, Foreign(j[l])
        PROVE  kept[i][1].of.n < j[l].of.n
    <3>1. CASE l \in DOMAIN s
      <4>1. j[l] = s[l]
        BY <1>2, <3>1
      <4>2. kept[i][1].of.n < s[l].of.n
        BY <1>7, <2>1, <3>1, <4>1, Zenon DEF Given
      <4> QED
        BY <4>1, <4>2, Zenon
    <3>2. CASE \E k \in DOMAIN b : l = n + k
      <4>1. j[l].of.n = m + 1
        BY <1>1, <1>4, <1>6, <3>2
      <4> QED
        BY <1>10, <4>1
    <3> QED
      BY <1>2, <3>1, <3>2
  <2>2. ASSUME NEW k \in DOMAIN more, more[k].good
        PROVE  \/ \E i \in DOMAIN kept : kept[i] = Bytes(more[k])
               \/ \E i \in DOMAIN j : j[i].kind = "data" /\ j[i].of = more[k]
    <3>1. CASE k \in DOMAIN told
      <4>1. more[k] = told[k]
        BY <1>5, <3>1
      <4>2. \/ \E i \in DOMAIN kept : kept[i] = Bytes(told[k])
            \/ \E i \in DOMAIN s : s[i].kind = "data" /\ s[i].of = told[k]
        BY <1>7, <2>2, <3>1, <4>1, Zenon DEF Given
      <4>3. (\E i \in DOMAIN s : s[i].kind = "data" /\ s[i].of = told[k])
              => \E i \in DOMAIN j : j[i].kind = "data" /\ j[i].of = told[k]
        BY <1>2
      <4> QED
        BY <4>1, <4>2, <4>3, Zenon
    <3>2. CASE k = m + 1
      <4>1. 1 \in 1 .. size /\ 1 \in DOMAIN b
        BY <1>1
      <4>2. n + 1 \in DOMAIN j /\ j[n + 1].kind = "data" /\ j[n + 1].of = t
        BY <1>2, <1>6, <4>1
      <4> QED
        BY <1>4, <3>2, <4>2
    <3>3. k \in 1 .. m \/ k = m + 1
      BY <1>4
    <3> QED
      BY <1>4, <3>1, <3>2, <3>3
  <2>3. \A i, l \in DOMAIN kept : i < l => kept[i][1].of.n < kept[l][1].of.n
    BY <1>7, Zenon DEF Given
  <2> QED
    BY <1>10, <2>1, <2>2, <2>3, Zenon DEF Given
<1>12. kept \in Seq(Seq(ChipByte))
  BY DEF Passing
<1> QED
  BY <1>1, <1>2, <1>4, <1>9, <1>11, <1>12, Zenon DEF Passing

\* The parser takes an answer or a telegram from the front; a good telegram of
\* another device is given to the program.
LEMMA UnitTaken ==
    ASSUME NEW s \in Seq(ChipByte), Whole(s), s # <<>>, NEW r \in Seq(ChipByte),
           IsRest(r, s, UnitSize(s)), NEW told, NEW kept, Passing(s, told, kept),
           NEW given, IF Foreign(s[1]) /\ s[1].of.good
                      THEN given = Append(kept, Bytes(s[1].of)) ELSE given = kept
    PROVE  Passing(r, told, given)
<1>1. 1 \in DOMAIN s /\ s[1] \in ChipByte
  BY EmptySeq, LenProperties
<1>2. PICK n \in Nat : UnitSize(s) = n
  BY FrontUnit DEF UnitSize
<1>3. PICK m \in Nat : /\ Len(r) = m /\ Len(s) = n + m
                       /\ DOMAIN r = 1 .. m /\ DOMAIN s = 1 .. n + m
  BY <1>2, LenProperties DEF IsRest
<1>4. \A k \in DOMAIN r : n + k \in DOMAIN s /\ r[k] = s[n + k]
  BY <1>2, <1>3 DEF IsRest
<1>5. \A i \in DOMAIN s : i \in 1 .. n \/ \E k \in DOMAIN r : i = n + k /\ r[k] = s[i]
  <2> SUFFICES ASSUME NEW i \in 1 .. n + m, i \notin 1 .. n
               PROVE  \E k \in 1 .. m : i = n + k /\ r[k] = s[i]
    BY <1>3
  <2>1. i - n \in 1 .. m /\ i = n + (i - n)
    OBVIOUS
  <2> QED
    BY <1>3, <1>4, <2>1
<1>6. Told(told) /\ Queued(s, told) /\ Given(s, told, kept) /\ kept \in Seq(Seq(ChipByte))
  BY DEF Passing
<1>7. Queued(r, told)
  <2>1. ASSUME NEW i \in DOMAIN r, Foreign(r[i]) PROVE \E k \in DOMAIN told : r[i].of = told[k]
    <3>1. n + i \in DOMAIN s /\ r[i] = s[n + i]
      BY <1>4
    <3> QED
      BY <1>6, <2>1, <3>1, Zenon DEF Queued
  <2>2. ASSUME NEW i \in DOMAIN r, NEW l \in DOMAIN r, i < l, Foreign(r[i]), Foreign(r[l])
        PROVE  Precedes(r[i], r[l])
    <3>1. n + i \in DOMAIN s /\ r[i] = s[n + i] /\ n + l \in DOMAIN s /\ r[l] = s[n + l]
      BY <1>4
    <3>2. n + i < n + l
      BY <1>3, <2>2
    <3>3. Precedes(s[n + i], s[n + l])
      BY <1>6, <2>2, <3>1, <3>2, Zenon DEF Queued
    <3> QED
      BY <3>1, <3>3, Zenon
  <2> QED
    BY <2>1, <2>2, Zenon DEF Queued
<1>8. ASSUME NEW i \in DOMAIN kept, NEW j \in DOMAIN r, Foreign(r[j])
      PROVE  kept[i][1].of.n < r[j].of.n
  <2>1. n + j \in DOMAIN s /\ r[j] = s[n + j]
    BY <1>4
  <2> QED
    BY <1>6, <1>8, <2>1, Zenon DEF Given
<1>9. CASE ~ Foreign(s[1])
  <2>1. given = kept
    BY <1>9
  <2>2. ASSUME NEW k \in DOMAIN told, NEW i \in DOMAIN s, s[i].kind = "data", s[i].of = told[k]
        PROVE  \E j \in DOMAIN r : r[j].kind = "data" /\ r[j].of = told[k]
    <3>1. s[i].of.from = "other"
      BY <1>6, <2>2 DEF Told
    <3>2. i \notin 1 .. n
      <4>1. CASE s[1].kind = "data"
        <5>1. \A l \in 1 .. n : s[l] = [kind |-> "data", of |-> s[1].of, at |-> l]
          BY <1>2, <4>1, FrontUnit DEF UnitSize
        <5>2. ASSUME NEW l \in 1 .. n PROVE s[l].of = s[1].of
          <6>1. PICK x : x = s[l]
            OBVIOUS
          <6>2. x = [kind |-> "data", of |-> s[1].of, at |-> l]
            BY <5>1, <6>1
          <6> QED
            BY <6>1, <6>2
        <5> QED
          BY <1>9, <3>1, <4>1, <5>2 DEF Foreign
      <4>2. CASE s[1].kind # "data"
        <5>1. n = 1 /\ i # 1
          BY <1>2, <2>2, <4>2 DEF UnitSize
        <5> QED
          BY <5>1
      <4> QED
        BY <4>1, <4>2
    <3> QED
      BY <1>5, <2>2, <3>2
  <2>3. ASSUME NEW k \in DOMAIN told, told[k].good
        PROVE  \/ \E i \in DOMAIN kept : kept[i] = Bytes(told[k])
               \/ \E i \in DOMAIN r : r[i].kind = "data" /\ r[i].of = told[k]
    BY <1>6, <2>2, <2>3, Zenon DEF Given
  <2>4. Given(r, told, kept)
    BY <1>6, <1>8, <2>3, Zenon DEF Given
  <2> QED
    BY <1>6, <1>7, <2>1, <2>4, Zenon DEF Passing
<1>10. CASE Foreign(s[1])
  <2>1. s[1].kind = "data" /\ s[1].of.from = "other"
    BY <1>10 DEF Foreign
  <2>2. PICK t \in BusTelegram :
          /\ t = s[1].of /\ Size(t) = n /\ t.from = "other"
          /\ \A l \in 1 .. n : s[l] = [kind |-> "data", of |-> t, at |-> l]
    BY <1>2, <2>1, FrontUnit DEF UnitSize
  <2>3. PICK d \in DOMAIN told : t = told[d] /\ t.n = d
    <3>1. PICK d \in DOMAIN told : s[1].of = told[d]
      BY <1>1, <1>6, <1>10, Zenon DEF Queued
    <3> QED
      BY <1>6, <2>2, <3>1 DEF Told
  <2>4. \A k \in DOMAIN told : told[k].n = t.n => told[k] = t
    BY <1>6, <2>3 DEF Told
  <2>5. \A l \in 1 .. n : l \in DOMAIN s /\ Foreign(s[l]) /\ s[l].of = t /\ s[l].at = l
    <3>1. \A l \in 1 .. n : l \in DOMAIN s
      BY <1>3
    <3>2. ASSUME NEW l \in 1 .. n PROVE s[l].kind = "data" /\ s[l].of = t /\ s[l].at = l
      <4>1. PICK x : x = s[l]
        OBVIOUS
      <4>2. x = [kind |-> "data", of |-> t, at |-> l]
        BY <2>2, <4>1
      <4> QED
        BY <4>1, <4>2
    <3> QED
      BY <2>2, <3>1, <3>2, Zenon DEF Foreign
  <2>6. ASSUME NEW j \in DOMAIN r, Foreign(r[j]) PROVE t.n < r[j].of.n
    <3>1. n + j \in DOMAIN s /\ r[j] = s[n + j] /\ n + j > n /\ 1 < n + j
      BY <1>3, <1>4, <2>2, SizeOfTelegram, TelegramAssumption
    <3>2. PICK k \in DOMAIN told : s[n + j].of = told[k] /\ told[k].n = k
      BY <1>6, <2>6, <3>1 DEF Queued, Told
    <3>3. Precedes(s[1], s[n + j])
      BY <1>1, <1>6, <1>10, <2>6, <3>1, Zenon DEF Queued
    <3>4. t.n < r[j].of.n \/ t.n = r[j].of.n
      BY <2>2, <3>1, <3>3 DEF Precedes
    <3>5. ASSUME t.n = r[j].of.n PROVE FALSE
      <4>1. s[n + j].of = t
        BY <2>4, <3>1, <3>2, <3>5
      <4>2. Continues(s, n + j)
        BY <2>6, <3>1, WholeIs DEF Foreign
      <4>3. PICK a \in 1 .. n : s[n + j].at = a
        BY <2>2, <4>1, <4>2 DEF Continues
      <4>4. a \in DOMAIN s /\ Foreign(s[a]) /\ s[a].of = t /\ s[a].at = a /\ a < n + j
        BY <2>5, <3>1, <4>3
      <4>5. Precedes(s[a], s[n + j])
        BY <1>6, <2>6, <3>1, <4>4, Zenon DEF Queued
      <4>6. t.n \in Nat
        BY DEF BusTelegram
      <4> QED
        BY <4>1, <4>3, <4>4, <4>5, <4>6 DEF Precedes
    <3> QED
      BY <3>4, <3>5
  <2>7. ASSUME NEW k \in DOMAIN told, told[k] # t, NEW i \in DOMAIN s, s[i].kind = "data",
               s[i].of = told[k]
        PROVE  \E j \in DOMAIN r : r[j].kind = "data" /\ r[j].of = told[k]
    <3>1. i \notin 1 .. n
      BY <2>5, <2>7
    <3> QED
      BY <1>5, <2>7, <3>1
  <2>8. CASE t.good
    <3>1. PICK b \in Seq(ChipByte) : b = Bytes(t) /\ b[1].of = t
      BY TelegramBytes
    <3>2. given = Append(kept, b)
      BY <1>10, <2>2, <2>8, <3>1
    <3>3. PICK c \in Nat : Len(kept) = c /\ DOMAIN kept = 1 .. c
      BY <1>6, LenProperties
    <3>4. /\ given \in Seq(Seq(ChipByte)) /\ DOMAIN given = 1 .. c + 1
          /\ given[c + 1] = b /\ \A i \in 1 .. c : given[i] = kept[i]
      BY <1>6, <3>2, <3>3, AppendProperties, LenProperties
    <3>5. \A i \in DOMAIN given : i \in DOMAIN kept \/ i = c + 1
      BY <3>3, <3>4
    <3>6. \A i \in DOMAIN kept : i \in DOMAIN given /\ given[i] = kept[i]
      BY <3>3, <3>4
    <3>7. ASSUME NEW i \in DOMAIN given
          PROVE  \E k \in DOMAIN told : told[k].good /\ given[i] = Bytes(told[k])
      <4>1. CASE i \in DOMAIN kept
        <5>1. PICK k \in DOMAIN told : told[k].good /\ kept[i] = Bytes(told[k])
          BY <1>6, <4>1, Zenon DEF Given
        <5> QED
          BY <3>6, <4>1, <5>1
      <4>2. CASE i = c + 1
        BY <2>3, <2>8, <3>1, <3>4, <4>2, Zenon
      <4> QED
        BY <3>5, <4>1, <4>2
    <3>8. ASSUME NEW i \in DOMAIN kept PROVE kept[i][1].of.n < t.n
      <4>1. kept[i][1].of.n < s[1].of.n
        BY <1>1, <1>6, <1>10, Zenon DEF Given
      <4> QED
        BY <2>2, <4>1, Zenon
    <3>9. ASSUME NEW i \in DOMAIN given, NEW l \in DOMAIN given, i < l
          PROVE  given[i][1].of.n < given[l][1].of.n
      <4>1. i \in DOMAIN kept
        BY <3>3, <3>4, <3>9
      <4>2. CASE l \in DOMAIN kept
        <5>1. kept[i][1].of.n < kept[l][1].of.n
          BY <1>6, <3>9, <4>1, <4>2, Zenon DEF Given
        <5> QED
          BY <3>6, <4>1, <4>2, <5>1, Zenon
      <4>3. CASE l = c + 1
        BY <3>1, <3>4, <3>6, <3>8, <4>1, <4>3, Zenon
      <4> QED
        BY <3>5, <4>2, <4>3
    <3>10. ASSUME NEW i \in DOMAIN given, NEW j \in DOMAIN r, Foreign(r[j])
           PROVE  given[i][1].of.n < r[j].of.n
      <4>1. CASE i \in DOMAIN kept
        BY <1>8, <3>6, <3>10, <4>1, Zenon
      <4>2. CASE i = c + 1
        BY <2>6, <3>1, <3>4, <3>10, <4>2, Zenon
      <4> QED
        BY <3>5, <4>1, <4>2
    <3>11. ASSUME NEW k \in DOMAIN told, told[k].good
           PROVE  \/ \E i \in DOMAIN given : given[i] = Bytes(told[k])
                  \/ \E i \in DOMAIN r : r[i].kind = "data" /\ r[i].of = told[k]
      <4>1. CASE told[k] = t
        <5>1. c + 1 \in DOMAIN given /\ given[c + 1] = Bytes(told[k])
          BY <3>1, <3>4, <4>1
        <5> QED
          BY <5>1
      <4>2. CASE told[k] # t
        <5>1. \/ \E i \in DOMAIN kept : kept[i] = Bytes(told[k])
              \/ \E i \in DOMAIN s : s[i].kind = "data" /\ s[i].of = told[k]
          BY <1>6, <3>11, Zenon DEF Given
        <5> QED
          BY <2>7, <3>6, <4>2, <5>1, Zenon
      <4> QED
        BY <4>1, <4>2
    <3>12. Given(r, told, given)
      BY <3>7, <3>9, <3>10, <3>11, Zenon DEF Given
    <3> QED
      BY <1>6, <1>7, <3>4, <3>12, Zenon DEF Passing
  <2>9. CASE ~ t.good
    <3>1. given = kept
      BY <2>2, <2>9
    <3>2. ASSUME NEW k \in DOMAIN told, told[k].good
          PROVE  \/ \E i \in DOMAIN kept : kept[i] = Bytes(told[k])
                 \/ \E i \in DOMAIN r : r[i].kind = "data" /\ r[i].of = told[k]
      <4>1. \/ \E i \in DOMAIN kept : kept[i] = Bytes(told[k])
            \/ \E i \in DOMAIN s : s[i].kind = "data" /\ s[i].of = told[k]
        BY <1>6, <3>2, Zenon DEF Given
      <4> QED
        BY <2>7, <2>9, <3>2, <4>1, Zenon
    <3>3. Given(r, told, kept)
      BY <1>6, <1>8, <3>2, Zenon DEF Given
    <3> QED
      BY <1>6, <1>7, <3>1, <3>3, Zenon DEF Passing
  <2> QED
    BY <2>8, <2>9
<1> QED
  BY <1>9, <1>10

\* init() reads answers only.
LEMMA InitTakes ==
    ASSUME Good, stage \in {"reset", "status"}, ReadAnswer, Head(line).kind # "data",
           UNCHANGED <<pktbuffer, strm>>, Passing(Pending, heard, pushed)
    PROVE  Passing(Pending', heard, pushed)
<1>1. TTypeOK /\ Unused /\ Whole(Pending)
  BY DEF Good
<1>2. /\ Pending \in Seq(ChipByte) /\ Pending' \in Seq(ChipByte)
      /\ Pending[1].kind # "data" /\ Pending # <<>> /\ IsRest(Pending', Pending, 1)
  BY <1>1, Line, AnswerRead
<1>3. IsRest(Pending', Pending, UnitSize(Pending)) /\ ~ Foreign(Pending[1])
  BY <1>2 DEF UnitSize, Foreign
<1> QED
  BY <1>1, <1>2, <1>3, UnitTaken

LEMMA InitPasses ==
    ASSUME Good, ~ lost, ~ lost', ResetDone \/ ResetAgain \/ StatusAgain \/ CheckStatus,
           Passing(Pending, heard, pushed)
    PROVE  Passing(Pending', heard', pushed')
<1>1. /\ stage \in {"reset", "status"} /\ ReadAnswer /\ Head(line).kind # "data"
      /\ UNCHANGED <<pktbuffer, strm, heard, pushed>>
  BY DEF ResetDone, ResetAgain, StatusAgain, CheckStatus, Swallowed, InitFails, driverVars
<1>2. Passing(Pending', heard, pushed)
  BY <1>1, InitTakes
<1> QED
  BY <1>1, <1>2, Zenon

LEMMA UnitParsed ==
    ASSUME Good, NEW n \in 0 .. pktbuffer.plen, pktbuffer.plen > 0, n = UnitSize(Pending),
           pktbuffer' = RingRemove(pktbuffer, n), UNCHANGED <<strm, line, heard>>,
           Passing(Pending, heard, pushed),
           IF Foreign(Pending[1]) /\ Pending[1].of.good
           THEN pushed' = Append(pushed, Bytes(Pending[1].of)) ELSE pushed' = pushed
    PROVE  Passing(Pending', heard', pushed')
<1>1. TTypeOK /\ Whole(Pending)
  BY DEF Good
<1>2. /\ Pending \in Seq(ChipByte) /\ Pending' \in Seq(ChipByte)
      /\ IsRest(Pending', Pending, UnitSize(Pending)) /\ Pending # <<>>
  BY <1>1, Line, ParserCuts, AtTheFront
<1>3. Passing(Pending', heard, pushed')
  BY <1>1, <1>2, UnitTaken
<1> QED
  BY <1>3, Zenon

LEMMA AnswerPasses ==
    ASSUME Good, Confirm \/ ErrorCode, Passing(Pending, heard, pushed)
    PROVE  Passing(Pending', heard', pushed')
<1>1. /\ stage = "parsing" /\ pktbuffer.plen > 0
      /\ pktbuffer' = RingRemove(pktbuffer, 1)
      /\ UNCHANGED <<strm, line, heard, pushed>>
  BY DEF Confirm, ErrorCode, worldVars
<1>2. /\ Opcode = Pending[1] /\ Pending[1] \in ChipByte
      /\ Pending[1].kind = "data" => Pending[1].at = 1
  BY <1>1, AtTheFront
<1>3. Pending[1].kind \in {"confirm", "status", "error"}
  BY <1>2, LooksRight DEF Confirm, ErrorCode
<1>4. UnitSize(Pending) = 1 /\ ~ Foreign(Pending[1])
  BY <1>3 DEF UnitSize, Foreign
<1>5. 1 \in 0 .. pktbuffer.plen
  BY <1>1, Line DEF Good
<1> QED
  BY <1>1, <1>4, <1>5, UnitParsed

\* What is cut off is the telegram that begins at the front.
LEMMA UnitPeeked ==
    ASSUME TTypeOK, Whole(Pending), Pending # <<>>, Pending[1].kind = "data",
           NEW n \in 0 .. pktbuffer.plen, n = UnitSize(Pending)
    PROVE  RingPeek(pktbuffer, n) = Bytes(Pending[1].of)
<1>1. /\ Pending \in Seq(ChipByte) /\ IsRing(pktbuffer, ChipByte) /\ pktbuffer.plen \in Nat
      /\ \A k \in 1 .. pktbuffer.plen : Pending[k] = Contents(pktbuffer)[k]
  BY Line DEF TTypeOK
<1>2. PICK t \in BusTelegram : t = Pending[1].of
  BY <1>1, FrontUnit
<1>3. /\ n \in Nat /\ Size(t) = n
      /\ \A k \in 1 .. n : Pending[k] = [kind |-> "data", of |-> t, at |-> k]
  BY <1>1, <1>2, FrontUnit DEF UnitSize
<1>4. PICK p \in Seq(ChipByte), b \in Seq(ChipByte) :
        p = RingPeek(pktbuffer, n) /\ b = Bytes(t)
  BY <1>1, Peeked, TelegramBytes
<1>5. Len(p) = n /\ DOMAIN p = 1 .. n /\ \A k \in 1 .. n : p[k] = Contents(pktbuffer)[k]
  BY <1>1, <1>4, Peeked, LenProperties
<1>6. DOMAIN b = 1 .. n /\ \A k \in 1 .. n : b[k] = [kind |-> "data", of |-> t, at |-> k]
  BY <1>3, <1>4, TelegramBytes
<1>7. \A k \in 1 .. n : p[k] = b[k]
  <2> SUFFICES ASSUME NEW k \in 1 .. n PROVE p[k] = b[k]
    OBVIOUS
  <2>1. k \in 1 .. pktbuffer.plen
    BY <1>1, <1>3
  <2> QED
    BY <1>1, <1>3, <1>5, <1>6, <2>1
<1>8. p = b
  BY <1>5, <1>6, <1>7
<1> QED
  BY <1>2, <1>4, <1>8

LEMMA DataPasses ==
    ASSUME Good, DataPacket, Passing(Pending, heard, pushed)
    PROVE  Passing(Pending', heard', pushed')
<1>1. /\ stage = "parsing" /\ pktbuffer.plen >= Hdr /\ Looks(Opcode, "data")
      /\ UNCHANGED <<strm, line, heard>>
  BY DEF DataPacket, worldVars
<1>2. PICK size \in DataSizes :
        /\ size <= pktbuffer.plen /\ pktbuffer' = RingRemove(pktbuffer, size)
        /\ \E push \in IsPushed(RingPeek(pktbuffer, size)) :
              pushed' = IF push THEN Append(pushed, RingPeek(pktbuffer, size)) ELSE pushed
  BY DEF DataPacket
<1>3. pktbuffer.plen > 0 /\ Pending[1].kind = "data" /\ size = UnitSize(Pending)
  BY <1>1, <1>2, SizeRead
<1>4. /\ TTypeOK /\ Whole(Pending) /\ Pending # <<>> /\ pktbuffer.plen \in Nat
      /\ Pending \in Seq(ChipByte)
  BY <1>3, AtTheFront, Line DEF Good
<1>5. size \in 0 .. pktbuffer.plen
  <2>1. size \in Nat
    BY <1>3, <1>4, FrontUnit DEF UnitSize
  <2> QED
    BY <1>2, <1>4, <2>1
<1>6. PICK t \in BusTelegram : t = Pending[1].of
  BY <1>3, <1>4, FrontUnit
<1>7. PICK b : b = Bytes(t) /\ b = RingPeek(pktbuffer, size) /\ b[1].of = t
  BY <1>3, <1>4, <1>5, <1>6, UnitPeeked, TelegramBytes
<1>8. IsPushed(b) = {t.from # "own" /\ t.good}
  BY <1>7, Zenon DEF IsPushed
<1>9. pushed' = IF t.from # "own" /\ t.good THEN Append(pushed, b) ELSE pushed
  <2>1. PICK push \in IsPushed(RingPeek(pktbuffer, size)) :
          pushed' = IF push THEN Append(pushed, RingPeek(pktbuffer, size)) ELSE pushed
    BY <1>2
  <2>2. push \in IsPushed(b) /\ pushed' = IF push THEN Append(pushed, b) ELSE pushed
    BY <1>7, <2>1
  <2>3. push = (t.from # "own" /\ t.good)
    BY <1>8, <2>2
  <2> QED
    BY <2>2, <2>3, Zenon
<1>10. t.from # "own" <=> t.from = "other"
  BY DEF BusTelegram
<1>11. Foreign(Pending[1]) <=> t.from = "other"
  BY <1>3, <1>6, Zenon DEF Foreign
<1>12. IF Foreign(Pending[1]) /\ Pending[1].of.good
       THEN pushed' = Append(pushed, Bytes(Pending[1].of)) ELSE pushed' = pushed
  BY <1>6, <1>7, <1>9, <1>10, <1>11
<1> QED
  BY <1>1, <1>2, <1>3, <1>5, <1>12, UnitParsed

LEMMA AnswerIsQuiet ==
    ASSUME NEW kind \in {"reset", "status", "error", "confirm"}
    PROVE  /\ Answer(kind) \in Seq(ChipByte)
           /\ \A i \in DOMAIN Answer(kind) : ~ Foreign(Answer(kind)[i])
<1>1. PICK e : e = [kind |-> kind]
  OBVIOUS
<1>2. e \in ChipByte /\ ~ Foreign(e)
  BY <1>1 DEF ChipByte, Foreign
<1>3. PICK s : s = <<e>>
  OBVIOUS
<1>4. s \in Seq(ChipByte) /\ DOMAIN s = {1} /\ s[1] = e
  BY <1>2, <1>3
<1>5. Answer(kind) = s
  BY <1>1, <1>3 DEF Answer
<1> QED
  BY <1>2, <1>4, <1>5, Zenon

LEMMA EchoIsQuiet ==
    ASSUME NEW t \in BusTelegram, t.from = "own"
    PROVE  Bytes(t) \in Seq(ChipByte) /\ \A i \in DOMAIN Bytes(t) : ~ Foreign(Bytes(t)[i])
<1>1. PICK b \in Seq(ChipByte), n \in Nat :
        /\ b = Bytes(t) /\ DOMAIN b = 1 .. n
        /\ \A k \in 1 .. n : b[k] = [kind |-> "data", of |-> t, at |-> k]
  BY TelegramBytes
<1>2. ASSUME NEW i \in 1 .. n PROVE ~ Foreign(b[i])
  <2>1. PICK x : x = b[i]
    OBVIOUS
  <2>2. x = [kind |-> "data", of |-> t, at |-> i]
    BY <1>1, <2>1
  <2>3. x.of = t
    BY <2>2
  <2> QED
    BY <2>1, <2>3 DEF Foreign
<1> QED
  BY <1>1, <1>2, Zenon

LEMMA QuietGrows ==
    ASSUME Good, NEW bytes \in Seq(ChipByte), \A i \in DOMAIN bytes : ~ Foreign(bytes[i]),
           line' = line \o bytes, UNCHANGED <<pktbuffer, strm, heard, pushed>>,
           Passing(Pending, heard, pushed)
    PROVE  Passing(Pending', heard', pushed')
<1>1. TTypeOK
  BY DEF Good
<1>2. PICK p \in Seq(ChipByte) : p = Pending
  BY <1>1, Line
<1>3. Pending' = p \o bytes
  BY <1>1, <1>2, LineGrows
<1>4. Passing(p \o bytes, heard, pushed)
  BY <1>2, QuietBytes
<1> QED
  BY <1>3, <1>4, Zenon

\* The chip sends telegrams of the driver only.
LEMMA SendsOwn ==
    ASSUME Good, OwnOnly, NEW i \in Sends
    PROVE  chip[i].telegram \in BusTelegram /\ chip[i].telegram.from = "own"
<1>1. TTypeOK
  BY DEF Good
<1>2. Sends = Places(chip, SendCommand) /\ chip \in Seq(ChipCommand)
  BY <1>1, Line DEF TTypeOK
<1>3. PICK t \in BusTelegram : t = chip[i].telegram
  BY <1>2, SendPlaces
<1>4. PICK b \in Seq(BusTelegram), q \in Seq(BusTelegram) : b = onBus /\ q = output
  BY <1>1 DEF TTypeOK
<1>5. accepted = Cat(b, Cat(<<t>>, q))
  BY <1>1, <1>3, <1>4, OrderIs, Zenon DEF Good
<1>6. PICK o : o = <<t>>
  OBVIOUS
<1> o \in Seq(BusTelegram) /\ 1 \in DOMAIN o /\ o[1] = t
  BY <1>6
<1> PICK n \in Nat, c \in Seq(BusTelegram) : Joined(c, o, q, n)
  BY JoinedAt
<1>7. c = Cat(o, q) /\ 1 \in DOMAIN c /\ c[1] = t
  BY <1>6, Zenon DEF Joined, Cat
<1> PICK m \in Nat, a \in Seq(BusTelegram) : Joined(a, b, c, m)
  BY JoinedAt
<1>8. a = Cat(b, c) /\ m + 1 \in DOMAIN a /\ a[m + 1] = t
  BY <1>7, Zenon DEF Joined, Cat
<1>9. accepted = a
  BY <1>5, <1>6, <1>7, <1>8, Zenon
<1> QED
  BY <1>3, <1>8, <1>9 DEF OwnOnly

LEMMA ChipPasses ==
    ASSUME Good, OwnOnly, ChipAnswers, Passing(Pending, heard, pushed)
    PROVE  Passing(Pending', heard', pushed')
<1>1. chip # <<>> /\ UNCHANGED <<pktbuffer, strm, heard, pushed>> /\ TTypeOK
  BY DEF ChipAnswers, driverVars, Good
<1>2. chip \in Seq(ChipCommand) /\ line \in Seq(ChipByte)
  BY <1>1 DEF TTypeOK
<1>3. CASE /\ Head(chip).name = "send"
           /\ \E echoed \in BOOLEAN :
                line' = line \o (IF echoed THEN Bytes(Head(chip).telegram) ELSE <<>>)
                             \o Answer("confirm")
  <2>1. PICK echoed \in BOOLEAN :
          line' = line \o (IF echoed THEN Bytes(Head(chip).telegram) ELSE <<>>) \o Answer("confirm")
    BY <1>3, Zenon
  <2>2. Head(chip) = chip[1] /\ 1 \in DOMAIN chip
    BY <1>1, <1>2, TailIs
  <2>3. 1 \in Sends
    BY <1>3, <2>2 DEF Sends
  <2>4. PICK t \in BusTelegram : t = Head(chip).telegram /\ t.from = "own"
    BY <2>2, <2>3, SendsOwn
  <2>5. PICK x \in Seq(ChipByte) : /\ x = IF echoed THEN Bytes(t) ELSE <<>>
                                   /\ \A i \in DOMAIN x : ~ Foreign(x[i])
    <3>1. <<>> \in Seq(ChipByte) /\ \A i \in DOMAIN <<>> : ~ Foreign(<<>>[i])
      BY EmptySeq
    <3> QED
      BY <2>4, <3>1, EchoIsQuiet, Zenon
  <2>6. PICK y \in Seq(ChipByte) : y = Answer("confirm") /\ \A i \in DOMAIN y : ~ Foreign(y[i])
    <3>1. "confirm" \in {"reset", "status", "error", "confirm"}
      OBVIOUS
    <3> QED
      BY <3>1, AnswerIsQuiet, Zenon
  <2> PICK n \in Nat, j \in Seq(ChipByte) : Joined(j, x, y, n)
    BY JoinedAt
  <2>7. j = x \o y /\ \A i \in DOMAIN j : ~ Foreign(j[i])
    <3>1. /\ j = x \o y
          /\ \A i \in DOMAIN x : j[i] = x[i]
          /\ \A k \in DOMAIN y : j[n + k] = y[k]
          /\ \A i \in DOMAIN j : i \in DOMAIN x \/ \E k \in DOMAIN y : i = n + k
      BY Zenon DEF Joined
    <3>2. ASSUME NEW i \in DOMAIN j PROVE ~ Foreign(j[i])
      <4>1. CASE i \in DOMAIN x
        BY <2>5, <3>1, <4>1, Zenon
      <4>2. ASSUME NEW k \in DOMAIN y, i = n + k PROVE ~ Foreign(j[i])
        BY <2>6, <3>1, <4>2, Zenon
      <4> QED
        BY <3>1, <4>1, <4>2
    <3> QED
      BY <3>1, <3>2
  <2>8. line' = line \o j
    <3>1. PICK l \in Seq(ChipByte) : l = line
      BY <1>2
    <3>2. line' = Cat(Cat(l, x), y)
      BY <2>1, <2>4, <2>5, <2>6, <3>1, Zenon DEF Cat
    <3>3. Cat(Cat(l, x), y) = Cat(l, Cat(x, y))
      BY CatAssoc
    <3> QED
      BY <2>7, <3>1, <3>2, <3>3, Zenon DEF Cat
  <2> QED
    BY <1>1, <2>7, <2>8, QuietGrows
<1>4. CASE line' = line
  <2>1. Pending' = Pending
    BY <1>1, <1>4 DEF Pending
  <2> QED
    BY <1>1, <2>1, Zenon
<1>5. ASSUME NEW kind \in {"reset", "status"}, line' = line \o Answer(kind)
      PROVE  Passing(Pending', heard', pushed')
  <2>1. PICK y \in Seq(ChipByte) : y = Answer(kind) /\ \A i \in DOMAIN y : ~ Foreign(y[i])
    <3>1. kind \in {"reset", "status", "error", "confirm"}
      OBVIOUS
    <3> QED
      BY <3>1, AnswerIsQuiet, Zenon
  <2> QED
    BY <1>1, <1>5, <2>1, QuietGrows
<1> QED
  BY <1>3, <1>4, <1>5 DEF ChipAnswers

LEMMA HearsPasses ==
    ASSUME Good, Hears, Passing(Pending, heard, pushed)
    PROVE  Passing(Pending', heard', pushed')
<1>1. PICK t \in Others : t.n = Len(heard) + 1 /\ heard' = Append(heard, t) /\ line' = line \o Bytes(t)
  BY DEF Hears
<1>2. t \in BusTelegram /\ t.from = "other"
  BY <1>1, TPUARTAssumption DEF Others, BusTelegram
<1>3. UNCHANGED <<pktbuffer, strm, pushed>> /\ TTypeOK
  BY DEF Hears, driverVars, Good
<1>4. PICK p \in Seq(ChipByte), b \in Seq(ChipByte) : p = Pending /\ b = Bytes(t)
  BY <1>2, <1>3, Line, TelegramBytes
<1>5. Pending' = p \o b
  BY <1>1, <1>3, <1>4, LineGrows
<1>6. Passing(p \o Bytes(t), Append(heard, t), pushed)
  BY <1>1, <1>2, <1>4, TelegramHeard
<1> QED
  BY <1>1, <1>3, <1>4, <1>5, <1>6, Zenon

LEMMA ErrorPasses ==
    ASSUME Good, ReportsError, Passing(Pending, heard, pushed)
    PROVE  Passing(Pending', heard', pushed')
<1>1. PICK y \in Seq(ChipByte) : y = Answer("error") /\ \A i \in DOMAIN y : ~ Foreign(y[i])
  <2>1. "error" \in {"reset", "status", "error", "confirm"}
    OBVIOUS
  <2> QED
    BY <2>1, AnswerIsQuiet, Zenon
<1>2. line' = line \o y /\ UNCHANGED <<pktbuffer, strm, heard, pushed>>
  BY <1>1 DEF ReportsError, driverVars
<1> QED
  BY <1>1, <1>2, QuietGrows

LEMMA OwnOnlyKept ==
    ASSUME Good, OwnOnly, TNext
    PROVE  OwnOnly'
<1>1. CASE BroadcastTPUART
  <2>1. accepted \in Seq(BusTelegram)
    BY DEF Good, TTypeOK
  <2>2. PICK n \in Nat : Len(accepted) = n /\ DOMAIN accepted = 1 .. n
    BY <2>1, LenProperties
  <2>3. PICK t : t = Own(Len(accepted) + 1)
    OBVIOUS
  <2> t \in BusTelegram /\ t.from = "own"
    <3>1. 0 \in 0 .. Payload /\ n + 1 \in Nat
      BY TelegramAssumption
    <3> QED
      BY <2>2, <2>3, <3>1 DEF Own, BusTelegram
  <2>4. accepted' = Append(accepted, t)
    BY <1>1, <2>3 DEF BroadcastTPUART
  <2>5. PICK a \in Seq(BusTelegram) : a = Append(accepted, t)
    BY <2>1, AppendProperties
  <2>6. DOMAIN a = 1 .. n + 1 /\ a[n + 1] = t /\ \A i \in 1 .. n : a[i] = accepted[i]
    BY <2>1, <2>2, <2>5, AppendProperties, LenProperties
  <2>7. \A i \in 1 .. n + 1 : i \in 1 .. n \/ i = n + 1
    OBVIOUS
  <2>8. \A i \in DOMAIN a : a[i].from = "own"
    BY <2>2, <2>3, <2>6, <2>7 DEF OwnOnly
  <2> QED
    BY <2>4, <2>5, <2>8, Zenon DEF OwnOnly
<1>2. CASE ~ BroadcastTPUART
  <2>1. accepted' = accepted
    <3>1. CASE Open \/ ResetDone \/ ResetAgain \/ StatusAgain \/ CheckStatus \/ ShutdownTPUART
      BY <3>1 DEF Open, ResetDone, ResetAgain, StatusAgain, CheckStatus, ShutdownTPUART
    <3>2. CASE UpdateTPUART \/ Parse \/ \E k \in 1 .. RecvMax : ThreadPush(k)
      BY <3>2 DEF UpdateTPUART, UpdateLinux, UpdateMiosix, Parse, Confirm, ErrorCode, DataPacket,
                  EndParsing, ThreadPush
    <3>3. CASE ChipAnswers \/ Hears \/ ReportsError \/ Restarts
      BY <3>3 DEF ChipAnswers, Hears, ReportsError, Restarts
    <3> QED
      BY <1>2, <3>1, <3>2, <3>3 DEF TNext
  <2> QED
    BY <2>1, Zenon DEF OwnOnly
<1> QED
  BY <1>1, <1>2

\* Every step keeps what the program was given in step with what was heard.
LEMMA StepPasses ==
    ASSUME Good, ~ lost, OwnOnly, TNext, ~ lost', Passing(Pending, heard, pushed)
    PROVE  Passing(Pending', heard', pushed')
<1>1. CASE Open \/ BroadcastTPUART \/ EndParsing
  <2>1. UNCHANGED <<pktbuffer, strm, line, heard, pushed>>
    BY <1>1 DEF Open, BroadcastTPUART, EndParsing, worldVars
  <2>2. Pending' = Pending
    BY <2>1 DEF Pending
  <2> QED
    BY <2>1, <2>2, Zenon
<1>2. CASE ResetDone \/ ResetAgain \/ StatusAgain \/ CheckStatus
  BY <1>2, InitPasses
<1>3. CASE ShutdownTPUART \/ Restarts
  BY <1>3 DEF ShutdownTPUART, Restarts
<1>4. CASE UpdateTPUART \/ \E k \in 1 .. RecvMax : ThreadPush(k)
  <2>1. UNCHANGED <<heard, pushed>>
    BY <1>4 DEF UpdateTPUART, UpdateLinux, UpdateMiosix, ThreadPush
  <2>2. Pending' = Pending
    BY <1>4, UpdateKeepsGood, ThreadKeepsGood
  <2> QED
    BY <2>1, <2>2, Zenon
<1>5. CASE Confirm \/ ErrorCode \/ DataPacket
  BY <1>5, AnswerPasses, DataPasses
<1>6. CASE ChipAnswers \/ Hears \/ ReportsError
  BY <1>6, ChipPasses, HearsPasses, ErrorPasses
<1> QED
  BY <1>1, <1>2, <1>3, <1>4, <1>5, <1>6 DEF TNext, Parse

LEMMA InitHeardInv == TInit => HeardInv
<1> SUFFICES ASSUME TInit PROVE HeardInv
  OBVIOUS
<1>1. TIInv /\ ~ lost /\ Good
  BY InitTIInv DEF TInit, TIInv, Good
<1>2. /\ accepted = <<>> /\ heard = <<>> /\ pushed = <<>> /\ pktbuffer = EmptyRing
      /\ strm = <<>> /\ line = <<>>
  BY DEF TInit
<1>3. DOMAIN <<>> = {} /\ \A S : <<>> \in Seq(S)
  OBVIOUS
<1>4. Pending = <<>>
  <2>1. Contents(pktbuffer) \in Seq(ChipByte) /\ Len(Contents(pktbuffer)) = 0
    BY <1>1, <1>2, Line DEF Good, EmptyRing
  <2>2. Contents(pktbuffer) = <<>>
    BY <2>1, EmptySeq
  <2> QED
    BY <1>2, <2>2 DEF Pending
<1>5. OwnOnly
  BY <1>2, <1>3 DEF OwnOnly
<1>6. Passing(<<>>, <<>>, <<>>)
  BY <1>3, Zenon DEF Passing, Told, Queued, Given
<1> QED
  BY <1>1, <1>2, <1>4, <1>5, <1>6, Zenon DEF HeardInv

\* As long as no byte went elsewhere, each good telegram the chip passed on is
\* on the line or was given to the program, once and in order.
THEOREM TPUARTAlwaysHeardInv == TSpec => []HeardInv
<1>1. TInit => HeardInv
  BY InitHeardInv
<1>2. HeardInv /\ [TNext]_tpuartVars => HeardInv'
  <2> SUFFICES ASSUME HeardInv, [TNext]_tpuartVars PROVE HeardInv'
    OBVIOUS
  <2>1. TIInv /\ TIInv'
    BY TPUARTStepKeepsTIInv DEF HeardInv
  <2>2. CASE UNCHANGED tpuartVars
    <3>1. UNCHANGED <<lost, accepted, heard, pushed, pktbuffer, strm, line>>
      BY <2>2 DEF tpuartVars, driverVars, worldVars
    <3>2. Pending' = Pending /\ OwnOnly' = OwnOnly
      BY <3>1 DEF Pending, OwnOnly
    <3> QED
      BY <2>1, <3>1, <3>2, Zenon DEF HeardInv
  <2>3. CASE TNext
    <3>1. ~ lost /\ Good /\ OwnOnly /\ Passing(Pending, heard, pushed)
      BY <2>1, <2>3 DEF TNext, HeardInv, TIInv, Good
    <3>2. OwnOnly'
      BY <2>3, <3>1, OwnOnlyKept
    <3>3. ~ lost' => Passing(Pending', heard', pushed')
      BY <2>3, <3>1, StepPasses
    <3> QED
      BY <2>1, <3>2, <3>3, Zenon DEF HeardInv
  <2> QED
    BY <2>2, <2>3
<1> QED
  BY <1>1, <1>2, PTL DEF TSpec

LEMMA GivenInOrder == HeardInv => HeardInOrder
<1> SUFFICES ASSUME HeardInv, ~ lost
             PROVE  /\ {pushed[i] : i \in DOMAIN pushed}
                         = {Bytes(heard[k]) : k \in {k \in DOMAIN heard :
                                                       heard[k].good /\ ~ Unread(heard[k])}}
                    /\ \A i, j \in DOMAIN pushed : i < j => pushed[i][1].of.n < pushed[j][1].of.n
                    /\ InStep
  BY DEF HeardInOrder
<1>1. Told(heard) /\ Given(Pending, heard, pushed) /\ Good
  BY DEF HeardInv, Passing, TIInv, Good
<1>2. ASSUME NEW k \in DOMAIN heard, NEW i \in DOMAIN pushed, pushed[i] = Bytes(heard[k])
      PROVE  ~ Unread(heard[k])
  <2>1. PICK t : t = heard[k]
    OBVIOUS
  <2> t \in BusTelegram /\ t.from = "other"
    BY <1>1, <2>1, LenProperties DEF Told
  <2> t.n \in Nat
    BY DEF BusTelegram
  <2>2. pushed[i][1].of = t
    BY <1>2, <2>1, TelegramBytes
  <2>3. ASSUME NEW j \in DOMAIN Pending, Pending[j].kind = "data", Pending[j].of = t PROVE FALSE
    <3>1. Foreign(Pending[j])
      BY <2>1, <2>3 DEF Foreign
    <3>2. pushed[i][1].of.n < Pending[j].of.n
      BY <1>1, <3>1, Zenon DEF Given
    <3> QED
      BY <2>1, <2>2, <2>3, <3>2
  <2> QED
    BY <2>1, <2>3, Zenon DEF Unread
<1>3. ASSUME NEW i \in DOMAIN pushed
      PROVE  \E k \in DOMAIN heard :
                heard[k].good /\ ~ Unread(heard[k]) /\ pushed[i] = Bytes(heard[k])
  <2>1. PICK k \in DOMAIN heard : heard[k].good /\ pushed[i] = Bytes(heard[k])
    BY <1>1, Zenon DEF Given
  <2> QED
    BY <1>2, <2>1
<1>4. ASSUME NEW k \in DOMAIN heard, heard[k].good, ~ Unread(heard[k])
      PROVE  \E i \in DOMAIN pushed : pushed[i] = Bytes(heard[k])
  <2>1. \/ \E i \in DOMAIN pushed : pushed[i] = Bytes(heard[k])
        \/ \E i \in DOMAIN Pending : Pending[i].kind = "data" /\ Pending[i].of = heard[k]
    BY <1>1, <1>4, Zenon DEF Given
  <2> QED
    BY <1>4, <2>1, Zenon DEF Unread
<1>5. {pushed[i] : i \in DOMAIN pushed}
        = {Bytes(heard[k]) : k \in {k \in DOMAIN heard : heard[k].good /\ ~ Unread(heard[k])}}
  <2> DEFINE K == {k \in DOMAIN heard : heard[k].good /\ ~ Unread(heard[k])}
  <2>1. \A i \in DOMAIN pushed : \E k \in K : pushed[i] = Bytes(heard[k])
    BY <1>3
  <2>2. \A k \in K : \E i \in DOMAIN pushed : pushed[i] = Bytes(heard[k])
    BY <1>4
  <2> HIDE DEF K
  <2>3. {pushed[i] : i \in DOMAIN pushed} = {Bytes(heard[k]) : k \in K}
    BY <2>1, <2>2
  <2> QED
    BY <2>3, Zenon DEF K
<1>6. \A i, j \in DOMAIN pushed : i < j => pushed[i][1].of.n < pushed[j][1].of.n
  BY <1>1, Zenon DEF Given
<1>7. InStep
  BY <1>1, AtTheFront DEF InStep
<1> QED
  BY <1>5, <1>6, <1>7, Zenon

\* As long as no byte is lost, the program is given exactly the good telegrams
\* of the others that have arrived, whole and in the order of the bus, and the
\* parser never begins in the middle of one.
THEOREM AlwaysHeardInOrder == TSpec => []HeardInOrder
<1>1. HeardInv => HeardInOrder
  BY GivenInOrder
<1> QED
  BY <1>1, TPUARTAlwaysHeardInv, PTL
=============================================================================
