--------------------------- MODULE BackendProofs ---------------------------
(***************************************************************************)
(* Proofs about the ring buffer and about Framing, for every size of ring, *)
(* every way the bytes arrive and every number of telegrams.               *)
(***************************************************************************)
EXTENDS Framing, TLAPS, SequenceTheorems

(***************************************************************************)
(* The ring buffer is a queue of bytes.                                    *)
(***************************************************************************)
LEMMA WrapsOnce ==
    ASSUME NEW n \in Nat \ {0}, NEW a \in 0 .. 2 * n - 1
    PROVE  a % n = (IF a < n THEN a ELSE a - n)
<1>1. CASE a < n
  BY <1>1
<1>2. CASE a >= n
  <2>1. a - n \in 0 .. n - 1 /\ a = n * 1 + (a - n)
    BY <1>2
  <2> QED
    BY <1>2, <2>1
<1> QED
  BY <1>1, <1>2

LEMMA Wrapped ==
    ASSUME NEW start \in 0 .. RingSize - 1, NEW k \in 0 .. RingSize
    PROVE  (start + k) % RingSize = (IF start + k < RingSize THEN start + k ELSE (start + k) - RingSize)
<1> DEFINE sum == start + k
<1>1. sum \in 0 .. 2 * RingSize - 1 /\ RingSize \in Nat \ {0}
  BY RingAssumption
<1> HIDE DEF sum
<1>2. sum % RingSize = (IF sum < RingSize THEN sum ELSE sum - RingSize)
  BY <1>1, WrapsOnce
<1> QED
  BY <1>2, Zenon DEF sum

LEMMA EmptyRingIsRing ==
    ASSUME NEW S
    PROVE  IsRing(EmptyRing, S) /\ Contents(EmptyRing) = <<>>
<1>1. 0 \in 0 .. RingSize - 1 /\ 0 \in 0 .. RingSize
  BY RingAssumption
<1> QED
  BY <1>1 DEF IsRing, EmptyRing, Contents, RingPeek

\* Where the i-th byte is in a ring whose first one is at start.
Place(start, i) == IF (start + i) - 1 < RingSize THEN (start + i) - 1
                                                 ELSE ((start + i) - 1) - RingSize

LEMMA PlaceInRing ==
    ASSUME NEW start \in 0 .. RingSize - 1, NEW i \in 1 .. RingSize
    PROVE  Place(start, i) \in 0 .. RingSize - 1
  BY RingAssumption DEF Place

LEMMA RingType ==
    ASSUME NEW S, NEW r, IsRing(r, S)
    PROVE  /\ RingSize \in Nat \ {0} /\ r.pstart \in 0 .. RingSize - 1 /\ r.plen \in 0 .. RingSize
           /\ r.plen \in Nat
           /\ r.buf \in [0 .. RingSize - 1 -> S \union {Stale}]
           /\ \A i \in 1 .. r.plen : Contents(r)[i] \in S
  BY RingAssumption DEF IsRing

LEMMA Peeks ==
    ASSUME NEW r, NEW len \in Nat, NEW start \in 0 .. RingSize - 1, r.pstart = start, len <= RingSize
    PROVE  /\ DOMAIN RingPeek(r, len) = 1 .. len
           /\ RingPeek(r, len) = [i \in 1 .. len |-> RingPeek(r, len)[i]]
           /\ \A i \in 1 .. len : RingPeek(r, len)[i] = r.buf[Place(start, i)]
<1>0. RingSize \in Nat \ {0}
  BY RingAssumption
<1>1. DOMAIN RingPeek(r, len) = 1 .. len /\ RingPeek(r, len) = [i \in 1 .. len |-> RingPeek(r, len)[i]]
  BY DEF RingPeek
<1>2. ASSUME NEW i \in 1 .. len
      PROVE  RingPeek(r, len)[i] = r.buf[Place(start, i)]
  <2>1. RingPeek(r, len)[i] = IF i <= RingSize - start THEN r.buf[start + i - 1]
                                                      ELSE r.buf[i - (RingSize - start) - 1]
    BY DEF RingPeek
  <2>2. CASE i <= RingSize - start
    <3>1. Place(start, i) = start + i - 1
      BY <1>0, <2>2 DEF Place
    <3> QED
      BY <2>1, <2>2, <3>1
  <2>3. CASE ~ (i <= RingSize - start)
    <3>1. Place(start, i) = i - (RingSize - start) - 1
      BY <1>0, <2>3 DEF Place
    <3> QED
      BY <2>1, <2>3, <3>1
  <2> QED
    BY <2>2, <2>3
<1> QED
  BY <1>1, <1>2

LEMMA ContentsOf ==
    ASSUME NEW S, NEW r, IsRing(r, S)
    PROVE  /\ Contents(r) \in Seq(S) /\ Len(Contents(r)) = r.plen /\ r.plen \in Nat
           /\ \A i \in 1 .. r.plen : Contents(r)[i] = r.buf[Place(r.pstart, i)]
<1>1. PICK m \in 0 .. RingSize, start \in 0 .. RingSize - 1 : r.plen = m /\ r.pstart = start
  BY RingType
<1>2. m \in Nat /\ m <= RingSize
  BY <1>1, RingAssumption
<1>3. /\ Contents(r) = [i \in 1 .. m |-> Contents(r)[i]]
      /\ \A i \in 1 .. m : Contents(r)[i] = r.buf[Place(start, i)]
  BY <1>1, <1>2, Peeks DEF Contents
<1>4. \A i \in 1 .. m : Contents(r)[i] \in S
  BY <1>1, RingType
<1>5. Contents(r) \in [1 .. m -> S]
  BY <1>3, <1>4
<1> QED
  BY <1>1, <1>2, <1>3, <1>5

LEMMA Peeked ==
    ASSUME NEW S, NEW r, IsRing(r, S), NEW len \in 0 .. r.plen
    PROVE  /\ RingPeek(r, len) \in Seq(S) /\ Len(RingPeek(r, len)) = len
           /\ \A i \in 1 .. len : RingPeek(r, len)[i] = Contents(r)[i]
           /\ RingPeek(r, len) = SubSeq(Contents(r), 1, len)
<1>1. PICK m \in 0 .. RingSize, start \in 0 .. RingSize - 1 : r.plen = m /\ r.pstart = start
  BY RingType
<1>2. len \in Nat /\ len <= m /\ m <= RingSize /\ len <= RingSize /\ m \in Nat
  BY <1>1, RingAssumption
<1>3. Contents(r) \in Seq(S) /\ Len(Contents(r)) = m
      /\ \A i \in 1 .. m : Contents(r)[i] = r.buf[Place(start, i)] /\ Contents(r)[i] \in S
  BY <1>1, ContentsOf, RingType
<1>4. /\ RingPeek(r, len) = [i \in 1 .. len |-> RingPeek(r, len)[i]]
      /\ \A i \in 1 .. len : RingPeek(r, len)[i] = r.buf[Place(start, i)]
  BY <1>1, <1>2, Peeks
<1>5. \A i \in 1 .. len : i \in 1 .. m /\ RingPeek(r, len)[i] = Contents(r)[i]
  BY <1>2, <1>3, <1>4
<1>6. RingPeek(r, len) \in [1 .. len -> S]
  BY <1>3, <1>4, <1>5
<1>7. RingPeek(r, len) \in Seq(S) /\ Len(RingPeek(r, len)) = len
  BY <1>2, <1>6
<1>8. /\ SubSeq(Contents(r), 1, len) \in Seq(S) /\ Len(SubSeq(Contents(r), 1, len)) = len
      /\ \A i \in 1 .. len : SubSeq(Contents(r), 1, len)[i] = Contents(r)[i]
  BY <1>2, <1>3, SubSeqProperties
<1> QED
  BY <1>5, <1>7, <1>8, SeqEqual

LEMMA RefusedWrite ==
    ASSUME NEW r, NEW data, r.plen + Len(data) > RingSize
    PROVE  RingWrite(r, data) = r
  BY DEF RingWrite

LEMMA Written ==
    ASSUME NEW S, NEW r, IsRing(r, S), NEW data \in Seq(S), r.plen + Len(data) <= RingSize
    PROVE  /\ IsRing(RingWrite(r, data), S)
           /\ Contents(RingWrite(r, data)) = Contents(r) \o data
           /\ RingWrite(r, data).plen = r.plen + Len(data)
<1> DEFINE w == RingWrite(r, data)
<1>1. PICK m \in 0 .. RingSize, start \in 0 .. RingSize - 1, n \in Nat, x \in 0 .. RingSize - 1 :
        /\ r.plen = m /\ r.pstart = start /\ n = Len(data)
        /\ x = (start + m) % RingSize
        /\ x = IF start + m < RingSize THEN start + m ELSE (start + m) - RingSize
  <2>1. PICK m \in 0 .. RingSize, start \in 0 .. RingSize - 1 : r.plen = m /\ r.pstart = start
    BY RingType
  <2>2. PICK x \in 0 .. RingSize - 1 :
            x = IF start + m < RingSize THEN start + m ELSE (start + m) - RingSize
    <3>1. (IF start + m < RingSize THEN start + m ELSE (start + m) - RingSize) \in 0 .. RingSize - 1
      BY RingAssumption
    <3> QED
      BY <3>1
  <2>3. x = (start + m) % RingSize
    BY <2>2, Wrapped
  <2> QED
    BY <2>1, <2>2, <2>3
<1>2. /\ RingSize \in Nat \ {0} /\ m \in Nat /\ m + n <= RingSize /\ m + n \in 0 .. RingSize
      /\ r.buf \in [0 .. RingSize - 1 -> S \union {Stale}]
      /\ \A i \in 1 .. n : data[i] \in S
      /\ x = IF start + m < RingSize THEN start + m ELSE (start + m) - RingSize
  BY <1>1, RingType
<1> DEFINE cells == [c \in 0 .. RingSize - 1 |->
                        IF c >= x /\ c < x + n THEN data[c - x + 1]
                        ELSE IF c < n - (RingSize - x) THEN data[c + (RingSize - x) + 1]
                        ELSE r.buf[c]]
<1>3. w = [r EXCEPT !.buf = cells, !.plen = m + n]
  <2>1. ~ (r.plen + Len(data) > RingSize)
    BY <1>1, <1>2
  <2> DEFINE y == (r.pstart + r.plen) % RingSize
  <2>2. w = [r EXCEPT !.buf = [c \in DOMAIN @ |->
                        IF c >= y /\ c < y + Len(data) THEN data[c - y + 1]
                        ELSE IF c < Len(data) - (RingSize - y) THEN data[c + (RingSize - y) + 1]
                        ELSE r.buf[c]],
                      !.plen = @ + Len(data)]
    BY <2>1, Zenon DEF RingWrite
  <2>3. DOMAIN r.buf = 0 .. RingSize - 1 /\ y = x /\ r.plen = m /\ Len(data) = n
    BY <1>1, <1>2, Zenon
  <2> HIDE DEF w, y
  <2> QED
    BY <2>2, <2>3
<1>4. \A c \in 0 .. RingSize - 1 : cells[c] \in S \union {Stale}
  <2> SUFFICES ASSUME NEW c \in 0 .. RingSize - 1 PROVE cells[c] \in S \union {Stale}
    OBVIOUS
  <2>1. CASE c >= x /\ c < x + n
    <3>1. cells[c] = data[c - x + 1] /\ c - x + 1 \in 1 .. n
      BY <1>2, <2>1
    <3> QED
      BY <1>2, <3>1
  <2>2. CASE ~ (c >= x /\ c < x + n) /\ c < n - (RingSize - x)
    <3>1. c + (RingSize - x) + 1 \in 1 .. n
      BY <1>2, <2>2
    <3>2. cells[c] = data[c + (RingSize - x) + 1]
      BY <2>2
    <3> QED
      BY <1>2, <3>1, <3>2
  <2>3. CASE ~ (c >= x /\ c < x + n) /\ ~ (c < n - (RingSize - x))
    BY <1>2, <2>3
  <2> QED
    BY <2>1, <2>2, <2>3
<1>5. ASSUME NEW i \in 1 .. m + n
      PROVE  /\ Place(start, i) \in 0 .. RingSize - 1
             /\ i <= m => cells[Place(start, i)] = r.buf[Place(start, i)]
             /\ i > m => cells[Place(start, i)] = data[i - m]
  <2>1. PICK c \in 0 .. RingSize - 1 : c = Place(start, i)
    <3>1. i \in 1 .. RingSize
      BY <1>2
    <3> QED
      BY <3>1, PlaceInRing
  <2>5. i \in 1 .. m + n /\ c \in Nat /\ x \in Nat
    BY <1>2
  <2>2. \/ i <= m /\ ~ (c >= x /\ c < x + n) /\ ~ (c < n - (RingSize - x))
        \/ i > m /\ c >= x /\ c < x + n /\ (c - x) + 1 = i - m
        \/ /\ i > m /\ ~ (c >= x /\ c < x + n)
           /\ c < n - (RingSize - x) /\ (c + (RingSize - x)) + 1 = i - m
    <3> HIDE DEF cells
    <3>1. CASE i <= m
      BY <1>2, <2>1, <2>5, <3>1 DEF Place
    <3>2. CASE i > m
      BY <1>2, <2>1, <2>5, <3>2 DEF Place
    <3> QED
      BY <1>2, <3>1, <3>2
  <2>3. cells[c] = IF c >= x /\ c < x + n THEN data[(c - x) + 1]
                   ELSE IF c < n - (RingSize - x) THEN data[(c + (RingSize - x)) + 1]
                   ELSE r.buf[c]
    OBVIOUS
  <2> HIDE DEF cells
  <2>4. (i <= m => cells[c] = r.buf[c]) /\ (i > m => cells[c] = data[i - m])
    BY <1>2, <2>2, <2>3
  <2> QED
    BY <2>1, <2>4
<1>6. cells \in [0 .. RingSize - 1 -> S \union {Stale}]
  BY <1>4
<1> HIDE DEF cells
<1>7. /\ w.pstart = start /\ w.plen = m + n /\ w.buf = cells
      /\ w \in [buf : [0 .. RingSize - 1 -> S \union {Stale}],
                pstart : 0 .. RingSize - 1, plen : 0 .. RingSize]
  <2>1. r \in [buf : [0 .. RingSize - 1 -> S \union {Stale}],
               pstart : 0 .. RingSize - 1, plen : 0 .. RingSize]
    BY DEF IsRing
  <2> HIDE DEF w
  <2> QED
    BY <1>1, <1>2, <1>3, <1>6, <2>1
<1> HIDE DEF w
<1>8. Contents(r) \in Seq(S) /\ Len(Contents(r)) = m
      /\ \A i \in 1 .. m : Contents(r)[i] = r.buf[Place(start, i)] /\ Contents(r)[i] \in S
  BY <1>1, ContentsOf, RingType
<1>9. \A i \in 1 .. m + n : Contents(w)[i] = cells[Place(start, i)]
  <2>1. m + n \in Nat /\ m + n <= RingSize
    BY <1>2
  <2> QED
    BY <1>7, <2>1, Peeks DEF Contents
<1>10. ASSUME NEW i \in 1 .. m + n
       PROVE  /\ Contents(w)[i] = IF i <= m THEN Contents(r)[i] ELSE data[i - m]
              /\ Contents(w)[i] \in S
  <2>1. CASE i <= m
    <3>1. i \in 1 .. m
      BY <1>2, <2>1
    <3> QED
      BY <1>5, <1>8, <1>9, <2>1, <3>1
  <2>2. CASE i > m
    <3>1. ~ (i <= m) /\ i - m \in 1 .. n
      BY <1>2, <2>2
    <3> QED
      BY <1>2, <1>5, <1>9, <2>2, <3>1
  <2> QED
    BY <1>2, <2>1, <2>2
<1>11. IsRing(w, S)
  BY <1>7, <1>10 DEF IsRing
<1>12. Contents(w) = Contents(r) \o data
  <2>1. Contents(w) \in Seq(S) /\ Len(Contents(w)) = m + n
    BY <1>7, <1>11, ContentsOf
  <2>2. /\ Contents(r) \o data \in Seq(S) /\ Len(Contents(r) \o data) = m + n
        /\ \A i \in 1 .. m + n :
              (Contents(r) \o data)[i] = IF i <= m THEN Contents(r)[i] ELSE data[i - m]
    BY <1>1, <1>8, ConcatProperties
  <2> QED
    BY <1>10, <2>1, <2>2, SeqEqual
<1> QED
  BY <1>1, <1>7, <1>11, <1>12 DEF w

LEMMA Removed ==
    ASSUME NEW S, NEW r, IsRing(r, S), NEW len \in 0 .. r.plen
    PROVE  /\ IsRing(RingRemove(r, len), S)
           /\ Contents(RingRemove(r, len)) = SubSeq(Contents(r), len + 1, r.plen)
           /\ RingRemove(r, len).plen = r.plen - len
<1> DEFINE v == RingRemove(r, len)
<1>1. PICK m \in 0 .. RingSize, start \in 0 .. RingSize - 1 : r.plen = m /\ r.pstart = start
  BY RingType
<1>2. /\ RingSize \in Nat \ {0} /\ m \in Nat /\ m <= RingSize /\ len \in 0 .. m /\ len \in 0 .. RingSize
      /\ m - len \in 0 .. RingSize
      /\ r.buf \in [0 .. RingSize - 1 -> S \union {Stale}]
  BY <1>1, RingType
<1>3. PICK x \in Nat :
        x = IF start + len < RingSize THEN start + len ELSE (start + len) - RingSize
  BY <1>2
<1>4. (start + len) % RingSize = x
  BY <1>2, <1>3, Wrapped
<1> DEFINE gone == {(start + i) % RingSize : i \in 0 .. len - 1}
           cells == [c \in 0 .. RingSize - 1 |-> IF c \in gone THEN Stale ELSE r.buf[c]]
<1>5. v = [buf |-> cells, pstart |-> x, plen |-> m - len]
  <2>1. ~ (len > r.plen)
    BY <1>1, <1>2
  <2>2. v = [buf |-> [c \in DOMAIN r.buf |->
                IF c \in {(r.pstart + i) % RingSize : i \in 0 .. len - 1} THEN Stale ELSE r.buf[c]],
             pstart |-> (r.pstart + len) % RingSize, plen |-> r.plen - len]
    BY <2>1, Zenon DEF RingRemove
  <2>3. DOMAIN r.buf = 0 .. RingSize - 1
    BY <1>2
  <2> QED
    BY <1>1, <1>4, <2>2, <2>3, Zenon
<1>6. cells \in [0 .. RingSize - 1 -> S \union {Stale}]
  BY <1>2
<1>7. ASSUME NEW c \in gone
      PROVE  \E k \in 0 .. len - 1 :
                c = (IF start + k < RingSize THEN start + k ELSE (start + k) - RingSize)
  <2>1. PICK k \in 0 .. len - 1 : c = (start + k) % RingSize
    BY <1>7, Zenon
  <2>2. k \in 0 .. RingSize
    BY <1>2
  <2>3. (start + k) % RingSize = (IF start + k < RingSize THEN start + k ELSE (start + k) - RingSize)
    BY <2>2, Wrapped
  <2> QED
    BY <2>1, <2>3, Zenon
<1>8. ASSUME NEW i \in 1 .. m - len
      PROVE  /\ Place(x, i) = Place(start, i + len) /\ x \in 0 .. RingSize - 1
             /\ cells[Place(x, i)] = r.buf[Place(start, i + len)]
  <2>1. /\ x \in 0 .. RingSize - 1
        /\ Place(x, i) = Place(start, i + len) /\ Place(x, i) \in 0 .. RingSize - 1
        /\ \A k \in 0 .. len - 1 :
              Place(x, i) # (IF start + k < RingSize THEN start + k ELSE (start + k) - RingSize)
    <3> HIDE DEF gone, cells, v
    <3>1. x \in 0 .. RingSize - 1 /\ Place(x, i) = Place(start, i + len) /\ Place(x, i) \in 0 .. RingSize - 1
      BY <1>2, <1>3 DEF Place
    <3>2. ASSUME NEW k \in 0 .. len - 1
          PROVE  Place(start, i + len)
                    # (IF start + k < RingSize THEN start + k ELSE (start + k) - RingSize)
      BY <1>2, <1>3 DEF Place
    <3> QED
      BY <3>1, <3>2
  <2>2. Place(x, i) \notin gone
    BY <1>7, <2>1, Zenon
  <2> HIDE DEF gone
  <2> QED
    BY <2>1, <2>2
<1>9. x \in 0 .. RingSize - 1
  BY <1>2, <1>3
<1> HIDE DEF gone, cells
<1>10. /\ v.pstart = x /\ v.plen = m - len /\ v.buf = cells
       /\ v \in [buf : [0 .. RingSize - 1 -> S \union {Stale}],
                 pstart : 0 .. RingSize - 1, plen : 0 .. RingSize]
  <2> HIDE DEF v
  <2> QED
    BY <1>2, <1>5, <1>6, <1>9
<1> HIDE DEF v
<1>11. Contents(r) \in Seq(S) /\ Len(Contents(r)) = m
       /\ \A i \in 1 .. m : Contents(r)[i] = r.buf[Place(start, i)] /\ Contents(r)[i] \in S
  BY <1>1, ContentsOf, RingType
<1>12. \A i \in 1 .. m - len : Contents(v)[i] = cells[Place(x, i)]
  <2>1. m - len \in Nat /\ m - len <= RingSize
    BY <1>2
  <2> QED
    BY <1>9, <1>10, <2>1, Peeks DEF Contents
<1>13. ASSUME NEW i \in 1 .. m - len
       PROVE  Contents(v)[i] = Contents(r)[len + i] /\ Contents(v)[i] \in S
  <2>1. i + len \in 1 .. m /\ i + len = len + i
    BY <1>2
  <2> QED
    BY <1>8, <1>11, <1>12, <2>1
<1>14. IsRing(v, S)
  BY <1>10, <1>13 DEF IsRing
<1>15. Contents(v) = SubSeq(Contents(r), len + 1, m)
  <2>1. Contents(v) \in Seq(S) /\ Len(Contents(v)) = m - len
    BY <1>10, <1>14, ContentsOf
  <2>2. /\ SubSeq(Contents(r), len + 1, m) \in Seq(S)
        /\ Len(SubSeq(Contents(r), len + 1, m)) = m - len
        /\ \A i \in 1 .. m - len :
              SubSeq(Contents(r), len + 1, m)[i] = Contents(r)[len + i]
    BY <1>2, <1>11, SubSeqProperties
  <2> QED
    BY <1>13, <2>1, <2>2, SeqEqual
<1> QED
  BY <1>1, <1>10, <1>14, <1>15 DEF v

(***************************************************************************)
(* Bytes laid out as telegrams.                                            *)
(***************************************************************************)
LEMMA Rest ==
    ASSUME NEW S, NEW s \in Seq(S), NEW m \in Nat, NEW n \in Nat, Len(s) = m + n
    PROVE  /\ SubSeq(s, m + 1, Len(s)) \in Seq(S) /\ Len(SubSeq(s, m + 1, Len(s))) = n
           /\ \A k \in 1 .. n : SubSeq(s, m + 1, Len(s))[k] = s[m + k]
  BY SubSeqProperties

LEMMA BeginsGrow ==
    ASSUME NEW S, NEW T \in Seq(Seq(S)), NEW B \in Seq(Nat), Len(B) = Len(T) + 1, Begins(T, B),
           NEW t \in Seq(S)
    PROVE  /\ Append(T, t) \in Seq(Seq(S)) /\ Len(Append(T, t)) = Len(T) + 1
           /\ \A i \in 1 .. Len(T) : Append(T, t)[i] = T[i]
           /\ Append(T, t)[Len(T) + 1] = t
           /\ Append(B, B[Len(B)] + Len(t)) \in Seq(Nat)
           /\ Len(Append(B, B[Len(B)] + Len(t))) = Len(T) + 2
           /\ \A i \in 1 .. Len(T) + 1 : Append(B, B[Len(B)] + Len(t))[i] = B[i]
           /\ Append(B, B[Len(B)] + Len(t))[Len(T) + 2] = B[Len(T) + 1] + Len(t)
           /\ Begins(Append(T, t), Append(B, B[Len(B)] + Len(t)))
<1>1. PICK n \in Nat : Len(T) = n /\ Len(B) = n + 1
  BY LenProperties
<1>2. PICK size \in Nat : Len(t) = size
  BY LenProperties
<1>3. \A i \in 1 .. n + 1 : B[i] \in Nat
  BY <1>1
<1>4. PICK all \in Nat : B[n + 1] = all
  BY <1>1, <1>3
<1> DEFINE T2 == Append(T, t)
           B2 == Append(B, B[Len(B)] + Len(t))
<1>5. /\ T2 \in Seq(Seq(S)) /\ Len(T2) = n + 1 /\ T2[n + 1] = t
      /\ \A i \in 1 .. n : T2[i] = T[i]
  BY <1>1, AppendProperties
<1>6. /\ B2 \in Seq(Nat) /\ Len(B2) = n + 2 /\ B2[n + 2] = all + size
      /\ \A i \in 1 .. n + 1 : B2[i] = B[i]
  <2>1. B2 = Append(B, all + size) /\ all + size \in Nat
    BY <1>1, <1>2, <1>4
  <2> HIDE DEF B2
  <2> QED
    BY <1>1, <2>1, AppendProperties
<1> HIDE DEF T2, B2
<1>7. Begins(T2, B2)
  <2>1. B2[1] = 0
    BY <1>1, <1>6 DEF Begins
  <2>2. ASSUME NEW i \in 1 .. n + 1 PROVE B2[i + 1] = B2[i] + Len(T2[i])
    <3>1. CASE i = n + 1
      <4>1. i + 1 = n + 2 /\ i \in 1 .. n + 1 /\ B2[i] = all /\ Len(T2[i]) = size
        BY <1>2, <1>4, <1>5, <1>6, <3>1
      <4> QED
        BY <1>6, <4>1
    <3>2. CASE i # n + 1
      <4>1. i \in 1 .. n /\ i + 1 \in 1 .. n + 1 /\ i \in 1 .. n + 1
        BY <3>2
      <4>2. B[i + 1] = B[i] + Len(T[i])
        BY <1>1, <4>1 DEF Begins
      <4> QED
        BY <1>5, <1>6, <4>1, <4>2
    <3> QED
      BY <3>1, <3>2
  <2>3. ASSUME NEW i \in 1 .. n + 2, NEW j \in 1 .. n + 2, i <= j PROVE B2[i] <= B2[j]
    <3>1. \A k \in 1 .. n + 1 : B2[k] = B[k] /\ B[k] \in Nat /\ B[k] <= all
      BY <1>1, <1>3, <1>4, <1>6 DEF Begins
    <3>2. CASE j = n + 2
      <4>1. CASE i = n + 2
        BY <1>6, <2>3, <3>2, <4>1
      <4>2. CASE i # n + 2
        <5>1. i \in 1 .. n + 1
          BY <4>2
        <5>2. PICK b \in Nat : B2[i] = b /\ b <= all
          BY <3>1, <5>1
        <5>3. B2[j] = all + size
          BY <1>6, <3>2
        <5>4. b <= all + size
          BY <5>2
        <5> QED
          BY <5>2, <5>3, <5>4, Zenon
      <4> QED
        BY <4>1, <4>2
    <3>3. CASE j # n + 2
      <4>1. i \in 1 .. n + 1 /\ j \in 1 .. n + 1
        BY <2>3, <3>3
      <4>2. B[i] <= B[j]
        BY <1>1, <2>3, <4>1 DEF Begins
      <4> QED
        BY <3>1, <4>1, <4>2
    <3> QED
      BY <3>2, <3>3
  <2>4. Len(T2) + 1 = n + 2 /\ Len(T2) = n + 1
    BY <1>5
  <2> QED
    BY <2>1, <2>2, <2>3, <2>4 DEF Begins
<1> QED
  BY <1>1, <1>2, <1>4, <1>5, <1>6, <1>7 DEF T2, B2

LEMMA LaidGrows ==
    ASSUME NEW S, NEW X \in Seq(S), NEW T \in Seq(Seq(S)), NEW B \in Seq(Nat),
           Len(B) = Len(T) + 1, Begins(T, B), NEW done \in Nat, Laid(X, T, B, done),
           NEW t \in Seq(S), \A k \in 1 .. Len(t) : t[k] = [tg |-> Len(T) + 1, at |-> k]
    PROVE  Laid(X \o t, Append(T, t), Append(B, B[Len(B)] + Len(t)), done)
<1> DEFINE T2 == Append(T, t)
           B2 == Append(B, B[Len(B)] + Len(t))
<1>1. PICK n \in Nat, size \in Nat : Len(T) = n /\ Len(B) = n + 1 /\ Len(t) = size
  BY LenProperties
<1>2. \A i \in 1 .. n + 1 : B[i] \in Nat
  BY <1>1
<1>3. done \in 0 .. n /\ done + 1 \in 1 .. n + 1
  BY <1>1 DEF Laid
<1>4. PICK all \in Nat, base \in Nat : B[n + 1] = all /\ B[done + 1] = base /\ base <= all
  BY <1>1, <1>2, <1>3 DEF Begins
<1>5. /\ Len(T2) = n + 1 /\ T2[n + 1] = t /\ (\A i \in 1 .. n : T2[i] = T[i])
      /\ Len(B2) = n + 2 /\ B2[n + 2] = all + size /\ (\A i \in 1 .. n + 1 : B2[i] = B[i])
  BY <1>1, <1>4, BeginsGrow
<1>6. Len(X) = all - base
  BY <1>1, <1>4 DEF Laid
<1>7. /\ X \o t \in Seq(S) /\ Len(X \o t) = (all - base) + size
      /\ \A k \in 1 .. (all - base) + size :
            (X \o t)[k] = IF k <= all - base THEN X[k] ELSE t[k - (all - base)]
  <2>1. PICK p \in Nat : p = all - base
    BY <1>4
  <2>2. /\ X \o t \in Seq(S) /\ Len(X \o t) = p + size
        /\ \A k \in 1 .. p + size : (X \o t)[k] = IF k <= p THEN X[k] ELSE t[k - p]
    <3>1. Len(X) = p /\ Len(t) = size
      BY <1>1, <1>6, <2>1
    <3> HIDE DEF T2, B2
    <3>2. /\ X \o t \in Seq(S) /\ Len(X \o t) = Len(X) + Len(t)
          /\ \A k \in 1 .. Len(X) + Len(t) :
                (X \o t)[k] = IF k <= Len(X) THEN X[k] ELSE t[k - Len(X)]
      BY ConcatProperties, Zenon
    <3> QED
      BY <3>1, <3>2, Zenon
  <2> QED
    BY <2>1, <2>2
<1> HIDE DEF T2, B2
<1>8. ASSUME NEW i \in done + 1 .. n + 1, NEW k \in 1 .. Len(T2[i])
      PROVE  (X \o t)[B2[i] - B2[done + 1] + k] = [tg |-> i, at |-> k]
  <2>1. B2[done + 1] = base
    BY <1>3, <1>4, <1>5
  <2>2. CASE i = n + 1
    <3>1. B2[i] = all /\ k \in 1 .. size /\ T2[i] = t /\ t[k] = [tg |-> i, at |-> k]
      <4>1. i \in 1 .. n + 1
        BY <2>2
      <4> QED
        BY <1>1, <1>4, <1>5, <2>2, <4>1
    <3>2. PICK place \in Nat : place = (all - base) + k
      BY <1>4, <3>1
    <3>3. place \in 1 .. (all - base) + size /\ ~ (place <= all - base) /\ place - (all - base) = k
      BY <1>4, <3>1, <3>2
    <3>4. (X \o t)[place] = t[k]
      BY <1>7, <3>3
    <3> QED
      BY <2>1, <3>1, <3>2, <3>4
  <2>3. CASE i # n + 1
    <3>1. i \in 1 .. n /\ i + 1 \in 1 .. n + 1 /\ i \in done + 1 .. n /\ i \in 1 .. n + 1
      BY <1>3, <2>3
    <3>2. PICK b \in Nat : B[i] = b /\ B2[i] = b
      BY <1>2, <1>5, <3>1
    <3>3. T2[i] = T[i] /\ Len(T[i]) \in Nat /\ k \in 1 .. Len(T[i])
      BY <1>1, <1>5, <3>1, LenProperties
    <3>4. B[i + 1] = b + Len(T[i]) /\ B[i + 1] <= all /\ base <= b
      BY <1>1, <1>3, <1>4, <3>1, <3>2 DEF Begins
    <3>5. PICK place \in Nat : place = b - base + k
      BY <1>4, <3>3, <3>4
    <3>6. place \in 1 .. (all - base) + size /\ place <= all - base
      <4>1. PICK len \in Nat : Len(T[i]) = len /\ k \in 1 .. len /\ b + len <= all
        BY <3>3, <3>4
      <4>2. PICK kk \in Nat : k = kk /\ kk >= 1 /\ kk <= len
        BY <4>1
      <4>3. PICK d \in Nat : d = b - base /\ b = base + d
        <5>1. b - base \in Nat /\ b = base + (b - base)
          BY <3>4
        <5> QED
          BY <5>1
      <4>4. place = d + kk /\ place >= 1
        BY <3>5, <4>2, <4>3
      <4>5. PICK room \in Nat : room = all - base /\ all = base + room
        <5>1. all - base \in Nat /\ all = base + (all - base)
          BY <1>4
        <5> QED
          BY <5>1
      <4>6. d + kk <= room
        BY <1>4, <4>1, <4>2, <4>3, <4>5
      <4>7. place <= room /\ place \in 1 .. room + size
        BY <4>4, <4>6
      <4> QED
        BY <4>5, <4>7
    <3>7. X[B[i] - B[done + 1] + k] = [tg |-> i, at |-> k]
      BY <1>1, <3>1, <3>3 DEF Laid
    <3>8. X[place] = [tg |-> i, at |-> k]
      BY <1>4, <3>2, <3>5, <3>7
    <3>9. (X \o t)[place] = X[place]
      BY <1>7, <3>6
    <3> QED
      BY <2>1, <3>2, <3>5, <3>8, <3>9
  <2> QED
    BY <2>2, <2>3
<1>9. Laid(X \o t, T2, B2, done)
  <2>1. done <= n + 1
    BY <1>3
  <2>2. Len(X \o t) = B2[n + 2] - B2[done + 1]
    <3>1. B2[done + 1] = base
      BY <1>3, <1>4, <1>5
    <3> QED
      BY <1>1, <1>4, <1>5, <1>7, <3>1
  <2>3. (n + 1) + 1 = n + 2
    OBVIOUS
  <2> QED
    BY <1>5, <1>8, <2>1, <2>2, <2>3 DEF Laid
<1> QED
  BY <1>9 DEF T2, B2

\* The telegram at the front.
LEMMA LaidFront ==
    ASSUME NEW S, NEW X \in Seq(S), NEW T \in Seq(Seq(S)), NEW B \in Seq(Nat),
           Len(B) = Len(T) + 1, Begins(T, B), NEW done \in Nat, Laid(X, T, B, done)
    PROVE  /\ done = Len(T) => Len(X) = 0
           /\ done < Len(T) =>
                 /\ T[done + 1] \in Seq(S) /\ Len(T[done + 1]) \in Nat
                 /\ Len(T[done + 1]) <= Len(X)
                 /\ \A k \in 1 .. Len(T[done + 1]) : X[k] = [tg |-> done + 1, at |-> k]
<1>1. PICK n \in Nat : Len(T) = n /\ Len(B) = n + 1
  BY LenProperties
<1>2. \A i \in 1 .. n + 1 : B[i] \in Nat
  BY <1>1
<1>3. done \in 0 .. n /\ done + 1 \in 1 .. n + 1
  BY <1>1 DEF Laid
<1>4. PICK all \in Nat, base \in Nat : B[n + 1] = all /\ B[done + 1] = base /\ base <= all
  BY <1>1, <1>2, <1>3 DEF Begins
<1>5. Len(X) = all - base
  BY <1>1, <1>4 DEF Laid
<1>6. CASE done = n
  BY <1>1, <1>4, <1>5, <1>6
<1>7. CASE done < n
  <2>1. done + 1 \in 1 .. n /\ (done + 1) + 1 \in 1 .. n + 1 /\ done + 1 \in done + 1 .. n
    BY <1>3, <1>7
  <2>2. T[done + 1] \in Seq(S) /\ Len(T[done + 1]) \in Nat
    BY <1>1, <2>1, LenProperties
  <2>3. B[(done + 1) + 1] = base + Len(T[done + 1]) /\ B[(done + 1) + 1] <= all
    BY <1>1, <1>4, <2>1 DEF Begins
  <2>4. ASSUME NEW k \in 1 .. Len(T[done + 1]) PROVE X[k] = [tg |-> done + 1, at |-> k]
    <3>1. X[base - base + k] = [tg |-> done + 1, at |-> k]
      BY <1>1, <1>4, <2>1 DEF Laid
    <3>2. base - base + k = k
      BY <2>2
    <3> QED
      BY <3>1, <3>2
  <2>5. Len(T[done + 1]) <= Len(X)
    BY <1>4, <1>5, <2>2, <2>3
  <2> QED
    BY <1>1, <1>7, <2>2, <2>4, <2>5
<1> QED
  BY <1>1, <1>3, <1>6, <1>7

\* The bytes that remain when the telegram at the front is cut off.
LEMMA LaidCut ==
    ASSUME NEW S, NEW X \in Seq(S), NEW T \in Seq(Seq(S)), NEW B \in Seq(Nat),
           Len(B) = Len(T) + 1, Begins(T, B), NEW done \in Nat, Laid(X, T, B, done),
           done < Len(T)
    PROVE  Laid(SubSeq(X, Len(T[done + 1]) + 1, Len(X)), T, B, done + 1)
<1>1. PICK n \in Nat : Len(T) = n /\ Len(B) = n + 1
  BY LenProperties
<1>2. \A i \in 1 .. n + 1 : B[i] \in Nat
  BY <1>1
<1>3. /\ done \in 0 .. n - 1 /\ done + 1 \in 1 .. n + 1 /\ done + 1 \in 1 .. n
      /\ (done + 1) + 1 \in 1 .. n + 1
  BY <1>1
<1>4. PICK all \in Nat, base \in Nat, next \in Nat, size \in Nat :
        /\ B[n + 1] = all /\ B[done + 1] = base /\ B[(done + 1) + 1] = next
        /\ Len(T[done + 1]) = size /\ next = base + size /\ next <= all
  <2>1. Len(T[done + 1]) \in Nat
    BY <1>1, <1>3, LenProperties
  <2>2. B[(done + 1) + 1] = B[done + 1] + Len(T[done + 1]) /\ B[(done + 1) + 1] <= B[n + 1]
    BY <1>1, <1>3 DEF Begins
  <2>3. B[n + 1] \in Nat /\ B[done + 1] \in Nat /\ B[(done + 1) + 1] \in Nat
    BY <1>2, <1>3
  <2> QED
    BY <2>1, <2>2, <2>3
<1>5. Len(X) = all - base /\ Len(X) \in Nat
  BY <1>1, <1>4 DEF Laid
<1> DEFINE rest == SubSeq(X, size + 1, Len(X))
<1>6. /\ rest \in Seq(S) /\ Len(rest) = all - next
      /\ \A k \in 1 .. all - next : rest[k] = X[size + k]
  <2>1. PICK p \in Nat, q \in Nat : p = Len(X) /\ q = all - next /\ p = size + q
    BY <1>4, <1>5
  <2>2. /\ rest \in Seq(S) /\ Len(rest) = q
        /\ \A k \in 1 .. q : rest[k] = X[size + k]
    <3>1. Len(X) = size + q
      BY <2>1
    <3> QED
      BY <3>1, Rest
  <2> QED
    BY <2>1, <2>2
<1> HIDE DEF rest
<1>7. ASSUME NEW i \in (done + 1) + 1 .. n, NEW k \in 1 .. Len(T[i])
      PROVE  rest[B[i] - B[(done + 1) + 1] + k] = [tg |-> i, at |-> k]
  <2>1. i \in 1 .. n + 1 /\ i \in 1 .. n /\ i + 1 \in 1 .. n + 1 /\ i \in done + 1 .. n
    BY <1>3
  <2>2. PICK b \in Nat, last \in Nat, len \in Nat :
            B[i] = b /\ B[i + 1] = last /\ Len(T[i]) = len
    BY <1>1, <1>2, <2>1, LenProperties
  <2>3. next <= b /\ last <= all /\ last = b + len
    BY <1>1, <1>3, <1>4, <2>1, <2>2 DEF Begins
  <2>4. PICK place \in Nat : place = b - next + k
    BY <2>2, <2>3
  <2>5. place \in 1 .. all - next /\ size + place = b - base + k
    BY <1>4, <2>2, <2>3, <2>4
  <2>6. X[B[i] - B[done + 1] + k] = [tg |-> i, at |-> k]
    BY <1>1, <2>1 DEF Laid
  <2> QED
    BY <1>4, <1>6, <2>2, <2>4, <2>5, <2>6
<1>8. Laid(rest, T, B, done + 1)
  BY <1>1, <1>3, <1>4, <1>6, <1>7 DEF Laid
<1> QED
  BY <1>4, <1>8 DEF rest

(***************************************************************************)
(* The steps of Framing.                                                   *)
(***************************************************************************)
LEMMA Parts ==
    ASSUME NEW S, NEW s \in Seq(S), NEW k \in Nat, k <= Len(s)
    PROVE  /\ First(s, k) \in Seq(S) /\ Len(First(s, k)) = k
           /\ After(s, k) \in Seq(S)
           /\ First(s, k) \o After(s, k) = s
<1>1. Len(s) \in Nat
  BY LenProperties
<1>2. First(s, k) \in Seq(S) /\ Len(First(s, k)) = k
  BY SubSeqProperties DEF First
<1>3. After(s, k) \in Seq(S)
  BY <1>1, SubSeqProperties DEF After
<1>4. First(s, k) \o After(s, k) = s
  <2>1. /\ Len(After(s, k)) = Len(s) - k
        /\ \A i \in 1 .. Len(s) - k : After(s, k)[i] = s[k + i]
        /\ \A i \in 1 .. k : First(s, k)[i] = s[i]
    BY <1>1, SubSeqProperties DEF After, First
  <2>2. /\ First(s, k) \o After(s, k) \in Seq(S)
        /\ Len(First(s, k) \o After(s, k)) = Len(s)
        /\ \A i \in 1 .. Len(s) :
              (First(s, k) \o After(s, k))[i] = IF i <= k THEN First(s, k)[i] ELSE After(s, k)[i - k]
    BY <1>1, <1>2, <1>3, <2>1, ConcatProperties
  <2>3. \A i \in 1 .. Len(s) : (First(s, k) \o After(s, k))[i] = s[i]
    BY <1>1, <2>1, <2>2
  <2> QED
    BY <2>2, <2>3, SeqEqual
<1> QED
  BY <1>2, <1>3, <1>4

LEMMA ConcatAssoc ==
    ASSUME NEW S, NEW a \in Seq(S), NEW b \in Seq(S), NEW c \in Seq(S)
    PROVE  (a \o b) \o c = a \o (b \o c)
  BY ConcatAssociative

LEMMA PartsMoved ==
    ASSUME NEW S, NEW a \in Seq(S), NEW s \in Seq(S), NEW k \in Nat, k <= Len(s)
    PROVE  (a \o First(s, k)) \o After(s, k) = a \o s
<1>1. PICK f \in Seq(S), g \in Seq(S) : f = First(s, k) /\ g = After(s, k)
  BY Parts
<1>2. f \o g = s
  BY <1>1, Parts
<1>3. (a \o f) \o g = a \o (f \o g)
  BY ConcatAssoc
<1> QED
  BY <1>1, <1>2, <1>3

LEMMA LargerType ==
    ASSUME NEW S, NEW T, S \subseteq T
    PROVE  Seq(S) \subseteq Seq(T) /\ \A r : IsRing(r, S) => IsRing(r, T)
<1>1. Seq(S) \subseteq Seq(T)
  OBVIOUS
<1>2. ASSUME NEW r, IsRing(r, S) PROVE IsRing(r, T)
  BY <1>2 DEF IsRing
<1> QED
  BY <1>1, <1>2

LEMMA Counts ==
    ASSUME TypeOK
    PROVE  /\ Len(sent) \in Nat /\ Len(received) \in Nat
           /\ Contents(ring) \in Seq(Byte) /\ Len(Contents(ring)) = ring.plen /\ ring.plen \in Nat
           /\ Len(wire) \in Nat /\ Len(collected) \in Nat
           /\ collected \o wire \in Seq(Byte) /\ Transit \in Seq(Byte)
           /\ Len(Transit) = ring.plen + (Len(collected) + Len(wire))
           /\ \A k \in 1 .. ring.plen : Transit[k] = Contents(ring)[k]
<1>1. /\ Len(sent) \in Nat /\ Len(received) \in Nat
      /\ Len(wire) \in Nat /\ Len(collected) \in Nat
      /\ wire \in Seq(Byte) /\ collected \in Seq(Byte)
  BY LenProperties DEF TypeOK
<1>2. Contents(ring) \in Seq(Byte) /\ Len(Contents(ring)) = ring.plen /\ ring.plen \in Nat
  BY ContentsOf DEF TypeOK
<1>3. collected \o wire \in Seq(Byte) /\ Len(collected \o wire) = Len(collected) + Len(wire)
  BY <1>1, ConcatProperties
<1>4. /\ Transit \in Seq(Byte) /\ Len(Transit) = Len(Contents(ring)) + Len(collected \o wire)
      /\ \A k \in 1 .. Len(Contents(ring)) + Len(collected \o wire) :
            Transit[k] = IF k <= Len(Contents(ring)) THEN Contents(ring)[k]
                         ELSE (collected \o wire)[k - Len(Contents(ring))]
  <2> DEFINE back == collected \o wire
             front == Contents(ring)
  <2>1. back \in Seq(Byte) /\ front \in Seq(Byte)
    BY <1>2, <1>3
  <2> HIDE DEF back, front
  <2>2. /\ front \o back \in Seq(Byte) /\ Len(front \o back) = Len(front) + Len(back)
        /\ \A k \in 1 .. Len(front) + Len(back) :
              (front \o back)[k] = IF k <= Len(front) THEN front[k] ELSE back[k - Len(front)]
    BY <2>1, ConcatProperties
  <2> QED
    BY <2>2, Zenon DEF Transit, back, front
<1>5. \A k \in 1 .. ring.plen : Transit[k] = Contents(ring)[k]
  BY <1>1, <1>2, <1>3, <1>4
<1> QED
  BY <1>1, <1>2, <1>3, <1>4, <1>5

\* The telegram that comes next, when nothing was refused.
LEMMA FrontTelegram ==
    ASSUME IInv, ~ overflowed
    PROVE  /\ Len(received) <= Len(sent)
           /\ Len(received) = Len(sent) => Len(Transit) = 0 /\ ring.plen = 0
           /\ Len(received) < Len(sent) =>
                 /\ Len(sent[Len(received) + 1]) \in Hdr + 1 .. Hdr + Payload + 1
                 /\ sent[Len(received) + 1] \in Seq(Byte)
                 /\ Len(sent[Len(received) + 1]) <= Len(Transit)
                 /\ \A k \in 1 .. Len(sent[Len(received) + 1]) :
                       /\ Transit[k] = [tg |-> Len(received) + 1, at |-> k]
                       /\ Transit[k] = sent[Len(received) + 1][k]
<1>1. PICK done \in Nat, n \in Nat : Len(received) = done /\ Len(sent) = n
  BY Counts DEF IInv
<1>2. /\ Transit \in Seq(Byte) /\ sent \in Seq(Seq(Byte)) /\ starts \in Seq(Nat)
      /\ Len(starts) = Len(sent) + 1 /\ Begins(sent, starts) /\ Laid(Transit, sent, starts, done)
  BY <1>1, Counts DEF IInv, TypeOK
<1>3. /\ done = Len(sent) => Len(Transit) = 0
      /\ done < Len(sent) =>
            /\ sent[done + 1] \in Seq(Byte) /\ Len(sent[done + 1]) \in Nat
            /\ Len(sent[done + 1]) <= Len(Transit)
            /\ \A k \in 1 .. Len(sent[done + 1]) : Transit[k] = [tg |-> done + 1, at |-> k]
  BY <1>2, LaidFront
<1>4. Len(Transit) = 0 => ring.plen = 0
  BY Counts DEF IInv
<1>5. done <= n
  BY <1>1, <1>2 DEF Laid
<1>6. ASSUME done < n
      PROVE  /\ Len(sent[done + 1]) \in Hdr + 1 .. Hdr + Payload + 1
             /\ \A k \in 1 .. Len(sent[done + 1]) : sent[done + 1][k] = [tg |-> done + 1, at |-> k]
  <2>1. PICK body \in 0 .. Payload : sent[done + 1] = Telegram(done + 1, body)
    BY <1>1, <1>6 DEF IInv
  <2>2. body \in Nat /\ Hdr \in Nat /\ Hdr + body + 1 \in Nat
    BY TelegramAssumption
  <2>3. Len(Telegram(done + 1, body)) = Hdr + body + 1
    BY <2>2 DEF Telegram, TelegramSize
  <2> QED
    BY <2>1, <2>2, <2>3, TelegramAssumption DEF Telegram, TelegramSize
<1> QED
  BY <1>1, <1>3, <1>4, <1>5, <1>6

LEMMA Room ==
    ASSUME IInv, ~ overflowed, ~ parsing
    PROVE  ring.plen <= Hdr + Payload
<1>1. Hdr \in Nat /\ Payload \in Nat
  BY TelegramAssumption
<1>2. CASE Len(received) = Len(sent)
  BY <1>1, <1>2, FrontTelegram
<1>3. CASE Len(received) < Len(sent)
  BY <1>1, <1>3, FrontTelegram, Counts DEF IInv, Drained
<1> QED
  BY <1>2, <1>3, FrontTelegram, Counts DEF IInv

LEMMA Buffered ==
    ASSUME TypeOK, NEW bytes \in Seq(Byte), Buffer(bytes)
    PROVE  /\ IsRing(ring', Byte) /\ overflowed' \in BOOLEAN /\ parsing' = TRUE
           /\ ~ overflowed' => ~ overflowed /\ Contents(ring') = Contents(ring) \o bytes
           /\ ~ overflowed /\ ring.plen + Len(bytes) <= RingSize => ~ overflowed'
<1>1. IsRing(ring, Byte) /\ ring.plen \in Nat /\ Len(bytes) \in Nat /\ RingSize \in Nat
  BY Counts, RingAssumption, LenProperties DEF TypeOK
<1>2. ring' = RingWrite(ring, bytes) /\ (overflowed' <=> overflowed \/ ring.plen + Len(bytes) > RingSize)
  BY DEF Buffer
<1>3. CASE ring.plen + Len(bytes) > RingSize
  <2>1. ring' = ring
    BY <1>2, <1>3, RefusedWrite
  <2> QED
    BY <1>1, <1>2, <1>3, <2>1 DEF Buffer
<1>4. CASE ring.plen + Len(bytes) <= RingSize
  <2>1. IsRing(ring', Byte) /\ Contents(ring') = Contents(ring) \o bytes
    BY <1>1, <1>2, <1>4, Written
  <2> QED
    BY <1>1, <1>2, <1>4, <2>1 DEF Buffer
<1>5. ring.plen + Len(bytes) > RingSize \/ ring.plen + Len(bytes) <= RingSize
  BY <1>1
<1> QED
  BY <1>3, <1>4, <1>5, Zenon

\* Steps that move bytes from one place to the next.
LEMMA Moved ==
    ASSUME IInv, TypeOK', UNCHANGED <<backend, sent, starts, received>>,
           parsing' \/ (parsing' = parsing /\ ring' = ring),
           ~ overflowed' => ~ overflowed /\ Transit' = Transit,
           overflowed' => backend = "usart",
           collected' # <<>> => backend = "usart"
    PROVE  IInv'
<1>1. (\A i \in 1 .. Len(sent) : \E body \in 0 .. Payload : sent[i] = Telegram(i, body))'
  BY DEF IInv
<1>2. Begins(sent, starts)'
  BY DEF IInv
<1>3. ASSUME ~ overflowed' PROVE Laid(Transit', sent', starts', Len(received'))
  BY <1>3 DEF IInv
<1>4. ASSUME ~ overflowed' PROVE Drained'
  BY <1>4 DEF IInv, Drained
<1> QED
  BY <1>1, <1>2, <1>3, <1>4 DEF IInv

LEMMA StreamReadKeeps ==
    ASSUME IInv, NEW k \in 1 .. RecvMax, Recv(k) \/ UartRead(k)
    PROVE  IInv'
<1>1. /\ ~ parsing /\ backend # "usart" /\ k <= Len(wire)
      /\ Buffer(First(wire, k)) /\ wire' = After(wire, k)
      /\ UNCHANGED <<backend, collected, sent, starts, received>>
  BY DEF Recv, UartRead
<1>2. ~ overflowed /\ collected = <<>> /\ TypeOK
  BY <1>1 DEF IInv
<1>3. k \in Nat /\ wire \in Seq(Byte)
  BY <1>2, TelegramAssumption DEF TypeOK
<1>4. /\ First(wire, k) \in Seq(Byte) /\ Len(First(wire, k)) = k /\ After(wire, k) \in Seq(Byte)
      /\ First(wire, k) \o After(wire, k) = wire
  BY <1>1, <1>3, Parts
<1>5. ring.plen + Len(First(wire, k)) <= RingSize
  <2>1. ring.plen <= Hdr + Payload /\ ring.plen \in Nat
    BY <1>1, <1>2, Room, Counts
  <2> QED
    BY <1>4, <2>1, TelegramAssumption, RingAssumption
<1>6. /\ IsRing(ring', Byte) /\ parsing' = TRUE /\ overflowed' = FALSE
      /\ Contents(ring') = Contents(ring) \o First(wire, k)
  BY <1>1, <1>2, <1>4, <1>5, Buffered
<1>7. Byte' = Byte
  BY <1>1 DEF Byte
<1>8. TypeOK'
  BY <1>1, <1>2, <1>4, <1>6, <1>7 DEF TypeOK
<1>9. Transit' = Transit
  <2>1. Contents(ring) \in Seq(Byte) /\ wire \in Seq(Byte)
    BY <1>2, <1>3, Counts
  <2>2. (Contents(ring) \o First(wire, k)) \o After(wire, k) = Contents(ring) \o wire
    BY <1>1, <1>3, <2>1, PartsMoved
  <2>3. <<>> \o wire = wire /\ <<>> \o After(wire, k) = After(wire, k)
    BY <1>3, <1>4, ConcatEmptySeq
  <2> QED
    BY <1>1, <1>2, <1>6, <2>2, <2>3, Zenon DEF Transit
<1> QED
  BY <1>1, <1>2, <1>6, <1>8, <1>9, Moved

LEMMA ThreadReadKeeps ==
    ASSUME IInv, NEW k \in 1 .. RecvMax, ThreadRead(k)
    PROVE  IInv'
<1>1. /\ backend = "usart" /\ k <= Len(wire)
      /\ collected' = collected \o First(wire, k) /\ wire' = After(wire, k)
      /\ UNCHANGED <<backend, ring, parsing, sent, starts, received, overflowed>>
  BY DEF ThreadRead
<1>2. TypeOK
  BY DEF IInv
<1>3. k \in Nat /\ wire \in Seq(Byte) /\ collected \in Seq(Byte)
  BY <1>2, TelegramAssumption DEF TypeOK
<1>4. /\ First(wire, k) \in Seq(Byte) /\ After(wire, k) \in Seq(Byte)
      /\ First(wire, k) \o After(wire, k) = wire
  BY <1>1, <1>3, Parts
<1>5. Byte' = Byte
  BY <1>1 DEF Byte
<1>6. collected \o First(wire, k) \in Seq(Byte)
  BY <1>3, <1>4, ConcatProperties
<1>7. TypeOK'
  BY <1>1, <1>2, <1>4, <1>5, <1>6 DEF TypeOK
<1>8. Transit' = Transit
  <2>1. (collected \o First(wire, k)) \o After(wire, k) = collected \o wire
    BY <1>1, <1>3, PartsMoved
  <2> QED
    BY <1>1, <2>1, Zenon DEF Transit
<1> QED
  BY <1>1, <1>7, <1>8, Moved DEF IInv

LEMMA UsartUpdateKeeps ==
    ASSUME IInv, UsartUpdate
    PROVE  IInv'
<1>1. /\ backend = "usart" /\ Buffer(collected) /\ collected' = <<>>
      /\ UNCHANGED <<backend, wire, sent, starts, received>>
  BY DEF UsartUpdate
<1>2. TypeOK /\ wire \in Seq(Byte) /\ collected \in Seq(Byte)
  BY DEF IInv, TypeOK
<1>3. /\ IsRing(ring', Byte) /\ overflowed' \in BOOLEAN /\ parsing' = TRUE
      /\ ~ overflowed' => ~ overflowed /\ Contents(ring') = Contents(ring) \o collected
  BY <1>1, <1>2, Buffered
<1>4. Byte' = Byte
  BY <1>1 DEF Byte
<1>5. TypeOK'
  BY <1>1, <1>2, <1>3, <1>4, EmptySeq DEF TypeOK
<1>6. ASSUME ~ overflowed' PROVE Transit' = Transit
  <2>1. (Contents(ring) \o collected) \o wire = Contents(ring) \o (collected \o wire)
    <3>1. PICK c \in Seq(Byte) : c = Contents(ring)
      BY <1>2, Counts
    <3>2. PICK d \in Seq(Byte), w \in Seq(Byte) : d = collected /\ w = wire
      BY <1>2
    <3>3. (c \o d) \o w = c \o (d \o w)
      BY ConcatAssoc
    <3> QED
      BY <3>1, <3>2, <3>3, Zenon
  <2>2. <<>> \o wire = wire
    BY <1>2, ConcatEmptySeq
  <2> QED
    BY <1>1, <1>3, <1>6, <2>1, <2>2, Zenon DEF Transit
<1> QED
  BY <1>1, <1>3, <1>5, <1>6, Moved

LEMMA RestOfJoined ==
    ASSUME NEW S, NEW a \in Seq(S), NEW b \in Seq(S), NEW m \in Nat, m <= Len(a)
    PROVE  SubSeq(a, m + 1, Len(a)) \o b = SubSeq(a \o b, m + 1, Len(a \o b))
<1>1. PICK n \in Nat, l \in Nat : Len(a) = m + n /\ Len(b) = l
  <2>1. Len(a) \in Nat /\ Len(b) \in Nat
    BY LenProperties
  <2>2. Len(a) - m \in Nat /\ Len(a) = m + (Len(a) - m)
    BY <2>1
  <2> QED
    BY <2>1, <2>2
<1>2. /\ SubSeq(a, m + 1, Len(a)) \in Seq(S) /\ Len(SubSeq(a, m + 1, Len(a))) = n
      /\ \A k \in 1 .. n : SubSeq(a, m + 1, Len(a))[k] = a[m + k]
  BY <1>1, Rest
<1>3. PICK r \in Seq(S) : r = SubSeq(a, m + 1, Len(a))
  BY <1>2
<1>4. /\ a \o b \in Seq(S) /\ Len(a \o b) = m + (n + l)
      /\ \A k \in 1 .. m + (n + l) : (a \o b)[k] = IF k <= m + n THEN a[k] ELSE b[k - (m + n)]
  <2>1. /\ a \o b \in Seq(S) /\ Len(a \o b) = Len(a) + Len(b)
        /\ \A k \in 1 .. Len(a) + Len(b) : (a \o b)[k] = IF k <= Len(a) THEN a[k] ELSE b[k - Len(a)]
    BY ConcatProperties
  <2> QED
    BY <1>1, <2>1
<1>5. PICK j \in Seq(S) : j = a \o b
  BY <1>4
<1>6. /\ SubSeq(j, m + 1, Len(j)) \in Seq(S) /\ Len(SubSeq(j, m + 1, Len(j))) = n + l
      /\ \A k \in 1 .. n + l : SubSeq(j, m + 1, Len(j))[k] = j[m + k]
  <2>1. Len(j) = m + (n + l) /\ n + l \in Nat
    BY <1>4, <1>5
  <2> QED
    BY <2>1, Rest
<1>7. /\ r \o b \in Seq(S) /\ Len(r \o b) = n + l
      /\ \A k \in 1 .. n + l : (r \o b)[k] = IF k <= n THEN r[k] ELSE b[k - n]
  <2>1. /\ r \o b \in Seq(S) /\ Len(r \o b) = Len(r) + Len(b)
        /\ \A k \in 1 .. Len(r) + Len(b) : (r \o b)[k] = IF k <= Len(r) THEN r[k] ELSE b[k - Len(r)]
    BY ConcatProperties
  <2> QED
    BY <1>1, <1>2, <1>3, <2>1
<1>8. ASSUME NEW k \in 1 .. n + l PROVE (r \o b)[k] = SubSeq(j, m + 1, Len(j))[k]
  <2>1. m + k \in 1 .. m + (n + l) /\ (k <= n <=> m + k <= m + n) /\ (m + k) - (m + n) = k - n
    OBVIOUS
  <2>2. SubSeq(j, m + 1, Len(j))[k] = IF m + k <= m + n THEN a[m + k] ELSE b[(m + k) - (m + n)]
    BY <1>4, <1>5, <1>6, <2>1
  <2>3. k <= n => r[k] = a[m + k]
    BY <1>2, <1>3
  <2>4. CASE k <= n
    <3>1. (r \o b)[k] = r[k]
      BY <1>7, <2>4
    <3> QED
      BY <2>1, <2>2, <2>3, <2>4, <3>1
  <2>5. CASE ~ (k <= n)
    <3>1. (r \o b)[k] = b[k - n]
      BY <1>7, <2>5
    <3> QED
      BY <2>1, <2>2, <2>5, <3>1
  <2> QED
    BY <2>4, <2>5
<1>9. r \o b = SubSeq(j, m + 1, Len(j))
  BY <1>6, <1>7, <1>8, SeqEqual
<1> QED
  BY <1>3, <1>5, <1>9

\* The size that the header gives.
LEMMA SizesAreNumbers ==
    ASSUME TypeOK, ring.plen >= Hdr + 1, NEW size \in Sizes
    PROVE  size \in Nat
<1>1. Hdr \in Nat \ {0} /\ Hdr \in 1 .. Hdr /\ Hdr \in 0 .. ring.plen /\ Payload \in Nat
  BY Counts, TelegramAssumption
<1>2. RingPeek(ring, Hdr) \in Seq(Byte) /\ Len(RingPeek(ring, Hdr)) = Hdr
  BY <1>1, Peeked DEF TypeOK
<1>3. RingPeek(ring, Hdr)[Hdr] \in Byte
  BY <1>1, <1>2
<1>4. Len(sent[RingPeek(ring, Hdr)[Hdr].tg]) \in Nat
  BY <1>3, LenProperties DEF Byte, TypeOK
<1>5. \A body \in 0 .. Payload : TelegramSize(body) \in Nat
  BY <1>1 DEF TelegramSize
<1> QED
  BY <1>4, <1>5 DEF Sizes

LEMMA SizeOfFront ==
    ASSUME IInv, ~ overflowed, ring.plen >= Hdr + 1
    PROVE  Len(received) < Len(sent) /\ Sizes = {Len(sent[Len(received) + 1])}
<1>1. Hdr \in Nat \ {0} /\ Hdr \in 1 .. Hdr /\ Hdr \in 0 .. ring.plen /\ Hdr \in 1 .. ring.plen
  <2>1. PICK m \in Nat : ring.plen = m
    BY Counts DEF IInv
  <2>2. PICK h \in Nat \ {0} : Hdr = h
    BY TelegramAssumption
  <2>3. m >= h + 1
    BY <2>1, <2>2
  <2> QED
    BY <2>1, <2>2, <2>3
<1>2. Len(received) < Len(sent)
  BY <1>1, FrontTelegram, Counts DEF IInv
<1>3. RingPeek(ring, Hdr)[Hdr] = Transit[Hdr]
  <2>1. IsRing(ring, Byte) /\ TypeOK
    BY DEF IInv, TypeOK
  <2>2. RingPeek(ring, Hdr)[Hdr] = Contents(ring)[Hdr]
    BY <1>1, <2>1, Peeked
  <2>3. Transit[Hdr] = Contents(ring)[Hdr]
    BY <1>1, <2>1, Counts
  <2> QED
    BY <2>2, <2>3
<1>4. Hdr \in 1 .. Len(sent[Len(received) + 1])
  BY <1>1, <1>2, FrontTelegram
<1>5. RingPeek(ring, Hdr)[Hdr] = [tg |-> Len(received) + 1, at |-> Hdr]
  BY <1>2, <1>3, <1>4, FrontTelegram
<1>6. RingPeek(ring, Hdr)[Hdr].at = Hdr /\ RingPeek(ring, Hdr)[Hdr].tg = Len(received) + 1
  BY <1>5
<1>7. Sizes = {Len(sent[Len(received) + 1])}
  BY <1>6, Zenon DEF Sizes
<1> QED
  BY <1>2, <1>7

\* What a turn of the loop takes is the next telegram.
LEMMA CutsFront ==
    ASSUME IInv, ~ overflowed, Cut
    PROVE  /\ Len(received) < Len(sent)
           /\ received' = Append(received, sent[Len(received) + 1])
           /\ Transit' = SubSeq(Transit, Len(sent[Len(received) + 1]) + 1, Len(Transit))
<1>1. PICK size \in Sizes :
        /\ ring.plen >= size
        /\ received' = Append(received, RingPeek(ring, size))
        /\ ring' = RingRemove(ring, size)
  BY DEF Cut, Complete
<1>2. ring.plen >= Hdr + 1 /\ UNCHANGED <<collected, wire>>
  BY DEF Cut
<1>3. Len(received) < Len(sent) /\ size = Len(sent[Len(received) + 1]) /\ size \in Nat
  BY <1>2, SizeOfFront, SizesAreNumbers DEF IInv
<1>4. size \in 0 .. ring.plen /\ ring.plen \in Nat /\ IsRing(ring, Byte)
  BY <1>1, <1>3, Counts DEF IInv, TypeOK
<1>5. RingPeek(ring, size) = sent[Len(received) + 1]
  <2>1. /\ RingPeek(ring, size) \in Seq(Byte) /\ Len(RingPeek(ring, size)) = size
        /\ \A k \in 1 .. size : RingPeek(ring, size)[k] = Contents(ring)[k]
    BY <1>4, Peeked
  <2>2. /\ sent[Len(received) + 1] \in Seq(Byte) /\ Len(sent[Len(received) + 1]) = size
        /\ \A k \in 1 .. size : sent[Len(received) + 1][k] = Transit[k]
    BY <1>3, FrontTelegram
  <2>3. \A k \in 1 .. size : Transit[k] = Contents(ring)[k]
    BY <1>4, Counts DEF IInv
  <2> QED
    BY <2>1, <2>2, <2>3, SeqEqual
<1>6. Contents(ring') = SubSeq(Contents(ring), size + 1, ring.plen)
  BY <1>1, <1>4, Removed
<1>7. Transit' = SubSeq(Transit, size + 1, Len(Transit))
  <2>1. /\ Contents(ring) \in Seq(Byte) /\ Len(Contents(ring)) = ring.plen
        /\ collected \o wire \in Seq(Byte)
    BY Counts DEF IInv
  <2>2. SubSeq(Contents(ring), size + 1, Len(Contents(ring))) \o (collected \o wire)
          = SubSeq(Contents(ring) \o (collected \o wire), size + 1,
                   Len(Contents(ring) \o (collected \o wire)))
    <3>1. PICK a \in Seq(Byte), b \in Seq(Byte) : a = Contents(ring) /\ b = collected \o wire
      BY <2>1
    <3>2. size \in Nat /\ size <= Len(a)
      BY <1>3, <1>4, <2>1, <3>1
    <3>3. SubSeq(a, size + 1, Len(a)) \o b = SubSeq(a \o b, size + 1, Len(a \o b))
      BY <3>2, RestOfJoined
    <3> QED
      BY <3>1, <3>3
  <2> QED
    BY <1>2, <1>6, <2>1, <2>2, Zenon DEF Transit
<1> QED
  BY <1>1, <1>3, <1>5, <1>7

LEMMA CutKeeps == IInv /\ Cut => IInv'
<1> SUFFICES ASSUME IInv, Cut PROVE IInv'
  OBVIOUS
<1>1. PICK size \in Sizes :
        /\ ring.plen >= size
        /\ received' = IF overflowed THEN received ELSE Append(received, RingPeek(ring, size))
        /\ ring' = RingRemove(ring, size)
  BY DEF Cut, Complete
<1>2. /\ ring.plen >= Hdr + 1 /\ parsing
      /\ UNCHANGED <<backend, wire, collected, parsing, sent, starts, overflowed>>
  BY DEF Cut
<1>3. size \in 0 .. ring.plen /\ IsRing(ring, Byte)
  BY <1>1, <1>2, SizesAreNumbers, Counts DEF IInv, TypeOK
<1>4. Byte' = Byte
  BY <1>2 DEF Byte
<1>5. TypeOK'
  <2>1. IsRing(ring', Byte) /\ RingPeek(ring, size) \in Seq(Byte)
    BY <1>1, <1>3, Removed, Peeked
  <2>2. received' \in Seq(Seq(Byte))
    BY <1>1, <2>1, AppendProperties DEF IInv, TypeOK
  <2> QED
    BY <1>2, <1>4, <2>1, <2>2 DEF IInv, TypeOK
<1>6. ASSUME ~ overflowed PROVE Laid(Transit', sent', starts', Len(received'))
  <2>1. /\ Len(received) < Len(sent)
        /\ received' = Append(received, sent[Len(received) + 1])
        /\ Transit' = SubSeq(Transit, Len(sent[Len(received) + 1]) + 1, Len(Transit))
    BY <1>6, CutsFront
  <2>2. PICK done \in Nat : Len(received) = done /\ Len(received') = done + 1
    BY <2>1, AppendProperties, Counts DEF IInv, TypeOK
  <2>3. /\ Transit \in Seq(Byte) /\ sent \in Seq(Seq(Byte)) /\ starts \in Seq(Nat)
        /\ Len(starts) = Len(sent) + 1 /\ Begins(sent, starts) /\ Laid(Transit, sent, starts, done)
    BY <1>6, <2>2, Counts DEF IInv, TypeOK
  <2>4. Laid(SubSeq(Transit, Len(sent[done + 1]) + 1, Len(Transit)), sent, starts, done + 1)
    BY <2>1, <2>2, <2>3, LaidCut
  <2> QED
    BY <1>2, <2>1, <2>2, <2>4
<1>7. Drained'
  BY <1>2 DEF Drained
<1> QED
  BY <1>2, <1>5, <1>6, <1>7 DEF IInv

LEMMA EndCutKeeps == IInv /\ EndCut => IInv'
<1> SUFFICES ASSUME IInv, EndCut PROVE IInv'
  OBVIOUS
<1>1. /\ ring.plen >= Hdr + 1 => \E size \in Sizes : ~ (ring.plen >= size)
      /\ parsing' = FALSE
      /\ UNCHANGED <<backend, wire, collected, ring, sent, starts, received, overflowed>>
  BY DEF EndCut, Complete
<1>2. TypeOK'
  BY <1>1 DEF IInv, TypeOK, Byte
<1>3. Transit' = Transit
  BY <1>1 DEF Transit
<1>4. ASSUME ~ overflowed PROVE Drained'
  <2>1. ASSUME Len(received) < Len(sent) PROVE ring.plen < Len(sent[Len(received) + 1])
    <3>1. /\ Len(sent[Len(received) + 1]) \in Hdr + 1 .. Hdr + Payload + 1
          /\ ring.plen \in Nat /\ Hdr \in Nat /\ Payload \in Nat
      BY <1>4, <2>1, FrontTelegram, Counts, TelegramAssumption DEF IInv
    <3>2. CASE ring.plen >= Hdr + 1
      BY <1>1, <1>4, <3>1, <3>2, SizeOfFront
    <3>3. CASE ~ (ring.plen >= Hdr + 1)
      BY <3>1, <3>3
    <3> QED
      BY <3>2, <3>3
  <2> QED
    BY <1>1, <2>1 DEF Drained
<1> QED
  BY <1>1, <1>2, <1>3, <1>4 DEF IInv

LEMMA BroadcastKeeps ==
    ASSUME IInv, NEW body \in 0 .. Payload, Broadcast(body)
    PROVE  IInv'
<1> DEFINE t == Telegram(Len(sent) + 1, body)
<1>1. /\ sent' = Append(sent, t) /\ wire' = wire \o t
      /\ starts' = Append(starts, starts[Len(starts)] + Len(t))
      /\ UNCHANGED <<backend, collected, ring, parsing, received, overflowed>>
  BY DEF Broadcast
<1>2. PICK n \in Nat : Len(sent) = n
  BY Counts DEF IInv
<1>3. TypeOK /\ Hdr \in Nat /\ body \in Nat /\ Payload \in Nat
  BY TelegramAssumption DEF IInv
<1>4. Len(sent') = n + 1
  BY <1>1, <1>2 DEF IInv, TypeOK
<1>5. Byte' = [tg : 1 .. n + 1, at : 1 .. TelegramSize(Payload)]
  BY <1>4 DEF Byte
<1>6. /\ t \in Seq(Byte') /\ Len(t) = Hdr + body + 1 /\ Len(t) \in Nat
      /\ \A k \in 1 .. Len(t) : t[k] = [tg |-> Len(sent) + 1, at |-> k]
  <2>1. TelegramSize(body) \in Nat /\ TelegramSize(body) = Hdr + body + 1
    BY <1>3 DEF TelegramSize
  <2>2. \A k \in 1 .. TelegramSize(body) : k \in 1 .. TelegramSize(Payload) /\ n + 1 \in 1 .. n + 1
    BY <1>3 DEF TelegramSize
  <2>3. t = [k \in 1 .. TelegramSize(body) |-> [tg |-> n + 1, at |-> k]]
    BY <1>2 DEF Telegram
  <2>4. t \in [1 .. TelegramSize(body) -> Byte']
    BY <1>5, <2>2, <2>3
  <2> HIDE DEF t
  <2>5. t \in Seq(Byte') /\ Len(t) = TelegramSize(body)
    BY <2>1, <2>3, <2>4
  <2> QED
    BY <1>2, <2>1, <2>3, <2>5
<1>7. Byte \subseteq Byte'
  <2>1. Byte = [tg : 1 .. n, at : 1 .. TelegramSize(Payload)]
    BY <1>2 DEF Byte
  <2>2. 1 .. n \subseteq 1 .. n + 1
    OBVIOUS
  <2> QED
    BY <1>5, <2>1, <2>2
<1>8. t = Telegram(Len(sent) + 1, body)
  OBVIOUS
<1> HIDE DEF t
<1>9. /\ Seq(Byte) \subseteq Seq(Byte') /\ Seq(Seq(Byte)) \subseteq Seq(Seq(Byte'))
      /\ IsRing(ring, Byte')
  <2>1. Seq(Byte) \subseteq Seq(Byte') /\ IsRing(ring, Byte')
    BY <1>3, <1>7, LargerType DEF TypeOK
  <2> QED
    BY <2>1, LargerType
<1>10. PICK S : S = Byte'
  OBVIOUS
<1>11. /\ sent \in Seq(Seq(S)) /\ starts \in Seq(Nat) /\ Len(starts) = Len(sent) + 1
       /\ Begins(sent, starts) /\ t \in Seq(S) /\ Transit \in Seq(S)
       /\ wire \in Seq(S) /\ collected \in Seq(S) /\ Contents(ring) \in Seq(S)
  BY <1>3, <1>6, <1>9, <1>10, Counts DEF IInv, TypeOK
<1>12. /\ sent' \in Seq(Seq(S)) /\ starts' \in Seq(Nat) /\ Len(starts') = Len(sent') + 1
       /\ Begins(sent', starts')
       /\ \A i \in 1 .. n : sent'[i] = sent[i]
       /\ sent'[n + 1] = t
  <2>1. PICK T \in Seq(Seq(S)), B \in Seq(Nat), u \in Seq(S) : T = sent /\ B = starts /\ u = t
    BY <1>11
  <2>2. Len(B) = Len(T) + 1 /\ Begins(T, B) /\ Len(T) = n
    BY <1>2, <1>11, <2>1
  <2>3. /\ Append(T, u) \in Seq(Seq(S)) /\ Len(Append(T, u)) = Len(T) + 1
        /\ \A i \in 1 .. Len(T) : Append(T, u)[i] = T[i]
        /\ Append(T, u)[Len(T) + 1] = u
        /\ Append(B, B[Len(B)] + Len(u)) \in Seq(Nat)
        /\ Len(Append(B, B[Len(B)] + Len(u))) = Len(T) + 2
        /\ Begins(Append(T, u), Append(B, B[Len(B)] + Len(u)))
    BY <2>2, BeginsGrow
  <2>4. PICK T2 \in Seq(Seq(S)), B2 \in Seq(Nat) :
            T2 = Append(T, u) /\ B2 = Append(B, B[Len(B)] + Len(u))
    BY <2>3
  <2>5. sent' = T2 /\ starts' = B2
    BY <1>1, <2>1, <2>4
  <2>6. /\ Len(T2) = n + 1 /\ Len(B2) = n + 2 /\ Begins(T2, B2) /\ T2[n + 1] = u
        /\ \A i \in 1 .. n : T2[i] = T[i]
    BY <2>2, <2>3, <2>4
  <2> QED
    BY <2>1, <2>5, <2>6
<1>13. wire \o t \in Seq(S) /\ Transit' = Transit \o t
  <2>1. wire \o t \in Seq(S) /\ collected \o wire \in Seq(S)
    BY <1>11, ConcatProperties
  <2>2. Contents(ring) \o (collected \o (wire \o t)) = (Contents(ring) \o (collected \o wire)) \o t
    <3>1. PICK a \in Seq(S), b \in Seq(S), w \in Seq(S), u \in Seq(S) :
            a = Contents(ring) /\ b = collected /\ w = wire /\ u = t
      BY <1>11
    <3>2. PICK x \in Seq(S) : x = b \o w
      BY ConcatProperties
    <3>3. (a \o x) \o u = a \o (x \o u)
      BY ConcatAssoc
    <3>4. (b \o w) \o u = b \o (w \o u)
      BY ConcatAssoc
    <3> QED
      BY <3>1, <3>2, <3>3, <3>4, Zenon
  <2> QED
    BY <1>1, <2>1, <2>2, Zenon DEF Transit
<1>14. TypeOK'
  BY <1>1, <1>3, <1>9, <1>10, <1>11, <1>12, <1>13 DEF TypeOK
<1>15. ASSUME NEW i \in 1 .. n + 1 PROVE \E b \in 0 .. Payload : sent'[i] = Telegram(i, b)
  <2>1. CASE i = n + 1
    BY <1>2, <1>8, <1>12, <2>1
  <2>2. CASE i # n + 1
    <3>1. i \in 1 .. n
      BY <2>2
    <3> QED
      BY <1>2, <1>12, <3>1 DEF IInv
  <2> QED
    BY <2>1, <2>2
<1>16. ASSUME ~ overflowed PROVE Laid(Transit', sent', starts', Len(received'))
  <2>1. PICK done \in Nat : Len(received) = done
    BY <1>3, Counts
  <2>2. Laid(Transit, sent, starts, done)
    BY <1>16, <2>1 DEF IInv
  <2>3. Laid(Transit \o t, Append(sent, t), Append(starts, starts[Len(starts)] + Len(t)), done)
    BY <1>6, <1>11, <2>2, LaidGrows
  <2> QED
    BY <1>1, <1>13, <2>1, <2>3
<1>17. ASSUME ~ overflowed PROVE Drained'
  <2>1. PICK done \in Nat : Len(received) = done /\ done <= n
    BY <1>2, <1>3, <1>17, Counts, FrontTelegram
  <2>2. CASE done = n
    <3>1. ring.plen = 0
      BY <1>2, <1>17, <2>1, <2>2, FrontTelegram
    <3> QED
      BY <1>1, <1>3, <1>6, <1>12, <2>1, <2>2, <3>1 DEF Drained
  <2>3. CASE done < n
    <3>1. done + 1 \in 1 .. n
      BY <2>3
    <3> QED
      BY <1>1, <1>2, <1>12, <1>17, <2>1, <2>3, <3>1 DEF IInv, Drained
  <2> QED
    BY <2>1, <2>2, <2>3
<1> QED
  BY <1>1, <1>4, <1>12, <1>14, <1>15, <1>16, <1>17 DEF IInv

LEMMA InitIInv == Init => IInv
<1> SUFFICES ASSUME Init PROVE IInv
  OBVIOUS
<1>1. /\ IsRing(ring, Byte) /\ Contents(ring) = <<>>
  BY EmptyRingIsRing DEF Init
<1>2. TypeOK
  <2>1. <<>> \in Seq(Byte) /\ <<>> \in Seq(Seq(Byte))
    BY EmptySeq
  <2>2. <<0>> \in Seq(Nat) /\ Len(<<0>>) = 1 /\ Len(<<>>) = 0
    OBVIOUS
  <2>3. sent = <<>> /\ starts = <<0>> /\ Len(starts) = Len(sent) + 1
    BY <2>2 DEF Init
  <2> QED
    BY <1>1, <2>1, <2>2, <2>3 DEF Init, TypeOK
<1>3. Begins(sent, starts)
  BY DEF Init, Begins
<1>4. Transit = <<>>
  <2>1. <<>> \o <<>> = <<>>
    BY ConcatEmptySeq
  <2> QED
    BY <1>1, <2>1 DEF Transit, Init
<1>5. Laid(Transit, sent, starts, Len(received))
  BY <1>4 DEF Init, Laid
<1> QED
  BY <1>2, <1>3, <1>5 DEF Init, IInv, Drained

LEMMA StutterKeeps == IInv /\ UNCHANGED vars => IInv'
<1> SUFFICES ASSUME IInv, UNCHANGED vars PROVE IInv'
  OBVIOUS
<1>1. TypeOK'
  BY DEF IInv, TypeOK, Byte, vars
<1>2. Transit' = Transit /\ (Drained' <=> Drained)
  BY DEF Transit, Drained, vars
<1> QED
  BY <1>1, <1>2 DEF IInv, vars

\* Every step keeps the bytes in place.
THEOREM FramingStepKeepsIInv == IInv /\ [Next]_vars => IInv'
<1> SUFFICES ASSUME IInv, [Next]_vars PROVE IInv'
  OBVIOUS
<1>1. CASE \E body \in 0 .. Payload : Broadcast(body)
  BY <1>1, BroadcastKeeps
<1>2. CASE \E k \in 1 .. RecvMax : Recv(k) \/ UartRead(k) \/ ThreadRead(k)
  BY <1>2, StreamReadKeeps, ThreadReadKeeps
<1>3. CASE UsartUpdate
  BY <1>3, UsartUpdateKeeps
<1>4. CASE Cut
  BY <1>4, CutKeeps
<1>5. CASE EndCut
  BY <1>5, EndCutKeeps
<1>6. CASE UNCHANGED vars
  BY <1>6, StutterKeeps
<1> QED
  BY <1>1, <1>2, <1>3, <1>4, <1>5, <1>6 DEF Next

\* What is in the ring and behind it is what was sent and not cut off yet, and
\* no call of _process_packet leaves a complete telegram in the ring.
THEOREM FramingAlwaysIInv == Spec => []IInv
  BY InitIInv, FramingStepKeepsIInv, PTL DEF Spec

(***************************************************************************)
(* No telegram waits for the next one.                                     *)
(***************************************************************************)
LEMMA TailOf ==
    ASSUME TypeOK, NEW p \in Nat, p > ring.plen, p <= Len(Transit)
    PROVE  \E b \in Range(wire) \union Range(collected) : Transit[p] = b
<1>1. PICK a \in Seq(Byte), c \in Seq(Byte), w \in Seq(Byte) :
        a = Contents(ring) /\ c = collected /\ w = wire
  BY Counts DEF TypeOK
<1>2. PICK m \in Nat, n \in Nat, l \in Nat : Len(a) = m /\ Len(c) = n /\ Len(w) = l
  BY LenProperties
<1>3. p > m /\ p <= m + (n + l)
  BY <1>1, <1>2, Counts
<1>4. PICK j \in Seq(Byte) : j = c \o w
  BY ConcatProperties
<1>5. Len(j) = n + l /\ \A k \in 1 .. n + l : j[k] = IF k <= n THEN c[k] ELSE w[k - n]
  BY <1>2, <1>4, ConcatProperties
<1>6. \A k \in 1 .. m + (n + l) : (a \o j)[k] = IF k <= m THEN a[k] ELSE j[k - m]
  <2>1. \A k \in 1 .. Len(a) + Len(j) : (a \o j)[k] = IF k <= Len(a) THEN a[k] ELSE j[k - Len(a)]
    BY ConcatProperties
  <2> QED
    BY <1>2, <1>5, <2>1
<1>7. Transit[p] = j[p - m]
  <2>1. Transit = a \o j
    BY <1>1, <1>4 DEF Transit
  <2>2. p \in 1 .. m + (n + l) /\ ~ (p <= m)
    BY <1>3
  <2> QED
    BY <1>6, <2>1, <2>2
<1>8. PICK q \in 1 .. n + l : q = p - m
  BY <1>3
<1>9. CASE q <= n
  <2>1. q \in DOMAIN collected /\ Transit[p] = collected[q]
    BY <1>1, <1>2, <1>5, <1>7, <1>8, <1>9, LenProperties
  <2> QED
    BY <2>1 DEF Range
<1>10. CASE ~ (q <= n)
  <2>1. q - n \in DOMAIN wire /\ Transit[p] = wire[q - n]
    BY <1>1, <1>2, <1>5, <1>7, <1>8, <1>10, LenProperties
  <2> QED
    BY <2>1 DEF Range
<1> QED
  BY <1>9, <1>10

LEMMA NothingWaits == IInv => NothingHeldBack
<1> SUFFICES ASSUME IInv, ~ parsing, ~ overflowed, NEW i \in DOMAIN sent, ~ (i <= Len(received)),
                    \A b \in Range(wire) \union Range(collected) : b.tg # i
             PROVE  FALSE
  BY DEF NothingHeldBack
<1>1. PICK done \in Nat, n \in Nat, plen \in Nat :
        Len(received) = done /\ Len(sent) = n /\ ring.plen = plen
  BY Counts DEF IInv
<1>2. /\ TypeOK /\ Laid(Transit, sent, starts, done) /\ Begins(sent, starts)
      /\ sent \in Seq(Seq(Byte)) /\ starts \in Seq(Nat) /\ Len(starts) = n + 1
  BY <1>1 DEF IInv, TypeOK
<1>3. i \in 1 .. n /\ i \in Nat /\ i > done /\ done < n
  BY <1>1, <1>2, LenProperties
<1>4. PICK len \in Nat, front \in Nat : Len(sent[i]) = len /\ Len(sent[done + 1]) = front
  BY <1>1, <1>2, <1>3, LenProperties
<1>5. len >= 1
  <2>1. PICK body \in 0 .. Payload : sent[i] = Telegram(i, body)
    BY <1>1, <1>3 DEF IInv
  <2> QED
    BY <1>4, <2>1, TelegramAssumption DEF Telegram, TelegramSize
<1>6. plen < front
  BY <1>1, <1>3, <1>4 DEF IInv, Drained
<1>7. PICK base \in Nat, begin \in Nat, end \in Nat, all \in Nat, next \in Nat :
        /\ starts[done + 1] = base /\ starts[i] = begin /\ starts[i + 1] = end
        /\ starts[n + 1] = all /\ starts[(done + 1) + 1] = next
  <2>1. \A x \in 1 .. n + 1 : starts[x] \in Nat
    <3>1. PICK B \in Seq(Nat) : B = starts /\ Len(B) = n + 1
      BY <1>2
    <3>2. \A x \in 1 .. n + 1 : B[x] \in Nat
      BY <3>1
    <3> QED
      BY <3>1, <3>2
  <2>2. /\ done + 1 \in 1 .. n + 1 /\ i \in 1 .. n + 1 /\ i + 1 \in 1 .. n + 1
        /\ n + 1 \in 1 .. n + 1 /\ (done + 1) + 1 \in 1 .. n + 1
    BY <1>3
  <2>3. /\ starts[done + 1] \in Nat /\ starts[i] \in Nat /\ starts[i + 1] \in Nat
        /\ starts[n + 1] \in Nat /\ starts[(done + 1) + 1] \in Nat
    BY <2>1, <2>2
  <2> QED
    BY <2>3
<1>8. /\ next = base + front /\ end = begin + len
      /\ base <= begin /\ next <= end /\ end <= all
  <2>1. /\ \A x \in 1 .. n : starts[x + 1] = starts[x] + Len(sent[x])
        /\ \A x, y \in 1 .. n + 1 : x <= y => starts[x] <= starts[y]
    BY <1>1, <1>2 DEF Begins
  <2>2. /\ done + 1 \in 1 .. n /\ done + 1 \in 1 .. n + 1 /\ i \in 1 .. n + 1 /\ i + 1 \in 1 .. n + 1
        /\ n + 1 \in 1 .. n + 1 /\ (done + 1) + 1 \in 1 .. n + 1
        /\ done + 1 <= i /\ (done + 1) + 1 <= i + 1 /\ i + 1 <= n + 1
    BY <1>3
  <2>3. /\ starts[(done + 1) + 1] = starts[done + 1] + Len(sent[done + 1])
        /\ starts[i + 1] = starts[i] + Len(sent[i])
    BY <1>3, <2>1, <2>2
  <2>4. /\ starts[done + 1] <= starts[i] /\ starts[(done + 1) + 1] <= starts[i + 1]
        /\ starts[i + 1] <= starts[n + 1]
    BY <2>1, <2>2
  <2> QED
    BY <1>4, <1>7, <2>3, <2>4
<1>9. Len(Transit) = all - base /\ Transit[begin - base + len] = [tg |-> i, at |-> len]
  <2>1. /\ Len(Transit) = starts[n + 1] - starts[done + 1]
        /\ \A x \in done + 1 .. n : \A k \in 1 .. Len(sent[x]) :
              Transit[starts[x] - starts[done + 1] + k] = [tg |-> x, at |-> k]
    BY <1>1, <1>2 DEF Laid
  <2>2. i \in done + 1 .. n /\ len \in 1 .. Len(sent[i])
    BY <1>3, <1>4, <1>5
  <2>3. Transit[starts[i] - starts[done + 1] + len] = [tg |-> i, at |-> len]
    BY <2>1, <2>2
  <2> QED
    BY <1>7, <2>1, <2>3
<1>10. PICK p \in Nat : p = begin - base + len
  BY <1>8
<1>11. p > plen /\ p <= all - base
  BY <1>6, <1>8, <1>10
<1>12. PICK b \in Range(wire) \union Range(collected) : Transit[p] = b
  BY <1>1, <1>2, <1>9, <1>11, TailOf
<1>13. b.tg = i
  BY <1>9, <1>10, <1>12
<1> QED
  BY <1>12, <1>13

\* After an update() every telegram whose bytes have arrived is in _pkts
\* (_process_packet), whatever the pieces it arrived in.
THEOREM AlwaysNothingHeldBack == Spec => []NothingHeldBack
  BY FramingAlwaysIInv, NothingWaits, PTL

(***************************************************************************)
(* The channel that the backends implement.                                *)
(***************************************************************************)
LEMMA FrontOfAppend ==
    ASSUME NEW S, NEW s \in Seq(S), NEW e \in S
    PROVE  SubSeq(Append(s, e), 1, Len(s)) = s
<1>1. PICK n \in Nat : Len(s) = n
  BY LenProperties
<1>2. PICK r \in Seq(S) : r = Append(s, e)
  BY AppendProperties
<1>3. Len(r) = n + 1 /\ \A i \in 1 .. n : r[i] = s[i]
  BY <1>1, <1>2, AppendProperties
<1>4. \A i \in 1 .. n : r[i] \in S
  BY <1>1, <1>3
<1>5. /\ SubSeq(r, 1, n) \in Seq(S) /\ Len(SubSeq(r, 1, n)) = n
      /\ \A i \in 1 .. n : SubSeq(r, 1, n)[i] = s[i]
  BY <1>3, <1>4, SubSeqProperties
<1>6. SubSeq(r, 1, n) = s
  BY <1>1, <1>5, SeqEqual
<1> QED
  BY <1>1, <1>2, <1>6

LEMMA BroadcastSends ==
    ASSUME IInv, NEW body \in 0 .. Payload, Broadcast(body)
    PROVE  Channel!Send
<1>1. PICK t : t = Telegram(Len(sent) + 1, body) /\ sent' = Append(sent, t) /\ UNCHANGED received
  BY DEF Broadcast
<1>2. PICK U : U = Seq(Byte) \union {t}
  OBVIOUS
<1>3. sent \in Seq(Seq(Byte))
  BY DEF IInv, TypeOK
<1>4. sent \in Seq(U) /\ t \in U
  BY <1>2, <1>3
<1>5. Len(sent') = Len(sent) + 1 /\ SubSeq(sent', 1, Len(sent)) = sent
  BY <1>1, <1>4, AppendProperties, FrontOfAppend
<1> QED
  BY <1>1, <1>5 DEF Channel!Send

\* The telegrams come out once, whole and in order: every step is a Send, a
\* Deliver or neither, and only _stream of MiosixUSART can overflow the ring.
THEOREM ChannelRefined == Spec => ImplementsChannel
<1>1. Init => Channel!Init
  BY DEF Init, Channel!Init
<1>2. ASSUME IInv, [Next]_vars PROVE [Channel!Next]_(Channel!abstractVars)
  <2>1. CASE \E body \in 0 .. Payload : Broadcast(body)
    BY <1>2, <2>1, BroadcastSends DEF Channel!Next
  <2>2. CASE Cut
    <3>1. CASE overflowed
      BY <2>2, <3>1 DEF Cut, Channel!abstractVars
    <3>2. CASE ~ overflowed
      <4>1. Channel!Deliver
        BY <1>2, <2>2, <3>2, CutsFront DEF Channel!Deliver, Cut
      <4> QED
        BY <4>1 DEF Channel!Next
    <3> QED
      BY <3>1, <3>2
  <2>3. CASE \E k \in 1 .. RecvMax : Recv(k) \/ UartRead(k) \/ ThreadRead(k)
    BY <2>3 DEF Recv, UartRead, ThreadRead, Channel!abstractVars
  <2>4. CASE UsartUpdate \/ EndCut
    BY <2>4 DEF UsartUpdate, EndCut, Channel!abstractVars
  <2>5. CASE UNCHANGED vars
    BY <2>5 DEF vars, Channel!abstractVars
  <2> QED
    BY <1>2, <2>1, <2>2, <2>3, <2>4, <2>5 DEF Next
<1>3. IInv => (backend # "usart" => ~ overflowed)
  BY DEF IInv
<1> QED
  BY <1>1, <1>2, <1>3, FramingAlwaysIInv, PTL DEF ImplementsChannel, Channel!Spec, Spec
=============================================================================
