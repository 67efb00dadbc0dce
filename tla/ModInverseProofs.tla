-------------------------- MODULE ModInverseProofs --------------------------
(***************************************************************************)
(* mpi_inv_mod returns the inverse, for every number and every modulus.    *)
(*                                                                         *)
(* The argument: the combinations of the second loop hold (Combination),   *)
(* what divides both TU and TV divides TA and TB (Descends), and the first *)
(* loop only lets pairs through that have no divisor in common (Coprime).  *)
(* When TU is 0, TV divides both, so it is 1, and V1 is an inverse.        *)
(***************************************************************************)
EXTENDS ModInverse, TLAPS

Divides(d, v) == \E k \in Int : v = d * k
Pos           == Nat \ {0}

LEMMA HalfOfEven ==
  ASSUME NEW v \in Int, Even(v)
  PROVE  Half(v) \in Int /\ v = 2 * Half(v)
  BY DEF Even, Half

LEMMA OddForm ==
  ASSUME NEW v \in Int, ~Even(v)
  PROVE  Half(v) \in Int /\ v = 2 * Half(v) + 1
  BY DEF Even, Half

LEMMA EvenDivides ==
  ASSUME NEW v \in Int
  PROVE  Even(v) <=> Divides(2, v)
<1>1. ASSUME Even(v) PROVE Divides(2, v)
  BY <1>1, HalfOfEven DEF Divides
<1>2. ASSUME NEW k \in Int, v = 2 * k PROVE Even(v)
  BY <1>2 DEF Even
<1>. QED BY <1>1, <1>2 DEF Divides

LEMMA DividesSum ==
  ASSUME NEW d \in Int, NEW v \in Int, NEW w \in Int, Divides(d, v), Divides(d, w)
  PROVE  Divides(d, v + w) /\ Divides(d, v - w)
<1>1. PICK i \in Int : v = d * i BY DEF Divides
<1>2. PICK j \in Int : w = d * j BY DEF Divides
<1>3. v + w = d * (i + j) /\ v - w = d * (i - j) BY <1>1, <1>2
<1>4. i + j \in Int /\ i - j \in Int OBVIOUS
<1>. QED BY <1>3, <1>4 DEF Divides

LEMMA DividesProduct ==
  ASSUME NEW d \in Int, NEW v \in Int, NEW w \in Int, Divides(d, v)
  PROVE  Divides(d, v * w)
<1>1. PICK i \in Int : v = d * i BY DEF Divides
<1>2. v * w = d * (i * w) BY <1>1
<1>. QED BY <1>2 DEF Divides

LEMMA EvenTwice ==
  ASSUME NEW v \in Int
  PROVE  Even(2 * v) /\ ~Even(2 * v + 1)
  BY DEF Even

LEMMA EvenSum ==
  ASSUME NEW v \in Int, NEW w \in Int
  PROVE  /\ Even(v + w) <=> (Even(v) <=> Even(w))
         /\ Even(v - w) <=> (Even(v) <=> Even(w))
  BY DEF Even

LEMMA EvenProduct ==
  ASSUME NEW v \in Int, NEW w \in Int
  PROVE  Even(v * w) <=> Even(v) \/ Even(w)
<1>1. CASE Even(v)
  <2>1. v * w = 2 * (Half(v) * w) BY <1>1, HalfOfEven
  <2>. QED BY <1>1, <2>1, HalfOfEven, EvenTwice
<1>2. CASE Even(w)
  <2>1. v * w = 2 * (v * Half(w)) BY <1>2, HalfOfEven
  <2>. QED BY <1>2, <2>1, HalfOfEven, EvenTwice
<1>3. CASE ~Even(v) /\ ~Even(w)
  <2>1. PICK g \in Int : v = 2 * g + 1 BY <1>3, OddForm
  <2>2. PICK h \in Int : w = 2 * h + 1 BY <1>3, OddForm
  <2>3. v * w = 2 * (2 * (g * h) + g + h) + 1 BY <2>1, <2>2
  <2>4. 2 * (g * h) + g + h \in Int OBVIOUS
  <2>. QED BY <1>3, <2>3, <2>4, EvenTwice
<1>. QED BY <1>1, <1>2, <1>3

LEMMA TwiceCombination ==
  ASSUME NEW g \in Int, NEW h \in Int, NEW v \in Int, NEW w \in Int
  PROVE  (2 * g) * v + (2 * h) * w = 2 * (g * v + h * w)
<1>1. (2 * g) * v = 2 * (g * v) /\ (2 * h) * w = 2 * (h * w) OBVIOUS
<1>. QED BY <1>1

LEMMA HalvedPair ==
  ASSUME NEW w1 \in Int, NEW w2 \in Int, NEW t \in Int, TA \in Int, TB \in Int,
         Even(w1), Even(w2), Even(t), w1 * TA + w2 * TB = t
  PROVE  Half(w1) * TA + Half(w2) * TB = Half(t)
<1>1. PICK g \in Int : w1 = 2 * g BY HalfOfEven
<1>2. PICK h \in Int : w2 = 2 * h BY HalfOfEven
<1>3. t = 2 * (g * TA + h * TB) BY <1>1, <1>2, TwiceCombination
<1>4. Half(w1) = g /\ Half(w2) = h BY <1>1, <1>2 DEF Half
<1>5. g * TA + h * TB \in Int OBVIOUS
<1>6. Half(2 * (g * TA + h * TB)) = g * TA + h * TB BY <1>5 DEF Half
<1>. QED BY <1>3, <1>4, <1>6

(* A combination of an even value is halved by mpi_inv_mod, with or        *)
(* without the correction, when TA and TB are not both even.               *)
LEMMA HalvedCombination ==
  ASSUME NEW u1 \in Int, NEW u2 \in Int, NEW t \in Int, TA \in Int, TB \in Int,
         u1 * TA + u2 * TB = t, Even(t), ~(Even(TA) /\ Even(TB))
  PROVE  /\ HalfFirst(u1, u2) \in Int /\ HalfSecond(u1, u2) \in Int
         /\ HalfFirst(u1, u2) * TA + HalfSecond(u1, u2) * TB = Half(t)
<1>1. CASE Even(u1) /\ Even(u2)
  <2>1. Half(u1) \in Int /\ Half(u2) \in Int BY <1>1, HalfOfEven
  <2>2. Half(u1) * TA + Half(u2) * TB = Half(t) BY <1>1, HalvedPair
  <2>. QED BY <1>1, <2>1, <2>2 DEF HalfFirst, HalfSecond
<1>2. CASE ~(Even(u1) /\ Even(u2))
  <2>. DEFINE w1 == u1 + TB w2 == u2 - TA
  <2>1. w1 \in Int /\ w2 \in Int OBVIOUS
  <2>2. w1 * TA + w2 * TB = t OBVIOUS
  <2>3. (Even(u1) \/ Even(TA)) <=> (Even(u2) \/ Even(TB))
    <3>1. u1 * TA \in Int /\ u2 * TB \in Int OBVIOUS
    <3>2. Even(u1 * TA) <=> Even(u2 * TB) BY <3>1, EvenSum
    <3>. QED BY <3>2, EvenProduct
  <2>4. Even(w1) /\ Even(w2) BY <1>2, <2>3, EvenSum
  <2>5. Half(w1) \in Int /\ Half(w2) \in Int BY <2>1, <2>4, HalfOfEven
  <2>. HIDE DEF w1, w2
  <2>6. Half(w1) * TA + Half(w2) * TB = Half(t) BY <2>1, <2>2, <2>4, HalvedPair
  <2>. QED BY <1>2, <2>5, <2>6 DEF HalfFirst, HalfSecond, w1, w2
<1>. QED BY <1>1, <1>2

-----------------------------------------------------------------------------
(* Remainders and divisors. *)
LEMMA DivMod ==
  ASSUME NEW v \in Int, NEW n \in Pos
  PROVE  v \div n \in Int /\ v % n \in 0..n - 1 /\ v = n * (v \div n) + (v % n)
  BY DEF Pos

LEMMA ProductGrows ==
  ASSUME NEW n \in Pos, NEW j \in Int, j >= 1
  PROVE  n * j >= n
  BY DEF Pos

LEMMA ProductShrinks ==
  ASSUME NEW n \in Pos, NEW j \in Int, j <= -1
  PROVE  n * j <= -n
  BY DEF Pos

LEMMA SameRemainder ==
  ASSUME NEW n \in Pos, NEW q \in Int, NEW r \in 0..n - 1, NEW p \in Int, NEW s \in 0..n - 1,
         n * q + r = n * p + s
  PROVE  r = s
<1>1. n * (q - p) = s - r BY DEF Pos
<1>2. q - p \in Int /\ s - r < n /\ s - r > -n BY DEF Pos
<1>3. ~(q - p >= 1) BY <1>1, <1>2, ProductGrows DEF Pos
<1>4. ~(q - p <= -1) BY <1>1, <1>2, ProductShrinks DEF Pos
<1>5. q = p BY <1>3, <1>4
<1>. QED BY <1>5 DEF Pos

LEMMA Congruent ==
  ASSUME NEW n \in Pos, NEW v \in Int, NEW w \in Int, NEW k \in Int, v = w + n * k
  PROVE  v % n = w % n
<1>1. v = n * (v \div n) + (v % n) /\ w = n * (w \div n) + (w % n)
      /\ v \div n \in Int /\ w \div n \in Int /\ v % n \in 0..n - 1 /\ w % n \in 0..n - 1
  BY DivMod
<1>. DEFINE q == v \div n p == w \div n r == v % n s == w % n
<1>2. q \in Int /\ p \in Int /\ r \in 0..n - 1 /\ s \in 0..n - 1 /\ v = n * q + r /\ w = n * p + s
  BY <1>1
<1>. HIDE DEF q, p, r, s
<1>3. n * (p + k) = n * p + n * k /\ p + k \in Int BY <1>2 DEF Pos
<1>4. n * q + r = n * (p + k) + s BY <1>2, <1>3 DEF Pos
<1>5. r = s BY <1>2, <1>3, <1>4, SameRemainder
<1>. QED BY <1>5 DEF r, s

LEMMA DividesRemainder ==
  ASSUME NEW d \in Pos, NEW v \in Int
  PROVE  Divides(d, v) <=> v % d = 0
<1>1. ASSUME NEW k \in Int, v = d * k PROVE v % d = 0
  <2>1. v = 0 + d * k BY <1>1 DEF Pos
  <2>2. v % d = 0 % d BY <2>1, Congruent
  <2>3. 0 % d = 0 BY DEF Pos
  <2>. QED BY <2>2, <2>3
<1>2. ASSUME v % d = 0 PROVE Divides(d, v)
  <2>1. v = d * (v \div d) /\ v \div d \in Int BY <1>2, DivMod DEF Pos
  <2>. QED BY <2>1 DEF Divides
<1>. QED BY <1>1, <1>2 DEF Divides

LEMMA DivisorSmaller ==
  ASSUME NEW d \in Pos, NEW v \in Pos, Divides(d, v)
  PROVE  d <= v
<1>1. PICK k \in Int : v = d * k BY DEF Divides
<1>2. k >= 1
  <2>1. \A j \in Int : j <= 0 => d * j <= 0 BY DEF Pos
  <2>. QED BY <1>1, <2>1 DEF Pos
<1>3. d * k >= d BY <1>2, ProductGrows
<1>. QED BY <1>1, <1>3

LEMMA DividesTwice ==
  ASSUME NEW d \in Pos, NEW v \in Int, Even(v), Divides(d, Half(v))
  PROVE  Divides(d, v)
<1>1. Half(v) \in Int /\ v = Half(v) + Half(v) BY HalfOfEven
<1>. QED BY <1>1, DividesSum DEF Pos

(* An odd divisor of an even number divides its half. *)
LEMMA OddDividesHalf ==
  ASSUME NEW d \in Pos, NEW v \in Int, Even(v), ~Even(d), Divides(d, v)
  PROVE  Divides(d, Half(v))
<1>1. PICK k \in Int : v = d * k BY DEF Divides
<1>2. Even(k) BY <1>1, EvenProduct DEF Pos
<1>3. PICK j \in Int : k = 2 * j BY <1>2, HalfOfEven
<1>4. v = 2 * (d * j) /\ d * j \in Int BY <1>1, <1>3 DEF Pos
<1>5. Half(2 * (d * j)) = d * j BY <1>4 DEF Half
<1>. QED BY <1>4, <1>5 DEF Divides

LEMMA DividesAbs ==
  ASSUME NEW d \in Pos, NEW v \in Int
  PROVE  Divides(d, AbsVal(v)) <=> Divides(d, v)
<1>1. \A k \in Int : d * (-k) = -(d * k) BY DEF Pos
<1>2. \A k \in Int : -k \in Int /\ (v = d * k <=> -v = d * (-k)) BY <1>1 DEF Pos
<1>3. Divides(d, -v) <=> Divides(d, v)
  <2>1. ASSUME NEW k \in Int, v = d * k PROVE Divides(d, -v) BY <1>2, <2>1 DEF Divides
  <2>2. ASSUME NEW k \in Int, -v = d * k PROVE Divides(d, v)
    <3>1. v = d * (-k) BY <1>1, <2>2 DEF Pos
    <3>. QED BY <3>1, <1>2 DEF Divides
  <2>. QED BY <2>1, <2>2 DEF Divides
<1>. QED BY <1>3 DEF AbsVal

LEMMA EvenMultiple ==
  ASSUME NEW d \in Pos, NEW v \in Int, Even(d), Divides(d, v)
  PROVE  Even(v)
<1>1. PICK k \in Int : v = d * k BY DEF Divides
<1>2. d \in Int BY DEF Pos
<1>3. Even(d * k) BY <1>2, EvenProduct
<1>. QED BY <1>1, <1>3

LEMMA DividesSelf ==
  ASSUME NEW d \in Pos
  PROVE  Divides(d, d) /\ Divides(d, 0)
<1>1. d = d * 1 /\ 0 = d * 0 BY DEF Pos
<1>. QED BY <1>1 DEF Divides

-----------------------------------------------------------------------------
(* The invariant. *)
Searching == pc \in {"shift", "gcd"}
Inverting == pc \in {"inverse", "reduce"}
Common(d, v, w) == Divides(d, v) /\ Divides(d, w)

Setup == /\ pc # "done" => result = "none"
         /\ Searching \/ Inverting => modulus > 0
         /\ Searching => GB > 0
         /\ pc = "shift" /\ lz = 0 => GA = AbsVal(arg) /\ GB = modulus
         /\ Inverting => TB = modulus /\ TA = arg % modulus /\ TV > 0

(* What mpi_gcd takes away: a common divisor of what is left divides the   *)
(* arguments, and an odd one of the arguments is still there.              *)
GcdUp   == Searching => \A d \in Pos : Common(d, GA, GB) => Common(d, arg, modulus)
GcdTwos == Searching /\ lz > 0 => Even(arg) /\ Even(modulus)
GcdDown == pc = "gcd" /\ lz = 0 => \A d \in Pos : Common(d, arg, modulus) =>
                                      Common(d, GA, GB) /\ (Even(d) => GA = 0)

Coprime  == Inverting => \A d \in Pos : Common(d, arg, modulus) => d = 1
Descends == Inverting => \A d \in Pos : Common(d, TU, TV) => Common(d, TA, TB)
Combination ==
  /\ pc = "inverse" => U1 * TA + U2 * TB = TU /\ V1 * TA + V2 * TB = TV
  /\ pc = "reduce" => TU = 0 /\ \E k \in Int : V1 * TA + k * TB = TV

IInv == /\ TypeOK /\ Setup /\ GcdUp /\ GcdTwos /\ GcdDown
        /\ Coprime /\ Descends /\ Combination /\ InverseRight

LEMMA InitInvariant == Init => IInv
  BY DEF Init, IInv, TypeOK, Setup, GcdUp, GcdTwos, GcdDown, Coprime, Descends, Combination,
         InverseRight, Searching, Inverting

(* The call itself, and the twos that both arguments have. *)
LEMMA CallStep == IInv /\ Call => IInv'
<1>. SUFFICES ASSUME IInv, Call PROVE IInv'
  OBVIOUS
<1>. USE DEF IInv, Call, gcdVars, invVars, Searching, Inverting
<1>1. arg' \in Int /\ modulus' \in Int BY NumbersAssumption
<1>2. TypeOK' BY <1>1 DEF TypeOK, AbsVal
<1>3. Setup' BY <1>1 DEF Setup
<1>4. GcdUp'
  <2>. SUFFICES ASSUME pc' = "shift", NEW d \in Pos, Common(d, GA', GB') PROVE Common(d, arg', modulus')
    BY DEF GcdUp
  <2>1. GA' = AbsVal(arg') /\ GB' = modulus' OBVIOUS
  <2>2. Divides(d, AbsVal(arg')) /\ Divides(d, modulus') BY <2>1 DEF Common
  <2>. QED BY <1>1, <2>2, DividesAbs DEF Common
<1>5. GcdTwos' /\ GcdDown' /\ Coprime' /\ Descends' /\ Combination'
  BY DEF GcdTwos, GcdDown, Coprime, Descends, Combination
<1>6. InverseRight' BY DEF InverseRight, Setup
<1>. QED BY <1>2, <1>3, <1>4, <1>5, <1>6

LEMMA GcdShiftStep == IInv /\ GcdShift => IInv'
<1>. SUFFICES ASSUME IInv, GcdShift PROVE IInv'
  OBVIOUS
<1>. USE DEF IInv, GcdShift, gcdVars, invVars, Searching, Inverting
<1>0. arg \in Int /\ modulus \in Pos /\ GA \in Nat /\ GB \in Pos /\ lz \in Nat
      /\ arg' = arg /\ modulus' = modulus /\ result' = result /\ inverse' = inverse
  BY DEF TypeOK, Setup, Pos
<1>1. CASE GA # 0 /\ Even(GA) /\ Even(GB)
  <2>0. GA' = Half(GA) /\ GB' = Half(GB) /\ lz' = lz + 1 /\ pc' = "shift" BY <1>1
  <2>1. GA' \in Nat /\ GB' \in Pos BY <1>0, <1>1, <2>0 DEF Half, Even, Pos
  <2>2. TypeOK' BY <2>0, <2>1 DEF TypeOK, Pos
  <2>3. Setup' BY <1>0, <2>0, <2>1 DEF Setup, Pos
  <2>4. GcdUp'
    <3>. SUFFICES ASSUME NEW d \in Pos, Common(d, GA', GB') PROVE Common(d, arg', modulus')
      BY DEF GcdUp
    <3>1. Divides(d, GA) /\ Divides(d, GB)
      BY <1>0, <1>1, <2>0, DividesTwice DEF Common, Pos
    <3>. QED BY <3>1, <1>0 DEF GcdUp, Common
  <2>5. GcdTwos'
    <3>1. Divides(2, GA) /\ Divides(2, GB) BY <1>0, <1>1, EvenDivides DEF Pos
    <3>2. Divides(2, arg) /\ Divides(2, modulus) BY <3>1 DEF GcdUp, Common, Pos
    <3>. QED BY <3>2, <1>0, EvenDivides DEF GcdTwos, Pos
  <2>. QED BY <1>0, <2>0, <2>2, <2>3, <2>4, <2>5
           DEF GcdDown, Coprime, Descends, Combination, InverseRight, Setup
<1>2. CASE ~(GA # 0 /\ Even(GA) /\ Even(GB))
  <2>0. pc' = "gcd" /\ GA' = GA /\ GB' = GB /\ lz' = lz BY <1>2
  <2>1. TypeOK' /\ Setup' /\ GcdTwos' BY <1>0, <2>0 DEF TypeOK, Setup, GcdTwos
  <2>2. GcdUp' BY <1>0, <2>0 DEF GcdUp, Common
  <2>3. GcdDown'
    <3>. SUFFICES ASSUME lz = 0, NEW d \in Pos, Common(d, arg, modulus)
                  PROVE  Common(d, GA, GB) /\ (Even(d) => GA = 0)
      BY <1>0, <2>0 DEF GcdDown, Common
    <3>1. GA = AbsVal(arg) /\ GB = modulus BY DEF Setup
    <3>2. Divides(d, GA) /\ Divides(d, GB) BY <1>0, <3>1, DividesAbs DEF Common
    <3>3. ASSUME Even(d) PROVE Even(GA) /\ Even(GB)
      BY <1>0, <3>2, <3>3, EvenMultiple DEF Pos
    <3>. QED BY <1>2, <3>2, <3>3 DEF Common
  <2>. QED BY <1>0, <2>0, <2>1, <2>2, <2>3
           DEF Coprime, Descends, Combination, InverseRight, Setup
<1>. QED BY <1>1, <1>2

LEMMA GcdHalveStep == IInv /\ GcdHalve => IInv'
<1>. SUFFICES ASSUME IInv, GcdHalve PROVE IInv'
  OBVIOUS
<1>. USE DEF IInv, GcdHalve, gcdVars, invVars, Searching, Inverting
<1>0. /\ arg \in Int /\ modulus \in Pos /\ GA \in Nat /\ GB \in Pos /\ lz \in Nat
      /\ arg' = arg /\ modulus' = modulus /\ result' = result /\ inverse' = inverse /\ lz' = lz /\ pc = "gcd" /\ pc' = "gcd"
      /\ GA' = (IF Even(GA) THEN Half(GA) ELSE GA) /\ GB' = (IF Even(GB) THEN Half(GB) ELSE GB)
  BY DEF TypeOK, Setup, Pos
<1>1. GA' \in Nat /\ GB' \in Pos BY <1>0 DEF Half, Even, Pos
<1>2. TypeOK' BY <1>0, <1>1 DEF TypeOK, Pos
<1>3. Setup' BY <1>0, <1>1 DEF Setup, Pos
<1>4. GcdUp'
  <2>. SUFFICES ASSUME NEW d \in Pos, Common(d, GA', GB') PROVE Common(d, arg', modulus')
    BY DEF GcdUp
  <2>1. Divides(d, GA) /\ Divides(d, GB) BY <1>0, DividesTwice DEF Common, Pos
  <2>. QED BY <2>1, <1>0 DEF GcdUp, Common
<1>5. GcdDown'
  <2>. SUFFICES ASSUME lz = 0, NEW d \in Pos, Common(d, arg, modulus)
                PROVE  Common(d, GA', GB') /\ (Even(d) => GA' = 0)
    BY <1>0 DEF GcdDown, Common
  <2>1. Divides(d, GA) /\ Divides(d, GB) /\ ~Even(d) BY <1>0 DEF GcdDown, Common
  <2>. QED BY <1>0, <2>1, OddDividesHalf DEF Common, Pos
<1>. QED BY <1>0, <1>2, <1>3, <1>4, <1>5
         DEF GcdTwos, Coprime, Descends, Combination, InverseRight, Setup

(* Half of a difference of two odd numbers has the divisors the two have.  *)
LEMMA HalfDifference ==
  ASSUME NEW v \in Pos, NEW w \in Pos, ~Even(v), ~Even(w), v >= w
  PROVE  /\ Half(v - w) \in Nat /\ Even(v - w) /\ (v > w => Half(v - w) \in Pos)
         /\ \A d \in Pos : Divides(d, Half(v - w)) /\ Divides(d, w) => Divides(d, v)
         /\ \A d \in Pos : ~Even(d) /\ Divides(d, v) /\ Divides(d, w) => Divides(d, Half(v - w))
<1>1. v \in Int /\ w \in Int /\ v - w \in Int BY DEF Pos
<1>2. Even(v - w) BY <1>1, EvenSum
<1>3. Half(v - w) \in Nat /\ (v > w => Half(v - w) \in Pos) BY <1>1, <1>2 DEF Half, Even, Pos
<1>4. ASSUME NEW d \in Pos, Divides(d, Half(v - w)), Divides(d, w) PROVE Divides(d, v)
  <2>1. Divides(d, v - w) BY <1>1, <1>2, <1>4, DividesTwice
  <2>2. Divides(d, (v - w) + w) BY <1>1, <1>4, <2>1, DividesSum DEF Pos
  <2>3. (v - w) + w = v BY <1>1
  <2>. QED BY <2>2, <2>3
<1>5. ASSUME NEW d \in Pos, ~Even(d), Divides(d, v), Divides(d, w) PROVE Divides(d, Half(v - w))
  <2>1. Divides(d, v - w) BY <1>1, <1>5, DividesSum DEF Pos
  <2>. QED BY <1>1, <1>2, <1>5, <2>1, OddDividesHalf
<1>. QED BY <1>2, <1>3, <1>4, <1>5

LEMMA GcdSubtractStep == IInv /\ GcdSubtract => IInv'
<1>. SUFFICES ASSUME IInv, GcdSubtract PROVE IInv'
  OBVIOUS
<1>. USE DEF IInv, GcdSubtract, gcdVars, invVars, Searching, Inverting
<1>0. /\ arg \in Int /\ modulus \in Pos /\ GA \in Pos /\ GB \in Pos /\ lz \in Nat
      /\ arg' = arg /\ modulus' = modulus /\ result' = result /\ inverse' = inverse /\ lz' = lz /\ pc = "gcd" /\ pc' = "gcd"
      /\ ~Even(GA) /\ ~Even(GB)
  BY DEF TypeOK, Setup, Pos
<1>1. /\ GA' \in Nat /\ GB' \in Pos
      /\ \A d \in Pos : Common(d, GA', GB') => Common(d, GA, GB)
      /\ \A d \in Pos : ~Even(d) /\ Common(d, GA, GB) => Common(d, GA', GB')
  <2>1. CASE GA >= GB
    <3>1. GA' = Half(GA - GB) /\ GB' = GB BY <2>1
    <3>. QED BY <1>0, <2>1, <3>1, HalfDifference DEF Common
  <2>2. CASE ~(GA >= GB)
    <3>1. GB' = Half(GB - GA) /\ GA' = GA /\ GB > GA BY <1>0, <2>2 DEF Pos
    <3>2. GB >= GA BY <1>0, <2>2 DEF Pos
    <3>3. GA \in Nat BY <1>0 DEF Pos
    <3>. QED BY <1>0, <3>1, <3>2, <3>3, HalfDifference DEF Common
  <2>. QED BY <2>1, <2>2
<1>2. TypeOK' BY <1>0, <1>1 DEF TypeOK, Pos
<1>3. Setup' BY <1>0, <1>1 DEF Setup, Pos
<1>4. GcdUp' BY <1>0, <1>1 DEF GcdUp, Common
<1>5. GcdDown'
  <2>. SUFFICES ASSUME lz = 0, NEW d \in Pos, Common(d, arg, modulus)
                PROVE  Common(d, GA', GB') /\ (Even(d) => GA' = 0)
    BY <1>0 DEF GcdDown, Common
  <2>1. Common(d, GA, GB) /\ ~Even(d) BY <1>0 DEF GcdDown, Pos
  <2>. QED BY <1>1, <2>1
<1>. QED BY <1>0, <1>2, <1>3, <1>4, <1>5
         DEF GcdTwos, Coprime, Descends, Combination, InverseRight, Setup

LEMMA GcdDoneStep == IInv /\ GcdDone => IInv'
<1>. SUFFICES ASSUME IInv, GcdDone PROVE IInv'
  OBVIOUS
<1>. USE DEF IInv, GcdDone, gcdVars, invVars, Searching, Inverting
<1>0. /\ arg \in Int /\ modulus \in Pos /\ GA = 0 /\ GB \in Pos /\ lz \in Nat /\ pc = "gcd"
      /\ arg' = arg /\ modulus' = modulus /\ inverse' = inverse /\ lz' = lz /\ GA' = GA /\ GB' = GB /\ result = "none"
  BY DEF TypeOK, Setup, Pos
<1>1. arg = modulus * (arg \div modulus) + (arg % modulus) /\ arg % modulus \in Nat /\ arg \div modulus \in Int
  BY <1>0, DivMod DEF Pos
<1>2. CASE GB = 1 /\ lz = 0
  <2>0. /\ pc' = "inverse" /\ result' = result /\ TA' = arg % modulus /\ TU' = arg % modulus /\ TB' = modulus /\ TV' = modulus
        /\ U1' = 1 /\ U2' = 0 /\ V1' = 0 /\ V2' = 1
    BY <1>2
  <2>1. TypeOK' /\ Setup' BY <1>0, <1>1, <2>0 DEF TypeOK, Setup, Pos
  <2>2. Coprime'
    <3>. SUFFICES ASSUME NEW d \in Pos, Common(d, arg, modulus) PROVE d = 1
      BY <1>0 DEF Coprime, Common
    <3>1. Divides(d, GB) BY <1>0, <1>2 DEF GcdDown, Common
    <3>2. d <= 1 BY <1>0, <1>2, <3>1, DivisorSmaller
    <3>. QED BY <3>2 DEF Pos
  <2>3. Descends' BY <2>0 DEF Descends, Common
  <2>4. Combination' BY <1>0, <1>1, <2>0 DEF Combination, Pos
  <2>. QED BY <1>0, <2>0, <2>1, <2>2, <2>3, <2>4 DEF GcdUp, GcdTwos, GcdDown, InverseRight
<1>3. CASE ~(GB = 1 /\ lz = 0)
  <2>0. pc' = "done" /\ result' = "NOT_ACCEPTABLE" /\ UNCHANGED invVars BY <1>3
  <2>1. TypeOK' /\ Setup' BY <1>0, <2>0 DEF TypeOK, Setup
  <2>2. ASSUME NEW d \in Pos, Common(d, arg, modulus), d >= 2
        PROVE  \E e \in 2..modulus : arg % e = 0 /\ modulus % e = 0
    <3>1. arg % d = 0 /\ modulus % d = 0 BY <1>0, <2>2, DividesRemainder DEF Common, Pos
    <3>2. d <= modulus BY <1>0, <2>2, DivisorSmaller DEF Common
    <3>3. d \in 2..modulus BY <1>0, <2>2, <3>2 DEF Pos
    <3>. QED BY <3>1, <3>3
  <2>3. CASE lz > 0
    <3>1. Common(2, arg, modulus) BY <1>0, <2>3, EvenDivides DEF GcdTwos, Common, Pos
    <3>. QED BY <1>0, <2>0, <2>1, <2>2, <3>1
             DEF GcdUp, GcdTwos, GcdDown, Coprime, Descends, Combination, InverseRight, Pos
  <2>4. CASE ~(lz > 0)
    <3>1. GB >= 2 BY <1>0, <1>3, <2>4 DEF Pos
    <3>2. Common(GB, GA, GB) BY <1>0, DividesSelf DEF Common
    <3>3. Common(GB, arg, modulus) BY <1>0, <3>2 DEF GcdUp
    <3>. QED BY <1>0, <2>0, <2>1, <2>2, <3>1, <3>3
             DEF GcdUp, GcdTwos, GcdDown, Coprime, Descends, Combination, InverseRight
  <2>. QED BY <2>3, <2>4
<1>. QED BY <1>2, <1>3

(* TA and TB are not both even, since nothing but 1 divides A and N.       *)
LEMMA NotBothEven ==
  ASSUME IInv, Inverting
  PROVE  ~(Even(TA) /\ Even(TB))
<1>. SUFFICES ASSUME Even(TA), Even(TB) PROVE FALSE
  OBVIOUS
<1>0. arg \in Int /\ modulus \in Pos /\ TA = arg % modulus /\ TB = modulus BY DEF IInv, TypeOK, Setup, Pos
<1>1. arg = modulus * (arg \div modulus) + TA /\ arg \div modulus \in Int /\ TA \in Int BY <1>0, DivMod DEF Pos
<1>2. Divides(2, TA) /\ Divides(2, modulus) BY <1>0, <1>1, EvenDivides DEF Pos
<1>3. Divides(2, modulus * (arg \div modulus))
  <2>1. modulus \in Int /\ arg \div modulus \in Int /\ 2 \in Int BY <1>0, <1>1 DEF Pos
  <2>. QED BY ONLY <1>2, <2>1, DividesProduct
<1>4. modulus * (arg \div modulus) \in Int BY <1>0, <1>1 DEF Pos
<1>5. Divides(2, arg) BY <1>1, <1>2, <1>3, <1>4, DividesSum
<1>6. 2 \in Pos /\ 2 # 1 BY DEF Pos
<1>. QED BY <1>2, <1>5, <1>6 DEF IInv, Coprime, Common

LEMMA HalveUStep == IInv /\ HalveU => IInv'
<1>. SUFFICES ASSUME IInv, HalveU PROVE IInv'
  OBVIOUS
<1>. USE DEF IInv, HalveU, gcdVars, invVars, Searching, Inverting
<1>0. /\ TA \in Int /\ TB \in Int /\ TU \in Nat /\ TV \in Pos /\ U1 \in Int /\ U2 \in Int
      /\ arg' = arg /\ modulus' = modulus /\ inverse' = inverse /\ result' = result /\ pc' = pc /\ pc = "inverse" /\ Even(TU)
      /\ TA' = TA /\ TB' = TB /\ TV' = TV /\ V1' = V1 /\ V2' = V2 /\ TU' = Half(TU)
      /\ U1' = HalfFirst(U1, U2) /\ U2' = HalfSecond(U1, U2)
  BY DEF TypeOK, Setup, Pos
<1>1. /\ U1' \in Int /\ U2' \in Int
      /\ U1' * TA + U2' * TB = Half(TU)
  <2>1. ~(Even(TA) /\ Even(TB)) BY <1>0, NotBothEven
  <2>2. U1 * TA + U2 * TB = TU BY <1>0 DEF Combination
  <2>3. TU \in Int BY <1>0
  <2>4. /\ HalfFirst(U1, U2) \in Int /\ HalfSecond(U1, U2) \in Int
        /\ HalfFirst(U1, U2) * TA + HalfSecond(U1, U2) * TB = Half(TU)
    BY ONLY <1>0, <2>1, <2>2, <2>3, HalvedCombination
  <2>. QED BY ONLY <1>0, <2>4
<1>2. TU' \in Nat BY <1>0 DEF Half, Even
<1>3. TypeOK' BY <1>0, <1>1, <1>2 DEF TypeOK
<1>4. Combination' BY <1>0, <1>1 DEF Combination
<1>5. Descends'
  <2>. SUFFICES ASSUME NEW d \in Pos, Common(d, TU', TV) PROVE Common(d, TA, TB)
    BY <1>0 DEF Descends, Common
  <2>1. Common(d, TU, TV) BY <1>0, DividesTwice DEF Common
  <2>. QED BY <1>0, <2>1 DEF Descends
<1>. QED BY <1>0, <1>3, <1>4, <1>5
         DEF Setup, GcdUp, GcdTwos, GcdDown, Coprime, InverseRight, Common

LEMMA HalveVStep == IInv /\ HalveV => IInv'
<1>. SUFFICES ASSUME IInv, HalveV PROVE IInv'
  OBVIOUS
<1>. USE DEF IInv, HalveV, gcdVars, invVars, Searching, Inverting
<1>0. /\ TA \in Int /\ TB \in Int /\ TU \in Nat /\ TV \in Pos /\ V1 \in Int /\ V2 \in Int
      /\ arg' = arg /\ modulus' = modulus /\ inverse' = inverse /\ result' = result /\ pc' = pc /\ pc = "inverse" /\ Even(TV)
      /\ TA' = TA /\ TB' = TB /\ TU' = TU /\ U1' = U1 /\ U2' = U2 /\ TV' = Half(TV)
      /\ V1' = HalfFirst(V1, V2) /\ V2' = HalfSecond(V1, V2)
  BY DEF TypeOK, Setup, Pos
<1>1. /\ V1' \in Int /\ V2' \in Int
      /\ V1' * TA + V2' * TB = Half(TV)
  <2>1. ~(Even(TA) /\ Even(TB)) BY <1>0, NotBothEven
  <2>2. V1 * TA + V2 * TB = TV BY <1>0 DEF Combination
  <2>3. TV \in Int BY <1>0 DEF Pos
  <2>4. /\ HalfFirst(V1, V2) \in Int /\ HalfSecond(V1, V2) \in Int
        /\ HalfFirst(V1, V2) * TA + HalfSecond(V1, V2) * TB = Half(TV)
    BY ONLY <1>0, <2>1, <2>2, <2>3, HalvedCombination
  <2>. QED BY ONLY <1>0, <2>4
<1>2. TV' \in Pos BY <1>0 DEF Half, Even, Pos
<1>3. TypeOK' BY <1>0, <1>1, <1>2 DEF TypeOK, Pos
<1>4. Combination' BY <1>0, <1>1 DEF Combination
<1>5. Descends'
  <2>. SUFFICES ASSUME NEW d \in Pos, Common(d, TU, TV') PROVE Common(d, TA, TB)
    BY <1>0 DEF Descends, Common
  <2>1. Common(d, TU, TV) BY <1>0, DividesTwice DEF Common, Pos
  <2>. QED BY <1>0, <2>1 DEF Descends
<1>6. Setup' BY <1>0, <1>2 DEF Setup, Pos
<1>. QED BY <1>0, <1>3, <1>4, <1>5, <1>6
         DEF GcdUp, GcdTwos, GcdDown, Coprime, InverseRight, Common

(* The difference of two combinations is the combination of the differences. *)
LEMMA DifferenceCombination ==
  ASSUME NEW u1 \in Int, NEW u2 \in Int, NEW v1 \in Int, NEW v2 \in Int, TA \in Int, TB \in Int
  PROVE  (u1 - v1) * TA + (u2 - v2) * TB = (u1 * TA + u2 * TB) - (v1 * TA + v2 * TB)
<1>1. (u1 - v1) * TA = u1 * TA - v1 * TA /\ (u2 - v2) * TB = u2 * TB - v2 * TB OBVIOUS
<1>. QED BY <1>1

LEMMA SubtractStep == IInv /\ Subtract => IInv'
<1>. SUFFICES ASSUME IInv, Subtract PROVE IInv'
  OBVIOUS
<1>. USE DEF IInv, Subtract, gcdVars, invVars, Searching, Inverting
<1>0. /\ TA \in Int /\ TB \in Int /\ TU \in Nat /\ TV \in Pos
      /\ U1 \in Int /\ U2 \in Int /\ V1 \in Int /\ V2 \in Int
      /\ arg' = arg /\ modulus' = modulus /\ inverse' = inverse /\ result' = result /\ pc = "inverse" /\ pc' \in {"inverse", "reduce"}
      /\ pc' = (IF TU' = 0 THEN "reduce" ELSE "inverse")
      /\ TA' = TA /\ TB' = TB /\ ~Even(TU) /\ ~Even(TV)
      /\ U1 * TA + U2 * TB = TU /\ V1 * TA + V2 * TB = TV
  BY DEF TypeOK, Setup, Pos, Combination
<1>1. /\ TU' \in Nat /\ TV' \in Pos
      /\ U1' \in Int /\ U2' \in Int /\ V1' \in Int /\ V2' \in Int
      /\ U1' * TA + U2' * TB = TU' /\ V1' * TA + V2' * TB = TV'
      /\ \A d \in Pos : Common(d, TU', TV') => Common(d, TU, TV)
  <2>1. CASE TU >= TV
    <3>1. TU' = TU - TV /\ U1' = U1 - V1 /\ U2' = U2 - V2 /\ TV' = TV /\ V1' = V1 /\ V2' = V2
      BY <2>1
    <3>0. (U1 - V1) * TA + (U2 - V2) * TB = (U1 * TA + U2 * TB) - (V1 * TA + V2 * TB)
      BY ONLY <1>0, DifferenceCombination
    <3>2. U1' * TA + U2' * TB = TU' BY ONLY <1>0, <3>0, <3>1
    <3>3. ASSUME NEW d \in Pos, Divides(d, TU - TV), Divides(d, TV) PROVE Divides(d, TU)
      <4>1. d \in Int /\ TU - TV \in Int /\ TV \in Int /\ (TU - TV) + TV = TU BY <1>0 DEF Pos
      <4>2. Divides(d, (TU - TV) + TV) BY ONLY <3>3, <4>1, DividesSum
      <4>. QED BY <4>1, <4>2
    <3>. QED BY <1>0, <2>1, <3>1, <3>2, <3>3 DEF Common, Pos
  <2>2. CASE ~(TU >= TV)
    <3>1. TV' = TV - TU /\ V1' = V1 - U1 /\ V2' = V2 - U2 /\ TU' = TU /\ U1' = U1 /\ U2' = U2
      BY <2>2
    <3>2. V1' * TA + V2' * TB = TV' BY ONLY <1>0, <3>1, DifferenceCombination
    <3>3. ASSUME NEW d \in Pos, Divides(d, TV - TU), Divides(d, TU) PROVE Divides(d, TV)
      <4>1. d \in Int /\ TV - TU \in Int /\ TU \in Int /\ (TV - TU) + TU = TV BY <1>0 DEF Pos
      <4>2. Divides(d, (TV - TU) + TU) BY ONLY <3>3, <4>1, DividesSum
      <4>. QED BY <4>1, <4>2
    <3>. QED BY <1>0, <2>2, <3>1, <3>2, <3>3 DEF Common, Pos
  <2>. QED BY <2>1, <2>2
<1>2. TypeOK' BY <1>0, <1>1 DEF TypeOK, Pos
<1>3. Setup' BY <1>0, <1>1 DEF Setup, Pos
<1>4. Combination' BY <1>0, <1>1 DEF Combination
<1>5. Descends'
  <2>. SUFFICES ASSUME NEW d \in Pos, Common(d, TU', TV') PROVE Common(d, TA, TB)
    BY <1>0 DEF Descends, Common
  <2>. QED BY <1>0, <1>1 DEF Descends
<1>. QED BY <1>0, <1>2, <1>3, <1>4, <1>5
         DEF GcdUp, GcdTwos, GcdDown, Coprime, InverseRight, Common

(* TB is added to V1 or taken away, and TA from its counterpart.           *)
LEMMA ShiftedCombination ==
  ASSUME NEW v \in Int, NEW k \in Int, TA \in Int, TB \in Int
  PROVE  /\ (v + TB) * TA + (k - TA) * TB = v * TA + k * TB
         /\ (v - TB) * TA + (k + TA) * TB = v * TA + k * TB
  OBVIOUS

LEMMA ReduceStep == IInv /\ ReduceOnce => IInv'
<1>. SUFFICES ASSUME IInv, ReduceOnce PROVE IInv'
  OBVIOUS
<1>. USE DEF IInv, ReduceOnce, gcdVars, invVars, Searching, Inverting
<1>0. /\ TA \in Int /\ TB \in Int /\ TB = modulus /\ V1 \in Int /\ pc = "reduce" /\ pc' = "reduce"
      /\ arg' = arg /\ modulus' = modulus /\ inverse' = inverse /\ result' = result /\ TA' = TA /\ TB' = TB /\ TU' = TU /\ TV' = TV
      /\ TU = 0 /\ V1' = (IF V1 < 0 THEN V1 + modulus ELSE V1 - modulus)
  BY DEF TypeOK, Setup, Combination
<1>1. PICK k \in Int : V1 * TA + k * TB = TV BY <1>0 DEF Combination
<1>2. \E j \in Int : V1' * TA + j * TB = TV
  <2>1. CASE V1 < 0
    <3>1. (V1 + TB) * TA + (k - TA) * TB = TV BY ONLY <1>0, <1>1, ShiftedCombination
    <3>2. V1' = V1 + TB /\ k - TA \in Int BY <1>0, <2>1
    <3>. QED BY ONLY <3>1, <3>2
  <2>2. CASE ~(V1 < 0)
    <3>1. (V1 - TB) * TA + (k + TA) * TB = TV BY ONLY <1>0, <1>1, ShiftedCombination
    <3>2. V1' = V1 - TB /\ k + TA \in Int BY <1>0, <2>2
    <3>. QED BY ONLY <3>1, <3>2
  <2>. QED BY <2>1, <2>2
<1>3. TypeOK' /\ Setup' BY <1>0 DEF TypeOK, Setup
<1>4. Combination' BY <1>0, <1>2 DEF Combination
<1>. QED BY <1>0, <1>3, <1>4
         DEF GcdUp, GcdTwos, GcdDown, Coprime, Descends, InverseRight, Common

(* The loop is over: TV divides TU = 0 and itself, so it is 1.             *)
LEMMA LastDivisor ==
  ASSUME IInv, pc = "reduce"
  PROVE  TV = 1
<1>. USE DEF IInv, Inverting
<1>0. arg \in Int /\ modulus \in Pos /\ TV \in Pos /\ TU = 0 /\ TA = arg % modulus /\ TB = modulus
  BY DEF TypeOK, Setup, Combination, Pos
<1>1. Common(TV, TU, TV) BY <1>0, DividesSelf DEF Common
<1>2. Divides(TV, TA) /\ Divides(TV, modulus) BY <1>0, <1>1 DEF Descends, Common
<1>3. arg = modulus * (arg \div modulus) + TA /\ arg \div modulus \in Int /\ TA \in Int /\ TV \in Int /\ modulus \in Int
  BY <1>0, DivMod DEF Pos
<1>4. Divides(TV, modulus * (arg \div modulus)) BY ONLY <1>2, <1>3, DividesProduct
<1>5. modulus * (arg \div modulus) \in Int BY <1>3
<1>6. Divides(TV, modulus * (arg \div modulus) + TA) BY ONLY <1>2, <1>3, <1>4, <1>5, DividesSum
<1>7. Divides(TV, arg) BY ONLY <1>3, <1>6
<1>. QED BY <1>0, <1>2, <1>7 DEF Coprime, Common

LEMMA ReturnStep == IInv /\ Return => IInv'
<1>. SUFFICES ASSUME IInv, Return PROVE IInv'
  OBVIOUS
<1>1. TV = 1 BY LastDivisor DEF Return
<1>. USE DEF IInv, Return, gcdVars, invVars, Searching, Inverting
<1>0. /\ arg \in Int /\ modulus \in Pos /\ TA \in Int /\ TB = modulus /\ TA = arg % modulus /\ V1 \in 0..modulus - 1
      /\ V1 \in Int /\ pc' = "done" /\ inverse' = V1 /\ arg' = arg /\ modulus' = modulus /\ result' = "0"
  BY DEF TypeOK, Setup, Pos
<1>2. PICK k \in Int : V1 * TA + k * modulus = 1 BY <1>0, <1>1 DEF Combination
<1>3. PICK q \in Int : arg = modulus * q + TA BY <1>0, DivMod
<1>4. V1 * arg = 1 + modulus * (V1 * q - k)
  <2>1. modulus \in Int BY <1>0 DEF Pos
  <2>2. V1 * (modulus * q + TA) = modulus * (V1 * q) + V1 * TA BY ONLY <1>0, <1>3, <2>1
  <2>3. modulus * (V1 * q - k) = modulus * (V1 * q) - k * modulus BY ONLY <1>0, <1>2, <1>3, <2>1
  <2>4. V1 * arg = modulus * (V1 * q) + (1 - k * modulus) BY ONLY <1>0, <1>2, <1>3, <2>1, <2>2
  <2>. QED BY ONLY <1>0, <1>2, <1>3, <2>1, <2>3, <2>4
<1>5. (V1 * arg) % modulus = 1 % modulus
  <2>1. V1 * arg \in Int /\ V1 * q - k \in Int /\ 1 \in Int BY <1>0
  <2>. QED BY ONLY <1>0, <1>4, <2>1, Congruent
<1>6. TypeOK' /\ Setup' BY <1>0 DEF TypeOK, Setup
<1>7. InverseRight' BY <1>0, <1>5 DEF InverseRight
<1>. QED BY <1>0, <1>6, <1>7 DEF GcdUp, GcdTwos, GcdDown, Coprime, Descends, Combination

LEMMA StutterStep == IInv /\ UNCHANGED vars => IInv'
  BY DEF IInv, vars, gcdVars, invVars, TypeOK, Setup, GcdUp, GcdTwos, GcdDown, Coprime, Descends,
         Combination, InverseRight, Searching, Inverting, Common

-----------------------------------------------------------------------------
(* The invariant holds at every turn of mpi_gcd and mpi_inv_mod, for every *)
(* set of numbers and moduli.                                              *)
THEOREM Invariant == Spec => []IInv
<1>1. IInv /\ [Next]_vars => IInv'
  BY CallStep, GcdShiftStep, GcdHalveStep, GcdSubtractStep, GcdDoneStep, HalveUStep, HalveVStep,
     SubtractStep, ReduceStep, ReturnStep, StutterStep DEF Next
<1>. QED BY InitInvariant, <1>1, PTL DEF Spec

(* mpi_inv_mod is right: what it returns is the inverse, reduced, and what *)
(* it refuses has a divisor in common with the modulus.                    *)
THEOREM InverseIsRight == Spec => []InverseRight
<1>1. IInv => InverseRight BY DEF IInv
<1>. QED BY Invariant, <1>1, PTL
=============================================================================
