------------------------------- MODULE Bignum -------------------------------
(***************************************************************************)
(* Multiple precision integers (polarssl/src/bignum.c).                    *)
(*                                                                         *)
(* An mpi is a sign and an array of limbs, least significant first.  The   *)
(* array never shrinks by itself: it can hold zeros above the number       *)
(* ("spare" limbs), a zero can carry the sign -1, and an mpi that was only *)
(* initialised has no limb at all.  Every function must take every one of  *)
(* these representations, and any of its arguments may be the same object. *)
(*                                                                         *)
(* The functions that write through pointers that may be equal are         *)
(* operators on the register file m, a function from names to mpis, and    *)
(* take names: x = a says that the pointers X and A are equal.  "_B" is    *)
(* the mpi on the stack that wraps a machine integer.  A limb has biL bits *)
(* and ciL chars of biC bits (64, 8 and 8 in the build for Linux).         *)
(***************************************************************************)
EXTENDS Integers, Sequences, FiniteSetsExt, Loops

CONSTANTS biL, biC    \* biL is a multiple of biC and even

ciL  == biL \div biC
biH  == biL \div 2
Base == 2^biL
Abs(z) == IF z < 0 THEN -z ELSE z
Sign(z) == IF z < 0 THEN -1 ELSE 1
CeilDiv(a, b) == (a + b - 1) \div b

(* the number an mpi stands for; it is what the properties are about *)
Magnitude(p) ==
  LET low[k \in 0..Len(p)] == IF k = 0 THEN 0 ELSE p[k] * Base^(k - 1) + low[k - 1]
  IN  low[Len(p)]
Value(X) == X.s * Magnitude(X.p)
IsMpi(X) == X.s \in {-1, 1} /\ \A k \in DOMAIN X.p : X.p[k] \in 0..Base - 1

Limb(p, k) == IF k \in DOMAIN p THEN p[k] ELSE 0
Used(X)    == Max({0} \cup {k \in DOMAIN X.p : X.p[k] # 0})
Resized(p, n) == [k \in 1..n |-> Limb(p, k)]
BITS_TO_LIMBS(i)  == CeilDiv(i, biL)
CHARS_TO_LIMBS(i) == CeilDiv(i, ciL)

-----------------------------------------------------------------------------
(* Size and copies. *)
mpi_init       == [s |-> 1, p |-> <<>>]
mpi_free(X)    == mpi_init
mpi_grow(X, n) == [X EXCEPT !.p = Resized(@, Max({Len(@), n}))]
mpi_shrink(X, n) ==
  IF Len(X.p) <= n THEN mpi_grow(X, n)
  ELSE [X EXCEPT !.p = Resized(@, Max({1, n, Used(X)}))]
mpi_copy(X, Y) ==
  IF Y.p = <<>> THEN mpi_free(X)
  ELSE [s |-> Y.s, p |-> Resized(SubSeq(Y.p, 1, Max({1, Used(Y)})),
                                 Max({1, Len(X.p), Used(Y)}))]
mpi_lset(X, z) == [s |-> Sign(z), p |-> Resized(<<Abs(z)>>, Max({1, Len(X.p)}))]

(* X = Y where assign is set; X keeps its own limbs otherwise, and grows.  *)
mpi_safe_cond_assign(X, Y, assign) ==
  LET G == mpi_grow(X, Len(Y.p))
  IN  IF assign THEN [s |-> Y.s, p |-> Resized(Y.p, Len(G.p))] ELSE G
mpi_swap(m, x, y) == [m EXCEPT ![x] = m[y], ![y] = m[x]]
mpi_safe_cond_swap(m, x, y, swap) ==
  LET n == Max({Len(m[x].p), Len(m[y].p)})
      X == mpi_grow(m[x], n)
      Y == mpi_grow(m[y], n)
  IN  IF x = y THEN m
      ELSE [m EXCEPT ![x] = IF swap THEN Y ELSE X, ![y] = IF swap THEN X ELSE Y]

-----------------------------------------------------------------------------
(* Bits. *)
mpi_get_bit(X, pos) == (Limb(X.p, (pos \div biL) + 1) \div 2^(pos % biL)) % 2
mpi_set_bit(X, pos, val) ==
  LET off == (pos \div biL) + 1
      old == mpi_get_bit(X, pos)
  IN  IF off > Len(X.p) /\ val = 0 THEN X
      ELSE [mpi_grow(X, off) EXCEPT !.p[off] = @ + (val - old) * 2^(pos % biL)]
SetBits(X)  == {pos \in 0..Len(X.p) * biL - 1 : mpi_get_bit(X, pos) = 1}
mpi_lsb(X)  == IF SetBits(X) = {} THEN 0 ELSE CHOOSE i \in SetBits(X) : \A j \in SetBits(X) : i <= j
mpi_msb(X)  == Max({0} \cup {pos + 1 : pos \in SetBits(X)})
mpi_size(X) == CeilDiv(mpi_msb(X), biC)

(* By whole limbs first, then by bits with what falls out of the limb below *)
(* (above); the array grows by what the highest bit needs.                 *)
mpi_shift_l(X, count) ==
  LET v0 == count \div biL
      t1 == count % biL
      n  == Max({Len(X.p), BITS_TO_LIMBS(mpi_msb(X) + count)})
  IN  [X EXCEPT !.p = [k \in 1..n |-> ((Limb(X.p, k - v0) * 2^t1) % Base)
                                      + (Limb(X.p, k - v0 - 1) \div 2^(biL - t1))]]
mpi_shift_r(X, count) ==
  LET v0 == count \div biL
      v1 == count % biL
      n  == Len(X.p)
  IN  IF v0 > n \/ (v0 = n /\ v1 > 0) THEN mpi_lset(X, 0)
      ELSE [X EXCEPT !.p = [k \in 1..n |-> (Limb(X.p, k + v0) \div 2^v1)
                                           + ((Limb(X.p, k + v0 + 1) * 2^(biL - v1)) % Base)]]

-----------------------------------------------------------------------------
(* Comparisons: by the number of used limbs, then limb by limb from the top. *)
mpi_cmp_abs(X, Y) ==
  LET differ == {k \in 1..Used(X) : X.p[k] # Limb(Y.p, k)}
  IN  CASE Used(X) > Used(Y) -> 1
        [] Used(X) < Used(Y) -> -1
        [] OTHER -> IF differ = {} THEN 0
                    ELSE IF X.p[Max(differ)] > Y.p[Max(differ)] THEN 1 ELSE -1
mpi_cmp_mpi(X, Y) ==
  CASE Used(X) = 0 /\ Used(Y) = 0 -> 0
    [] Used(X) > Used(Y)          -> X.s
    [] Used(X) < Used(Y)          -> -Y.s
    [] OTHER -> IF X.s # Y.s THEN X.s ELSE X.s * mpi_cmp_abs(X, Y)
Wrapped(z) == [s |-> Sign(z), p |-> <<Abs(z)>>]
mpi_cmp_int(X, z) == mpi_cmp_mpi(X, Wrapped(z))

-----------------------------------------------------------------------------
(* Sums and differences of limb arrays, with the carry (borrow) that goes  *)
(* into limb k.  The last carry is given a new limb.                       *)
WithCarry(limb, carry, n) == [k \in 1..n + carry[n + 1] |-> IF k > n THEN 1 ELSE limb[k]]
AddLimbs(p, B) ==
  LET n == Max({Len(p), Used(B)})
      carry[k \in 1..n + 1] ==
        IF k = 1 THEN 0 ELSE (Limb(p, k - 1) + Limb(B.p, k - 1) + carry[k - 1]) \div Base
  IN  WithCarry([k \in 1..n |-> (Limb(p, k) + Limb(B.p, k) + carry[k]) % Base], carry, n)

(* X, A and B all the same object: *o is the limb the carry was just added *)
(* to, so that "*p < *o" compares a limb with itself.                      *)
DoubleLimbs(p) ==
  LET carry[k \in 1..Len(p) + 1] ==
        IF k = 1 THEN 0 ELSE (p[k - 1] + carry[k - 1]) \div Base
  IN  WithCarry([k \in DOMAIN p |-> (2 * (p[k] + carry[k])) % Base], carry, Len(p))

mpi_sub_hlp(p, q) ==
  LET borrow[k \in 1..Len(p)] ==
        IF k > 1 /\ p[k - 1] < Limb(q, k - 1) + borrow[k - 1] THEN 1 ELSE 0
  IN  [k \in DOMAIN p |-> (p[k] - Limb(q, k) - borrow[k]) % Base]

mpi_add_abs(m, x, a, b) ==
  LET dst == CASE x = b -> m[b] [] x # b /\ x = a -> m[a] [] OTHER -> mpi_copy(m[x], m[a])
      src == IF x = b THEN m[a] ELSE m[b]
  IN  [m EXCEPT ![x] = [s |-> 1, p |-> IF x = a /\ x = b THEN DoubleLimbs(dst.p)
                                       ELSE AddLimbs(dst.p, src)]]

(* Variant: B is not copied first. *)
mpi_sub_absInPlace(m, x, a, b) ==
  LET dst == IF x = a THEN m[a] ELSE mpi_copy(m[x], m[a])
  IN  [m EXCEPT ![x] = [s |-> 1, p |-> mpi_sub_hlp(dst.p, IF x = b THEN dst.p ELSE m[b].p)]]

(* |A| >= |B|; B is copied to TB first when it is also the destination.    *)
mpi_sub_abs(m, x, a, b) ==
  LET dst == IF x = a THEN m[a] ELSE mpi_copy(m[x], m[a])
  IN  [m EXCEPT ![x] = [s |-> 1, p |-> mpi_sub_hlp(dst.p, m[b].p)]]

(* The sign of A is taken before X, which may be A, is written.            *)
AddSigned(m, x, a, b, differ) ==
  LET s == m[a].s
      signed(mm, t) == [mm EXCEPT ![x].s = t]
  IN  IF ~differ THEN signed(mpi_add_abs(m, x, a, b), s)
      ELSE IF mpi_cmp_abs(m[a], m[b]) >= 0 THEN signed(mpi_sub_abs(m, x, a, b), s)
      ELSE signed(mpi_sub_abs(m, x, b, a), -s)
mpi_add_mpi(m, x, a, b) == AddSigned(m, x, a, b, m[a].s * m[b].s < 0)
mpi_sub_mpi(m, x, a, b) == AddSigned(m, x, a, b, m[a].s * m[b].s > 0)
mpi_add_int(m, x, a, z) == mpi_add_mpi([m EXCEPT !["_B"] = Wrapped(z)], x, a, "_B")
mpi_sub_int(m, x, a, z) == mpi_sub_mpi([m EXCEPT !["_B"] = Wrapped(z)], x, a, "_B")

-----------------------------------------------------------------------------
(* One limb of a row: the low limb of this stays, the high one is the      *)
(* carry.  It is at most Base^2 - 1, so the two adcq never carry out.      *)
MULADDC_CORE(s, b, c, d) == s * b + c + d

(* d[off + 1 ..] += s * b, and the carry to the end of d.                  *)
mpi_mul_hlp(d, off, s, b) ==
  LET sum(k, c) == MULADDC_CORE(Limb(s, k - off), b, c, d[k])
      carry[k \in off + 1..Len(d)] == IF k = off + 1 THEN 0 ELSE sum(k - 1, carry[k - 1]) \div Base
  IN  [k \in DOMAIN d |-> IF k <= off THEN d[k] ELSE sum(k, carry[k]) % Base]

(* The schoolbook product, from the top limb of B down.  A and B are read  *)
(* from copies when they are also the destination.                         *)
mpi_mul_mpi(m, x, a, b) ==
  LET A == m[a]
      B == m[b]
      s == SubSeq(A.p, 1, Used(A))
      row[j \in 0..Used(B)] ==
        IF j = Used(B) THEN mpi_lset(mpi_grow(m[x], Used(A) + Used(B)), 0).p
        ELSE mpi_mul_hlp(row[j + 1], j, s, B.p[j + 1])
  IN  [m EXCEPT ![x] = [s |-> A.s * B.s, p |-> row[0]]]
Unsigned(z) == [s |-> 1, p |-> <<z % Base>>]
mpi_mul_int(m, x, a, z) == mpi_mul_mpi([m EXCEPT !["_B"] = Unsigned(z)], x, a, "_B")
-----------------------------------------------------------------------------
(* Division (HAC 14.20).  Both numbers are shifted so that the top limb of *)
(* Y has biL - 1 bits; every digit of the quotient is estimated from the   *)
(* top limbs, lowered until it agrees with the top three limbs of X, and   *)
(* lowered once more when X would become negative.  X and Y are the        *)
(* magnitudes, read limb by limb with Digit.                               *)
Digit(v, i)    == (v \div Base^i) % Base
LimbsOf(v, n)  == [k \in 1..n |-> Digit(v, k - 1)]
TrialDigit(X, i, Y, t) ==
  LET est  == IF Digit(X, i) >= Digit(Y, t) THEN Base - 1
              ELSE (Digit(X, i) * Base + Digit(X, i - 1)) \div Digit(Y, t)
      top2 == Digit(Y, t) * Base + (IF t < 1 THEN 0 ELSE Digit(Y, t - 1))
      top3 == (Digit(X, i) * Base + Digit(X, i - 1)) * Base
              + (IF i < 2 THEN 0 ELSE Digit(X, i - 2))
  IN  Max({d \in 0..Min({est, Base - 1}) : d * top2 <= top3})
QuotientDigit(X, i, Y, t) ==
  LET q == TrialDigit(X, i, Y, t)
  IN  IF X < q * Y * Base^(i - t - 1) THEN q - 1 ELSE q
Divided(A, B) ==
  LET k   == biL - 1 - (mpi_msb(B) % biL)
      X0  == Magnitude(A.p) * 2^k
      Y   == Magnitude(B.p) * 2^k
      n   == BITS_TO_LIMBS(mpi_msb(A) + k) - 1
      t   == BITS_TO_LIMBS(mpi_msb(B) + k) - 1
      top == X0 \div (Y * Base^(n - t))
      X[i \in t..n] ==
        IF i = n THEN X0 - top * Y * Base^(n - t)
        ELSE X[i + 1] - QuotientDigit(X[i + 1], i + 1, Y, t) * Y * Base^(i - t)
  IN  [z |-> [s |-> 1, p |-> [j \in 1..Len(A.p) + 2 |->
                 CASE j - 1 < n - t -> QuotientDigit(X[j + t], j + t, Y, t)
                   [] j - 1 = n - t -> top [] OTHER -> 0]],
       x |-> LimbsOf(X[t] \div 2^k, n + 1)]

(* A = Q * B + R, with NULL for a result nobody wants.  Q is written first, *)
(* and the signs of A and B are read after that: a caller that passes Q    *)
(* for one of them loses its sign.                                         *)
PutQuotient(m, q, a, b, z) ==
  LET signed(put) == [put EXCEPT ![q].s = put[a].s * put[b].s]
  IN  IF q = "NULL" THEN m ELSE signed([m EXCEPT ![q] = mpi_copy(@, z)])
PutRemainder(m, r, a, x) ==
  LET rest(R) == IF Used(R) = 0 THEN [R EXCEPT !.s = 1] ELSE R
  IN  IF r = "NULL" THEN m ELSE [m EXCEPT ![r] = rest(mpi_copy(@, [s |-> m[a].s, p |-> x]))]
mpi_div_mpi(m, q, r, a, b) ==
  LET zero == IF q = "NULL" THEN m ELSE [m EXCEPT ![q] = mpi_lset(@, 0)]
      put(D) == PutRemainder(PutQuotient(m, q, a, b, D.z), r, a, D.x)
  IN  IF mpi_cmp_abs(m[a], m[b]) >= 0 THEN put(Divided(m[a], m[b]))
      ELSE IF r \in {"NULL", a} THEN zero ELSE [zero EXCEPT ![r] = mpi_copy(@, zero[a])]
mpi_div_int(m, q, r, a, z) == mpi_div_mpi([m EXCEPT !["_B"] = Wrapped(z)], q, r, a, "_B")

(* 0 <= R < B, for a positive B that is not R.  The remainder is smaller   *)
(* than B in magnitude, so that each loop of the code runs at most once.   *)
NotNegative(m, r, b) == IF mpi_cmp_int(m[r], 0) < 0 THEN mpi_add_mpi(m, r, r, b) ELSE m
NotAbove(m, r, b) == IF mpi_cmp_mpi(m[r], m[b]) >= 0 THEN mpi_sub_mpi(m, r, r, b) ELSE m
mpi_mod_mpi(m, r, a, b) == NotAbove(NotNegative(mpi_div_mpi(m, "NULL", r, a, b), r, b), r, b)

(* The remainder of a division by a machine integer, half a limb at a      *)
(* time; the shifted remainder must fit a limb, so b <= 2^biH.             *)
mpi_mod_int(A, b) ==
  LET half(y, h) == (((y * 2^biH) % Base) + h) % b
      y[i \in 1..Len(A.p) + 1] ==
        IF i = Len(A.p) + 1 THEN 0
        ELSE half(half(y[i + 1], A.p[i] \div 2^biH), A.p[i] % 2^biH)
  IN  CASE b = 1 -> 0
        [] b = 2 -> A.p[1] % 2
        [] OTHER -> IF A.s < 0 /\ y[1] # 0 THEN b - y[1] ELSE y[1]

-----------------------------------------------------------------------------
(* Chars, most significant first. *)
mpi_read_binary(X, buf) ==
  LET zeros == Max({0} \cup {n \in 1..Len(buf) : \A i \in 1..n : buf[i] = 0})
      clean == mpi_lset(mpi_grow(X, CHARS_TO_LIMBS(Len(buf) - zeros)), 0)
      char(j) == IF j < Len(buf) THEN buf[Len(buf) - j] ELSE 0
      limb[k \in 1..Len(clean.p), c \in 0..ciL] ==
        IF c = ciL THEN 0 ELSE char((k - 1) * ciL + c) * 2^(c * biC) + limb[k, c + 1]
  IN  [clean EXCEPT !.p = [k \in DOMAIN @ |-> limb[k, 0]]]
CharAt(X, j) == (Limb(X.p, (j \div ciL) + 1) \div 2^((j % ciL) * biC)) % 2^biC
mpi_write_binary(X, buflen) ==
  IF buflen < mpi_size(X) THEN [ret |-> "BUFFER_TOO_SMALL", buf |-> <<>>]
  ELSE [ret |-> "0", buf |-> [i \in 1..buflen |->
          IF buflen - i < mpi_size(X) THEN CharAt(X, buflen - i) ELSE 0]]

(* Strings: a digit is its value, the sign is Minus, and every other       *)
(* character is a number that is no digit.  In the radix whose digit is    *)
(* half a char (16) the digits are packed and unpacked; the other radices  *)
(* multiply and divide, with the register "T".                             *)
PackRadix == 2^(biC \div 2)
Minus     == 254
mpi_get_digit(radix, c) == IF c < radix THEN "0" ELSE "INVALID_CHARACTER"
Packed(X, s) ==
  LET neg    == Len(s) > 0 /\ s[1] = Minus
      first  == IF neg THEN 2 ELSE 1
      perLimb == 2 * ciL
      bad    == {i \in first..Len(s) : mpi_get_digit(PackRadix, s[i]) # "0"}
      from   == IF bad = {} THEN first ELSE Max(bad) + 1
      clean  == mpi_lset(mpi_grow(X, BITS_TO_LIMBS(Len(s) * (biC \div 2))), 0)
      limb[k \in DOMAIN clean.p, j \in 0..perLimb] ==
        LET i == Len(s) - ((k - 1) * perLimb + j)
        IN  IF j = perLimb \/ i < from THEN 0 ELSE s[i] * PackRadix^j + limb[k, j + 1]
  IN  [ret |-> IF bad = {} THEN "0" ELSE "INVALID_CHARACTER",
       x   |-> [s |-> IF neg /\ bad = {} THEN -1 ELSE 1, p |-> [k \in DOMAIN clean.p |-> limb[k, 0]]]]
mpi_read_string(m, x, radix, s) ==
  LET P == Packed(m[x], s)
      added(st, T, c) == [st EXCEPT !.m = IF st.m[x].s = 1 THEN mpi_add_int(T, x, "T", c)
                                                           ELSE mpi_sub_int(T, x, "T", c)]
      char(st, i) ==
        CASE st.ret # "0" -> st
          [] i = 1 /\ s[1] = Minus -> [st EXCEPT !.m[x].s = -1]
          [] OTHER -> IF mpi_get_digit(radix, s[i]) # "0" THEN [st EXCEPT !.ret = "INVALID_CHARACTER"]
                      ELSE added(st, mpi_mul_int(st.m, "T", x, radix), s[i])
  IN  IF radix = PackRadix THEN [m |-> [m EXCEPT ![x] = P.x], ret |-> P.ret]
      ELSE For(1, Len(s), [m |-> [m EXCEPT ![x] = mpi_lset(@, 0)], ret |-> "0"], char)

RECURSIVE mpi_write_hlp(_, _)
mpi_write_hlp(m, radix) ==
  LET above(rest) == IF mpi_cmp_int(rest["T"], 0) # 0 THEN mpi_write_hlp(rest, radix) ELSE <<>>
  IN  Append(above(mpi_div_int(m, "T", "NULL", "T", radix)), mpi_mod_int(m["T"], radix))
mpi_write_string(m, x, radix) ==
  LET sign  == IF m[x].s = -1 THEN <<Minus>> ELSE <<>>
      chars == Max({0} \cup {j + 1 : j \in {j \in 0..Len(m[x].p) * ciL - 1 : CharAt(m[x], j) # 0}})
      packed == [i \in 1..2 * chars |->
                   LET c == CharAt(m[x], chars - ((i + 1) \div 2))
                   IN  IF i % 2 = 1 THEN c \div PackRadix ELSE c % PackRadix]
      T     == [mpi_copy(mpi_init, m[x]) EXCEPT !.s = 1]
  IN  sign \o (IF radix = PackRadix THEN packed ELSE mpi_write_hlp([m EXCEPT !["T"] = T], radix))

(***************************************************************************)
(* A caller of the mpi functions: it loads the registers with numbers in   *)
(* every representation, makes one call with any of the registers for any  *)
(* of the arguments, and starts again.  "was" is what the registers held   *)
(* when the call was made, "call" the call and what it returned.           *)
(*                                                                         *)
(* The guards are the preconditions of the functions: msb reads limb n - 1, *)
(* so that it needs a limb; R of a modulo is not its B (the loop that      *)
(* subtracts B from itself never ends).                                    *)
(***************************************************************************)

CONSTANTS Magnitudes,   \* the absolute values that are loaded
          Spares,       \* how many zero limbs lie above them
          Ints          \* the machine integers that are passed

VARIABLES reg, was, call
mpiVars == <<reg, was, call>>

Regs     == {"x", "y", "z", "T", "_B"}
Args     == {"x", "y"}
Operands  == {mpi_init} \cup
            {[s |-> s, p |-> LimbsOf(v, CeilDiv(mpi_msb([s |-> 1, p |-> LimbsOf(v, 4)]), biL) + n)] :
               s \in {-1, 1}, v \in Magnitudes, n \in Spares}
Idle     == [r \in Regs |-> mpi_init]
NoCall   == [fn |-> "none"]

MpiInit == reg = Idle /\ was = Idle /\ call = NoCall

Loads == {[r \in Regs |-> CASE r = "x" -> X [] r = "y" -> Y [] r = "z" -> Z [] OTHER -> mpi_init] :
            X \in Operands, Y \in Operands, Z \in {mpi_init, [s |-> -1, p |-> <<1, 2, 3>>]}}
Called(c, m, after) == was' = m /\ reg' = after /\ call' = c
NoneMade == call = NoCall
HasLimb(X) == X.p # <<>>
NonZero(X) == Used(X) > 0

Binary(fn, x, a, b) == [fn |-> fn, x |-> x, a |-> a, b |-> b]
AddAbs == NoneMade /\ \E m \in Loads, x \in {"x", "y", "z"}, a, b \in Args :
            Called(Binary("add_abs", x, a, b), m, mpi_add_abs(m, x, a, b))
SubAbs == NoneMade /\ \E m \in Loads, x \in {"x", "y", "z"}, a, b \in Args :
            /\ mpi_cmp_abs(m[a], m[b]) >= 0
            /\ Called(Binary("sub_abs", x, a, b), m, mpi_sub_abs(m, x, a, b))
AddMpi == NoneMade /\ \E m \in Loads, x \in {"x", "y", "z"}, a, b \in Args :
            Called(Binary("add_mpi", x, a, b), m, mpi_add_mpi(m, x, a, b))
SubMpi == NoneMade /\ \E m \in Loads, x \in {"x", "y", "z"}, a, b \in Args :
            Called(Binary("sub_mpi", x, a, b), m, mpi_sub_mpi(m, x, a, b))
MulMpi == NoneMade /\ \E m \in Loads, x \in {"x", "y", "z"}, a, b \in Args :
            Called(Binary("mul_mpi", x, a, b), m, mpi_mul_mpi(m, x, a, b))
DivMpi == NoneMade /\ \E m \in Loads, q \in {"x", "z", "NULL"}, r \in {"x", "y", "NULL"}, a, b \in Args :
            /\ q # r /\ HasLimb(m[a]) /\ NonZero(m[b])
            /\ Called([fn |-> "div_mpi", q |-> q, r |-> r, a |-> a, b |-> b], m,
                      mpi_div_mpi(m, q, r, a, b))
ModMpi == NoneMade /\ \E m \in Loads, r \in {"x", "z"}, a, b \in Args :
            /\ r # b /\ HasLimb(m[a]) /\ NonZero(m[b]) /\ m[b].s > 0
            /\ Called(Binary("mod_mpi", r, a, b), m, mpi_mod_mpi(m, r, a, b))
Compare == NoneMade /\ \E m \in Loads :
            Called([fn |-> "cmp", abs |-> mpi_cmp_abs(m["x"], m["y"]),
                    mpi |-> mpi_cmp_mpi(m["x"], m["y"])], m, m)

(* One register, loaded once: X and the machine integer z. *)
MaxBits == 30     \* numbers the properties can compute with
Single == {[Idle EXCEPT !["x"] = X] : X \in Operands}
Unary(fn, x, z) == [fn |-> fn, x |-> x, z |-> z]
WithInt == NoneMade /\ \E m \in Single, x \in {"x", "z"}, z \in Ints :
  \/ Called(Unary("add_int", x, z), m, mpi_add_int(m, x, "x", z))
  \/ Called(Unary("sub_int", x, z), m, mpi_sub_int(m, x, "x", z))
  \/ z >= 0 /\ Called(Unary("mul_int", x, z), m, mpi_mul_int(m, x, "x", z))
  \/ Called(Unary("lset", "x", z), m, [m EXCEPT !["x"] = mpi_lset(@, z)])
  \/ Called([fn |-> "cmp_int", z |-> z, ret |-> mpi_cmp_int(m["x"], z)], m, m)
  \/ /\ HasLimb(m["x"]) /\ z \in 1..2^biH
     /\ Called([fn |-> "mod_int", z |-> z, ret |-> mpi_mod_int(m["x"], z)], m, m)
Shift == NoneMade /\ \E m \in Single, count \in 0..2 * biL + 1 :
  /\ HasLimb(m["x"]) /\ mpi_msb(m["x"]) + count <= MaxBits
  /\ \/ Called(Unary("shift_l", "x", count), m, [m EXCEPT !["x"] = mpi_shift_l(@, count)])
     \/ Called(Unary("shift_r", "x", count), m, [m EXCEPT !["x"] = mpi_shift_r(@, count)])
Bits == NoneMade /\ \E m \in Single, pos \in 0..3 * biL, val \in {0, 1} :
  \/ Called([fn |-> "set_bit", pos |-> pos, val |-> val], m,
            [m EXCEPT !["x"] = mpi_set_bit(@, pos, val)])
  \/ Called([fn |-> "lsb", ret |-> mpi_lsb(m["x"])], m, m)
Copies == NoneMade /\ \E m \in Loads, n \in 0..3, now \in BOOLEAN :
  \/ Called([fn |-> "shrink", x |-> "y", z |-> "y"], m, [m EXCEPT !["y"] = mpi_shrink(@, n)])
  \/ Called([fn |-> "assign", now |-> now], m,
            [m EXCEPT !["x"] = mpi_safe_cond_assign(@, m["y"], now)])
  \/ Called([fn |-> "swap", now |-> now], m, mpi_safe_cond_swap(m, "x", "y", now))
  \/ now /\ Called([fn |-> "swap", now |-> TRUE], m, mpi_swap(m, "x", "y"))

(* What was written is read back into the other register, whatever it held. *)
ThroughChars == NoneMade /\ \E m \in Loads, n \in 0..3 * ciL :
  /\ HasLimb(m["x"]) /\ mpi_write_binary(m["x"], n).ret = "0"
  /\ Called([fn |-> "chars"], m,
            [m EXCEPT !["y"] = mpi_read_binary(@, mpi_write_binary(m["x"], n).buf)])
ThroughString == NoneMade /\ \E m \in Loads, radix \in {PackRadix, 3} :
  /\ HasLimb(m["x"])
  /\ \E back \in {mpi_read_string(m, "y", radix, mpi_write_string(m, "x", radix))} :
       Called([fn |-> "string", ret |-> back.ret], m, back.m)

Freed == ~NoneMade /\ call' = NoCall /\ reg' = Idle /\ was' = Idle

MpiNext == \/ AddAbs \/ SubAbs \/ AddMpi \/ SubMpi \/ MulMpi \/ DivMpi \/ ModMpi
           \/ Compare \/ WithInt \/ Shift \/ Bits \/ Copies \/ ThroughChars \/ ThroughString
           \/ Freed

-----------------------------------------------------------------------------
(* What bignum.h promises of a call, on integers. *)
Old(r) == Value(was[r])
New(r) == Value(reg[r])
Compared(v, w) == IF v > w THEN 1 ELSE IF v < w THEN -1 ELSE 0
SameObject == call.x = call.a /\ call.x = call.b

(* A Q that is A or B has lost its sign when the signs of the results are  *)
(* set, and a zero Q has overwritten A.                                    *)
QuotientOverlaps == call.q \in {call.a, call.b} /\ (Old(call.a) < 0 \/ Old(call.b) < 0 \/ call.r # "NULL")
DivisionKept ==
  LET A == Abs(Old(call.a)) B == Abs(Old(call.b))
  IN  /\ call.q # "NULL" => New(call.q) = Sign(Old(call.a)) * Sign(Old(call.b)) * (A \div B)
      /\ call.r # "NULL" => New(call.r) = Sign(Old(call.a)) * (A % B)

Promise ==
  CASE call.fn = "add_abs" -> ~SameObject => New(call.x) = Abs(Old(call.a)) + Abs(Old(call.b))
    [] call.fn = "sub_abs" -> New(call.x) = Abs(Old(call.a)) - Abs(Old(call.b))
    [] call.fn = "add_mpi" -> ~SameObject => New(call.x) = Old(call.a) + Old(call.b)
    [] call.fn = "sub_mpi" -> New(call.x) = Old(call.a) - Old(call.b)
    [] call.fn = "mul_mpi" -> New(call.x) = Old(call.a) * Old(call.b)
    [] call.fn = "div_mpi" -> ~QuotientOverlaps => DivisionKept
    [] call.fn = "mod_mpi" -> New(call.x) = Old(call.a) % Old(call.b)
    [] call.fn = "cmp"     -> /\ call.mpi = Compared(Old("x"), Old("y"))
                              /\ call.abs = Compared(Abs(Old("x")), Abs(Old("y")))
    [] call.fn = "add_int" -> New(call.x) = Old("x") + call.z
    [] call.fn = "sub_int" -> New(call.x) = Old("x") - call.z
    [] call.fn = "mul_int" -> New(call.x) = Old("x") * call.z
    [] call.fn = "lset"    -> New("x") = call.z
    [] call.fn = "cmp_int" -> call.ret = Compared(Old("x"), call.z)
    [] call.fn = "mod_int" -> call.ret = Old("x") % call.z
    [] call.fn = "shift_l" -> New("x") = Old("x") * 2^call.z
    [] call.fn = "shift_r" -> New("x") = Sign(Old("x")) * (Abs(Old("x")) \div 2^call.z)
    [] call.fn = "set_bit" -> /\ mpi_get_bit(reg["x"], call.pos) = call.val
                              /\ \A pos \in 0..4 * biL : pos # call.pos =>
                                   mpi_get_bit(reg["x"], pos) = mpi_get_bit(was["x"], pos)
    [] call.fn = "lsb"     -> Old("x") # 0 => (Old("x") % 2^(call.ret + 1)) = 2^call.ret
    [] call.fn = "shrink"  -> New("y") = Old("y")
    [] call.fn = "assign"  -> New("x") = IF call.now THEN Old("y") ELSE Old("x")
    [] call.fn = "swap"    -> /\ New("x") = IF call.now THEN Old("y") ELSE Old("x")
                              /\ New("y") = IF call.now THEN Old("x") ELSE Old("y")
    [] call.fn = "chars"   -> New("y") = Abs(Old("x"))
    [] call.fn = "string"  -> call.ret = "0" /\ New("y") = Old("x")
    [] OTHER -> TRUE
Written == CASE "x" \in DOMAIN call -> {call.x}
             [] call.fn = "div_mpi" -> {call.q, call.r}
             [] call.fn \in {"set_bit", "assign"} -> {"x"}
             [] call.fn = "swap" -> {"x", "y"}
             [] call.fn \in {"chars", "string"} -> {"y"}
             [] OTHER -> {}

(* Every call gives the number its documentation promises, for every       *)
(* representation of the operands (spare limbs, negative zeros, a target   *)
(* with old limbs) and for every two arguments that are the same object,   *)
(* except a sum of one object into itself (mpi_add_abs) and a quotient     *)
(* written over its operands (mpi_div_mpi).  A call writes its result and  *)
(* nothing else, and what it writes is a number again: no borrow or carry  *)
(* is left over.                                                           *)
OperandsKept == /\ \A r \in {"x", "y", "z"} \ Written : reg[r] = was[r]
                /\ \A r \in Regs : IsMpi(reg[r])
CallsExact == Promise /\ OperandsKept
=============================================================================
