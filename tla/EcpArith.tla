------------------------------ MODULE EcpArith ------------------------------
(***************************************************************************)
(* Elliptic curve points (polarssl/src/ecp.c): the Jacobian formulas and   *)
(* the comb of the Weierstrass curves, the ladder of the Montgomery curves. *)
(*                                                                         *)
(* Coordinates are numbers; every product and sum is brought back to       *)
(* 0 .. P-1 (MOD_MUL, MOD_ADD, MOD_SUB; how that is done limb by limb is   *)
(* in EcpReduce).  An mpi that was freed or never set is Unset; a Z that   *)
(* is Unset compares equal to 0, and means 1 in the second argument of a   *)
(* mixed addition.  A group is a record with the fields of ecp_group; A is *)
(* Unset for -3, and G.Y for a Montgomery curve.                           *)
(***************************************************************************)
EXTENDS Integers, Sequences, FiniteSetsExt, TLC, Loops

CONSTANT WINDOW_SIZE      \* POLARSSL_ECP_WINDOW_SIZE

Unset == -1
BitLen(v) == Cardinality({k \in 0..30 : 2^k <= v})
Bit(v, i) == (v \div 2^i) % 2
Pow(b, e, p) ==
  LET pow[k \in 0..e] == IF k = 0 THEN 1
                         ELSE LET h == pow[k \div 2]
                                  hh == (h * h) % p
                              IN  IF k % 2 = 1 THEN (hh * b) % p ELSE hh
  IN  pow[e]

(* mpi_inv_mod for a prime P: only 0 has no inverse (module ModInverse).   *)
mpi_inv_mod(v, P) == Pow(v % P, P - 2, P)

ecp_get_type(grp) == CASE grp.GX = Unset -> "none" [] grp.GY = Unset -> "montgomery"
                       [] OTHER -> "short_weierstrass"
ecp_point_init == [X |-> Unset, Y |-> Unset, Z |-> Unset]
ecp_set_zero   == [X |-> 1, Y |-> 1, Z |-> 0]
IsZero(z)      == z \in {0, Unset}
ecp_is_zero(P) == IsZero(P.Z)
Generator(grp) == [X |-> grp.GX, Y |-> grp.GY, Z |-> 1]

-----------------------------------------------------------------------------
(* Jacobian coordinates: (X / Z^2, Y / Z^3).                               *)
ScaledJac(grp, P, zi) ==
  LET zzi == (zi * zi) % grp.P
  IN  [X |-> (P.X * zzi) % grp.P, Y |-> (((P.Y * zzi) % grp.P) * zi) % grp.P, Z |-> 1]
ecp_normalize_jac(grp, P) == IF IsZero(P.Z) THEN P ELSE ScaledJac(grp, P, mpi_inv_mod(P.Z, grp.P))

(* One inversion for the points of T at the indices in "order" (a          *)
(* sequence): c[i] is the product of the first Zs and u[i] its inverse.    *)
(* The Zs are freed; a single point keeps its Z.                           *)
ecp_normalize_jac_many(grp, T, order) ==
  LET t == Len(order)
      c[i \in 1..t] == IF i = 1 THEN T[order[1]].Z ELSE (c[i - 1] * T[order[i]].Z) % grp.P
      u[i \in 1..t] == IF i = t THEN mpi_inv_mod(c[t], grp.P) ELSE (u[i + 1] * T[order[i + 1]].Z) % grp.P
      zi(i) == IF i = 1 THEN u[1] ELSE (u[i] * c[i - 1]) % grp.P
      at(k) == CHOOSE i \in 1..t : order[i] = k
      touched == {order[i] : i \in 1..t}
  IN  IF t < 2 THEN [ret |-> "0", T |-> [T EXCEPT ![order[1]] = ecp_normalize_jac(grp, @)]]
      ELSE IF c[t] = 0 THEN [ret |-> "NOT_ACCEPTABLE", T |-> T]
      ELSE [ret |-> "0", T |-> [k \in DOMAIN T |->
              IF k \in touched THEN [ScaledJac(grp, T[k], zi(at(k))) EXCEPT !.Z = Unset] ELSE T[k]]]

ecp_safe_invert_jac(grp, Q, inv) == [Q EXCEPT !.Y = IF inv /\ @ # 0 THEN grp.P - @ ELSE @]

ecp_double_jac(grp, P) ==
  LET M(v) == v % grp.P
      XX   == M(P.X * P.X)
      YY   == M(P.Y * P.Y)
      YYYY == M(YY * YY)
      ZZ   == M(P.Z * P.Z)
      S    == M(2 * M(M(M((P.X + YY) * M(P.X + YY)) - YYYY) - XX))
      aZ4  == IF grp.A = Unset THEN M(-3 * M(ZZ * ZZ)) ELSE M(M(ZZ * ZZ) * grp.A)
      D    == M(M(3 * XX) + aZ4)
      X3   == M(M(M(D * D) - S) - S)
  IN  [X |-> X3,
       Y |-> M(M(D * M(S - X3)) - M(8 * YYYY)),
       Z |-> M(M(M(M(P.Y + P.Z) * M(P.Y + P.Z)) - YY) - ZZ)]

(* P + Q for an affine Q, with the cases in which the formula fails.       *)
ecp_add_mixed(grp, P, Q) ==
  LET M(v) == v % grp.P
      ZZ == M(P.Z * P.Z)
      H  == M(M(ZZ * Q.X) - P.X)
      R  == M(M(M(ZZ * P.Z) * Q.Y) - P.Y)
      HH == M(H * H)
      HHH == M(HH * H)
      V  == M(HH * P.X)
      X3 == M(M(M(R * R) - M(2 * V)) - HHH)
      sum == [X |-> X3, Y |-> M(M(M(V - X3) * R) - M(HHH * P.Y)), Z |-> M(P.Z * H)]
  IN  CASE IsZero(P.Z) -> [ret |-> "0", R |-> Q]
        [] ~IsZero(P.Z) /\ Q.Z = 0 -> [ret |-> "0", R |-> P]
        [] ~IsZero(P.Z) /\ Q.Z \notin {0, 1, Unset} -> [ret |-> "BAD_INPUT_DATA", R |-> ecp_point_init]
        [] OTHER -> [ret |-> "0", R |-> IF H # 0 THEN sum
                                        ELSE IF R = 0 THEN ecp_double_jac(grp, P) ELSE ecp_set_zero]

ecp_add(grp, P, Q) ==
  IF ecp_get_type(grp) # "short_weierstrass"
  THEN [ret |-> "FEATURE_UNAVAILABLE", R |-> ecp_point_init]
  ELSE LET sum == ecp_add_mixed(grp, P, Q)
       IN  IF sum.ret # "0" THEN sum ELSE [sum EXCEPT !.R = ecp_normalize_jac(grp, @)]
ecp_opp(grp, P) == [P EXCEPT !.Y = IF @ # 0 THEN grp.P - @ ELSE @]
ecp_sub(grp, P, Q) == ecp_add(grp, P, ecp_opp(grp, Q))

Below(l, P) == l \div 2^(Min({k \in 0..30 : l \div 2^k < P}))
(* Variant: 0 and 1 blind, too. *)
BlindingAny(rng, P) == Below(rng[1], P)
(* What the generator gave, halved until it is below P; at most eleven     *)
(* times, for 0 and 1 do not hide anything.  rng[i] is its i-th answer.    *)
Blinding(rng, P) ==
  LET good == {i \in 1..Len(rng) : Below(rng[i], P) > 1}
  IN  IF good = {} \/ Min(good) > 11 THEN Unset ELSE Below(rng[Min(good)], P)
ecp_randomize_jac(grp, P, l) ==
  LET ll == (l * l) % grp.P
  IN  [X |-> (P.X * ll) % grp.P, Y |-> (P.Y * ((ll * l) % grp.P)) % grp.P, Z |-> (P.Z * l) % grp.P]

-----------------------------------------------------------------------------
(* The comb.  A digit is the set of its teeth and a sign.  The digits of   *)
(* the classical comb are made odd from the second one up: an even digit   *)
(* takes the teeth of the one before it, which becomes negative.  c holds  *)
(* the teeth that carry into the next digit.                               *)
XorSet(S, T) == (S \ T) \cup (T \ S)
ecp_comb_fixed(m, d, w) ==
  LET tooth(i) == IF i = d THEN {} ELSE {j \in 0..w - 1 : Bit(m, i + d * j) = 1}
      x[i \in 0..d] ==
        IF i = 0 THEN [s |-> tooth(0), c |-> {}, adjust |-> FALSE]
        ELSE LET prev == x[i - 1]
                 here == XorSet(tooth(i), prev.c)
                 even == 0 \notin here
             IN  [s |-> IF even THEN XorSet(here, prev.s) ELSE here,
                  c |-> (tooth(i) \cap prev.c) \cup (IF even THEN here \cap prev.s ELSE {}),
                  adjust |-> even]
  IN  [i \in 0..d |-> [teeth |-> x[i].s, neg |-> i < d /\ x[i + 1].adjust]]

(* T[k] = P plus the multiples 2^(d j) P for the bits j - 1 of k.          *)
Doubled(grp, P, d) ==
  LET D[i \in 0..d] == IF i = 0 THEN P ELSE ecp_double_jac(grp, D[i - 1]) IN D[d]
ecp_precompute_comb(grp, P, w, d) ==
  LET size  == 2^(w - 1)
      power[l \in 0..w - 1] == IF l = 0 THEN P ELSE Doubled(grp, power[l - 1], d)
      bare  == [k \in 0..size - 1 |->
                  IF \E l \in 1..w - 1 : 2^(l - 1) = k
                  THEN power[CHOOSE l \in 1..w - 1 : 2^(l - 1) = k]
                  ELSE IF k = 0 THEN P ELSE ecp_point_init]
      first == ecp_normalize_jac_many(grp, bare, [l \in 1..w - 1 |-> 2^(l - 1)])
      top(k) == 2^(BitLen(k) - 1)
      sums[k \in 0..size - 1] ==
        IF k = 0 THEN P ELSE ecp_add_mixed(grp, sums[k - top(k)], first.T[top(k)]).R
      order == [i \in 1..size - 1 |-> 3 * top(i) - 1 - i]   \* from T[2i-1] down to T[i]
  IN  IF first.ret # "0" THEN first ELSE ecp_normalize_jac_many(grp, sums, order)

ecp_select_comb(grp, T, digit) ==
  LET ii == SumSet({2^(j - 1) : j \in digit.teeth \ {0}})
  IN  ecp_safe_invert_jac(grp, [T[ii] EXCEPT !.Z = Unset], digit.neg)
ecp_mul_comb_core(grp, T, x, d, l) ==
  LET top == [ecp_select_comb(grp, T, x[d]) EXCEPT !.Z = 1]
      R[i \in 0..d] ==
        IF i = d THEN IF l = Unset THEN top ELSE ecp_randomize_jac(grp, top, l)
        ELSE ecp_add_mixed(grp, ecp_double_jac(grp, R[i + 1]), ecp_select_comb(grp, T, x[i])).R
  IN  R[0]

NoTable == <<>>
IsGenerator(grp, P) == P.X = grp.GX /\ P.Y = grp.GY
Teeth(grp, P) ==
  LET w == Min({WINDOW_SIZE, (IF grp.nbits >= 384 THEN 5 ELSE 4) + (IF IsGenerator(grp, P) THEN 1 ELSE 0)})
  IN  IF w >= grp.nbits THEN 2 ELSE w
CeilOf(a, b) == (a + b - 1) \div b

(* m * P = -((N - m) * P), and one of m and N - m is odd.  The table of    *)
(* the generator is kept with the group, in T.                             *)
ecp_mul_comb(grp, T, m, P, rng) ==
  LET w   == Teeth(grp, P)
      d   == CeilOf(grp.nbits, w)
      odd == m % 2 = 1
      product(table, l) ==
        LET core == ecp_mul_comb_core(grp, table, ecp_comb_fixed(IF odd THEN m ELSE grp.N - m, d, w), d, l)
        IN  ecp_normalize_jac(grp, ecp_safe_invert_jac(grp, core, ~odd))
      with(made, l) ==
        LET kept == IF IsGenerator(grp, P) /\ made.ret = "0" THEN made.T ELSE T
            failed(r) == [ret |-> r, R |-> ecp_point_init, T |-> kept]
        IN  CASE made.ret # "0" -> failed(made.ret)
              [] made.ret = "0" /\ rng # <<>> /\ l = Unset -> failed("RANDOM_FAILED")
              [] OTHER -> [ret |-> "0", T |-> kept, R |-> product(made.T, l)]
  IN  with(IF IsGenerator(grp, P) /\ T # NoTable THEN [ret |-> "0", T |-> T]
           ELSE ecp_precompute_comb(grp, P, w, d),
           IF rng = <<>> THEN Unset ELSE Blinding(rng, grp.P))

-----------------------------------------------------------------------------
(* Montgomery curves: x = X / Z only, and grp.A is (A + 2) / 4.  A fast    *)
(* reduction refuses what is longer than 2 * pbits; only d, which is not   *)
(* reduced, can make a product that long.                                  *)
ecp_double_add_mxz(grp, P, Q, d) ==
  LET M(v) == v % grp.P
      A  == M(P.X + P.Z)
      AA == M(A * A)
      B  == M(P.X - P.Z)
      BB == M(B * B)
      E  == M(AA - BB)
      DA == M(M(Q.X - Q.Z) * A)
      CB == M(M(Q.X + Q.Z) * B)
      sz == M(M(DA - CB) * M(DA - CB))
  IN  [ok |-> BitLen(d * sz) <= 2 * grp.pbits,
       R  |-> [X |-> M(AA * BB), Y |-> P.Y, Z |-> M(E * M(BB + M(grp.A * E)))],
       S  |-> [X |-> M(M(DA + CB) * M(DA + CB)), Y |-> Q.Y, Z |-> M(d * sz)]]

(* R and RP differ by P all along; the swaps put the one that is to be     *)
(* doubled first.  A result with Z = 0 cannot be normalised.               *)
SwappedStep(grp, d, o, swap) ==
  LET merged(s) == [ok |-> o.ok /\ s.ok, R |-> IF swap THEN s.S ELSE s.R, S |-> IF swap THEN s.R ELSE s.S]
  IN  merged(ecp_double_add_mxz(grp, IF swap THEN o.S ELSE o.R, IF swap THEN o.R ELSE o.S, d))
ecp_mul_mxz(grp, m, P, rng) ==
  LET n == BitLen(m)
      ladder(l) ==
        For(1, n, [ok |-> TRUE, R |-> [X |-> 1, Y |-> Unset, Z |-> 0],
                   S |-> [X |-> ((P.X % grp.P) * l) % grp.P, Y |-> P.Y, Z |-> l]],
            LAMBDA o, i : SwappedStep(grp, P.X, o, Bit(m, n - i) = 1))
      finished(end) ==
        IF grp.modp /\ ~end.ok THEN [ret |-> "BAD_INPUT_DATA", R |-> ecp_point_init]
        ELSE IF end.R.Z = 0 THEN [ret |-> "NOT_ACCEPTABLE", R |-> end.R]
        ELSE [ret |-> "0", R |-> [X |-> (end.R.X * mpi_inv_mod(end.R.Z, grp.P)) % grp.P,
                                  Y |-> Unset, Z |-> 1]]
      blinded(l) == IF l = Unset THEN [ret |-> "RANDOM_FAILED", R |-> ecp_point_init]
                    ELSE finished(ladder(l))
  IN  blinded(IF rng = <<>> THEN 1 ELSE Blinding(rng, grp.P))

-----------------------------------------------------------------------------
(* Keys and the product itself. *)
ecp_check_pubkey_sw(grp, P) ==
  LET M(v) == v % grp.P
      a  == IF grp.A = Unset THEN -3 ELSE grp.A
  IN  /\ P.X \in 0..grp.P - 1 /\ P.Y \in 0..grp.P - 1
      /\ M(P.Y * P.Y) = M(M(M(M(P.X * P.X) + a) * P.X) + grp.B)
ecp_check_pubkey_mx(grp, P) == CeilOf(BitLen(P.X), 8) <= CeilOf(grp.nbits, 8)
ecp_check_pubkey(grp, P) ==
  /\ P.Z = 1
  /\ CASE ecp_get_type(grp) = "montgomery"        -> ecp_check_pubkey_mx(grp, P)
       [] ecp_get_type(grp) = "short_weierstrass" -> ecp_check_pubkey_sw(grp, P)
       [] OTHER -> FALSE
ecp_check_privkey(grp, d) ==
  CASE ecp_get_type(grp) = "montgomery"        -> d % 8 = 0 /\ BitLen(d) - 1 = grp.nbits
    [] ecp_get_type(grp) = "short_weierstrass" -> d \in 1..grp.N - 1
    [] OTHER -> FALSE

ecp_mul(grp, T, m, P, rng) ==
  LET refused(r) == [ret |-> r, R |-> ecp_point_init, T |-> T]
  IN  CASE P.Z # 1 \/ ecp_get_type(grp) = "none" -> refused("BAD_INPUT_DATA")
        [] P.Z = 1 /\ ~(ecp_check_privkey(grp, m) /\ ecp_check_pubkey(grp, P)) -> refused("INVALID_KEY")
        [] ecp_get_type(grp) = "montgomery" -> ecp_mul_mxz(grp, m, P, rng) @@ [T |-> T]
        [] OTHER -> ecp_mul_comb(grp, T, m, P, rng)

(* The private key of what the generator gave (sban/src/util.c, and the    *)
(* same in ecp.c): its top nbits, and at most thirty tries, on a           *)
(* Weierstrass curve; nbits + 1 bits that end in 000 on a Montgomery one,  *)
(* where mpi_msb(d) - 1 of a zero is the largest size_t.                   *)
ecp_gen_privkey(grp, rng) ==
  LET n_size == CeilOf(grp.nbits, 8)
      tries  == [i \in 1..Len(rng) |-> rng[i] \div 2^(8 * n_size - grp.nbits)]
      stop   == Min({31} \cup {i \in 1..Len(rng) : rng[i] = Unset \/ tries[i] \in 1..grp.N - 1})
      b      == IF rng[1] = 0 THEN 2^30 ELSE BitLen(rng[1]) - 1
      top    == IF b > grp.nbits THEN IF b = 2^30 THEN 0 ELSE rng[1] \div 2^(b - grp.nbits)
                ELSE rng[1] + (1 - Bit(rng[1], grp.nbits)) * 2^grp.nbits
      got(r, d) == [ret |-> r, d |-> d]
  IN  CASE ecp_get_type(grp) = "montgomery" ->
             IF rng[1] = Unset THEN got("RNG_FAILED", 0) ELSE got("0", top - (top % 8))
        [] ecp_get_type(grp) = "short_weierstrass" ->
             CASE stop > 30 -> got("RANDOM_FAILED", 0)
               [] stop <= 30 /\ rng[stop] = Unset -> got("RNG_FAILED", 0)
               [] OTHER -> got("0", tries[stop])
        [] OTHER -> got("BAD_INPUT_DATA", 0)
ecp_gen_keypair(grp, T, rng, blind) ==
  LET with(key) ==
        IF key.ret # "0" THEN [ret |-> key.ret, d |-> 0, R |-> ecp_point_init, T |-> T]
        ELSE ecp_mul(grp, T, key.d, Generator(grp), blind) @@ [d |-> key.d]
  IN  with(ecp_gen_privkey(grp, rng))

-----------------------------------------------------------------------------
(* Points as chars (SEC1): the tag, then the coordinates, plen chars each. *)
(* A coordinate is one value of the buffer and plen is its length.         *)
plen(grp) == CeilOf(BitLen(grp.P), 8)
ecp_point_write_binary(grp, P, format, buflen) ==
  LET bytes == CASE P.Z = 0 -> 1 [] P.Z # 0 /\ format = "uncompressed" -> 2 * plen(grp) + 1
                 [] OTHER -> plen(grp) + 1
      body  == CASE P.Z = 0 -> <<0>> [] P.Z # 0 /\ format = "uncompressed" -> <<4, P.X, P.Y>>
                 [] OTHER -> <<2 + (P.Y % 2), P.X>>
  IN  CASE buflen < bytes -> [ret |-> "BUFFER_TOO_SMALL", olen |-> 0, buf |-> <<>>]
        [] OTHER -> [ret |-> "0", olen |-> bytes, buf |-> body]
ecp_point_read_binary(grp, buf, ilen) ==
  CASE buf[1] = 0 -> IF ilen = 1 THEN [ret |-> "0", P |-> ecp_set_zero]
                     ELSE [ret |-> "BAD_INPUT_DATA", P |-> ecp_point_init]
    [] buf[1] # 0 /\ buf[1] # 4 -> [ret |-> "FEATURE_UNAVAILABLE", P |-> ecp_point_init]
    [] buf[1] = 4 /\ ilen # 2 * plen(grp) + 1 -> [ret |-> "BAD_INPUT_DATA", P |-> ecp_point_init]
    [] OTHER -> [ret |-> "0", P |-> [X |-> buf[2], Y |-> buf[3], Z |-> 1]]

(* The TLS records put the length in front, in one char. *)
ecp_tls_write_point(grp, P, format, blen) ==
  LET inner == ecp_point_write_binary(grp, P, format, blen - 1)
  IN  CASE blen < 1 -> [ret |-> "BAD_INPUT_DATA", olen |-> 0, buf |-> <<>>]
        [] blen >= 1 /\ inner.ret # "0" -> inner
        [] OTHER -> [ret |-> "0", olen |-> inner.olen + 1, buf |-> <<inner.olen % 256>> \o inner.buf]
ecp_tls_read_point(grp, buf, buf_len) ==
  IF buf_len < 2 \/ buf[1] < 1 \/ buf[1] > buf_len - 1
  THEN [ret |-> "BAD_INPUT_DATA", P |-> ecp_point_init]
  ELSE ecp_point_read_binary(grp, Tail(buf), buf[1])

-----------------------------------------------------------------------------
(* The group of a curve, out of its domain parameters (ecp_curves.c).      *)
NoGroup == [GX |-> Unset, GY |-> Unset, A |-> Unset, P |-> Unset, B |-> Unset, N |-> Unset,
            nbits |-> 0, pbits |-> 0, h |-> 0, modp |-> FALSE]
ecp_group_load(c) ==
  [GX |-> c.GX, GY |-> c.GY, A |-> c.A, P |-> c.P, B |-> c.B, N |-> c.N,
   pbits |-> BitLen(c.P), nbits |-> BitLen(c.N), h |-> 1, modp |-> c.modp]
ecp_use_curve25519(c) ==
  [GX |-> c.GX, GY |-> Unset, A |-> c.A, P |-> c.P, B |-> Unset, N |-> Unset,
   pbits |-> BitLen(c.P), nbits |-> c.nbits, h |-> 0, modp |-> TRUE]

(***************************************************************************)
(* A user of the points: one group object, which it loads, uses and frees, *)
(* and calls of the functions of ecp.h with any of the points below.       *)
(***************************************************************************)

CONSTANTS Curves,      \* the domain parameters, by identifier
          Scalars,     \* what points are multiplied by
          Multiples,   \* the points that are used, as multiples of G
          Rngs         \* what the generator answers, call by call; <<>> is no generator

VARIABLES id, group, table, op
ecpVars == <<id, group, table, op>>
NoOp == [fn |-> "none"]
EcpInit == id = "none" /\ group = NoGroup /\ table = NoTable /\ op = NoOp

IsMontgomery(c) == c.GY = Unset

-----------------------------------------------------------------------------
(* Curves by their equations: the reference of the properties.  A point is *)
(* a pair, Zero the point at infinity; chord and tangent.                  *)
Zero == <<Unset, Unset>>
a3(c) == IF c.A = Unset THEN -3 ELSE c.A
Quotient(n, d, p) == ((n % p) * mpi_inv_mod(d, p)) % p
Third(l, P, Q, c, shift) ==
  LET x == ((l * l) - shift - P[1] - Q[1]) % c.P
  IN  <<x, (l * ((P[1] - x) % c.P) - P[2]) % c.P>>
Plus(P, Q, c) ==
  CASE P = Zero -> Q
    [] P # Zero /\ Q = Zero -> P
    [] P # Zero /\ Q # Zero /\ P[1] = Q[1] /\ (P[2] + Q[2]) % c.P = 0 -> Zero
    [] OTHER -> Third(IF P = Q THEN Quotient(3 * ((P[1] * P[1]) % c.P) + a3(c), 2 * P[2], c.P)
                               ELSE Quotient(Q[2] - P[2], Q[1] - P[1], c.P), P, Q, c, 0)
Times(m, P, c) ==
  LET mult[k \in 0..m] ==
        IF k = 0 THEN Zero
        ELSE LET h == mult[k \div 2] IN IF k % 2 = 1 THEN Plus(Plus(h, h, c), P, c) ELSE Plus(h, h, c)
  IN  mult[m]
Negated(P, c) == IF P = Zero THEN Zero ELSE <<P[1], (-P[2]) % c.P>>

(* The point that coordinates stand for. *)
Affine(P, c) ==
  IF P.Z = 0 THEN Zero
  ELSE LET zi == mpi_inv_mod(P.Z, c.P) zz == (zi * zi) % c.P
       IN  <<(P.X * zz) % c.P, (P.Y * ((zz * zi) % c.P)) % c.P>>
Coords(P) == IF P = Zero THEN ecp_set_zero ELSE [X |-> P[1], Y |-> P[2], Z |-> 1]

(* x of the multiples of (x, 1) on the Montgomery curve t y^2 = x^3 +      *)
(* (4 A - 2) x^2 + x that has this point.                                  *)
PlusMx(P, Q, t, A, p) ==
  LET l == IF P = Q THEN Quotient(3 * ((P[1] * P[1]) % p) + 2 * ((A * P[1]) % p) + 1, 2 * ((t * P[2]) % p), p)
           ELSE Quotient(Q[2] - P[2], Q[1] - P[1], p)
      x == (((t * l) % p) * l - A - P[1] - Q[1]) % p
  IN  CASE P = Zero -> Q
        [] P # Zero /\ Q = Zero -> P
        [] P # Zero /\ Q # Zero /\ P[1] = Q[1] /\ (P[2] + Q[2]) % p = 0 -> Zero
        [] OTHER -> <<x, (l * ((P[1] - x) % p) - P[2]) % p>>
TimesMx(m, x, c) ==
  LET A == (4 * c.A - 2) % c.P
      t == (((x * x) % c.P) * x + ((A * x) % c.P) * x + x) % c.P
      P == IF t = 0 THEN <<x, 0>> ELSE <<x, 1>>
      mult[k \in 0..m] ==
        IF k = 0 THEN Zero
        ELSE LET h == mult[k \div 2]
                 hh == PlusMx(h, h, t, A, c.P)
             IN  IF k % 2 = 1 THEN PlusMx(hh, P, t, A, c.P) ELSE hh
  IN  mult[m]

-----------------------------------------------------------------------------
Free == op = NoOp
Done(o) == op' = o /\ UNCHANGED <<id, group>>
Points(c) == {Times(k, <<c.GX, c.GY>>, c) : k \in Multiples} \cup {Zero}

(* ecp_use_known_dp frees what the group held; ecp_group_free takes the    *)
(* table with it.                                                          *)
UseKnownDp == Free /\ \E i \in DOMAIN Curves \cup {"unknown"} :
  /\ table' = NoTable
  /\ id' = IF i \in DOMAIN Curves THEN i ELSE "none"
  /\ group' = IF i \notin DOMAIN Curves THEN NoGroup
            ELSE IF IsMontgomery(Curves[i]) THEN ecp_use_curve25519(Curves[i])
            ELSE ecp_group_load(Curves[i])
  /\ op' = [fn |-> "use_known_dp", ret |-> IF i \in DOMAIN Curves THEN "0" ELSE "FEATURE_UNAVAILABLE"]
GroupFree == Free /\ id # "none" /\ table' = NoTable /\ id' = "none" /\ group' = NoGroup /\ UNCHANGED op

Loaded == Free /\ id # "none" /\ group.h = 1
Mul == Loaded /\ \E P \in Points(group), m \in Scalars \cup {group.N - 2, group.N - 1, group.N}, rng \in Rngs :
  \E out \in {ecp_mul(group, table, m, Coords(P), rng)} :
    table' = out.T /\ Done([fn |-> "mul", m |-> m, P |-> P, rng |-> rng, ret |-> out.ret, R |-> out.R])
MulMx == Free /\ id # "none" /\ group.h = 0 /\ \E x \in 0..2^BitLen(2 * group.P) - 1, m \in Scalars, rng \in Rngs :
  \E out \in {ecp_mul(group, table, m, [X |-> x, Y |-> Unset, Z |-> 1], rng)} :
    table' = out.T /\ Done([fn |-> "mul_mx", m |-> m, x |-> x, rng |-> rng, ret |-> out.ret, R |-> out.R])

(* The first argument may be in Jacobian coordinates. *)
AddSub == Loaded /\ \E P, Q \in Points(group), l \in {1, 2, 5}, minus \in BOOLEAN :
  \E jac \in {ecp_randomize_jac(group, Coords(P), l)} :
  \E out \in {IF minus THEN ecp_sub(group, jac, Coords(Q)) ELSE ecp_add(group, jac, Coords(Q))} :
    UNCHANGED table /\ Done([fn |-> "add", P |-> P, Q |-> IF minus THEN Negated(Q, group) ELSE Q,
                             ret |-> out.ret, R |-> out.R])
GenKeypair == Free /\ id # "none" /\ \E rng \in Rngs \ {<<>>} :
  \E out \in {ecp_gen_keypair(group, table, rng, rng)} :
    table' = out.T /\ Done([fn |-> "gen_keypair", rng |-> rng, ret |-> out.ret, d |-> out.d, R |-> out.R])
ThroughRecord == Loaded /\ \E P \in Points(group), n \in 0..8, format \in {"uncompressed", "compressed"} :
  \E out \in {ecp_tls_write_point(group, Coords(P), format, n)} :
    /\ UNCHANGED table
    /\ Done([fn |-> "record", P |-> P, format |-> format, n |-> n, wrote |-> out.ret] @@
            (IF out.ret # "0" THEN <<>> ELSE
             LET back == ecp_tls_read_point(group, out.buf, out.olen)
             IN  [ret |-> back.ret, R |-> back.P]))
Returned == ~Free /\ op' = NoOp /\ UNCHANGED <<id, group, table>>
EcpNext == UseKnownDp \/ GroupFree \/ Mul \/ MulMx \/ AddSub \/ GenKeypair \/ ThroughRecord \/ Returned

-----------------------------------------------------------------------------
Stuck(rng) == rng # <<>> /\ Blinding(rng, group.P) = Unset
IsAffine(R) == R.Z \in {0, 1}

(* Every product, sum and difference is the one of the curve, for every    *)
(* representation of the points and whether or not the coordinates are     *)
(* blinded; an invalid scalar is refused, a generator that is stuck ends   *)
(* the call, a key pair is a valid key and its point, and a point survives *)
(* its record.                                                             *)
PointsExact ==
  CASE op.fn = "mul" ->
         CASE op.P = Zero -> op.ret = "BAD_INPUT_DATA"
           [] op.P # Zero /\ op.m \notin 1..group.N - 1 -> op.ret = "INVALID_KEY"
           [] op.P # Zero /\ op.m \in 1..group.N - 1 /\ Stuck(op.rng) -> op.ret = "RANDOM_FAILED"
           [] OTHER -> op.ret = "0" /\ op.R.Z = 1 /\ Affine(op.R, group) = Times(op.m, op.P, group)
    [] op.fn = "add" -> op.ret = "0" /\ IsAffine(op.R) /\ Affine(op.R, group) = Plus(op.P, op.Q, group)
    [] op.fn = "mul_mx" ->
         CASE op.ret = "0" -> op.R.X = TimesMx(op.m, op.x % group.P, group)[1] /\ op.R.Z = 1
           [] op.ret = "NOT_ACCEPTABLE" -> TimesMx(op.m, op.x % group.P, group) = Zero
           [] op.ret = "INVALID_KEY" -> op.m % 8 # 0 \/ op.m \notin 2^group.nbits..2^(group.nbits + 1) - 1
           [] op.ret = "BAD_INPUT_DATA" -> op.x >= 2^group.pbits
           [] OTHER -> Stuck(op.rng)
    [] op.fn = "gen_keypair" ->
         op.ret = "0" => /\ ecp_check_privkey(group, op.d)
                         /\ group.h = 1 => Affine(op.R, group) = Times(op.d, <<group.GX, group.GY>>, group)
    [] op.fn = "record" ->
         /\ op.wrote = "0" /\ (op.format = "uncompressed" \/ op.P = Zero) =>
              op.ret = "0" /\ op.R = Coords(op.P)
         /\ op.wrote = "0" \/ op.n < 2 * plen(group) + 2
    [] OTHER -> TRUE
=============================================================================
