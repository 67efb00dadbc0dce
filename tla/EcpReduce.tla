------------------------------ MODULE EcpReduce ------------------------------
(***************************************************************************)
(* Reduction modulo the primes of the curves (polarssl/src/ecp_curves.c,   *)
(* ecp_modp of ecp.c), limb by limb.  Each fast reduction rewrites N in    *)
(* place as a number that is congruent and little longer than the prime;   *)
(* ecp_modp ends with a few additions or subtractions.                     *)
(*                                                                         *)
(* A chunk of the NIST reductions (64 bits for p192, 32 for the others) is *)
(* a limb here, as in the build for the board.  The primes are given by    *)
(* their terms, as in FIPS 186-3 D.2, in powers of the chunk's radix, so   *)
(* that they have the shape of the real ones for any size of a limb.       *)
(***************************************************************************)
EXTENDS Bignum, TLC

(* What is added to chunk i of N: the chunks that are named, subtracted    *)
(* where the number is negative.                                           *)
A192 == <<<<3, 5>>, <<3, 4, 5>>, <<4, 5>>>>
A224 == <<<<-7, -11>>, <<-8, -12>>, <<-9, -13>>, <<-10, 7, 11>>,
          <<-11, 8, 12>>, <<-12, 9, 13>>, <<-13, 10>>>>
A256 == <<<<8, 9, -11, -12, -13, -14>>, <<9, 10, -12, -13, -14, -15>>,
          <<10, 11, -13, -14, -15>>, <<11, 11, 12, 12, 13, -15, -8, -9>>,
          <<12, 12, 13, 13, 14, -9, -10>>, <<13, 13, 14, 14, 15, -10, -11>>,
          <<14, 14, 15, 15, 14, 13, -8, -9>>, <<15, 15, 15, 8, -10, -11, -12, -13>>>>
A384 == <<<<12, 21, 20, -23>>, <<13, 22, 23, -12, -20>>, <<14, 23, -13, -21>>,
          <<15, 12, 20, 21, -14, -22, -23>>, <<21, 21, 16, 13, 12, 20, 22, -15, -23, -23>>,
          <<22, 22, 17, 14, 13, 21, 23, -16>>, <<23, 23, 18, 15, 14, 22, -17>>,
          <<19, 16, 15, 23, -18>>, <<20, 17, 16, -19>>, <<21, 18, 17, -20>>,
          <<22, 19, 18, -21>>, <<23, 20, 19, -22>>>>

(* Variant: a negative carry is lost. *)
fix_negativeLost(N, c, n) == N
(* N = -(C - N), for C = -c * 2^bits.                                      *)
fix_negative(N, c, n) ==
  LET C == [s |-> 1, p |-> [k \in 1..n + 1 |-> IF k = n + 1 THEN -c ELSE 0]]
  IN  [mpi_sub_abs([N |-> N, C |-> C], "N", "C", "N").N EXCEPT !.s = -1]

(* Column by column from the right, with a signed carry; the last carry    *)
(* becomes a chunk of its own, unless it is negative, and the chunks above *)
(* are cleared.                                                            *)
QuasiReduced(N, A) ==
  LET n == Len(A)
      G == mpi_grow(N, 2 * n)
      chunk(j) == IF j < 0 THEN -G.p[1 - j] ELSE G.p[j + 1]
      column[i \in 1..n] == LET sum[k \in 0..Len(A[i])] == IF k = 0 THEN G.p[i] ELSE sum[k - 1] + chunk(A[i][k])
                            IN  sum[Len(A[i])]
      carry[i \in 1..n + 1] == IF i = 1 THEN 0 ELSE (column[i - 1] + carry[i - 1]) \div Base
      low == [G EXCEPT !.p = [k \in DOMAIN @ |->
                CASE k <= n -> (column[k] + carry[k]) % Base
                  [] k = n + 1 -> Max({0, carry[n + 1]}) [] OTHER -> 0]]
  IN  IF carry[n + 1] < 0 THEN fix_negative(low, carry[n + 1], n) ELSE low
ecp_mod_p192(N) == QuasiReduced(N, A192)
ecp_mod_p224(N) == QuasiReduced(N, A224)
ecp_mod_p256(N) == QuasiReduced(N, A256)
ecp_mod_p384(N) == QuasiReduced(N, A384)

(* N = A0 + 2^bits A1 becomes A0 + f(A1).  A1 is what lies above, at most  *)
(* "room" limbs of it, shifted down when bits is not a multiple of biL.    *)
Above(N, bits, room) ==
  LET first == bits \div biL
      M == [s |-> 1, p |-> Resized(SubSeq(N.p, first + 1, Len(N.p)), Min({Len(N.p) - first, room}))]
  IN  IF bits % biL = 0 THEN M ELSE mpi_shift_r(M, bits % biL)
LowBits(N, bits) ==
  [N EXCEPT !.p = [k \in DOMAIN @ |->
     CASE k <= bits \div biL -> @[k]
       [] k = (bits \div biL) + 1 -> @[k] % 2^(bits % biL) [] OTHER -> 0]]
Sum(A0, f) == mpi_add_abs([N |-> A0, M |-> f], "N", "N", "M").N
ByWord(M, b, n) == mpi_mul_int([M |-> [M EXCEPT !.p = Resized(@, n)], _B |-> mpi_init], "M", "M", b).M

WIDTH(bits) == (bits \div biL) + 1
ecp_mod_p521(N, bits) ==
  IF Len(N.p) < WIDTH(bits) THEN N ELSE Sum(LowBits(N, bits), Above(N, bits, WIDTH(bits) + 1))
ecp_mod_p255(N, bits, R) ==
  IF Len(N.p) < WIDTH(bits) THEN N
  ELSE LET M == Above(N, bits, WIDTH(bits) + 1) IN Sum(LowBits(N, bits), ByWord(M, R, Len(M.p) + 1))

(* Twice, for R is half a limb long.  adjust is 1 when the top limb of the *)
(* prime is not full.                                                      *)
ecp_mod_koblitz(N, bits, R) ==
  LET adjust  == IF bits % biL = 0 THEN 0 ELSE 1
      p_limbs == CeilDiv(bits, biL)
      once(X) == LET M == Above(X, bits, p_limbs + adjust)
                 IN  Sum(LowBits(X, bits), ByWord(M, R, Len(M.p) + 1 - adjust))
  IN  IF Len(N.p) < p_limbs THEN N ELSE once(once(N))

-----------------------------------------------------------------------------
(* The last turns of ecp_modp.  P is added as long as N is negative, and   *)
(* subtracted as long as N is not below P; a loop that takes more than     *)
(* MaxTurns turns is left after one more.                                  *)
MaxTurns == 8
Raised(N, P) ==
  For(0, MaxTurns, [N |-> N, turns |-> 0], LAMBDA at, i :
      IF at.N.s < 0 /\ mpi_cmp_int(at.N, 0) # 0
      THEN [N |-> mpi_add_mpi([N |-> at.N, P |-> P], "N", "N", "P").N, turns |-> at.turns + 1]
      ELSE at)
Lowered(N, P, turns) ==
  For(0, MaxTurns, [N |-> N, turns |-> turns], LAMBDA at, i :
      IF mpi_cmp_mpi(at.N, P) >= 0
      THEN [N |-> mpi_sub_abs([N |-> at.N, P |-> P], "N", "N", "P").N, turns |-> at.turns + 1]
      ELSE at)

(* reduced is N after the fast function. *)
ecp_modp(N, P, reduced) ==
  IF (N.s < 0 /\ mpi_cmp_int(N, 0) # 0) \/ mpi_msb(N) > 2 * mpi_msb(P)
  THEN [ret |-> "BAD_INPUT_DATA", N |-> N, turns |-> 0]
  ELSE LET lowered(up) == [ret |-> "0"] @@ Lowered(up.N, P, up.turns)
       IN  lowered(Raised(reduced, P))

(***************************************************************************)
(* A user of the fast reductions: any of them is given a number, as a      *)
(* product of two coordinates may be, and gives it back below the prime.   *)
(***************************************************************************)

CONSTANTS Chunks,      \* the values of a limb
          Patterns     \* how limbs follow each other

VARIABLE red
NoRed == [fn |-> "none"]
ReduceInit == red = NoRed

(* The primes, by their terms: <<sign, exponent>> of the radix.            *)
Term(t) == mpi_shift_l(mpi_lset(mpi_init, 1), t[2] * biL)
RECURSIVE Combined(_, _)
Combined(X, terms) ==
  IF terms = <<>> THEN X
  ELSE LET m == [X |-> X, Y |-> Term(Head(terms))]
       IN  Combined((IF Head(terms)[1] > 0 THEN mpi_add_mpi(m, "X", "X", "Y")
                                           ELSE mpi_sub_mpi(m, "X", "X", "Y")).X, Tail(terms))
FromTerms(terms) == Combined(mpi_lset(mpi_init, 0), terms)
Minus2(bits, R) == mpi_sub_int([X |-> mpi_shift_l(mpi_lset(mpi_init, 1), bits), _B |-> mpi_init], "X", "X", R).X
Bits521 == 3 * biL + 1
Bits255 == 3 * biL - 1
BitsK   == 3 * biL
BitsK2  == 3 * biL + (biL \div 2)
R255 == 2^(biL - 1) + 1
RK   == 2^biH + 1
Primes == {"p192", "p224", "p256", "p384", "p521", "p255", "p192k1", "p224k1"}
Prime(c) ==
  CASE c = "p192" -> FromTerms(<<<<1, 3>>, <<-1, 1>>, <<-1, 0>>>>)
    [] c = "p224" -> FromTerms(<<<<1, 7>>, <<-1, 3>>, <<1, 0>>>>)
    [] c = "p256" -> FromTerms(<<<<1, 8>>, <<-1, 7>>, <<1, 6>>, <<1, 3>>, <<-1, 0>>>>)
    [] c = "p384" -> FromTerms(<<<<1, 12>>, <<-1, 4>>, <<-1, 3>>, <<1, 1>>, <<-1, 0>>>>)
    [] c = "p521" -> Minus2(Bits521, 1)
    [] c = "p255" -> Minus2(Bits255, R255)
    [] c = "p192k1" -> Minus2(BitsK, RK)
    [] c = "p224k1" -> Minus2(BitsK2, RK)
Fast(c, N) ==
  CASE c = "p192" -> ecp_mod_p192(N) [] c = "p224" -> ecp_mod_p224(N)
    [] c = "p256" -> ecp_mod_p256(N) [] c = "p384" -> ecp_mod_p384(N)
    [] c = "p521" -> ecp_mod_p521(N, Bits521)
    [] c = "p255" -> ecp_mod_p255(N, Bits255, R255)
    [] c = "p192k1" -> ecp_mod_koblitz(N, BitsK, RK)
    [] c = "p224k1" -> ecp_mod_koblitz(N, BitsK2, RK)
P_of == [c \in Primes |-> Prime(c)]

(* The number whose limbs take their values from a pattern, in turns of    *)
(* the length of the pattern, from limb "from" up.                         *)
Pattern(pat, from, n) == [s |-> 1, p |-> [k \in 1..n |-> IF k < from THEN 0 ELSE pat[((k - from) % Len(pat)) + 1]]]
Reduce ==
  /\ red = NoRed
  /\ \E c \in Primes, pat \in Patterns : \E P \in {P_of[c]} :
     \E from \in 1..2 * Len(P.p), n \in {2 * Len(P.p), Len(P.p)} :
       /\ from <= n
       /\ \E N \in {Pattern(pat, from, n)} : \E out \in {ecp_modp(N, P, Fast(c, N))} :
            red' = [fn |-> c, P |-> P, N |-> N, ret |-> out.ret, X |-> out.N, turns |-> out.turns]
Reduced == red # NoRed /\ red' = NoRed
ReduceNext == Reduce \/ Reduced

(* The remainder, bit by bit from the top. *)
Residue(N, P) ==
  LET below(X) == IF mpi_cmp_mpi(X, P) >= 0 THEN mpi_sub_abs([X |-> X, P |-> P], "X", "X", "P").X ELSE X
  IN  For(1, mpi_msb(N), mpi_lset(mpi_init, 0),
          LAMBDA X, i : below(mpi_set_bit(mpi_shift_l(X, 1), 0, mpi_get_bit(N, mpi_msb(N) - i))))

(* ecp_modp gives the remainder of every number of up to 2 * pbits bits,   *)
(* with few turns of its loops, and refuses the longer ones.               *)
RemaindersExact ==
  red # NoRed =>
    IF mpi_msb(red.N) > 2 * mpi_msb(red.P) THEN red.ret = "BAD_INPUT_DATA"
    ELSE /\ red.ret = "0" /\ mpi_cmp_mpi(red.X, Residue(red.N, red.P)) = 0
         /\ red.turns <= MaxTurns
=============================================================================
