------------------------------ MODULE ModArith ------------------------------
(***************************************************************************)
(* Modular exponentiation and prime numbers (polarssl/src/bignum.c), on    *)
(* the level of whole numbers: sums, products, shifts and comparisons are  *)
(* those of Bignum, which is checked limb by limb, and Digit(v, i) is limb *)
(* i of v.  The exponent keeps its limbs, leading zeros included.          *)
(***************************************************************************)
EXTENDS Bignum

CONSTANT MaxSmallPrime    \* the largest number of small_prime[] (997)

BitLength(v) == Cardinality({k \in 0..30 : 2^k <= v})
LimbCount(v) == Max({1, BITS_TO_LIMBS(BitLength(v))})
Odd(v)       == v % 2 = 1

(* x = 1 / m0 modulo 2^4, and every further step doubles the bits that are *)
(* right; -x is what makes the lowest limb of T vanish.                    *)
mpi_montg_init(m0) ==
  LET steps == Cardinality({k \in 0..biL : biL \div 2^k >= 8})
      x[k \in 0..steps] ==
        IF k = 0 THEN m0 + 8 * (((m0 + 2) \div 4) % 2)
        ELSE (x[k - 1] * ((2 - m0 * x[k - 1]) % Base)) % Base
  IN  (-x[steps]) % Base

(* A * B / R mod N, where R = Base^n and n is the number of limbs of N: n  *)
(* rows, each of which drops a limb that has become zero.                  *)
mpi_montmul(A, B, N) ==
  LET mm == mpi_montg_init(Digit(N, 0))
      row(T, i) == LET u0 == Digit(A, i - 1)
                       u1 == (((T + u0 * Digit(B, 0)) % Base) * mm) % Base
                   IN  (T + u0 * B + u1 * N) \div Base
      below(T) == IF T >= N THEN T - N ELSE T
  IN  below(For(1, LimbCount(N), 0, row))
mpi_montred(A, N) == mpi_montmul(A, 1, N)

(* R^2 mod N, which a caller may keep for the next call with the same N.   *)
RSquared(N) ==
  LET r[k \in 0..2 * LimbCount(N)] == IF k = 0 THEN 1 % N ELSE (r[k - 1] * Base) % N
  IN  r[2 * LimbCount(N)]

WindowBits == 6
WindowSize(bits) ==
  Min({WindowBits, CASE bits > 671 -> 6 [] bits \in 240..671 -> 5
                      [] bits \in 80..239 -> 4 [] bits \in 24..79 -> 3 [] OTHER -> 1})

(* W[1], and the powers from 2^(wsize - 1) up that a window can ask for.   *)
WindowTable(w1, wsize, N) ==
  LET j == 2^(wsize - 1)
      square[k \in 0..wsize - 1] ==
        IF k = 0 THEN w1 ELSE mpi_montmul(square[k - 1], square[k - 1], N)
      W[i \in j..2 * j - 1] ==
        IF i = j THEN square[wsize - 1] ELSE mpi_montmul(W[i - 1], w1, N)
  IN  W
Squared(X, k, N) ==
  LET sq[i \in 0..k] == IF i = 0 THEN X ELSE mpi_montmul(sq[i - 1], sq[i - 1], N)
  IN  sq[k]

(* One bit of the exponent: leading zeros are skipped (state 0), a zero    *)
(* between two windows squares (state 1), anything else fills the window   *)
(* (state 2), which is used up when it is full.                            *)
Absorbed(st, ei, wsize, W, N) ==
  LET bits == st.wbits + ei * 2^(wsize - st.nbits - 1)
  IN  CASE ei = 0 /\ st.state = 0 -> st
        [] ei = 0 /\ st.state = 1 -> [st EXCEPT !.X = mpi_montmul(@, @, N)]
        [] st.nbits + 1 < wsize   -> [st EXCEPT !.state = 2, !.nbits = @ + 1, !.wbits = bits]
        [] OTHER -> [X |-> mpi_montmul(Squared(st.X, wsize, N), W[bits], N),
                     state |-> 1, nbits |-> 0, wbits |-> 0]
(* Variant: a window that was not filled is forgotten. *)
DrainedNone(st, wsize, w1, N) == st.X
(* The bits of a window that was not filled, one by one. *)
Drained(st, wsize, w1, N) ==
  LET X[i \in 0..st.nbits] ==
        IF i = 0 THEN st.X
        ELSE LET sq == mpi_montmul(X[i - 1], X[i - 1], N)
             IN  IF (st.wbits \div 2^(wsize - i)) % 2 = 1 THEN mpi_montmul(sq, w1, N) ELSE sq
  IN  X[st.nbits]

(* X = A^E mod N for an odd N; E is an mpi.  A negative A is made positive *)
(* and the result subtracted from N, whatever the parity of E, so that N   *)
(* itself may come out.                                                    *)
mpi_exp_mod(A, E, N, RR) ==
  LET wsize == WindowSize(mpi_msb(E))
      pos   == IF A < 0 THEN -A ELSE A
      nbits == Len(E.p) * biL
      begin == [X |-> mpi_montred(RR, N), state |-> 0, nbits |-> 0, wbits |-> 0]
      power(w1, W) ==
        Drained(For(1, nbits, begin, LAMBDA st, i : Absorbed(st, mpi_get_bit(E, nbits - i), wsize, W, N)),
                wsize, w1, N)
      from(w1) == mpi_montred(power(w1, WindowTable(w1, wsize, N)), N)
      signed(X) == IF A < 0 THEN N - X ELSE X
  IN  signed(from(mpi_montmul(IF pos >= N THEN pos % N ELSE pos, RR, N)))

-----------------------------------------------------------------------------
(* Prime numbers. *)
small_prime == {q \in 3..MaxSmallPrime : \A d \in 2..q - 1 : q % d # 0}
mpi_check_small_factors(X) ==
  IF X % 2 = 0 \/ \E q \in small_prime : q < X /\ X % q = 0 THEN "NOT_ACCEPTABLE"
  ELSE IF \E q \in small_prime : X <= q THEN "prime" ELSE "0"

(* The base of a Miller-Rabin round, for what the generator gave: the      *)
(* number is shifted below W = X - 1 and its two lowest bits are set.      *)
Witness(X, drawn) ==
  LET W == X - 1
      A == IF drawn < W THEN drawn
           ELSE drawn \div 2^(BitLength(drawn) - BitLength(W) + 1)
  IN  A - (A % 4) + 3
Halvings(W) == Max({k \in 0..30 : W % 2^k = 0})
RoundOutcome(A, W, s) ==
  LET stop == Min({s} \cup {j \in 1..s : A[j] = W \/ (j > 1 /\ A[j] = 1)})
  IN  IF A[1] \in {1, W} \/ A[stop] = W THEN "0" ELSE "NOT_ACCEPTABLE"
Round(X, base) ==
  LET W == X - 1
      R == [s |-> 1, p |-> LimbsOf(W \div 2^Halvings(W), LimbCount(W))]
      powers == For(1, Halvings(W), <<mpi_exp_mod(base, R, X, RSquared(X))>>,
                    LAMBDA A, j : Append(A, (A[j] * A[j]) % X))
  IN  RoundOutcome(powers, W, Halvings(W))

(* The 2 to 27 rounds draw independently: all may pass if one base can     *)
(* pass, and one may fail if one base can fail.  So a composite number is  *)
(* accepted when every base drawn is a liar.                               *)
Bases(X) == {Witness(X, drawn) : drawn \in 0..Base^LimbCount(X) - 1}
mpi_miller_rabin(X) == {Round(X, base) : base \in Bases(X)}

mpi_is_prime(X) ==
  CASE X \in {0, 1} -> {"NOT_ACCEPTABLE"}
    [] X = 2 \/ mpi_check_small_factors(X) = "prime" -> {"0"}
    [] mpi_check_small_factors(X) = "NOT_ACCEPTABLE" -> {"NOT_ACCEPTABLE"}
    [] OTHER -> mpi_miller_rabin(X)

(* The drawn number is brought to nbits bits and to 3 modulo 4, with dh    *)
(* also to 2 modulo 3; candidates are tried upwards until one passes.      *)
FirstCandidate(drawn, nbits, dh) ==
  LET k == BitLength(drawn)
      Y == IF k < nbits THEN drawn * 2^(nbits - k) ELSE drawn \div 2^(k - nbits)
      X == Y - (Y % 4) + 3
  IN  CASE dh /\ X % 3 = 0 -> X + 8 [] dh /\ X % 3 = 1 -> X + 4 [] OTHER -> X

(* With dh half of the candidate must be prime too; a candidate in the     *)
(* table of small primes ends the search with the 1 of the factor test.    *)
Verdicts(X, dh) ==
  LET tests == <<mpi_check_small_factors(X), mpi_check_small_factors(X \div 2)>>
  IN  CASE ~dh            -> mpi_is_prime(X)
        [] tests[1] # "0" -> {tests[1]}
        [] tests[2] # "0" -> {tests[2]}
        [] OTHER -> {IF v = "0" THEN w ELSE v : v \in mpi_miller_rabin(X),
                                               w \in mpi_miller_rabin(X \div 2)}
Stride(dh) == IF dh THEN 12 ELSE 2

(***************************************************************************)
(* A caller of the modular functions of ModArith, and what bignum.h        *)
(* promises it.  "job" is the call and its result.                         *)
(***************************************************************************)

CONSTANTS OddModuli,      \* odd numbers
          Exponents,   \* the limbs of exponents
          Radicands,   \* numbers that are raised to a power
          Candidates,  \* odd numbers, prime and composite
          Draws,       \* what the random generator gives
          PrimeBits,   \* the sizes of generated primes
          MaxCandidate \* bound on the numbers a search for a prime tries

VARIABLE job
NoJob == [fn |-> "none"]
ModInit == job = NoJob

Power(A, E, N) == [fn |-> "exp_mod", A |-> A, E |-> E, N |-> N,
                   X |-> mpi_exp_mod(A, [s |-> 1, p |-> E], N, RSquared(N))]
ExpMod == /\ job = NoJob
          /\ \E A \in Radicands, E \in Exponents, N \in OddModuli, s \in {-1, 1} :
               job' = Power(s * A, E, N)
Montgomery == /\ job = NoJob
              /\ \E N \in OddModuli, A \in Radicands, B \in Radicands :
                   job' = [fn |-> "montmul", A |-> A % N, B |-> B % N, N |-> N,
                           X |-> mpi_montmul(A % N, B % N, N)]
MillerRabin == /\ job = NoJob
               /\ \E X \in Candidates : \E drawn \in Draws :
                    /\ mpi_check_small_factors(X) = "0" /\ drawn < Base^LimbCount(X)
                    /\ job' = [fn |-> "round", X |-> X, base |-> Witness(X, drawn),
                               ret |-> Round(X, Witness(X, drawn))]
GenPrime == /\ job = NoJob
            /\ \E nbits \in PrimeBits, dh \in BOOLEAN :
                 \E drawn \in 0..Base^BITS_TO_LIMBS(nbits) - 1 :
                    LET X == FirstCandidate(drawn, nbits, dh)
                    IN  job' = [fn |-> "search", nbits |-> nbits, dh |-> dh, first |-> X, X |-> X,
                                ret |-> "none"]
TryCandidate == /\ job.fn = "search" /\ job.X <= MaxCandidate
                /\ \E ret \in Verdicts(job.X, job.dh) :
                     job' = IF ret = "NOT_ACCEPTABLE" THEN [job EXCEPT !.X = @ + Stride(job.dh)]
                            ELSE [job EXCEPT !.fn = "gen_prime", !.ret = ret]
Finished == job.fn \notin {"none", "search"} /\ job' = NoJob
ModNext == ExpMod \/ Montgomery \/ MillerRabin \/ GenPrime \/ TryCandidate \/ Finished

-----------------------------------------------------------------------------
(* The numbers the results stand for. *)
PowMod(a, e, N) ==
  LET pow[k \in 0..e] == IF k = 0 THEN 1 % N
                         ELSE LET h == pow[k \div 2]
                              IN  IF Odd(k) THEN (((h * h) % N) * (a % N)) % N ELSE (h * h) % N
  IN  pow[e]
PowLimbs(a, E, N) ==
  LET pow[k \in 0..Len(E)] ==
        IF k = 0 THEN 1 % N
        ELSE (PowMod(pow[k - 1], Base, N) * PowMod(a, E[Len(E) - k + 1], N)) % N
  IN  pow[Len(E)]
RadixPower(N) == (PowMod(Base, LimbCount(N), N))

IsPrime(X) == X > 1 /\ \A d \in 2..X - 1 : X % d # 0

(* A prime to the base a, as far as one Miller-Rabin round can tell. *)
StrongProbablePrime(X, a) ==
  LET s == Max({k \in 0..16 : (X - 1) % 2^k = 0})
      r == (X - 1) \div 2^s
  IN  PowMod(a, r, X) = 1 \/ \E j \in 0..s - 1 : PowMod(a, r * 2^j, X) = X - 1

(* A prime, or a composite number without small factors that is taken for  *)
(* a prime for a base that can be drawn.                                   *)
Plausible(X) ==
  \/ IsPrime(X)
  \/ /\ \A q \in small_prime : X % q # 0
     /\ \E a \in Bases(X) : StrongProbablePrime(X, a)

(* The candidates a search has gone past. *)
Passed == {X \in job.first..job.X - 1 : (X - job.first) % Stride(job.dh) = 0}

PowerRight ==
  LET power == PowLimbs(job.A, job.E, job.N)
  IN  CASE job.A >= 0      -> job.X = power
        [] Odd(job.E[1])   -> job.X \in 1..job.N /\ job.X % job.N = power
        [] OTHER           -> job.X \in 1..job.N /\ (job.X + power) % job.N = 0

Kept ==
  CASE job.fn = "exp_mod" -> PowerRight
    [] job.fn = "montmul" -> (job.X * RadixPower(job.N)) % job.N = (job.A * job.B) % job.N /\ job.X < job.N
    [] job.fn = "round" ->
         /\ (job.ret = "0") = StrongProbablePrime(job.X, job.base)
         /\ IsPrime(job.X) => job.ret = "0" \/ job.base = job.X
    [] job.fn \in {"search", "gen_prime"} ->
         /\ \A X \in Passed : X % 4 # 3 => ~IsPrime(X)
         /\ job.dh => job.X % 12 = 11
         /\ job.X >= 2^(job.nbits - 1) \/ job.first = FirstCandidate(0, job.nbits, job.dh)
         /\ job.ret = "0" => Plausible(job.X) /\ (job.dh => Plausible(job.X \div 2))
         /\ job.ret = "prime" => job.dh /\ job.X \div 2 <= MaxSmallPrime
    [] OTHER -> TRUE

(* Montgomery products are reduced; a power is A^E modulo N whatever the   *)
(* window size and the leading zeros, and for a negative base with an even *)
(* exponent the opposite of it, contrary to bignum.h:645.  A Miller-Rabin  *)
(* round passes exactly the strong probable primes to its base, and fails  *)
(* a prime only when the base is the number itself.  A search for a prime  *)
(* goes past none but those that can be their own base, starts with enough *)
(* bits unless the generator gives zero, and ends with a number that only  *)
(* liars can have let through, dh also for its half.                       *)
PowersExact == Kept
=============================================================================
