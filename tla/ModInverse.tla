----------------------------- MODULE ModInverse -----------------------------
(***************************************************************************)
(* mpi_gcd and mpi_inv_mod (polarssl/src/bignum.c): the binary algorithms, *)
(* one action per turn of a loop.  The variables are the mpis of the code, *)
(* as numbers; X, A and N are "inverse", "arg" and "modulus".  TU and TV   *)
(* keep their combination of TA and TB in (U1, U2) and (V1, V2).           *)
(***************************************************************************)
EXTENDS Integers

CONSTANTS Numbers,    \* what the inverse is asked of
          Moduli      \* and the moduli
ASSUME NumbersAssumption == Numbers \subseteq Int /\ Moduli \subseteq Int

VARIABLES
  pc,           \* where mpi_inv_mod is
  arg, modulus, \* the arguments
  GA, GB, lz,   \* TA and TB of mpi_gcd, and the shift they have in common
  TA, TB, TU, U1, U2, TV, V1, V2,
  inverse, result   \* the result
gcdVars == <<GA, GB, lz>>
invVars == <<TA, TB, TU, U1, U2, TV, V1, V2>>
vars == <<pc, arg, modulus, gcdVars, invVars, inverse, result>>

Even(v) == v % 2 = 0
Half(v) == v \div 2
AbsVal(v)  == IF v < 0 THEN -v ELSE v

TypeOK ==
  /\ pc \in {"idle", "shift", "gcd", "inverse", "reduce", "done"}
  /\ arg \in Int /\ modulus \in Int /\ inverse \in Int /\ GA \in Nat /\ GB \in Nat /\ lz \in Nat
  /\ TA \in Nat /\ TB \in Nat /\ TU \in Nat /\ TV \in Nat
  /\ U1 \in Int /\ U2 \in Int /\ V1 \in Int /\ V2 \in Int
  /\ result \in {"none", "0", "BAD_INPUT_DATA", "NOT_ACCEPTABLE"}

Init ==
  /\ pc = "idle" /\ result = "none"
  /\ arg = 0 /\ modulus = 0 /\ GA = 0 /\ GB = 0 /\ lz = 0 /\ inverse = 0
  /\ TA = 0 /\ TB = 0 /\ TU = 0 /\ U1 = 0 /\ U2 = 0 /\ TV = 0 /\ V1 = 0 /\ V2 = 0

Call ==
  /\ pc = "idle"
  /\ arg' \in Numbers /\ modulus' \in Moduli
  /\ IF modulus' <= 0 THEN pc' = "done" /\ result' = "BAD_INPUT_DATA" /\ UNCHANGED gcdVars
     ELSE pc' = "shift" /\ GA' = AbsVal(arg') /\ GB' = modulus' /\ lz' = 0 /\ UNCHANGED result
  /\ UNCHANGED <<invVars, inverse>>

(* lz = min(lsb(A), lsb(B)), and mpi_lsb of zero is zero.                  *)
GcdShift ==
  /\ pc = "shift"
  /\ IF GA # 0 /\ Even(GA) /\ Even(GB)
     THEN GA' = Half(GA) /\ GB' = Half(GB) /\ lz' = lz + 1 /\ UNCHANGED pc
     ELSE pc' = "gcd" /\ UNCHANGED gcdVars
  /\ UNCHANGED <<arg, modulus, invVars, inverse, result>>

(* TA and TB lose their twos, one at a time, and then the larger one the   *)
(* smaller one.                                                            *)
GcdHalve ==
  /\ pc = "gcd" /\ GA # 0
  /\ Even(GA) \/ Even(GB)
  /\ GA' = IF Even(GA) THEN Half(GA) ELSE GA
  /\ GB' = IF Even(GB) THEN Half(GB) ELSE GB
  /\ UNCHANGED <<pc, arg, modulus, lz, invVars, inverse, result>>
GcdSubtract ==
  /\ pc = "gcd" /\ GA # 0 /\ ~Even(GA) /\ ~Even(GB)
  /\ IF GA >= GB THEN GA' = Half(GA - GB) /\ UNCHANGED GB
     ELSE GB' = Half(GB - GA) /\ UNCHANGED GA
  /\ UNCHANGED <<pc, arg, modulus, lz, invVars, inverse, result>>

(* G is TB shifted back by lz; nothing but 1 has an inverse. *)
GcdDone ==
  /\ pc = "gcd" /\ GA = 0
  /\ IF GB = 1 /\ lz = 0
     THEN /\ pc' = "inverse"
          /\ TA' = arg % modulus /\ TU' = arg % modulus /\ TB' = modulus /\ TV' = modulus
          /\ U1' = 1 /\ U2' = 0 /\ V1' = 0 /\ V2' = 1
          /\ UNCHANGED result
     ELSE pc' = "done" /\ result' = "NOT_ACCEPTABLE" /\ UNCHANGED invVars
  /\ UNCHANGED <<arg, modulus, gcdVars, inverse>>

(* Variant: nothing is added to an odd coefficient. *)
HalfFirstKept(u1, u2) == Half(u1)

(* A combination is halved as it is when both coefficients are even, and   *)
(* after TB * TA - TA * TB has been added to it otherwise.                 *)
HalfFirst(u1, u2)  == Half(IF Even(u1) /\ Even(u2) THEN u1 ELSE u1 + TB)
HalfSecond(u1, u2) == Half(IF Even(u1) /\ Even(u2) THEN u2 ELSE u2 - TA)
HalveU ==
  /\ pc = "inverse" /\ Even(TU)
  /\ TU' = Half(TU) /\ U1' = HalfFirst(U1, U2) /\ U2' = HalfSecond(U1, U2)
  /\ UNCHANGED <<pc, arg, modulus, gcdVars, TA, TB, TV, V1, V2, inverse, result>>
HalveV ==
  /\ pc = "inverse" /\ ~Even(TU) /\ Even(TV)
  /\ TV' = Half(TV) /\ V1' = HalfFirst(V1, V2) /\ V2' = HalfSecond(V1, V2)
  /\ UNCHANGED <<pc, arg, modulus, gcdVars, TA, TB, TU, U1, U2, inverse, result>>
Subtract ==
  /\ pc = "inverse" /\ ~Even(TU) /\ ~Even(TV)
  /\ IF TU >= TV
     THEN TU' = TU - TV /\ U1' = U1 - V1 /\ U2' = U2 - V2 /\ UNCHANGED <<TV, V1, V2>>
     ELSE TV' = TV - TU /\ V1' = V1 - U1 /\ V2' = V2 - U2 /\ UNCHANGED <<TU, U1, U2>>
  /\ pc' = IF TU' = 0 THEN "reduce" ELSE "inverse"
  /\ UNCHANGED <<arg, modulus, gcdVars, TA, TB, inverse, result>>

(* Variant: reduced from above only. *)
ReduceOnceDown ==
  /\ pc = "reduce"
  /\ V1 >= modulus /\ V1' = V1 - modulus
  /\ UNCHANGED <<pc, arg, modulus, gcdVars, TA, TB, TU, U1, U2, TV, V2, inverse, result>>

ReduceOnce ==
  /\ pc = "reduce"
  /\ V1 < 0 \/ V1 >= modulus
  /\ V1' = IF V1 < 0 THEN V1 + modulus ELSE V1 - modulus
  /\ UNCHANGED <<pc, arg, modulus, gcdVars, TA, TB, TU, U1, U2, TV, V2, inverse, result>>
Return ==
  /\ pc = "reduce" /\ V1 >= 0 /\ V1 < modulus
  /\ inverse' = V1 /\ result' = "0" /\ pc' = "done"
  /\ UNCHANGED <<arg, modulus, gcdVars, invVars>>

Next == \/ Call \/ GcdShift \/ GcdHalve \/ GcdSubtract \/ GcdDone
        \/ HalveU \/ HalveV \/ Subtract \/ ReduceOnce \/ Return
Spec == Init /\ [][Next]_vars /\ WF_vars(Next)

-----------------------------------------------------------------------------
(* What is returned as the inverse is the inverse, reduced, and a number   *)
(* is only refused for a divisor that it has in common with the modulus    *)
(* (mpi_inv_mod).                                                          *)
InverseRight ==
  /\ result = "0" => inverse \in 0..modulus - 1 /\ (inverse * arg) % modulus = 1 % modulus
  /\ result = "NOT_ACCEPTABLE" => \E d \in 2..modulus : arg % d = 0 /\ modulus % d = 0

(* Every call returns: the loops of mpi_gcd and mpi_inv_mod end, if the    *)
(* modulus is not 1.                                                       *)
Returns == pc = "shift" /\ modulus > 1 ~> pc = "done"
=============================================================================
