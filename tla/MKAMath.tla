------------------------------ MODULE MKAMath ------------------------------
(***************************************************************************)
(* The arithmetic of the MKA key exchange (sban/src/mka.c).                *)
(*                                                                         *)
(* The library computes on points of an elliptic curve of prime order P    *)
(* with generator G.  A point x*G is represented here by x, so that adding *)
(* points is addition mod P and ecp_mul multiplication mod P.  P is a      *)
(* small prime instead of a 256-bit one; what the protocol needs of it is  *)
(* that the round numbers 1..n-1 have inverses, hence P >= n.              *)
(*                                                                         *)
(* A context (mka_context) keeps the round r and the accumulated point k;  *)
(* the secret a of node n is Secret[n], fixed by mka_set_part.             *)
(***************************************************************************)
EXTENDS Integers, FiniteSets, Functions

CONSTANTS
    Node,       \* the ids of the participants (uint16_t in the code)
    P,          \* the order of the group
    Secret      \* the private scalar each node draws in mka_set_part

Point == 0 .. P - 1

ASSUME NodeAssumption == IsFiniteSet(Node) /\ Cardinality(Node) \in 2 .. 255

ASSUME GroupAssumption ==
    /\ P \in Nat /\ P > Cardinality(Node)
    /\ Secret \in [Node -> Point \ {0}]

Context == [r : Nat, k : Point]

\* mpi_inv_mod(x, N): the scalar whose product with x is 1.
InverseMod(x) == CHOOSE y \in Point : (x * y) % P = 1

\* mka_set_part: draw the secret a and start from k = a*G in round 0.
SetPart(n) == [r |-> 0, k |-> Secret[n]]

\* mka_make_broadval: round 0 publishes a*G, a later round first multiplies
\* the accumulated point by a.  What is published is the k of the result.
MakeBroadval(n, c) ==
    IF c.r = 0 THEN c ELSE [c EXCEPT !.k = (Secret[n] * c.k) % P]

\* Variant: the own point is not taken away.
AccBroadvalKeepingOwn(c, points, size) ==
    LET sum == FoldFunction(LAMBDA x, y : x + y, 0, points)
    IN  [r |-> IF c.r < size - 2 THEN c.r + 1 ELSE c.r,
         k |-> (InverseMod(c.r + 1) * sum) % P]

\* mka_acc_broadval: add the points of the others, take away r times the own
\* point, divide by r + 1; the round number stops at size - 2.
AccBroadval(c, points, size) ==
    LET sum  == FoldFunction(LAMBDA x, y : x + y, 0, points)
        rest == sum + c.r * (P - c.k)
    IN  [r |-> IF c.r < size - 2 THEN c.r + 1 ELSE c.r,
         k |-> (InverseMod(c.r + 1) * rest) % P]

\* mka_compute_key refuses a context whose last round is not done.
RoundsCompleted(c, size) == c.r = size - 2

\* mka_compute_key: the abscissa of a*k.
ComputeKey(n, c) == (Secret[n] * c.k) % P

\* What the protocol is meant to compute: the product of all the secrets.
GroupSecret == FoldFunction(LAMBDA x, y : (x * y) % P, 1, Secret)
=============================================================================
