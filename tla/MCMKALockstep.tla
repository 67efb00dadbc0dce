--------------------------- MODULE MCMKALockstep ---------------------------
(***************************************************************************)
(* Instances of MKALockstep for TLC.                                       *)
(***************************************************************************)
EXTENDS MKALockstep, TLC

MCSecret == [n \in Node |-> 2 * n + 1]

\* The lock-step run of three nodes with these secrets and P = 101, as a
\* table: LockstepAssumption holds only of the one that mka.c computes.
C(r, k) == [r |-> r, k |-> k]
MCLockstep ==
       0 :> <<C(0, 3), C(0, 5), C(0, 7)>>
    @@ 1 :> <<C(1, 36), C(1, 50), C(1, 56)>>
    @@ 2 :> <<C(1, 35), C(1, 21), C(1, 15)>>

M(G, S) == INSTANCE MKAMath WITH Node <- G, Secret <- S

\* The lock-step run of the group G with the secrets S, computed step by step.
LockstepOf(G, S) ==
    LET size == Cardinality(G)
        run[s \in 0 .. size - 1] ==
            IF s = 0 THEN [n \in G |-> M(G, S)!MakeBroadval(n, M(G, S)!SetPart(n))]
            ELSE LET before == run[s - 1]
                     acc(n) == M(G, S)!AccBroadval(before[n],
                                   [j \in G \ {n} |-> before[j].k], size)
                 IN  [n \in G |-> IF s < size - 1
                                  THEN M(G, S)!MakeBroadval(n, acc(n)) ELSE acc(n)]
    IN  [s \in 0 .. size - 1 |-> run[s]]

\* LockstepAgreement for groups larger than those that can be run: up to
\* six members and several choices of secrets.
Agrees(G, S) ==
    LET last == Cardinality(G) - 1
        end == LockstepOf(G, S)[last]
    IN  \A n \in G :
            /\ M(G, S)!RoundsCompleted(end[n], last + 1)
            /\ M(G, S)!ComputeKey(n, end[n])
                    = FoldFunction(LAMBDA x, y : (x * y) % P, 1, S)

ASSUME AgreementOfLargerGroups == \A size \in 2 .. 6, k \in 1 .. 3 :
    Agrees(1 .. size, [n \in 1 .. size |-> (k * k * n + k) % P])
=============================================================================
