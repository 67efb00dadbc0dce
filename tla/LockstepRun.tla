---------------------------- MODULE LockstepRun ----------------------------
(***************************************************************************)
(* The run of the MKA key exchange in which all nodes move together: in    *)
(* every step each node accumulates the points all the others published in *)
(* it (mka.c), and after the last step all compute the same key.           *)
(***************************************************************************)
EXTENDS MKAMath

Size == Cardinality(Node)
Last == Size - 1                    \* the number of steps

CONSTANT Lockstep   \* Lockstep[s][n]: the context of n in step s

LockstepAcc(s, n) ==
    AccBroadval(Lockstep[s][n], [j \in Node \ {n} |-> Lockstep[s][j].k], Size)

ASSUME LockstepAssumption ==
    /\ Lockstep \in [0 .. Last -> [Node -> Context]]
    /\ \A n \in Node : Lockstep[0][n] = MakeBroadval(n, SetPart(n))
    /\ \A n \in Node : \A s \in 0 .. Last - 1 :
          Lockstep[s + 1][n] = IF s + 1 < Last
                               THEN MakeBroadval(n, LockstepAcc(s, n))
                               ELSE LockstepAcc(s, n)

\* The algebra of the protocol: after the last step the rounds are done and
\* every node computes the product of the secrets.
ASSUME LockstepAgreement == \A n \in Node :
    /\ RoundsCompleted(Lockstep[Last][n], Size)
    /\ ComputeKey(n, Lockstep[Last][n]) = GroupSecret
=============================================================================
