---------------------------- MODULE MCArithmetic ----------------------------
(***************************************************************************)
(* The arithmetic of the key exchanges, one library call at a time: the    *)
(* mpi functions, the modular functions and the fast reductions with limbs *)
(* of two chars of four bits, inversion on numbers, and points on two      *)
(* small Weierstrass curves (-3 and 0 for A) and a Montgomery curve.       *)
(***************************************************************************)
EXTENDS ModInverse, ModArith, EcpReduce, EcpArith

MCNumbers == -40..70
MCModuli  == -1..45

MCExponents == {<<0>>, <<1>>, <<2, 0>>, <<255>>, <<6, 1>>, <<0, 1>>, <<77, 3, 200>>, <<0, 0, 128>>,
                 <<5, 0, 9, 1>>, <<255, 255, 255, 255>>, <<1, 2, 3, 4, 5, 6, 7, 8, 9, 10, 11>>}
MCCandidates == {k \in 9..160 : k % 2 = 1} \cup {1000, 1021, 2047}
MCDraws      == 0..255 \cup {1016, 1018, 2046, 2040, 65535, 32769}

MCPatterns == UNION {[1..n -> Chunks] : n \in 1..3}

MCCurves ==
     ("w15" :> [P |-> 32749, A |-> -1, B |-> 21, N |-> 32603, GX |-> 8, GY |-> 14509, modp |-> TRUE])
  @@ ("w7"  :> [P |-> 109, A |-> 0, B |-> 11, N |-> 127, GX |-> 1, GY |-> 11, modp |-> TRUE])
  @@ ("m7"  :> [P |-> 127, A |-> 2, B |-> -1, N |-> -1, GX |-> 9, GY |-> -1, modp |-> TRUE, nbits |-> 6])
MCScalars == 0..20 \cup {64, 72, 88, 120, 128, 10922, 16000, 21845, 32000}
Zeros(n, last) == [i \in 1..31 |-> IF i < n THEN 0 ELSE last]
MCRngs == {<<>>, <<0, 5, 77>>, Zeros(30, 33), Zeros(31, 33), <<40000, -1>>, <<-1, 5>>, <<199, 3>>}

MCInts == -7..7

VARIABLE user     \* the library that is called in this behaviour
allVars == <<user, vars, mpiVars, job, red, ecpVars>>

ArithInit == /\ user \in {"mpi", "mod", "reduce", "ecp", "inverse"}
             /\ Init /\ MpiInit /\ ModInit /\ ReduceInit /\ EcpInit
ArithNext ==
  \/ user = "mpi"     /\ MpiNext    /\ UNCHANGED <<user, vars, job, red, ecpVars>>
  \/ user = "mod"     /\ ModNext    /\ UNCHANGED <<user, vars, mpiVars, red, ecpVars>>
  \/ user = "reduce"  /\ ReduceNext /\ UNCHANGED <<user, vars, mpiVars, job, ecpVars>>
  \/ user = "ecp"     /\ EcpNext    /\ UNCHANGED <<user, vars, mpiVars, job, red>>
  \/ user = "inverse" /\ Next       /\ UNCHANGED <<user, mpiVars, job, red, ecpVars>>

(* The loops of an inversion that has begun are run to their end. *)
ArithSpec == ArithInit /\ [][ArithNext]_allVars /\ WF_vars(Next /\ UNCHANGED <<user, mpiVars, job, red, ecpVars>>)
=============================================================================
