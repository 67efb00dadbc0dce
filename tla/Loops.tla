------------------------------- MODULE Loops -------------------------------
(***************************************************************************)
(* A for loop of the code as a fold over its counter.                      *)
(***************************************************************************)
EXTENDS Integers

(* body(acc, i) for i = first, first + 1, ..., last, acc being what the    *)
(* passes before have made of start.  Each pass is the element of a set,   *)
(* so that TLC evaluates it before the next one begins.                    *)
For(first, last, start, body(_, _)) ==
  LET after[i \in first - 1..last] ==
        IF i < first THEN start
        ELSE CHOOSE s \in {body(acc, i) : acc \in {after[i - 1]}} : TRUE
  IN  after[last]
=============================================================================
