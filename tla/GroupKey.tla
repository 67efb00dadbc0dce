----------------------------- MODULE GroupKey -----------------------------
(***************************************************************************)
(* What a contributory key exchange promises to its caller (the interface  *)
(* KeyExchange of crypto/crypto.h), whatever the algorithm and transport:  *)
(* a member works until it holds the one key of the group or has failed,   *)
(* it holds the key only when every member has contributed to it, and a    *)
(* member that failed holds nothing.                                       *)
(***************************************************************************)
CONSTANTS Node, TheKey, NoKey

VARIABLES
    phase,          \* "idle", "working", "done" or "failed"
    contributed,    \* the members whose contribution has been published
    held            \* the key each member holds

abstractVars == <<phase, contributed, held>>

Init ==
    /\ phase = [n \in Node |-> "idle"]
    /\ contributed = {}
    /\ held = [n \in Node |-> NoKey]

Join(n) ==
    /\ phase[n] = "idle"
    /\ phase' = [phase EXCEPT ![n] = "working"]
    /\ contributed' = contributed \union {n}
    /\ UNCHANGED held

Finish(n) ==
    /\ phase[n] = "working"
    /\ contributed = Node
    /\ phase' = [phase EXCEPT ![n] = "done"]
    /\ held' = [held EXCEPT ![n] = TheKey]
    /\ UNCHANGED contributed

Fail(n) ==
    /\ phase[n] \in {"idle", "working"}
    /\ phase' = [phase EXCEPT ![n] = "failed"]
    /\ UNCHANGED <<contributed, held>>

Next == \E n \in Node : Join(n) \/ Finish(n) \/ Fail(n)

Spec == Init /\ [][Next]_abstractVars
===========================================================================
