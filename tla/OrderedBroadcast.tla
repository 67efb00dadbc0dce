-------------------------- MODULE OrderedBroadcast --------------------------
(***************************************************************************)
(* What the key exchange assumes of the network (MKA.tla): there is one    *)
(* stream, every member gets a contiguous piece of it, in order, from the  *)
(* point where it attached, until it leaves or is dropped.                 *)
(***************************************************************************)
EXTENDS Naturals, SequencesExt

CONSTANT Member

VARIABLES
    stream,         \* everything that was ever published
    attached,       \* the members that are being served
    pieces,         \* what each member has been given, in order
    from            \* where in the stream the piece of each member starts

abstractVars == <<stream, attached, pieces, from>>

Init ==
    /\ stream = <<>>
    /\ attached = {}
    /\ pieces = [m \in Member |-> <<>>]
    /\ from = [m \in Member |-> 0]

Attach(m) ==
    /\ m \notin attached
    /\ attached' = attached \union {m}
    /\ from' = [from EXCEPT ![m] = Len(stream)]
    /\ pieces' = [pieces EXCEPT ![m] = <<>>]
    /\ UNCHANGED stream

\* The stream grows, and never changes otherwise.
Publish ==
    /\ IsPrefix(stream, stream')
    /\ UNCHANGED <<attached, pieces, from>>

Deliver(m) ==
    /\ m \in attached
    /\ \E k \in 1 .. Len(stream) - from[m] - Len(pieces[m]) :
          pieces' = [pieces EXCEPT ![m] =
              SubSeq(stream, from[m] + 1, from[m] + Len(pieces[m]) + k)]
    /\ UNCHANGED <<stream, attached, from>>

Leave(S) ==
    /\ S \subseteq attached
    /\ attached' = attached \ S
    /\ UNCHANGED <<stream, pieces, from>>

Next ==
    \/ Publish
    \/ \E m \in Member : Attach(m) \/ Deliver(m)
    \/ \E S \in SUBSET Member : Leave(S)

Spec == Init /\ [][Next]_abstractVars
=============================================================================
