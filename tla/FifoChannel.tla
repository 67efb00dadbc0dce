---------------------------- MODULE FifoChannel ----------------------------
(***************************************************************************)
(* What each layer of the client promises to the one above it: the items   *)
(* one side hands over come out at the other side once, whole and in order *)
(* (LinuxTCP for telegrams, PKTWrapper for the packets of one sender).     *)
(***************************************************************************)
EXTENDS Naturals, Sequences

VARIABLES
    sent,           \* the items handed over, in order
    received        \* the items that came out, in order

abstractVars == <<sent, received>>

Init == sent = <<>> /\ received = <<>>

Send ==
    /\ Len(sent') = Len(sent) + 1
    /\ SubSeq(sent', 1, Len(sent)) = sent
    /\ UNCHANGED received

Deliver ==
    /\ Len(received) < Len(sent)
    /\ received' = Append(received, sent[Len(received) + 1])
    /\ UNCHANGED sent

Next == Send \/ Deliver

Spec == Init /\ [][Next]_abstractVars
=============================================================================
