---------------------------- MODULE MCExchanges ----------------------------
(***************************************************************************)
(* Instances of Exchanges for TLC.                                         *)
(***************************************************************************)
EXTENDS Exchanges

\* Distinct secrets, none of which makes an intermediate point zero.
MCSecret == [n \in Node |-> 2 * n + 1]

\* Groups of two and three for each, and of four where that is not too many
\* states: with four, a member of GDH2 other than the second and the last
\* extends the list.
MCCases ==
    [algorithm : {"BD1", "BD2", "GDH2"}, group : {{2, 3}, {1, 2, 3}}]
        \union [algorithm : {"BD2", "GDH2"}, group : {{1, 2, 3, 4}}]
=============================================================================
