-------------------------------- MODULE BD1 --------------------------------
(***************************************************************************)
(* BD1KeyExchange (crypto/bd1.h, sban/src/bd1.c): the members form a ring  *)
(* in the order of their ids.  Each broadcasts Z = r*G, then               *)
(* X = r*(Z of the next - Z of the previous one), and computes from its    *)
(* own r, one Z and all X the sum of r_i * r_(i+1) around the ring.        *)
(***************************************************************************)
EXTENDS ExchangeHost

Zs == {"prev", "next"}

\* _Zi with _recvZcnt, whether the own X is out, and _X_keys.
Mem(n) == [z : UNION {[S -> Point] : S \in SUBSET Zs}, sentX : BOOLEAN,
        xs : Seq([id : Node, x : Point])]

Start(n) ==
    \/ Begin(n, [z |-> [s \in {} |-> 0], sentX |-> FALSE, xs |-> <<>>],
             <<ToAll("Zi", n, Secret[n])>>)
    \/ BeginFails(n)

\* Which of the two places of _Zi a Z goes to (both in a group of two).
From(n, packet) ==
    {s \in Zs : packet.src = IF s = "prev" THEN Prev(n) ELSE Following(n)}

\* The loop of update().
Stored(n, packet) ==
    IF packet.cmd = "Zi"
    THEN LET places == From(n, packet)
         IN  [mem[n] EXCEPT !.z = [s \in DOMAIN @ \union places |->
                                      IF s \in places THEN packet.val ELSE @[s]]]
    ELSE [mem[n] EXCEPT !.xs = Append(@, [id |-> packet.src, x |-> packet.val])]

\* bd1_gen_value
GenValue(n, m) == (Secret[n] * (m.z["next"] + P - m.z["prev"])) % P

\* _recvZcnt == 3 for the first time: the own X is made and joins the others.
MakesX(m) == DOMAIN m.z = Zs /\ ~ m.sentX
WithX(n, m) ==
    IF MakesX(m)
    THEN [m EXCEPT !.sentX = TRUE, !.xs = Append(@, [id |-> n, x |-> GenValue(n, m)])]
    ELSE m

\* Variant: the smaller ids come before the larger ones.
RingAfterSorted(n) == SetToSortSeq(Smaller(n), <) \o SetToSortSeq(Larger(n), <)

\* The order in which the X of the others are laid out.
RingAfter(n) == SetToSortSeq(Larger(n), <) \o SetToSortSeq(Smaller(n), <)

XOf(m, id) == m.xs[CHOOSE i \in DOMAIN m.xs : m.xs[i].id = id].x

\* bd1_compute_key
ComputeKey(n, m) ==
    LET others == RingAfter(n)
        weighted == [i \in 1 .. N - 2 |-> (N - 1 - i) * XOf(m, others[i])]
    IN  (N * Secret[n] * m.z["prev"]
         + (IF N = 2 THEN 0 ELSE (N - 1) * XOf(m, n))
         + FoldFunction(LAMBDA x, y : x + y, 0, weighted)) % P

Receive(n) == \E i \in DOMAIN log :
    /\ phase[n] = "running"
    /\ Reads(n, i)
    /\ LET got == Stored(n, log[i])
           m == WithX(n, got)
           sends == IF MakesX(got) THEN <<ToAll("Xi", n, GenValue(n, got))>> ELSE <<>>
       IN  \/ Len(m.xs) < N /\ GoesOn(n, m, sends)
           \/ Len(m.xs) = N /\ Completes(n, m, sends, ComputeKey(n, m))
           \/ (MakesX(got) \/ Len(m.xs) = N) /\ Fails(n)

\* The key of the group.
TheKey == FoldFunction(LAMBDA x, y : (x + y) % P, 0,
              [n \in Node |-> Secret[n] * Secret[Following(n)]])
=============================================================================
