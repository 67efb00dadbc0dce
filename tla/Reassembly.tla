---------------------------- MODULE Reassembly ----------------------------
(***************************************************************************)
(* PKTWrapper (pktwrapper.h) at one receiver: each sender cuts its packets *)
(* into telegrams, the telegrams of the senders reach the receiver in any  *)
(* interleaving that keeps the order of each, and the receiver puts them   *)
(* together again in one ring buffer per sender, out of a pool             *)
(* (multirings.h).                                                         *)
(*                                                                         *)
(* A packet is a header (command and size) and a body; a byte is its place *)
(* `at' in packet number `pkt' of its sender.                              *)
(***************************************************************************)
EXTENDS Integers, SequencesExt, FiniteSetsExt

CONSTANTS
    Source,         \* the senders
    NoSource,
    Header,         \* bytes of the header of a packet (3)
    Payload,        \* tg_size::payload (15)
    RingSize,       \* the size of a ring buffer (1024)
    Pools,          \* the sizes of the pool of rings (max_clients of PKTWrapper)
    Bodies,         \* the sizes of the bodies that are sent
    MaxPackets,     \* bound on the packets of one sender
    CanCorrupt      \* whether a telegram may arrive with a wrong checksum

ASSUME ReassemblyAssumption ==
    /\ NoSource \notin Source
    /\ Header \in Nat \ {0} /\ Payload \in Nat \ {0}
    /\ Pools \subseteq Nat \ {0}
    /\ RingSize \in Nat /\ RingSize >= Header + Payload
    /\ Bodies \subseteq Nat /\ MaxPackets \in Nat
    /\ CanCorrupt \in BOOLEAN

VARIABLES
    mMaxRings,      \* the size of the pool, set by the constructor
    written,        \* history: the packets each sender wrote
    meant,          \* history: the numbers of those for this receiver
    line,           \* the telegrams of each sender on their way
    rings,          \* the rings in use: sender -> content
    current,        \* the sender whose ring _recompose is emptying
    got,            \* history: the packets of each sender pushed to _in
    damaged         \* history: the senders a telegram of whom was discarded

vars == <<mMaxRings, written, meant, line, rings, current, got, damaged>>

\* The broadcast address and the own id are one case.
Dest == {"mine", "other"}
Written == [dest : Dest, body : Bodies]
Byte == [pkt : Nat \ {0}, at : Nat \ {0}]
Telegram == [dest : Dest, bytes : Seq(Byte)]

TypeOK ==
    /\ mMaxRings \in Pools
    /\ written \in [Source -> Seq(Written)] /\ meant \in [Source -> Seq(Nat)]
    /\ DOMAIN rings \subseteq Source /\ IsFiniteSet(DOMAIN rings)
    /\ Cardinality(DOMAIN rings) <= mMaxRings
    /\ rings = [s \in DOMAIN rings |-> rings[s]]
    /\ \A s \in DOMAIN rings : /\ rings[s] \in Seq(Byte) /\ Len(rings[s]) <= RingSize
                               /\ \A k \in DOMAIN rings[s] : rings[s][k].pkt \in DOMAIN written[s]
    /\ current \in DOMAIN rings \union {NoSource}
    /\ got \in [Source -> Seq(Seq(Byte))]
    /\ damaged \subseteq Source
    /\ line \in [Source -> Seq(Telegram)]
    /\ \A s \in Source : \A i \in DOMAIN line[s] : Len(line[s][i].bytes) \in 1 .. Payload

Init ==
    /\ mMaxRings \in Pools
    /\ written = [s \in Source |-> <<>>] /\ meant = [s \in Source |-> <<>>]
    /\ line = [s \in Source |-> <<>>]
    /\ rings = [s \in {} |-> <<>>]
    /\ current = NoSource
    /\ got = [s \in Source |-> <<>>]
    /\ damaged = {}
-----------------------------------------------------------------------------
\* The bytes of packet i of a sender, with a body of the given size.
Packet(i, body) == [k \in 1 .. Header + body |-> [pkt |-> i, at |-> k]]

\* _packetize: telegrams of Payload bytes and what is left in a last one.
Packetize(bytes) ==
    LET count == (Len(bytes) + Payload - 1) \div Payload
    IN  [i \in 1 .. count |->
            SubSeq(bytes, (i - 1) * Payload + 1, Min({i * Payload, Len(bytes)}))]

\* write()
Write(s, dest, body) ==
    /\ Len(written[s]) < MaxPackets
    /\ written' = [written EXCEPT ![s] = Append(@, [dest |-> dest, body |-> body])]
    /\ meant' = [meant EXCEPT ![s] = IF dest = "other" THEN @ ELSE Append(@, Len(written[s]) + 1)]
    /\ LET parts == Packetize(Packet(Len(written[s]) + 1, body))
       IN  line' = [line EXCEPT ![s] = @ \o
                [i \in DOMAIN parts |-> [dest |-> dest, bytes |-> parts[i]]]]
    /\ UNCHANGED <<mMaxRings, rings, current, got, damaged>>
-----------------------------------------------------------------------------
Arrives(s) ==
    /\ current = NoSource
    /\ line[s] # <<>>
    /\ line' = [line EXCEPT ![s] = Tail(@)]

\* update(): a telegram for somebody else is not looked at.
Skip(s) ==
    /\ Arrives(s)
    /\ Head(line[s]).dest = "other"
    /\ UNCHANGED <<mMaxRings, written, meant, rings, current, got, damaged>>

\* A telegram with a wrong checksum is discarded.
Corrupted(s) ==
    /\ CanCorrupt
    /\ Arrives(s)
    /\ Head(line[s]).dest # "other"
    /\ damaged' = damaged \union {s}
    /\ UNCHANGED <<mMaxRings, written, meant, rings, current, got>>

\* Variant: the garbage collector frees a ring that is not empty.
KeptNone == {}

\* garbage_collect(): the rings that stay, those with a packet in progress.
Kept == {t \in DOMAIN rings : rings[t] # <<>>}

\* MultiRings::get when the sender has no ring and all are in use.
Exhausted(s) ==
    /\ s \notin DOMAIN rings
    /\ Cardinality(DOMAIN rings) = mMaxRings
    /\ Cardinality(Kept) = mMaxRings

\* The rings once MultiRings::get has found or made one for the sender.
WithRing(s) ==
    IF s \in DOMAIN rings THEN rings
    ELSE LET kept == IF Cardinality(DOMAIN rings) < mMaxRings THEN DOMAIN rings ELSE Kept
         IN  [t \in kept \union {s} |-> IF t \in kept THEN rings[t] ELSE <<>>]

\* _recompose: the telegram goes to the ring of its sender.
Recompose(s) ==
    /\ Arrives(s)
    /\ Head(line[s]).dest # "other"
    /\ ~ Exhausted(s)
    /\ LET ring == WithRing(s)
           body == Head(line[s]).bytes
           fits == Len(ring[s]) + Len(body) <= RingSize
       IN  /\ rings' = IF fits THEN [ring EXCEPT ![s] = @ \o body] ELSE ring
           /\ damaged' = IF fits THEN damaged ELSE damaged \union {s}
    /\ current' = s
    /\ UNCHANGED <<mMaxRings, written, meant, got>>

\* "RingBuffer just gone out of memory": the telegram is discarded.
OutOfRings(s) ==
    /\ Arrives(s)
    /\ Head(line[s]).dest # "other"
    /\ Exhausted(s)
    /\ damaged' = damaged \union {s}
    /\ UNCHANGED <<mMaxRings, written, meant, rings, current, got>>

\* The size the first Header bytes of a ring give: that of the packet when
\* they are its header, anything when a telegram was lost before them.
DataSizes(s) ==
    LET q == rings[s]
    IN  IF \A k \in 1 .. Header : q[k] = [pkt |-> q[1].pkt, at |-> k]
        THEN {written[s][q[1].pkt].body}
        ELSE Bodies \union {0, RingSize}

\* Variant: the header is not counted.
WholeWithoutHeader(s, size) == Len(rings[s]) >= size

Whole(s, size) == Len(rings[s]) >= Header + size

\* One turn of the loop: a complete packet is taken from the ring.
Take ==
    /\ current # NoSource
    /\ Len(rings[current]) >= Header
    /\ \E size \in DataSizes(current) :
          /\ Whole(current, size)
          /\ LET taken == Min({Header + size, Len(rings[current])})
             IN  /\ got' = [got EXCEPT ![current] =
                            Append(@, SubSeq(rings[current], 1, taken))]
                 /\ rings' = [rings EXCEPT ![current] = SubSeq(@, taken + 1, Len(@))]
    /\ UNCHANGED <<mMaxRings, written, meant, line, current, damaged>>

EndTake ==
    /\ current # NoSource
    /\ Len(rings[current]) >= Header =>
          \E size \in DataSizes(current) : ~ Whole(current, size)
    /\ current' = NoSource
    /\ UNCHANGED <<mMaxRings, written, meant, line, rings, got, damaged>>

Next ==
    \/ \E s \in Source :
          \/ \E dest \in Dest, body \in Bodies : Write(s, dest, body)
          \/ Skip(s) \/ Corrupted(s) \/ Recompose(s) \/ OutOfRings(s)
    \/ Take \/ EndTake

Spec == Init /\ [][Next]_vars
-----------------------------------------------------------------------------
\* What a sender wrote for this receiver.
Wanted(s) == [i \in DOMAIN meant[s] |-> Packet(meant[s][i], written[s][meant[s][i]].body)]

\* Whatever the interleaving of the senders, and whatever is discarded of
\* others, the packets of each sender come out once, whole and in order, as
\* long as none of its own telegrams is discarded (write() at one side,
\* read() at the other).
Channel(s) == INSTANCE FifoChannel WITH sent <- Wanted(s), received <- got[s]
ImplementsChannels ==
    /\ \A s \in Source : Channel(s)!Init
    /\ [][\A s \in Source \ damaged' :
              Channel(s)!Next \/ UNCHANGED Channel(s)!abstractVars]_vars

\* A packet of such a sender never waits in its ring: when its telegrams have
\* all arrived it is in _in.
Isolation == TypeOK /\ \A s \in Source \ damaged :
    line[s] = <<>> /\ current = NoSource => got[s] = Wanted(s)

\* Apart from wrong checksums, a telegram is discarded in two cases only: as
\* many other senders as there are rings are in the middle of a packet, or
\* the sender's own packet is larger than a ring.
LossOnlyWhenFull == [][\A s \in damaged' \ damaged :
    \/ Corrupted(s)
    \/ Cardinality({t \in DOMAIN rings \ {s} : rings[t] # <<>>}) = mMaxRings
    \/ \E p \in Range(written[s]) : Header + p.body > RingSize]_vars

\* The place of the next byte: where the telegrams on the line go on, or the
\* packet that is not written yet.
SizeOf(w, p)   == Header + w[p].body
Place(p, a)    == [pkt |-> p, at |-> a]
Following(w, l, i) == IF i < Len(l) THEN l[i + 1].bytes[1] ELSE Place(Len(w) + 1, 1)

\* The telegrams l on the line are those of the packets w, one after the other
\* without a gap, up to the last packet.
Gapless(w, l) == \A i \in DOMAIN l :
    LET t    == l[i]
        p    == t.bytes[1].pkt
        last == t.bytes[1].at + Len(t.bytes) - 1
    IN  /\ p \in DOMAIN w /\ t.dest = w[p].dest /\ last <= SizeOf(w, p)
        /\ \A k \in DOMAIN t.bytes : t.bytes[k] = Place(p, t.bytes[1].at + k - 1)
        /\ Following(w, l, i) = IF last = SizeOf(w, p) THEN Place(p + 1, 1) ELSE Place(p, last + 1)

\* m are the numbers of the packets for this receiver, in order.
Numbers(w, m) ==
    /\ \A p \in DOMAIN w : w[p].dest # "other" <=> \E i \in DOMAIN m : m[i] = p
    /\ \A i \in DOMAIN m : m[i] \in DOMAIN w
    /\ \A i, j \in DOMAIN m : i < j => m[i] < m[j]

\* Of the packets for this receiver those before packet p have come out.
OutBefore(w, m, g, p) ==
    /\ \A i \in DOMAIN m : i <= Len(g) <=> m[i] < p
    /\ Len(g) <= Len(m) /\ \A i \in DOMAIN g : g[i] = Packet(m[i], w[m[i]].body)

\* q are the first n bytes of packet p.
Holds(q, p, n) == Len(q) = n /\ \A k \in 1 .. n : q[k] = Place(p, k)

\* Between two calls of _recompose: the ring q of a sender holds what arrived
\* of the packet that is on its way, and everything before it has come out.
Between(w, l, m, q, g) ==
    LET next == Following(w, l, 0)
        own  == next.pkt \in DOMAIN w /\ w[next.pkt].dest # "other"
    IN  OutBefore(w, m, g, next.pkt) /\ Holds(q, next.pkt, IF own THEN next.at - 1 ELSE 0)

\* In _recompose, before read() can have the packet that is complete.
Complete(w, l, m, q, g) ==
    LET next == Following(w, l, 0)
        p    == next.pkt - 1
    IN  /\ next.at = 1 /\ p \in DOMAIN w /\ w[p].dest # "other"
        /\ OutBefore(w, m, g, p) /\ Holds(q, p, SizeOf(w, p))

RingOf(s) == IF s \in DOMAIN rings THEN rings[s] ELSE <<>>

\* Nothing of a sender none of whose telegrams was discarded is lost, doubled
\* or out of its place.
InPlace(s) ==
    \/ Between(written[s], line[s], meant[s], RingOf(s), got[s])
    \/ current = s /\ Complete(written[s], line[s], meant[s], RingOf(s), got[s])

\* The inductive invariant (_recompose, MultiRings).
IInv ==
    /\ TypeOK
    /\ \A s \in Source :
          /\ Gapless(written[s], line[s]) /\ Numbers(written[s], meant[s])
          /\ s \notin damaged => InPlace(s)
=============================================================================
