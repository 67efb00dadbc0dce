---------------------------- MODULE RingBuffer ----------------------------
(***************************************************************************)
(* RingBuffer (ringbuffer.h): an array of cells, the place of the first    *)
(* byte and the number of bytes.  A write or a read that reaches the end   *)
(* of the array is done in two passes.  A cell whose byte was removed is   *)
(* Stale: nothing may read it before it is written again.  At the end, the *)
(* sizes of the telegrams (telegram.h) whose bytes the backends collect in *)
(* such a ring.                                                            *)
(***************************************************************************)
EXTENDS Integers, SequencesExt

CONSTANT RingSize       \* bufsize

ASSUME RingAssumption == RingSize \in Nat \ {0}

Stale == <<>>
EmptyRing == [buf |-> [c \in 0 .. RingSize - 1 |-> Stale], pstart |-> 0, plen |-> 0]

\* Variant: the second pass begins with the first byte of the data again.
WriteTwice(r, data) ==
    LET x == (r.pstart + r.plen) % RingSize
        delta == RingSize - x
        cell(c) == IF c >= x /\ c < x + Len(data) THEN data[c - x + 1]
                   ELSE IF c < Len(data) - delta THEN data[c + 1] ELSE r.buf[c]
    IN  IF r.plen + Len(data) > RingSize THEN r
        ELSE [r EXCEPT !.buf = [c \in DOMAIN @ |-> cell(c)], !.plen = @ + Len(data)]

\* All of the data or, when it does not fit, nothing; no caller looks at the
\* result.
RingWrite(r, data) ==
    LET x == (r.pstart + r.plen) % RingSize
        delta == RingSize - x
        cell(c) == IF c >= x /\ c < x + Len(data) THEN data[c - x + 1]
                   ELSE IF c < Len(data) - delta THEN data[c + delta + 1] ELSE r.buf[c]
    IN  IF r.plen + Len(data) > RingSize THEN r
        ELSE [r EXCEPT !.buf = [c \in DOMAIN @ |-> cell(c)], !.plen = @ + Len(data)]

\* The first len bytes.
RingPeek(r, len) ==
    LET delta == RingSize - r.pstart
    IN  [i \in 1 .. len |-> IF i <= delta THEN r.buf[r.pstart + i - 1] ELSE r.buf[i - delta - 1]]

RingRemove(r, len) ==
    LET gone == {(r.pstart + i) % RingSize : i \in 0 .. len - 1}
    IN  IF len > r.plen THEN r
        ELSE [buf |-> [c \in DOMAIN r.buf |-> IF c \in gone THEN Stale ELSE r.buf[c]],
              pstart |-> (r.pstart + len) % RingSize, plen |-> r.plen - len]

\* The bytes in the ring, from the first one.
Contents(r) == RingPeek(r, r.plen)

\* A ring of bytes: a cell that is in use holds one.
IsRing(r, Bytes) ==
    /\ r \in [buf : [0 .. RingSize - 1 -> Bytes \union {Stale}],
              pstart : 0 .. RingSize - 1, plen : 0 .. RingSize]
    /\ \A i \in 1 .. r.plen : Contents(r)[i] \in Bytes

-----------------------------------------------------------------------------
CONSTANTS
    Hdr,            \* tg_size::hdr (6)
    Payload,        \* tg_size::payload (15)
    RecvMax         \* bytes of one recv or read (128; 10 in the thread of MiosixTPUART)

\* A read always fits in the ring behind a telegram of which a byte is missing.
ASSUME TelegramAssumption ==
    /\ Hdr \in Nat \ {0} /\ Payload \in Nat \ {0} /\ RecvMax \in Nat \ {0}
    /\ RingSize >= RecvMax + Hdr + Payload

\* Header, body and checksum.
TelegramSize(body) == Hdr + body + 1

\* The first k items of a sequence, and the others.
First(s, k) == SubSeq(s, 1, k)
After(s, k) == SubSeq(s, k + 1, Len(s))
=============================================================================
