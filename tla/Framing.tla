------------------------------ MODULE Framing ------------------------------
(***************************************************************************)
(* LinuxTCP (backend/linux-tcp.h) and the plain serial backends LinuxUART  *)
(* and MiosixUSART: telegrams become a stream of bytes, and the other side *)
(* cuts the stream into telegrams again.  One recv() or read() gives any   *)
(* piece of what has arrived, up to RecvMax bytes; _process_packet appends *)
(* it to the ring buffer _pktbuffer and takes the complete telegrams from  *)
(* its front, in the same way in all three.  On Miosix a thread reads, and *)
(* update() takes all it has collected in _stream since the last one.      *)
(*                                                                         *)
(* A byte is its place: byte `at' of telegram number `tg'.  The last byte  *)
(* of the header holds the size of the body; any other byte read in its    *)
(* place gives any size.                                                   *)
(***************************************************************************)
EXTENDS RingBuffer

CONSTANT MaxTelegrams   \* bound on the telegrams of a run

ASSUME FramingAssumption == MaxTelegrams \in Nat

VARIABLES
    backend,        \* "tcp", "uart" or "usart"
    wire,           \* the bytes in flight
    collected,      \* _stream of MiosixUSART
    ring,           \* _pktbuffer
    parsing,        \* whether _process_packet is in its loop
    sent,           \* history: the telegrams broadcast
    starts,         \* history: the bytes broadcast before each, and in all
    received,       \* history: the telegrams pushed to _pkts, up to an overflow
    overflowed      \* history: RingBuffer::write has refused bytes

vars == <<backend, wire, collected, ring, parsing, sent, starts, received, overflowed>>

\* The bytes of the i-th telegram.
Telegram(i, body) == [k \in 1 .. TelegramSize(body) |-> [tg |-> i, at |-> k]]

\* The bytes of what was broadcast.
Byte == [tg : 1 .. Len(sent), at : 1 .. TelegramSize(Payload)]

TypeOK ==
    /\ backend \in {"tcp", "uart", "usart"}
    /\ wire \in Seq(Byte) /\ collected \in Seq(Byte)
    /\ IsRing(ring, Byte)
    /\ parsing \in BOOLEAN /\ overflowed \in BOOLEAN
    /\ sent \in Seq(Seq(Byte)) /\ received \in Seq(Seq(Byte))
    /\ starts \in Seq(Nat) /\ Len(starts) = Len(sent) + 1

Init ==
    /\ backend \in {"tcp", "uart", "usart"}
    /\ wire = <<>> /\ collected = <<>> /\ ring = EmptyRing /\ parsing = FALSE
    /\ sent = <<>> /\ starts = <<0>> /\ received = <<>> /\ overflowed = FALSE

\* broadcast(): the telegram goes out in one send() or write().
Broadcast(body) ==
    /\ Len(sent) < MaxTelegrams
    /\ LET t == Telegram(Len(sent) + 1, body)
       IN  /\ sent' = Append(sent, t)
           /\ wire' = wire \o t
           /\ starts' = Append(starts, starts[Len(starts)] + Len(t))
    /\ UNCHANGED <<backend, collected, ring, parsing, received, overflowed>>

\* _process_packet begins: the ring takes the bytes, or drops them all.
Buffer(bytes) ==
    /\ ring' = RingWrite(ring, bytes)
    /\ overflowed' = (overflowed \/ ring.plen + Len(bytes) > RingSize)
    /\ parsing' = TRUE

\* update() of LinuxTCP: one recv() of k bytes.
Recv(k) ==
    /\ ~ parsing /\ backend = "tcp"
    /\ k \in 1 .. RecvMax /\ k <= Len(wire)
    /\ Buffer(First(wire, k))
    /\ wire' = After(wire, k)
    /\ UNCHANGED <<backend, collected, sent, starts, received>>

\* update() of LinuxUART: one read() of k bytes.
UartRead(k) ==
    /\ ~ parsing /\ backend = "uart"
    /\ k \in 1 .. RecvMax /\ k <= Len(wire)
    /\ Buffer(First(wire, k))
    /\ wire' = After(wire, k)
    /\ UNCHANGED <<backend, collected, sent, starts, received>>

\* The receive thread of MiosixUSART; _mutex keeps it out of update().
ThreadRead(k) ==
    /\ ~ parsing /\ backend = "usart"
    /\ k \in 1 .. RecvMax /\ k <= Len(wire)
    /\ collected' = collected \o First(wire, k)
    /\ wire' = After(wire, k)
    /\ UNCHANGED <<backend, ring, parsing, sent, starts, received, overflowed>>

\* update() of MiosixUSART: everything the thread has collected.
UsartUpdate ==
    /\ ~ parsing /\ backend = "usart"
    /\ collected # <<>>
    /\ Buffer(collected)
    /\ collected' = <<>>
    /\ UNCHANGED <<backend, wire, sent, starts, received>>

\* Variant: the checksum byte is not counted.
SizesWithoutChecksum == {Len(sent[RingPeek(ring, Hdr)[Hdr].tg]) - 1}

\* The sizes of the telegram at the front that the header may give.
Sizes ==
    LET last == RingPeek(ring, Hdr)[Hdr]
    IN  IF last.at = Hdr THEN {Len(sent[last.tg])}
                         ELSE {TelegramSize(body) : body \in 0 .. Payload}

\* Variant: a telegram waits for the first byte of the next one.
CompleteLate(size) == ring.plen > size

Complete(size) == ring.plen >= size

\* One turn of the loop.
Cut ==
    /\ parsing
    /\ ring.plen >= Hdr + 1
    /\ \E size \in Sizes :
          /\ Complete(size)
          /\ received' = IF overflowed THEN received ELSE Append(received, RingPeek(ring, size))
          /\ ring' = RingRemove(ring, size)
    /\ UNCHANGED <<backend, wire, collected, parsing, sent, starts, overflowed>>

EndCut ==
    /\ parsing
    /\ ring.plen >= Hdr + 1 => \E size \in Sizes : ~ Complete(size)
    /\ parsing' = FALSE
    /\ UNCHANGED <<backend, wire, collected, ring, sent, starts, received, overflowed>>

Next ==
    \/ \E body \in 0 .. Payload : Broadcast(body)
    \/ \E k \in 1 .. RecvMax : Recv(k) \/ UartRead(k) \/ ThreadRead(k)
    \/ UsartUpdate \/ Cut \/ EndCut

Spec == Init /\ [][Next]_vars
-----------------------------------------------------------------------------
\* However the stream is split by recv(), the telegrams come out once, whole
\* and in order (_process_packet), where the ring buffer wraps around too; only
\* what a slow update() lets pile up in _stream can overflow it.
Channel == INSTANCE FifoChannel
ImplementsChannel == Channel!Spec /\ [](backend # "usart" => ~ overflowed)

\* After an update() a telegram whose bytes have all arrived is in _pkts: it
\* never waits in the ring for the bytes of the next one.
NothingHeldBack == ~ parsing /\ ~ overflowed => \A i \in DOMAIN sent :
    (\A b \in Range(wire) \union Range(collected) : b.tg # i) => i <= Len(received)

\* The bytes on their way, from the first that was not cut off yet.
Transit == Contents(ring) \o (collected \o wire)

\* bytes are those of the telegrams after the first done ones, all of them.
Laid(bytes, telegrams, begins, done) ==
    /\ done <= Len(telegrams)
    /\ Len(bytes) = begins[Len(telegrams) + 1] - begins[done + 1]
    /\ \A i \in done + 1 .. Len(telegrams) : \A k \in 1 .. Len(telegrams[i]) :
          bytes[begins[i] - begins[done + 1] + k] = [tg |-> i, at |-> k]

Begins(telegrams, begins) ==
    /\ begins[1] = 0
    /\ \A i \in 1 .. Len(telegrams) : begins[i + 1] = begins[i] + Len(telegrams[i])
    /\ \A i, j \in 1 .. Len(telegrams) + 1 : i <= j => begins[i] <= begins[j]

\* What a call of _process_packet leaves in the ring is less than a telegram.
Drained == ~ parsing /\ Len(received) < Len(sent) => ring.plen < Len(sent[Len(received) + 1])

\* The inductive invariant (_process_packet, RingBuffer): until the ring has
\* refused bytes, what is in it and behind it is what was sent and not cut off.
IInv ==
    /\ TypeOK
    /\ \A i \in 1 .. Len(sent) : \E body \in 0 .. Payload : sent[i] = Telegram(i, body)
    /\ Begins(sent, starts)
    /\ collected # <<>> => backend = "usart"
    /\ overflowed => backend = "usart"
    /\ ~ overflowed => Laid(Transit, sent, starts, Len(received)) /\ Drained
=============================================================================
