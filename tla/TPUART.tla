------------------------------- MODULE TPUART -------------------------------
(***************************************************************************)
(* LinuxTPUART and MiosixTPUART (backend/linux-tpuart.h, miosix-tpuart.h): *)
(* telegrams over the serial line to a TP-UART, the chip between a device  *)
(* and the KNX bus.  The driver writes commands to the chip; the chip      *)
(* sends what it hears on the bus, the driver's own telegrams included,    *)
(* and puts its answers between the telegrams: a reset indication, the     *)
(* status, the confirmation of a telegram, an error code.                  *)
(*                                                                         *)
(* The answers have no frame: what a byte means depends on where the       *)
(* parser is.  Read out of step, the bytes of a telegram may look like     *)
(* anything.  On Miosix a thread of its own reads the line into _stream.   *)
(***************************************************************************)
EXTENDS RingBuffer, FiniteSets

CONSTANTS
    ResetTries, ResetReads,  \* n_tries, nn_tries (5, 5)
    OutputMax,               \* output_max_size (16)
    MaxEvents                \* bound: own telegrams, telegrams of others and errors

ASSUME TPUARTAssumption ==
    /\ ResetTries \in Nat \ {0} /\ ResetReads \in Nat \ {0} /\ OutputMax \in Nat
    /\ MaxEvents \in Nat

VARIABLES
    port,           \* "linux" or "miosix"
    stage,          \* what the driver is doing; see Stages
    tries, reads,   \* the counters of _reset
    output,         \* _output
    outgoing,       \* _is_packet_outgoing
    strm,           \* _stream of MiosixTPUART
    pktbuffer,      \* _pktbuffer
    chip,           \* the commands written to the chip
    line,           \* the bytes on their way from the chip
    errors,         \* history: error codes so far
    accepted,       \* history: the own telegrams broadcast() took
    onBus,          \* history: the own telegrams the chip has dealt with
    heard,          \* history: the telegrams of others the chip passed on
    pushed,         \* history: the telegrams pushed to _pkts
    lost            \* history: bytes went elsewhere than to the parser
driverVars == <<port, stage, tries, reads, output, outgoing, strm, pktbuffer>>
worldVars  == <<chip, line, errors, onBus, heard>>
tpuartVars == <<driverVars, worldVars, accepted, pushed, lost>>

\* "refused" is a device of Miosix whose init() failed and left it locked.
Stages == {"closed", "reset", "status", "open", "parsing", "refused", "down"}

\* A telegram, and the bytes the chip makes of it.
Own(n)   == [from |-> "own", n |-> n, body |-> 0, good |-> TRUE]
Others   == [from : {"other"}, n : 1 .. MaxEvents, body : 0 .. Payload, good : BOOLEAN]
Size(t)  == TelegramSize(t.body)
Bytes(t) == [k \in 1 .. Size(t) |-> [kind |-> "data", of |-> t, at |-> k]]
Answer(kind) == <<[kind |-> kind]>>

\* What the driver writes to the chip.
Command(name) == [name |-> name]
SendOf(t)     == [name |-> "send", telegram |-> t]

\* Variant: an error code is not recognised.
LooksWithoutErrors(b, class) ==
    CASE b.kind = "confirm"             -> class = "confirm"
      [] b.kind \in {"status", "error", "reset"} -> class = "unknown"
      [] b.kind = "data"                -> b.at > 1 \/ class = "data"

\* Whether the byte, read where an opcode is expected, may be taken for one of
\* the class: anything inside a telegram may.
Looks(b, class) ==
    CASE b.kind = "confirm"             -> class = "confirm"
      [] b.kind \in {"status", "error"} -> class = "error"
      [] b.kind = "reset"               -> class = "unknown"
      [] b.kind = "data"                -> b.at > 1 \/ class = "data"
\* The value a byte inside a telegram has is any.
MayBe(b, kind) == b.kind = kind \/ (b.kind = "data" /\ b.at > 1)

MoreEvents == Len(accepted) + Len(heard) + errors < MaxEvents

TInit ==
    /\ port \in {"linux", "miosix"}
    /\ stage = "closed" /\ tries = 0 /\ reads = 0
    /\ output = <<>> /\ outgoing = FALSE /\ strm = <<>> /\ pktbuffer = EmptyRing
    /\ chip = <<>> /\ line = <<>> /\ errors = 0
    /\ accepted = <<>> /\ onBus = <<>> /\ heard = <<>> /\ pushed = <<>> /\ lost = FALSE
-----------------------------------------------------------------------------
(* init() *)
WriteReset == chip' = Append(chip, Command("reset")) /\ reads' = ResetReads

Open ==
    /\ stage = "closed"
    /\ stage' = "reset" /\ tries' = ResetTries /\ WriteReset
    /\ UNCHANGED <<port, output, outgoing, strm, pktbuffer, line, errors, onBus, heard,
                   accepted, pushed, lost>>

\* What is left behind when init() fails reaches a later one.
InitFails ==
    /\ stage' = IF port = "linux" THEN "closed" ELSE "refused"
    /\ lost' = TRUE

\* One byte is read as an answer to the command before.
ReadAnswer == line # <<>> /\ line' = Tail(line)
Swallowed  == lost' = (lost \/ Head(line).kind = "data")

ResetDone ==
    /\ stage = "reset" /\ ReadAnswer /\ MayBe(Head(line), "reset")
    /\ chip' = chip \o <<Command("address"), Command("status")>>   \* _set_address, _check_status
    /\ stage' = "status" /\ Swallowed
    /\ UNCHANGED <<port, tries, reads, output, outgoing, strm, pktbuffer, errors, onBus, heard,
                   accepted, pushed>>

ResetAgain ==
    /\ stage = "reset" /\ ReadAnswer /\ Head(line).kind # "reset"
    /\ \/ reads > 1 /\ reads' = reads - 1 /\ Swallowed /\ UNCHANGED <<stage, tries, chip>>
       \/ /\ reads = 1 /\ tries > 1
          /\ tries' = tries - 1 /\ WriteReset /\ Swallowed /\ UNCHANGED stage
       \/ reads = 1 /\ tries = 1 /\ InitFails /\ UNCHANGED <<tries, reads, chip>>
    /\ UNCHANGED <<port, output, outgoing, strm, pktbuffer, errors, onBus, heard,
                   accepted, pushed>>

\* A late answer to a reset, or a 0x00.
StatusAgain ==
    /\ stage = "status" /\ ReadAnswer
    /\ MayBe(Head(line), "reset") /\ Swallowed
    /\ UNCHANGED <<driverVars, chip, errors, onBus, heard, accepted, pushed>>

CheckStatus ==
    /\ stage = "status" /\ ReadAnswer
    /\ \/ MayBe(Head(line), "status") /\ stage' = "open" /\ Swallowed
       \/ Head(line).kind \notin {"reset", "status"} /\ InitFails
    /\ UNCHANGED <<port, tries, reads, output, outgoing, strm, pktbuffer, chip, errors, onBus,
                   heard, accepted, pushed>>

\* The program shuts a backend down once, at the end.
ShutdownTPUART ==
    /\ stage \in {"closed", "open", "refused"}
    /\ stage' = "down" /\ lost' = TRUE
    /\ UNCHANGED <<port, tries, reads, output, outgoing, strm, pktbuffer, worldVars,
                   accepted, pushed>>
-----------------------------------------------------------------------------
(* broadcast(), update() *)

\* Refused, and nothing else, when more than OutputMax telegrams wait.
BroadcastTPUART ==
    /\ stage = "open" \/ (port = "linux" /\ stage \in {"closed", "down"})
    /\ MoreEvents
    /\ Len(output) <= OutputMax
    /\ output' = Append(output, Own(Len(accepted) + 1))
    /\ accepted' = Append(accepted, Own(Len(accepted) + 1))
    /\ UNCHANGED <<port, stage, tries, reads, outgoing, strm, pktbuffer, worldVars, pushed, lost>>

\* Variant: the telegram before need not be confirmed.
ProcessOutgoingAtOnce ==
    IF output # <<>>
    THEN outgoing' = TRUE /\ output' = Tail(output) /\ chip' = Append(chip, SendOf(Head(output)))
    ELSE UNCHANGED <<outgoing, output, chip>>

\* _process_outgoing and _send_telegram: two bytes to the chip for each byte.
ProcessOutgoing ==
    IF ~ outgoing /\ output # <<>>
    THEN outgoing' = TRUE /\ output' = Tail(output) /\ chip' = Append(chip, SendOf(Head(output)))
    ELSE UNCHANGED <<outgoing, output, chip>>

\* _process_packet begins; bytes that do not fit are dropped.
Feed(bytes) ==
    /\ pktbuffer' = RingWrite(pktbuffer, bytes)
    /\ lost' = (lost \/ pktbuffer.plen + Len(bytes) > RingSize)
    /\ stage' = IF bytes = <<>> THEN "open" ELSE "parsing"

\* One read() of k bytes, or a select() that has waited in vain.
UpdateLinux(k) ==
    /\ stage = "open" /\ port = "linux"
    /\ k \in 0 .. RecvMax /\ k <= Len(line) /\ (k = 0 => line = <<>>)
    /\ ProcessOutgoing
    /\ Feed(First(line, k)) /\ line' = After(line, k)
    /\ UNCHANGED <<port, tries, reads, strm, errors, onBus, heard, accepted, pushed>>

UpdateMiosix ==
    /\ stage = "open" /\ port = "miosix"
    /\ ProcessOutgoing
    /\ Feed(strm) /\ strm' = <<>>
    /\ UNCHANGED <<port, tries, reads, line, errors, onBus, heard, accepted, pushed>>

\* _miosix_tpuart_recv_thread; _mutex keeps it out of update().
ThreadPush(k) ==
    /\ stage = "open" /\ port = "miosix"
    /\ k \in 1 .. RecvMax /\ k <= Len(line)
    /\ strm' = strm \o First(line, k) /\ line' = After(line, k)
    /\ UNCHANGED <<port, stage, tries, reads, output, outgoing, pktbuffer, chip, errors, onBus,
                   heard, accepted, pushed, lost>>

(* One turn of the loop of _process_packet.  A byte that is no confirmation, *)
(* no error and no data packet is not removed: the loop goes on for ever.    *)
Opcode == RingPeek(pktbuffer, 1)[1]

\* Variant: a confirmation is only removed.
ConfirmIgnored ==
    /\ stage = "parsing" /\ pktbuffer.plen > 0
    /\ Looks(Opcode, "confirm")
    /\ pktbuffer' = RingRemove(pktbuffer, 1)
    /\ UNCHANGED <<port, stage, tries, reads, output, outgoing, strm, worldVars, accepted, pushed, lost>>

Confirm ==
    /\ stage = "parsing" /\ pktbuffer.plen > 0
    /\ Looks(Opcode, "confirm")
    /\ outgoing' = FALSE
    /\ pktbuffer' = RingRemove(pktbuffer, 1)
    /\ UNCHANGED <<port, stage, tries, reads, output, strm, worldVars, accepted, pushed, lost>>

ErrorCode ==
    /\ stage = "parsing" /\ pktbuffer.plen > 0
    /\ Looks(Opcode, "error")
    /\ pktbuffer' = RingRemove(pktbuffer, 1)
    /\ UNCHANGED <<port, stage, tries, reads, output, outgoing, strm, worldVars, accepted, pushed, lost>>

\* The sizes the last byte of the header may give.
DataSizes ==
    LET last == RingPeek(pktbuffer, Hdr)[Hdr]
    IN  IF last.kind = "data" /\ last.at = Hdr THEN {Size(last.of)}
        ELSE {TelegramSize(body) : body \in 0 .. Payload}

\* Variant: the echo of an own telegram is not told apart.
IsPushedEcho(bytes) ==
    LET t == bytes[1].of
    IN  IF bytes = Bytes(t) THEN {t.good} ELSE BOOLEAN

\* Not an echo of one's own, and check(); what was cut out of step may pass.
IsPushed(bytes) ==
    LET t == bytes[1].of
    IN  IF bytes = Bytes(t) THEN {t.from # "own" /\ t.good} ELSE BOOLEAN

DataPacket ==
    /\ stage = "parsing" /\ pktbuffer.plen >= Hdr
    /\ Looks(Opcode, "data")
    /\ \E size \in DataSizes :
          /\ size <= pktbuffer.plen
          /\ \E push \in IsPushed(RingPeek(pktbuffer, size)) :
                pushed' = IF push THEN Append(pushed, RingPeek(pktbuffer, size)) ELSE pushed
          /\ pktbuffer' = RingRemove(pktbuffer, size)
    /\ UNCHANGED <<port, stage, tries, reads, output, outgoing, strm, worldVars, accepted, lost>>

EndParsing ==
    /\ stage = "parsing"
    /\ pktbuffer.plen > 0 =>
          /\ Looks(Opcode, "data")
          /\ pktbuffer.plen >= Hdr => \E size \in DataSizes : size > pktbuffer.plen
    /\ stage' = "open"
    /\ UNCHANGED <<port, tries, reads, output, outgoing, strm, pktbuffer, worldVars,
                   accepted, pushed, lost>>
-----------------------------------------------------------------------------
(* The chip and the bus. *)
ChipAnswers ==
    /\ chip # <<>> /\ chip' = Tail(chip)
    /\ \/ Head(chip).name = "reset"   /\ line' = line \o Answer("reset")  /\ UNCHANGED onBus
       \/ Head(chip).name = "address" /\ UNCHANGED <<line, onBus>>
       \/ Head(chip).name = "status"  /\ line' = line \o Answer("status") /\ UNCHANGED onBus
       \/ /\ Head(chip).name = "send"
          /\ onBus' = Append(onBus, Head(chip).telegram)
          /\ \E echoed \in BOOLEAN :     \* a telegram nobody acknowledged is echoed too
                line' = line \o (IF echoed THEN Bytes(Head(chip).telegram) ELSE <<>>) \o Answer("confirm")
    /\ UNCHANGED <<driverVars, errors, heard, accepted, pushed, lost>>

Hears ==
    /\ stage \in {"reset", "status", "open", "parsing"}
    /\ MoreEvents
    /\ \E t \in Others : /\ t.n = Len(heard) + 1
                         /\ heard' = Append(heard, t) /\ line' = line \o Bytes(t)
    /\ UNCHANGED <<driverVars, chip, errors, onBus, accepted, pushed, lost>>

ReportsError ==
    /\ stage \in {"reset", "status", "open", "parsing"}
    /\ MoreEvents /\ errors' = errors + 1
    /\ line' = line \o Answer("error")
    /\ UNCHANGED <<driverVars, chip, onBus, heard, accepted, pushed, lost>>

\* The chip loses its supply for a moment.
Restarts ==
    /\ stage \in {"open", "parsing"}
    /\ chip' = <<>> /\ line' = line \o Answer("reset") /\ lost' = TRUE
    /\ UNCHANGED <<driverVars, errors, onBus, heard, accepted, pushed>>

Parse == Confirm \/ ErrorCode \/ DataPacket \/ EndParsing
UpdateTPUART == UpdateMiosix \/ \E k \in 0 .. RecvMax : UpdateLinux(k)
\* A run is followed up to its first loss: nothing is promised after it.
TNext == ~ lost /\
    (\/ Open \/ ResetDone \/ ResetAgain \/ StatusAgain \/ CheckStatus \/ ShutdownTPUART
     \/ BroadcastTPUART \/ UpdateTPUART \/ Parse
     \/ \E k \in 1 .. RecvMax : ThreadPush(k)
     \/ ChipAnswers \/ Hears \/ ReportsError \/ Restarts)

\* The program polls update(), a loop is run to its end, the thread of Miosix
\* reads what is there and the chip works off its commands.
TFairness == /\ WF_tpuartVars(~ lost /\ UpdateTPUART) /\ WF_tpuartVars(~ lost /\ Parse)
             /\ WF_tpuartVars(~ lost /\ \E k \in 1 .. RecvMax : ThreadPush(k))
             /\ WF_tpuartVars(~ lost /\ ChipAnswers)

TSpec == TInit /\ [][TNext]_tpuartVars /\ TFairness
-----------------------------------------------------------------------------
\* The bytes between the chip and the parser.
Pending == Contents(pktbuffer) \o strm \o line
Unread(t) == \E i \in DOMAIN Pending : Pending[i].kind = "data" /\ Pending[i].of = t

\* The parser is never in the middle of a telegram.
InStep == pktbuffer.plen > 0 /\ Opcode.kind = "data" => Opcode.at = 1

\* As long as every byte has reached the parser, _pkts got the telegrams of the
\* others, in order (n is the place in heard), each as soon as it was complete, without the damaged
\* ones and the echoes; and whatever lies between the telegrams, the parser
\* never begins in the middle of one.
HeardInOrder ==
    stage \in {"open", "parsing"} /\ ~ lost =>
        /\ {pushed[i] : i \in DOMAIN pushed}
             = {Bytes(heard[k]) : k \in {k \in DOMAIN heard : heard[k].good /\ ~ Unread(heard[k])}}
        /\ \A i, j \in DOMAIN pushed : i < j => pushed[i][1].of.n < pushed[j][1].of.n
        /\ InStep

\* The telegrams the chip has yet to send, and the confirmations on their way.
Sends    == {i \in DOMAIN chip : chip[i].name = "send"}
Confirms == {i \in DOMAIN Pending : Pending[i].kind = "confirm"}

InOrder ==
    /\ Sends = {} => accepted = onBus \o output
    /\ \A i \in Sends : accepted = onBus \o (<<chip[i].telegram>> \o output)

\* The chip has never more than one telegram to send, _is_packet_outgoing is
\* raised exactly until its confirmation is parsed, and the telegrams reach
\* the bus in the order of broadcast(), none twice and none left out.
OneAtATime ==
    ~ lost => InOrder /\ Cardinality(Sends) + Cardinality(Confirms) = IF outgoing THEN 1 ELSE 0

BusTelegram == [from : {"own", "other"}, n : Nat, body : 0 .. Payload, good : BOOLEAN]
ChipByte    == [kind : {"reset", "status", "error", "confirm"}]
                  \union [kind : {"data"}, of : BusTelegram, at : Nat]
SendCommand == [name : {"send"}, telegram : BusTelegram]
ChipCommand == [name : {"reset", "address", "status"}] \union SendCommand

TTypeOK ==
    /\ port \in {"linux", "miosix"} /\ stage \in Stages \ {"refused", "down"}
    /\ outgoing \in BOOLEAN
    /\ chip \in Seq(ChipCommand)
    /\ line \in Seq(ChipByte) /\ strm \in Seq(ChipByte) /\ IsRing(pktbuffer, ChipByte)
    /\ output \in Seq(BusTelegram) /\ onBus \in Seq(BusTelegram)
    /\ accepted \in Seq(BusTelegram)

\* With each byte of a telegram all the others are there, at their places.
Whole(bytes) == \A i \in DOMAIN bytes : bytes[i].kind = "data" =>
    /\ bytes[i].at \in 1 .. Size(bytes[i].of)
    /\ \A k \in 1 .. Size(bytes[i].of) :
          /\ (i - bytes[i].at) + k \in DOMAIN bytes
          /\ bytes[(i - bytes[i].at) + k] = [kind |-> "data", of |-> bytes[i].of, at |-> k]

\* The telegram the driver waits for is still in the chip, or its confirmation
\* is on the way.
Awaited ==
    \/ ~ outgoing /\ Sends = {} /\ Confirms = {}
    \/ outgoing /\ Confirms = {} /\ \E i \in Sends : Sends = {i}
    \/ outgoing /\ Sends = {} /\ \E i \in Confirms : Confirms = {i}

\* Before it is open the driver waits for nothing and keeps nothing it read.
Unused == pktbuffer.plen = 0 /\ strm = <<>> /\ ~ outgoing

\* The inductive invariant: the parser is always at the first byte of a
\* telegram or at an answer, so that no byte passes for a confirmation.
TIInv == lost \in BOOLEAN /\ (~ lost =>
    /\ TTypeOK
    /\ stage \in {"closed", "reset", "status"} => Unused
    /\ port = "linux" => strm = <<>>
    /\ Whole(Pending)
    /\ Awaited
    /\ InOrder)

\* update() comes back from its loop.
UpdateReturns == stage = "parsing" ~> stage # "parsing" \/ lost

\* What was accepted leaves the queue: must_update() does not stay true, which
\* SKNX waits for before it goes online.
QueueDrains == stage = "open" /\ output # <<>> ~> output = <<>> \/ lost
=============================================================================
