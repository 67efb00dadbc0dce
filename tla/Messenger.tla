----------------------------- MODULE Messenger -----------------------------
(***************************************************************************)
(* ClientSmoke (src/libsmoke_client.h) from the last step of the key       *)
(* exchange on: init() ends, and send() and receive() take over the        *)
(* connection.                                                             *)
(*                                                                         *)
(* init() reads the connection through the PKTWrapper of a local SKNX,     *)
(* send() and receive() through that of ClientSmoke.  Both draw telegrams  *)
(* from the one backend, and what a wrapper has taken, whole packets in    *)
(* _in or the beginning of one in a ring, is gone with it.                 *)
(*                                                                         *)
(* The server relays what each recv() returns, in one order for all        *)
(* (Server.tla).  A recv() may end inside a telegram, and when the chunk   *)
(* of another client comes next, no client finds the headers again: runs   *)
(* are followed up to that torn telegram.  Nobody leaves.                  *)
(*                                                                         *)
(* Of the key exchange only the last step is here: a client completes when *)
(* it has read the last packet of every other client (MKA.tla).            *)
(***************************************************************************)
EXTENDS Integers, SequencesExt

CONSTANTS
    Client,
    NoClient,
    Sender,         \* the clients whose application sends messages
    Parts,          \* telegrams per message (a packet of 1 + 2 bytes and up)
    RingSize,       \* telegrams a ring holds (68 full ones in 1024 bytes)
    MaxMessages,    \* bound on the messages of one client
    Patient         \* whether nobody sends before all are online

ASSUME MessengerAssumption ==
    /\ Sender \subseteq Client /\ NoClient \notin Client
    /\ RingSize \in Nat
    /\ Parts \in Nat \ {0} /\ MaxMessages \in Nat /\ Patient \in BOOLEAN

VARIABLES
    phase,      \* where each client is in init(), or "online" after it
    heard,      \* the clients whose last key packet has been read
    sent,       \* the last telegram each client has sent
    relayed,    \* the last telegram of each that the server has relayed whole
    stream,     \* the telegrams relayed whole, in the order of the server
    halfway,    \* the client inside whose telegram the last chunk has ended
    torn,       \* whether another client's chunk has come behind that one
    pos,        \* how many telegrams of the stream each backend has taken
    rest,       \* the rings of the current wrapper of each client
    inq,        \* _in of the wrapper of ClientSmoke
    app         \* what receive() returned

serverVars == <<relayed, stream, halfway, torn>>
vars == <<phase, heard, sent, serverVars, pos, rest, inq, app>>

Phase == {"ready", "keying", "finalizing", "online"}

\* A telegram: the last packet of the key exchange (message 0, which needs
\* one telegram here), or a part of a message.
Telegram == [src : Client, message : 0 .. MaxMessages, part : 1 .. Parts]
KeyTelegram(c) == [src |-> c, message |-> 0, part |-> Parts]

\* What stands for the telegram before the first one.
NoTelegram(c) == [src |-> c, message |-> 0, part |-> Parts - 1]
Place == [src : Client, message : 0 .. MaxMessages, part : 0 .. Parts]

\* A packet as the wrapper gives it: the telegrams it is made of, and its
\* body, encrypted by the sender.
Packet == [src : Client, telegrams : Seq(Telegram), body : {"cipher", "plain"}]

TypeOK ==
    /\ phase \in [Client -> Phase]
    /\ heard \in [Client -> SUBSET Client]
    /\ sent \in [Client -> Place] /\ relayed \in [Client -> Place]
    /\ stream \in Seq(Telegram)
    /\ halfway \in Client \union {NoClient} /\ torn \in BOOLEAN
    /\ pos \in [Client -> 0 .. Len(stream)]
    /\ rest \in [Client -> [Client -> Seq(Telegram)]]
    /\ inq \in [Client -> Seq(Packet)] /\ app \in [Client -> Seq(Packet)]
    /\ \A c \in Client : /\ c \notin heard[c] /\ rest[c][c] = <<>>
                         /\ phase[c] # "online" => inq[c] = <<>>

Nothing == [c \in Client |-> <<>>]

Init ==
    /\ phase = [c \in Client |-> "ready"]
    /\ heard = [c \in Client |-> {}]
    /\ sent = [c \in Client |-> NoTelegram(c)] /\ relayed = sent
    /\ stream = <<>> /\ halfway = NoClient /\ torn = FALSE
    /\ pos = [c \in Client |-> 0]
    /\ rest = [c \in Client |-> Nothing]
    /\ inq = Nothing
    /\ app = Nothing
-----------------------------------------------------------------------------
\* The telegram after t: of the same packet, or the first of the next one.
Following(t) ==
    IF t.part = Parts THEN [t EXCEPT !.message = @ + 1, !.part = 1] ELSE [t EXCEPT !.part = @ + 1]

\* The last packet of the key exchange is sent.
SendLast(c) ==
    /\ phase[c] = "ready"
    /\ phase' = [phase EXCEPT ![c] = "keying"]
    /\ sent' = [sent EXCEPT ![c] = Following(@)]
    /\ UNCHANGED <<heard, serverVars, pos, rest, inq, app>>
-----------------------------------------------------------------------------
OnTheWay(c) == ~ torn /\ relayed[c] # sent[c]

\* A chunk of the server ends inside a telegram, after which halves stand for
\* any place.  What lies between two such ends may have come in any number of
\* chunks; only where they end matters.
RelayHalf(c) ==
    /\ OnTheWay(c) /\ halfway = NoClient
    /\ halfway' = c
    /\ UNCHANGED <<phase, heard, sent, relayed, stream, torn, pos, rest, inq, app>>

\* The rest of the telegram, or all of it.
RelayRest(c) ==
    /\ OnTheWay(c) /\ halfway \in {c, NoClient}
    /\ relayed' = [relayed EXCEPT ![c] = Following(@)]
    /\ stream' = Append(stream, relayed'[c])
    /\ halfway' = NoClient
    /\ UNCHANGED <<phase, heard, sent, torn, pos, rest, inq, app>>

\* A chunk of another client.
RelayInside(c) ==
    /\ OnTheWay(c) /\ halfway \notin {c, NoClient}
    /\ torn' = TRUE
    /\ UNCHANGED <<phase, heard, sent, relayed, stream, halfway, pos, rest, inq, app>>
-----------------------------------------------------------------------------
\* Whether the telegrams of a ring make a packet.  A ring whose first
\* telegrams were taken by the other wrapper holds no header where one is
\* looked for: a packet of any size may come out of it, or none yet.
MakesPacket(q) ==
    IF q[1].part = 1 \/ q[1].message = 0
    THEN {Last(q).part = Parts}
    ELSE BOOLEAN

\* Variant: a ring is taken for full one telegram early.
FullEarly(q) == Len(q) + 1 >= RingSize

\* RingBuffer::write refuses a telegram that does not fit.  There is a ring for
\* every client, so that a ring is always found.
Full(q) == Len(q) >= RingSize

\* The server sends every telegram to every client, the sender included.
Skipped(c, t) == t.src = c

\* PKTWrapper::update() takes a telegram from the backend; its own telegrams
\* are skipped, and one that does not fit in the ring is lost.
Pull(c) ==
    /\ phase[c] # "ready"
    /\ pos[c] < Len(stream)
    /\ pos' = [pos EXCEPT ![c] = @ + 1]
    /\ LET t == stream[pos[c] + 1]
           q == Append(rest[c][t.src], t)
           packet == [src |-> t.src, telegrams |-> q, body |-> "cipher"]
       IN  IF Skipped(c, t) \/ Full(rest[c][t.src]) THEN UNCHANGED <<heard, rest, inq>>
           ELSE \E whole \in MakesPacket(q) :
                  /\ rest' = [rest EXCEPT ![c][t.src] = IF whole THEN <<>> ELSE q]
                  /\ heard' = IF whole /\ phase[c] = "keying" /\ t.message = 0
                              THEN [heard EXCEPT ![c] = @ \union {t.src}] ELSE heard
                  /\ inq' = IF whole /\ phase[c] = "online"
                            THEN [inq EXCEPT ![c] = Append(@, packet)] ELSE inq
    /\ UNCHANGED <<phase, sent, serverVars, app>>

\* The key is computed, and SKNX finds the exchange completed.  A packet read
\* from now on stays in the wrapper of SKNX.
Complete(c) ==
    /\ phase[c] = "keying" /\ heard[c] = Client \ {c}
    /\ phase' = [phase EXCEPT ![c] = "finalizing"]
    /\ UNCHANGED <<heard, sent, serverVars, pos, rest, inq, app>>

\* ONLINE: init() returns, and the SKNX is destroyed with its wrapper.
GoOnline(c) ==
    /\ phase[c] = "finalizing"
    /\ phase' = [phase EXCEPT ![c] = "online"]
    /\ rest' = [rest EXCEPT ![c] = Nothing]
    /\ UNCHANGED <<heard, sent, serverVars, pos, inq, app>>
-----------------------------------------------------------------------------
MayStart(c) == Patient => \A d \in Client : phase[d] = "online"

\* send(): the body is encrypted, and the telegrams of the packet go out one
\* after the other; those of other clients may come in between.
SendPart(c) ==
    /\ phase[c] = "online"
    /\ sent[c].part = Parts => c \in Sender /\ MayStart(c) /\ sent[c].message < MaxMessages
    /\ sent' = [sent EXCEPT ![c] = Following(@)]
    /\ UNCHANGED <<phase, heard, serverVars, pos, rest, inq, app>>

\* receive(): the oldest packet of _in.  What is decrypted is a temporary
\* copy (getData() returns by value), the caller's packet keeps its body.
Decrypted(packet) == packet

\* Variant: the newest packet is taken.
NewestTaken(q) == Last(q)
Taken(q) == Head(q)

Receive(c) ==
    /\ phase[c] = "online"
    /\ inq[c] # <<>>
    /\ app' = [app EXCEPT ![c] = Append(@, Decrypted(Taken(inq[c])))]
    /\ inq' = [inq EXCEPT ![c] = Tail(@)]
    /\ UNCHANGED <<phase, heard, sent, serverVars, pos, rest>>

Next == \E c \in Client :
    \/ SendLast(c) \/ Pull(c) \/ Complete(c) \/ GoOnline(c)
    \/ SendPart(c) \/ Receive(c)
    \/ RelayHalf(c) \/ RelayRest(c) \/ RelayInside(c)

Spec == Init /\ [][Next]_vars

\* The application calls receive() in a loop (tests/client_test.cpp), a
\* send() that has begun ends, init() loops until it is online, and the
\* server goes on calling run().
Fairness == \A c \in Client :
    /\ WF_vars(SendLast(c)) /\ WF_vars(Pull(c))
    /\ WF_vars(Complete(c)) /\ WF_vars(GoOnline(c))
    /\ WF_vars(SendPart(c)) /\ WF_vars(Receive(c))
    /\ WF_vars(RelayRest(c))

FairSpec == Spec /\ Fairness
-----------------------------------------------------------------------------
\* The places on the server's stream at which a message for a client ends.
Ends(c) == {p \in DOMAIN stream :
    stream[p].src # c /\ stream[p].message > 0 /\ stream[p].part = Parts}

\* A packet holds the message that ends with telegram t, whole.
Holds(packet, t) ==
    /\ packet.src = t.src
    /\ packet.telegrams = [k \in 1 .. Parts |-> [t EXCEPT !.part = k]]

\* The packets are the messages for a client that end among the first n
\* telegrams, each once and in the order in which they end.
Meant(c, packets, n) ==
    \E at \in [DOMAIN packets -> Ends(c)] :
        /\ \A i, k \in DOMAIN packets : i < k => at[i] < at[k]
        /\ \A i \in DOMAIN packets : at[i] <= n /\ Holds(packets[i], stream[at[i]])
        /\ \A p \in Ends(c) : p <= n => \E i \in DOMAIN packets : at[i] = p

\* receive() returns "the oldest pkt received from other clients": of what its
\* backend has taken, each client is given every message of the others, whole,
\* once and the first one first, also right after init(), once all are online.
\* For messages that fit in a ring, and up to the first torn telegram, where
\* the stream ends here.
OldestFirst == TypeOK /\ (Parts <= RingSize =>
    \A c \in Client : Meant(c, app[c] \o inq[c], pos[c]))

\* Every message sent reaches the application of every other client, if it
\* fits in a ring and no telegram is torn on the way.
AllReceived == Parts <= RingSize => <>[](torn \/ \A c \in Client :
    phase[c] = "online" /\ relayed[c] = sent[c] /\ Meant(c, app[c], Len(stream)))

\* "It decrypts the body using AES_CTR with the shared key of the client."
BodyDecrypted == \A c \in Client : \A i \in DOMAIN app[c] : app[c][i].body = "plain"
=============================================================================
