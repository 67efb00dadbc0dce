-------------------------- MODULE MessengerProofs --------------------------
(***************************************************************************)
(* What the proof system shows of Messenger, for every set of clients and  *)
(* every length of the messages.                                           *)
(***************************************************************************)
EXTENDS Messenger, TLAPS, SequenceTheorems

-----------------------------------------------------------------------------
(***************************************************************************)
(* Types                                                                   *)
(***************************************************************************)

\* The last telegram of a client that is sent, or relayed, is one of its own,
\* and the key packet is one telegram.
OwnPlace(t, c) ==
    /\ t \in Place /\ t.src = c
    /\ IF t.message = 0 THEN t.part \in {Parts - 1, Parts} ELSE t.part > 0

\* Telegram t is not sent after telegram u.
NotAfter(t, u) == t.message < u.message \/ (t.message = u.message /\ t.part <= u.part)

\* The server is behind the clients, and only those that are not ready have
\* sent anything.
Places ==
    /\ TypeOK
    /\ \A c \in Client : /\ OwnPlace(sent[c], c) /\ OwnPlace(relayed[c], c)
                         /\ NotAfter(relayed[c], sent[c])
                         /\ phase[c] = "ready" <=> sent[c] = NoTelegram(c)

LEMMA PlaceFields ==
    ASSUME NEW t \in Place
    PROVE  /\ t = [src |-> t.src, message |-> t.message, part |-> t.part] /\ t.src \in Client
           /\ t.message \in Nat /\ t.message <= MaxMessages
           /\ t.part \in Nat /\ t.part <= Parts
BY MessengerAssumption DEF Place

\* The telegram after t, as long as there are messages left.
LEMMA FollowingTyped ==
    ASSUME NEW t \in Place, t.part = Parts => t.message < MaxMessages
    PROVE  /\ Following(t) \in Telegram /\ Following(t) \in Place
           /\ Following(t).src = t.src
           /\ Following(t).message = IF t.part = Parts THEN t.message + 1 ELSE t.message
           /\ Following(t).part = IF t.part = Parts THEN 1 ELSE t.part + 1
<1>1. PICK s \in Client, m \in 0 .. MaxMessages, k \in 0 .. Parts :
          t = [src |-> s, message |-> m, part |-> k]
    BY DEF Place
<1>2. CASE t.part = Parts
    <2>1. Following(t) = [src |-> s, message |-> m + 1, part |-> 1]
        BY <1>1, <1>2 DEF Following
    <2> QED  BY <2>1, <1>1, <1>2, MessengerAssumption DEF Telegram, Place
<1>3. CASE t.part # Parts
    <2>1. Following(t) = [src |-> s, message |-> m, part |-> k + 1]
        BY <1>1, <1>3 DEF Following
    <2> QED  BY <2>1, <1>1, <1>3, MessengerAssumption DEF Telegram, Place
<1> QED  BY <1>2, <1>3

LEMMA NonePlace ==
    ASSUME NEW c \in Client
    PROVE  /\ OwnPlace(NoTelegram(c), c) /\ NoTelegram(c).part # Parts
           /\ Following(NoTelegram(c)) = KeyTelegram(c) /\ KeyTelegram(c) # NoTelegram(c)
BY MessengerAssumption DEF NoTelegram, OwnPlace, Place, Following, KeyTelegram

\* Every telegram but the first is part of a message.
LEMMA AfterKey ==
    ASSUME NEW c, NEW t, OwnPlace(t, c), t # NoTelegram(c)
    PROVE  /\ t.message = 0 => t.part = Parts
           /\ Following(t).message \in Nat /\ Following(t).message > 0
<1>1. t = [src |-> c, message |-> t.message, part |-> t.part] /\ t.message \in Nat
    BY PlaceFields DEF OwnPlace
<1>2. t.message = 0 => t.part = Parts
    BY <1>1 DEF OwnPlace, NoTelegram
<1>3. Following(t).message = IF t.part = Parts THEN t.message + 1 ELSE t.message
    BY <1>1 DEF Following
<1> QED  BY <1>1, <1>2, <1>3

LEMMA NotNone ==
    ASSUME NEW c \in Client, NEW t, OwnPlace(t, c) PROVE Following(t) # NoTelegram(c)
<1>1. CASE t = NoTelegram(c)
    BY <1>1, NonePlace
<1>2. CASE t # NoTelegram(c)
    <2>1. Following(t).message > 0
        BY <1>2, AfterKey
    <2> QED  BY <2>1 DEF NoTelegram
<1> QED  BY <1>1, <1>2

\* What a client sends comes after what the server has relayed.
LEMMA SentLater ==
    ASSUME NEW c, NEW t, NEW u, OwnPlace(t, c), OwnPlace(u, c), NotAfter(t, u),
           u.part = Parts => u.message < MaxMessages
    PROVE  OwnPlace(Following(u), c) /\ NotAfter(t, Following(u))
<1>1. /\ Following(u) \in Place /\ Following(u).src = c
      /\ Following(u).message = IF u.part = Parts THEN u.message + 1 ELSE u.message
      /\ Following(u).part = IF u.part = Parts THEN 1 ELSE u.part + 1
    BY FollowingTyped DEF OwnPlace
<1>2. t.message \in Nat /\ t.part \in Nat /\ u.message \in Nat /\ u.part \in Nat /\ u.part <= Parts
    BY PlaceFields DEF OwnPlace
<1>3. NotAfter(t, Following(u))
    BY <1>1, <1>2 DEF NotAfter
<1>4. OwnPlace(Following(u), c)
    BY <1>1, <1>2, MessengerAssumption DEF OwnPlace
<1> QED  BY <1>3, <1>4

\* What the server relays next has been sent.
LEMMA RelayedNext ==
    ASSUME NEW c, NEW t, NEW u, OwnPlace(t, c), OwnPlace(u, c), NotAfter(t, u), t # u
    PROVE  /\ t.part = Parts => t.message < MaxMessages
           /\ OwnPlace(Following(t), c) /\ NotAfter(Following(t), u)
<1>1. /\ t.message \in Nat /\ t.part \in Nat /\ u.message \in Nat /\ u.part \in Nat
      /\ t.part <= Parts /\ u.part <= Parts /\ u.message <= MaxMessages
      /\ Parts \in Nat /\ Parts > 0 /\ MaxMessages \in Nat
    BY PlaceFields, MessengerAssumption DEF OwnPlace
<1>2. t.message # u.message \/ t.part # u.part
    <2>1. SUFFICES ASSUME t.message = u.message, t.part = u.part PROVE FALSE
        OBVIOUS
    <2>2. /\ t = [src |-> c, message |-> t.message, part |-> t.part]
          /\ u = [src |-> c, message |-> u.message, part |-> u.part]
        BY PlaceFields DEF OwnPlace
    <2> QED  BY <2>1, <2>2
<1>3. t.message < u.message \/ (t.message = u.message /\ t.part < u.part)
    BY <1>1, <1>2 DEF NotAfter
<1>4. t.part = Parts => t.message < MaxMessages
    BY <1>1, <1>3
<1>5. /\ Following(t) \in Place /\ Following(t).src = c
      /\ Following(t).message = IF t.part = Parts THEN t.message + 1 ELSE t.message
      /\ Following(t).part = IF t.part = Parts THEN 1 ELSE t.part + 1
    BY <1>4, FollowingTyped DEF OwnPlace
<1>6. u.message > 0 => u.part > 0
    BY <1>1 DEF OwnPlace
<1>7. NotAfter(Following(t), u)
    BY <1>1, <1>3, <1>5, <1>6 DEF NotAfter
<1>8. OwnPlace(Following(t), c)
    BY <1>1, <1>5 DEF OwnPlace
<1> QED  BY <1>4, <1>7, <1>8

LEMMA InitTyped == Init => Places
<1> SUFFICES ASSUME Init PROVE Places
    OBVIOUS
<1>1. \A c \in Client : sent[c] = NoTelegram(c) /\ relayed[c] = NoTelegram(c) /\ phase[c] = "ready"
    BY DEF Init
<1>2. \A c \in Client : NoTelegram(c) \in Place /\ OwnPlace(NoTelegram(c), c)
    BY NonePlace DEF OwnPlace
<1>3. \A c \in Client : NotAfter(NoTelegram(c), NoTelegram(c))
    BY MessengerAssumption DEF NotAfter, NoTelegram
<1>4. sent \in [Client -> Place] /\ relayed \in [Client -> Place]
    BY <1>2 DEF Init
<1>5. TypeOK
    <2>1. /\ phase \in [Client -> Phase] /\ heard \in [Client -> SUBSET Client]
          /\ halfway \in Client \union {NoClient} /\ torn \in BOOLEAN
        BY DEF Init, Phase
    <2>2. stream \in Seq(Telegram) /\ Len(stream) = 0
        BY DEF Init
    <2>3. /\ rest \in [Client -> [Client -> Seq(Telegram)]]
          /\ inq \in [Client -> Seq(Packet)] /\ app \in [Client -> Seq(Packet)]
        BY DEF Init, Nothing
    <2>4. pos \in [Client -> 0 .. Len(stream)]
        BY <2>2 DEF Init
    <2>5. \A c \in Client : c \notin heard[c] /\ rest[c][c] = <<>> /\ inq[c] = <<>>
        BY DEF Init, Nothing
    <2> QED  BY <1>4, <2>1, <2>3, <2>4, <2>5, <2>2 DEF TypeOK
<1> QED  BY <1>1, <1>2, <1>3, <1>5 DEF Places

\* A client sends its next telegram.
LEMMA SendTyped ==
    ASSUME Places, NEW c \in Client, SendLast(c) \/ SendPart(c)
    PROVE  /\ Places'
           /\ sent' = [sent EXCEPT ![c] = Following(sent[c])]
<1>1. /\ sent' = [sent EXCEPT ![c] = Following(sent[c])]
      /\ relayed' = relayed /\ stream' = stream /\ halfway' = halfway /\ torn' = torn
      /\ heard' = heard /\ pos' = pos /\ rest' = rest /\ inq' = inq /\ app' = app
    BY DEF SendLast, SendPart, serverVars
<1>2. TypeOK /\ OwnPlace(sent[c], c) /\ OwnPlace(relayed[c], c) /\ NotAfter(relayed[c], sent[c])
    BY DEF Places
<1>3. sent[c].part = Parts => sent[c].message < MaxMessages
    <2>1. CASE SendPart(c)
        BY <2>1 DEF SendPart
    <2>2. CASE SendLast(c)
        <3>1. sent[c] = NoTelegram(c)
            BY <2>2 DEF SendLast, Places
        <3> QED  BY <3>1, NonePlace
    <2> QED  BY <2>1, <2>2
<1>4. OwnPlace(Following(sent[c]), c) /\ NotAfter(relayed[c], Following(sent[c]))
    BY <1>2, <1>3, SentLater
<1>5. Following(sent[c]) # NoTelegram(c)
    BY <1>2, NotNone
<1>6. /\ phase' \in [Client -> Phase] /\ phase'[c] # "ready"
      /\ \A d \in Client : /\ phase'[d] # "online" => phase[d] # "online"
                           /\ d # c => phase'[d] = phase[d]
    BY <1>2 DEF SendLast, SendPart, TypeOK, Phase
<1>7. sent' \in [Client -> Place]
    BY <1>1, <1>2, <1>4 DEF TypeOK, OwnPlace
<1>8. TypeOK'
    BY <1>1, <1>2, <1>6, <1>7 DEF TypeOK
<1>9. \A d \in Client : sent'[d] = IF d = c THEN Following(sent[c]) ELSE sent[d]
    BY <1>1, <1>2 DEF TypeOK
<1>10. ASSUME NEW d \in Client
       PROVE  /\ OwnPlace(sent'[d], d) /\ OwnPlace(relayed'[d], d)
              /\ NotAfter(relayed'[d], sent'[d])
              /\ phase'[d] = "ready" <=> sent'[d] = NoTelegram(d)
    <2>1. CASE d = c
        BY <2>1, <1>1, <1>2, <1>4, <1>5, <1>6, <1>9
    <2>2. CASE d # c
        BY <2>2, <1>1, <1>6, <1>9 DEF Places
    <2> QED  BY <2>1, <2>2
<1>11. \A d \in Client : /\ OwnPlace(sent[d], d)' /\ OwnPlace(relayed[d], d)'
                         /\ NotAfter(relayed[d], sent[d])'
                         /\ phase'[d] = "ready" <=> sent'[d] = NoTelegram(d)
    BY <1>10 DEF OwnPlace, NotAfter
<1> QED  BY <1>1, <1>8, <1>11 DEF Places, NoTelegram

\* The server relays the rest of a telegram, or all of it.
LEMMA RelayRestTyped ==
    ASSUME Places, NEW c \in Client, RelayRest(c)
    PROVE  /\ Places'
           /\ relayed' = [relayed EXCEPT ![c] = Following(relayed[c])]
           /\ stream' = Append(stream, Following(relayed[c]))
           /\ Following(relayed[c]) \in Telegram /\ Following(relayed[c]).src = c
           /\ NotAfter(Following(relayed[c]), sent[c])
<1>1. /\ relayed' = [relayed EXCEPT ![c] = Following(relayed[c])]
      /\ relayed[c] # sent[c] /\ stream' = Append(stream, relayed'[c])
      /\ phase' = phase /\ heard' = heard /\ sent' = sent /\ halfway' = NoClient /\ torn' = torn
      /\ pos' = pos /\ rest' = rest /\ inq' = inq /\ app' = app
    BY DEF RelayRest, OnTheWay
<1>2. TypeOK /\ OwnPlace(sent[c], c) /\ OwnPlace(relayed[c], c) /\ NotAfter(relayed[c], sent[c])
    BY DEF Places
<1>3. /\ relayed[c].part = Parts => relayed[c].message < MaxMessages
      /\ OwnPlace(Following(relayed[c]), c) /\ NotAfter(Following(relayed[c]), sent[c])
    BY <1>1, <1>2, RelayedNext
<1>4. Following(relayed[c]) \in Telegram /\ Following(relayed[c]).src = c
    BY <1>2, <1>3, FollowingTyped DEF OwnPlace
<1>5. \A d \in Client : relayed'[d] = IF d = c THEN Following(relayed[c]) ELSE relayed[d]
    BY <1>1, <1>2 DEF TypeOK
<1>6. stream' = Append(stream, Following(relayed[c]))
    BY <1>1, <1>5
<1>7. stream' \in Seq(Telegram) /\ Len(stream') = Len(stream) + 1
    BY <1>2, <1>4, <1>6 DEF TypeOK
<1>8. pos' \in [Client -> 0 .. Len(stream')]
    BY <1>1, <1>2, <1>7 DEF TypeOK
<1>9. relayed' \in [Client -> Place]
    BY <1>1, <1>2, <1>3 DEF TypeOK, OwnPlace
<1>10. TypeOK'
    BY <1>1, <1>2, <1>7, <1>8, <1>9 DEF TypeOK
<1>11. \A d \in Client : /\ OwnPlace(sent[d], d) /\ OwnPlace(relayed'[d], d)
                         /\ NotAfter(relayed'[d], sent[d])
                         /\ phase[d] = "ready" <=> sent[d] = NoTelegram(d)
    BY <1>3, <1>5 DEF Places
<1>12. \A d \in Client : /\ OwnPlace(sent[d], d)' /\ OwnPlace(relayed[d], d)'
                         /\ NotAfter(relayed[d], sent[d])'
                         /\ phase'[d] = "ready" <=> sent'[d] = NoTelegram(d)
    BY <1>1, <1>11 DEF OwnPlace, NotAfter
<1> QED  BY <1>1, <1>3, <1>4, <1>6, <1>10, <1>12 DEF Places, NoTelegram

\* The other steps.
LEMMA OthersTyped ==
    ASSUME Places, TypeOK', sent' = sent, relayed' = relayed,
           \A d \in Client : phase'[d] = "ready" <=> phase[d] = "ready"
    PROVE  Places'
<1>1. \A d \in Client : /\ OwnPlace(sent[d], d)' /\ OwnPlace(relayed[d], d)'
                        /\ NotAfter(relayed[d], sent[d])'
                        /\ phase'[d] = "ready" <=> sent'[d] = NoTelegram(d)'
    BY DEF Places, OwnPlace, NotAfter, NoTelegram
<1> QED  BY <1>1 DEF Places

LEMMA RelayTyped ==
    ASSUME Places, NEW c \in Client, RelayHalf(c) \/ RelayInside(c)
    PROVE  /\ Places'
           /\ phase' = phase /\ sent' = sent /\ relayed' = relayed /\ stream' = stream
           /\ heard' = heard /\ pos' = pos /\ rest' = rest /\ inq' = inq /\ app' = app
<1>1. /\ phase' = phase /\ sent' = sent /\ relayed' = relayed /\ stream' = stream
      /\ heard' = heard /\ pos' = pos /\ rest' = rest /\ inq' = inq /\ app' = app
      /\ halfway' \in {halfway, c} /\ torn' \in BOOLEAN
    BY DEF RelayHalf, RelayInside, Places, TypeOK
<1>2. TypeOK'
    BY <1>1 DEF Places, TypeOK
<1> QED  BY <1>1, <1>2, OthersTyped

LEMMA PullTyped ==
    ASSUME TypeOK, NEW c \in Client, Pull(c) PROVE TypeOK'
<1> DEFINE t == stream[pos[c] + 1]
           q == Append(rest[c][t.src], t)
           packet == [src |-> t.src, telegrams |-> q, body |-> "cipher"]
<1>1. /\ phase' = phase /\ stream' = stream /\ sent' = sent /\ app' = app
      /\ relayed' = relayed /\ halfway' = halfway /\ torn' = torn
      /\ pos[c] < Len(stream) /\ pos' = [pos EXCEPT ![c] = @ + 1]
    BY DEF Pull, serverVars
<1>2. pos[c] \in Nat /\ stream \in Seq(Telegram) /\ t \in Telegram /\ t.src \in Client
    <2>1. pos[c] \in 0 .. Len(stream) /\ stream \in Seq(Telegram)
        BY DEF TypeOK
    <2>2. pos[c] + 1 \in 1 .. Len(stream)
        BY <1>1, <2>1
    <2>3. t \in Telegram
        BY <2>1, <2>2
    <2>4. t.src \in Client
        BY <2>3 DEF Telegram
    <2> QED  BY <2>1, <2>3, <2>4
<1>3. pos' \in [Client -> 0 .. Len(stream')]
    <2>1. pos[c] + 1 \in 0 .. Len(stream')
        BY <1>1, <1>2
    <2>2. pos \in [Client -> 0 .. Len(stream')]
        BY <1>1 DEF TypeOK
    <2> QED  BY <2>1, <2>2, <1>1
<1>4. CASE Skipped(c, t) \/ Full(rest[c][t.src])
    <2>1. heard' = heard /\ rest' = rest /\ inq' = inq
        BY <1>4 DEF Pull
    <2> QED  BY <2>1, <1>1, <1>3 DEF TypeOK
<1>5. CASE ~(Skipped(c, t) \/ Full(rest[c][t.src]))
    <2>1. PICK whole \in MakesPacket(q) :
            /\ rest' = [rest EXCEPT ![c][t.src] = IF whole THEN <<>> ELSE q]
            /\ heard' = IF whole /\ phase[c] = "keying" /\ t.message = 0
                        THEN [heard EXCEPT ![c] = @ \union {t.src}] ELSE heard
            /\ inq' = IF whole /\ phase[c] = "online"
                      THEN [inq EXCEPT ![c] = Append(@, packet)] ELSE inq
        BY <1>5 DEF Pull
    <2>2. t.src # c
        BY <1>5 DEF Skipped
    <2>3. q \in Seq(Telegram)
        <3>1. rest[c][t.src] \in Seq(Telegram)
            BY <1>2 DEF TypeOK
        <3> QED  BY <3>1, <1>2
    <2>4. packet \in Packet
        BY <1>2, <2>3 DEF Packet
    <2> HIDE DEF packet, q, t
    <2>5. (IF whole THEN <<>> ELSE q) \in Seq(Telegram)
        BY <2>3
    <2>6. /\ rest' \in [Client -> [Client -> Seq(Telegram)]]
          /\ \A d \in Client : rest'[d][d] = rest[d][d]
        BY <2>1, <2>2, <2>5, <1>2 DEF TypeOK
    <2>7. heard' \in [Client -> SUBSET Client] /\ \A d \in Client : d \notin heard'[d]
        BY <2>1, <2>2, <1>2 DEF TypeOK
    <2>8. CASE whole /\ phase[c] = "online"
        <3>1. inq' = [inq EXCEPT ![c] = Append(@, packet)]
            BY <2>1, <2>8
        <3>2. Append(inq[c], packet) \in Seq(Packet)
            BY <2>4 DEF TypeOK
        <3>3. /\ inq' \in [Client -> Seq(Packet)]
              /\ \A d \in Client : phase'[d] # "online" => inq'[d] = <<>>
            BY <3>1, <3>2, <1>1, <2>8 DEF TypeOK
        <3> QED  BY <3>3, <2>6, <2>7, <1>1, <1>3 DEF TypeOK
    <2>9. CASE ~(whole /\ phase[c] = "online")
        <3>1. inq' = inq
            BY <2>1, <2>9
        <3> QED  BY <3>1, <2>6, <2>7, <1>1, <1>3 DEF TypeOK
    <2> QED  BY <2>8, <2>9
<1> QED  BY <1>4, <1>5

LEMMA CompleteTyped ==
    ASSUME TypeOK, NEW c \in Client, Complete(c) PROVE TypeOK'
<1>1. phase' \in [Client -> Phase] /\ \A d \in Client : phase'[d] # "online" => phase[d] # "online"
    BY DEF Complete, TypeOK, Phase
<1> QED  BY <1>1 DEF Complete, TypeOK, serverVars

LEMMA GoOnlineTyped ==
    ASSUME TypeOK, NEW c \in Client, GoOnline(c) PROVE TypeOK'
<1>1. phase' \in [Client -> Phase] /\ \A d \in Client : phase'[d] # "online" => phase[d] # "online"
    BY DEF GoOnline, TypeOK, Phase
<1>2. /\ rest' \in [Client -> [Client -> Seq(Telegram)]]
      /\ \A d \in Client : rest'[d][d] = <<>>
    BY DEF GoOnline, TypeOK, Nothing
<1> QED  BY <1>1, <1>2 DEF GoOnline, TypeOK, serverVars

LEMMA ReceiveTyped ==
    ASSUME TypeOK, NEW c \in Client, Receive(c)
    PROVE  /\ TypeOK'
           /\ app' = [app EXCEPT ![c] = Append(app[c], Head(inq[c]))]
           /\ inq' = [inq EXCEPT ![c] = Tail(inq[c])]
           /\ inq[c] \in Seq(Packet) /\ inq[c] # <<>>
<1>1. inq[c] \in Seq(Packet) /\ inq[c] # <<>> /\ app[c] \in Seq(Packet)
    BY DEF Receive, TypeOK
<1>2. /\ app' = [app EXCEPT ![c] = Append(app[c], Head(inq[c]))]
      /\ inq' = [inq EXCEPT ![c] = Tail(inq[c])]
    BY DEF Receive, Decrypted, Taken
<1>3. Append(app[c], Head(inq[c])) \in Seq(Packet) /\ Tail(inq[c]) \in Seq(Packet)
    BY <1>1
<1>4. app' \in [Client -> Seq(Packet)] /\ inq' \in [Client -> Seq(Packet)]
    BY <1>2, <1>3 DEF TypeOK
<1>5. \A d \in Client : phase'[d] # "online" => inq'[d] = <<>>
    BY <1>2 DEF Receive, TypeOK
<1> QED  BY <1>1, <1>2, <1>4, <1>5 DEF Receive, TypeOK, serverVars

LEMMA NextTyped == Places /\ [Next]_vars => Places'
<1> SUFFICES ASSUME Places, [Next]_vars PROVE Places'
    OBVIOUS
<1>0. TypeOK
    BY DEF Places
<1>1. CASE UNCHANGED vars
    <2>1. sent' = sent /\ relayed' = relayed /\ phase' = phase
        BY <1>1 DEF vars, serverVars
    <2>2. TypeOK'
        BY <1>0, <1>1 DEF vars, serverVars, TypeOK
    <2> QED  BY <2>1, <2>2, OthersTyped
<1>2. ASSUME NEW c \in Client, Pull(c) \/ Complete(c) \/ GoOnline(c) \/ Receive(c) PROVE Places'
    <2>1. TypeOK'
        BY <1>0, <1>2, PullTyped, CompleteTyped, GoOnlineTyped, ReceiveTyped
    <2>2. sent' = sent /\ relayed' = relayed
        BY <1>2 DEF Pull, Complete, GoOnline, Receive, serverVars
    <2>3. \A d \in Client : phase'[d] = "ready" <=> phase[d] = "ready"
        BY <1>0, <1>2 DEF Pull, Complete, GoOnline, Receive, TypeOK
    <2> QED  BY <2>1, <2>2, <2>3, OthersTyped
<1>3. ASSUME NEW c \in Client,
             \/ SendLast(c) \/ SendPart(c)
             \/ RelayHalf(c) \/ RelayRest(c) \/ RelayInside(c)
      PROVE  Places'
    BY <1>3, SendTyped, RelayRestTyped, RelayTyped
<1> QED  BY <1>1, <1>2, <1>3 DEF Next

\* The state keeps its types, whether or not anybody is patient: the server
\* relays no telegram that has not been sent.
THEOREM MessengerAlwaysTypeOK == Spec => []TypeOK
<1>1. Places => TypeOK
    BY DEF Places
<1> QED  BY <1>1, InitTyped, NextTyped, PTL DEF Spec
-----------------------------------------------------------------------------
(***************************************************************************)
(* The inductive invariant, when nobody sends before all are online        *)
(***************************************************************************)

\* The telegrams of a message before telegram t, which a ring holds when t is
\* the next one to come.  A key packet needs one telegram.
Before(t) ==
    IF t.message = 0 THEN <<>> ELSE [k \in 1 .. t.part - 1 |-> [t EXCEPT !.part = k]]

\* Before all are online only key packets have been sent.
Quiet == (\E c \in Client : phase[c] # "online") =>
    /\ \A c \in Client : sent[c].message = 0
    /\ \A p \in DOMAIN stream : stream[p].message = 0

Begun == \A p \in DOMAIN stream :
    relayed[stream[p].src] # NoTelegram(stream[p].src)

\* The key packet of a client is its first telegram.
KeyFirst == \A p \in DOMAIN stream :
    /\ stream[p].message = 0 => stream[p].part = Parts
    /\ \A r \in DOMAIN stream :
           p < r /\ stream[p].src = stream[r].src => stream[r].message > 0

\* Client d has a telegram between two places of stream s.
Between(s, d, p, r) == \E q \in DOMAIN s : p < q /\ q < r /\ s[q].src = d

\* The telegrams of a client follow one another on the stream, up to the last
\* one of it that has been relayed.
Chained == \A p, r \in DOMAIN stream :
    p < r /\ stream[p].src = stream[r].src /\ ~Between(stream, stream[p].src, p, r)
        => stream[r] = Following(stream[p])

LastRelayed == \A p \in DOMAIN stream :
    ~Between(stream, stream[p].src, p, Len(stream) + 1) => stream[p] = relayed[stream[p].src]

StreamInv == Quiet /\ Begun /\ KeyFirst /\ Chained /\ LastRelayed

\* A client that completes has all key packets behind it: what its wrapper
\* takes from then on are messages.
KeyBehind(c, d) ==
    /\ relayed[d] # NoTelegram(d)
    /\ \A p \in DOMAIN stream :
           p > pos[c] /\ stream[p].src = d => stream[p].message > 0

HeardKeys == \A c \in Client :
    /\ phase[c] \in {"finalizing", "online"} => heard[c] = Client \ {c}
    /\ \A d \in heard[c] : KeyBehind(c, d)

\* The ring of d in the wrapper of c holds what comes before the next
\* telegram of d, on the stream or still to come.
RingOf(c, d) ==
    /\ \A p \in DOMAIN stream :
           p > pos[c] /\ stream[p].src = d /\ ~Between(stream, d, pos[c], p)
               => rest[c][d] = Before(stream[p])
    /\ ~Between(stream, d, pos[c], Len(stream) + 1) => rest[c][d] = Before(Following(relayed[d]))

Rings == \A c, d \in Client : c # d => RingOf(c, d)

Given == \A c \in Client : Meant(c, app[c] \o inq[c], pos[c])

MessengerInv == Places /\ StreamInv /\ HeardKeys /\ Rings /\ Given
-----------------------------------------------------------------------------
(***************************************************************************)
(* Lemmas about telegrams and rings                                        *)
(***************************************************************************)

\* The beginning of a message up to telegram t.
UpTo(t) == [k \in 1 .. t.part |-> [t EXCEPT !.part = k]]

LEMMA BeforeThen ==
    ASSUME NEW t \in Telegram, t.message > 0
    PROVE  Append(Before(t), t) = UpTo(t)
<1>1. PICK s \in Client, m \in 0 .. MaxMessages, n \in 1 .. Parts :
          t = [src |-> s, message |-> m, part |-> n]
    BY DEF Telegram
<1>2. [t EXCEPT !.part = n] = t /\ n \in Nat /\ n > 0 /\ t.part = n
    BY <1>1, MessengerAssumption
<1> DEFINE B == [k \in 1 .. n - 1 |-> [t EXCEPT !.part = k]]
<1>3. Before(t) = B
    BY <1>1, MessengerAssumption DEF Before
<1>4. Len(B) = n - 1
    BY <1>2
<1>5. Append(B, t) = [k \in 1 .. n |-> [t EXCEPT !.part = k]]
    BY <1>2, <1>4
<1> QED  BY <1>2, <1>3, <1>5 DEF UpTo

\* What a ring holds after telegram t.
LEMMA BeforeNext ==
    ASSUME NEW t \in Telegram, t.message = 0 => t.part = Parts
    PROVE  Before(Following(t)) = IF t.part = Parts THEN <<>> ELSE Append(Before(t), t)
<1>1. PICK s \in Client, m \in 0 .. MaxMessages, n \in 1 .. Parts :
          t = [src |-> s, message |-> m, part |-> n]
    BY DEF Telegram
<1>2. CASE n = Parts
    <2>1. Following(t) = [src |-> s, message |-> m + 1, part |-> 1]
        BY <1>1, <1>2 DEF Following
    <2>2. Before(Following(t)) = [k \in 1 .. 0 |-> [Following(t) EXCEPT !.part = k]]
        BY <2>1, <1>1 DEF Before
    <2> QED  BY <2>2, <1>1, <1>2
<1>3. CASE n # Parts
    <2>1. Following(t) = [src |-> s, message |-> m, part |-> n + 1]
        BY <1>1, <1>3 DEF Following
    <2>2. m > 0 /\ n \in Nat
        BY <1>1, <1>3, MessengerAssumption
    <2>3. \A k \in 1 .. n : [Following(t) EXCEPT !.part = k] = [t EXCEPT !.part = k]
        BY <2>1, <1>1
    <2>4. Before(Following(t)) = [k \in 1 .. n |-> [Following(t) EXCEPT !.part = k]]
        BY <2>1, <2>2 DEF Before
    <2>5. Before(Following(t)) = UpTo(t)
        BY <2>3, <2>4, <1>1 DEF UpTo
    <2> QED  BY <2>5, <2>2, <1>1, <1>3, BeforeThen
<1> QED  BY <1>2, <1>3

\* After what stands for a key packet, or comes before it, a ring is empty.
LEMMA BeforeKey ==
    ASSUME NEW c, NEW t, OwnPlace(t, c), t.message = 0
    PROVE  Before(Following(t)) = <<>>
<1>1. t = [src |-> c, message |-> 0, part |-> t.part] /\ t.part \in {Parts - 1, Parts}
    BY PlaceFields DEF OwnPlace
<1>2. CASE t.part = Parts
    <2>1. Following(t) = [[t EXCEPT !.message = @ + 1] EXCEPT !.part = 1]
        BY <1>2 DEF Following
    <2>2. Following(t).message = 1 /\ Following(t).part = 1
        BY <1>1, <2>1
    <2>3. Before(Following(t)) = [k \in 1 .. 0 |-> [Following(t) EXCEPT !.part = k]]
        BY <2>2 DEF Before
    <2> QED  BY <2>3
<1>3. CASE t.part # Parts
    <2>1. Following(t).message = 0
        BY <1>1, <1>3 DEF Following
    <2> QED  BY <2>1 DEF Before
<1> QED  BY <1>2, <1>3

\* A ring that holds what comes before telegram t has room for it.
LEMMA RingHasRoom ==
    ASSUME Parts <= RingSize, NEW t \in Telegram PROVE ~Full(Before(t))
<1>1. t.part \in Nat /\ t.part > 0 /\ t.part <= Parts
    BY MessengerAssumption DEF Telegram
<1>2. Len(Before(t)) = 0 \/ Len(Before(t)) = t.part - 1
    BY <1>1 DEF Before
<1> QED  BY <1>1, <1>2, MessengerAssumption DEF Full

\* A ring that holds what comes before the next telegram makes a packet when
\* the last part has come, and only then.
LEMMA PacketMade ==
    ASSUME NEW t \in Telegram, t.message = 0 => t.part = Parts
    PROVE  MakesPacket(Append(Before(t), t)) = {t.part = Parts}
<1> DEFINE q == Append(Before(t), t)
<1>1. PICK s \in Client, m \in 0 .. MaxMessages, n \in 1 .. Parts :
          t = [src |-> s, message |-> m, part |-> n]
    BY DEF Telegram
<1>2. CASE m = 0
    <2>1. q = <<t>>
        BY <1>1, <1>2 DEF Before
    <2>2. q[1].message = 0 /\ Last(q) = t
        BY <2>1, <1>1, <1>2 DEF Last
    <2> QED  BY <2>2 DEF MakesPacket
<1>3. CASE m # 0
    <2>1. q = UpTo(t)
        BY <1>1, <1>3, BeforeThen, MessengerAssumption
    <2>2. n \in Nat /\ n > 0 /\ t.part = n
        BY <1>1, MessengerAssumption
    <2>3. Len(q) = n /\ q[1].part = 1
        BY <2>1, <2>2, <1>1 DEF UpTo
    <2>4. q[n] = t
        BY <2>1, <2>2, <1>1 DEF UpTo
    <2> QED  BY <2>3, <2>4 DEF MakesPacket, Last
<1> QED  BY <1>2, <1>3

LEMMA StreamTyped ==
    ASSUME TypeOK
    PROVE  /\ Len(stream) \in Nat /\ DOMAIN stream = 1 .. Len(stream)
           /\ \A p \in DOMAIN stream : stream[p] \in Telegram /\ stream[p].src \in Client
                                       /\ stream[p].message \in Nat
<1>1. stream \in Seq(Telegram)
    BY DEF TypeOK
<1>2. \A t \in Telegram : t.src \in Client /\ t.message \in Nat
    BY MessengerAssumption DEF Telegram
<1> QED  BY <1>1, <1>2

-----------------------------------------------------------------------------
(***************************************************************************)
(* A telegram is relayed                                                   *)
(***************************************************************************)

\* The server puts telegram t of client c on the stream, the one that follows
\* what it has relayed of c: the key packet when that is the first.
Grows(c, t) ==
    /\ t \in Telegram /\ t.src = c
    /\ t = Following(relayed[c])
    /\ stream' = Append(stream, t)
    /\ relayed' = [relayed EXCEPT ![c] = t]
    /\ t.message = 0 => t.part = Parts
    /\ (\E p \in DOMAIN stream : stream[p].src = c) => t.message > 0

LEMMA GrownStream ==
    ASSUME TypeOK, NEW c, NEW t, Grows(c, t)
    PROVE  /\ DOMAIN stream' = 1 .. Len(stream) + 1
           /\ Len(stream') = Len(stream) + 1
           /\ stream'[Len(stream) + 1] = t
           /\ \A p \in DOMAIN stream : p \in DOMAIN stream' /\ stream'[p] = stream[p]
BY DEF TypeOK, Grows

\* Where a client has telegrams is as before on the old part of the stream.
LEMMA GrownBetween ==
    ASSUME TypeOK, NEW c, NEW t, Grows(c, t), NEW d, NEW p \in Nat, NEW r \in Nat
    PROVE  /\ r <= Len(stream) + 1 => (Between(stream', d, p, r) <=> Between(stream, d, p, r))
           /\ d = c /\ p <= Len(stream) => Between(stream', d, p, Len(stream) + 2)
           /\ d # c => (Between(stream', d, p, Len(stream) + 2) <=> Between(stream, d, p, Len(stream) + 1))
<1>1. PICK n \in Nat : n = Len(stream) /\ DOMAIN stream = 1 .. n /\ t.src = c
    BY StreamTyped DEF Grows
<1>2. /\ DOMAIN stream' = 1 .. n + 1 /\ stream'[n + 1] = t
      /\ \A q \in 1 .. n : stream'[q] = stream[q]
    BY <1>1, GrownStream
<1>3. r <= n + 1 => (Between(stream', d, p, r) <=> Between(stream, d, p, r))
    BY <1>1, <1>2 DEF Between
<1>4. d = c /\ p <= n => Between(stream', d, p, n + 2)
    BY <1>1, <1>2 DEF Between
<1>5. d # c => (Between(stream', d, p, n + 2) <=> Between(stream, d, p, n + 1))
    BY <1>1, <1>2 DEF Between
<1> QED  BY <1>1, <1>3, <1>4, <1>5

LEMMA GrownKeyFirst ==
    ASSUME TypeOK, NEW c \in Client, NEW t, Grows(c, t), KeyFirst
    PROVE  KeyFirst'
<1>1. PICK n \in Nat : n = Len(stream) /\ DOMAIN stream = 1 .. n
    BY StreamTyped
<1>2. /\ DOMAIN stream' = 1 .. n + 1 /\ stream'[n + 1] = t
      /\ \A q \in 1 .. n : stream'[q] = stream[q]
    BY <1>1, GrownStream
<1>3. /\ t.src = c /\ (t.message = 0 => t.part = Parts)
      /\ (\E p \in DOMAIN stream : stream[p].src = c) => t.message > 0
    BY DEF Grows
<1>4. ASSUME NEW p \in 1 .. n + 1 PROVE stream'[p].message = 0 => stream'[p].part = Parts
    BY <1>1, <1>2, <1>3 DEF KeyFirst
<1>5. ASSUME NEW p \in 1 .. n + 1, NEW r \in 1 .. n + 1, p < r, stream'[p].src = stream'[r].src
      PROVE  stream'[r].message > 0
    <2>1. p \in 1 .. n /\ stream'[p] = stream[p]
        BY <1>1, <1>2, <1>5
    <2>2. CASE r = n + 1
        BY <2>1, <2>2, <1>1, <1>2, <1>3, <1>5
    <2>3. CASE r # n + 1
        <3>1. r \in 1 .. n /\ stream'[r] = stream[r]
            BY <1>1, <1>2, <2>3
        <3> QED  BY <3>1, <2>1, <1>1, <1>5 DEF KeyFirst
    <2> QED  BY <2>2, <2>3
<1> QED  BY <1>2, <1>4, <1>5 DEF KeyFirst

LEMMA GrownChain ==
    ASSUME TypeOK, NEW c \in Client, NEW t, Grows(c, t), Chained, LastRelayed
    PROVE  Chained' /\ LastRelayed'
<1>1. PICK n \in Nat : n = Len(stream) /\ DOMAIN stream = 1 .. n
    BY StreamTyped
<1>2. /\ DOMAIN stream' = 1 .. n + 1 /\ stream'[n + 1] = t /\ Len(stream') = n + 1
      /\ \A q \in 1 .. n : stream'[q] = stream[q]
    BY <1>1, GrownStream
<1>3. /\ t.src = c /\ relayed' = [relayed EXCEPT ![c] = t] /\ relayed'[c] = t
      /\ t = Following(relayed[c])
    BY DEF Grows, TypeOK
<1>4. ASSUME NEW d, NEW p \in Nat, NEW r \in Nat
      PROVE  /\ r <= n + 1 => (Between(stream', d, p, r) <=> Between(stream, d, p, r))
             /\ d = c /\ p <= n => Between(stream', d, p, n + 2)
             /\ d # c => (Between(stream', d, p, n + 2) <=> Between(stream, d, p, n + 1))
    BY <1>1, GrownBetween
<1>5. ASSUME NEW p \in 1 .. n + 1, NEW r \in 1 .. n + 1, p < r,
             stream'[p].src = stream'[r].src, ~Between(stream', stream'[p].src, p, r)
      PROVE  stream'[r] = Following(stream'[p])
    <2>1. p \in 1 .. n /\ stream'[p] = stream[p] /\ p \in Nat /\ r \in Nat
        BY <1>1, <1>2, <1>5
    <2>2. ~Between(stream, stream[p].src, p, r)
        <3>1. r <= n + 1
            BY <1>1
        <3> QED  BY <3>1, <2>1, <1>4, <1>5
    <2>3. CASE r = n + 1
        <3>1. stream[p].src = c
            BY <2>1, <2>3, <1>2, <1>3, <1>5
        <3>2. stream[p] = relayed[c]
            BY <3>1, <2>1, <2>2, <2>3, <1>1 DEF LastRelayed
        <3> QED  BY <3>1, <3>2, <2>1, <2>3, <1>1, <1>2, <1>3
    <2>4. CASE r # n + 1
        <3>1. r \in 1 .. n /\ stream'[r] = stream[r]
            BY <1>1, <1>2, <2>4
        <3> QED  BY <3>1, <2>1, <2>2, <1>1, <1>5 DEF Chained
    <2> QED  BY <2>3, <2>4
<1>6. ASSUME NEW p \in 1 .. n + 1, ~Between(stream', stream'[p].src, p, n + 2)
      PROVE  stream'[p] = relayed'[stream'[p].src]
    <2>1. CASE p = n + 1
        BY <2>1, <1>2, <1>3
    <2>2. CASE p # n + 1
        <3>1. p \in 1 .. n /\ stream'[p] = stream[p] /\ p \in Nat /\ p <= n
            BY <1>1, <1>2, <2>2
        <3>2. stream[p].src # c
            BY <3>1, <1>4, <1>6
        <3>3. ~Between(stream, stream[p].src, p, n + 1)
            BY <3>1, <3>2, <1>1, <1>4, <1>6
        <3>4. stream[p] = relayed[stream[p].src]
            BY <3>1, <3>3, <1>1 DEF LastRelayed
        <3>5. stream[p].src \in Client
            BY <3>1, <1>1, StreamTyped
        <3> QED  BY <3>1, <3>2, <3>4, <3>5, <1>3 DEF TypeOK
    <2> QED  BY <2>1, <2>2
<1>7. Chained'
    BY <1>2, <1>5 DEF Chained
<1>8. n + 1 + 1 = n + 2
    BY <1>1
<1>9. LastRelayed'
    BY <1>2, <1>6, <1>8 DEF LastRelayed
<1> QED  BY <1>7, <1>9

LEMMA GrownRings ==
    ASSUME TypeOK, NEW c \in Client, NEW t, Grows(c, t), Rings, rest' = rest, pos' = pos
    PROVE  Rings'
<1>1. PICK n \in Nat : n = Len(stream) /\ DOMAIN stream = 1 .. n
    BY StreamTyped
<1>2. /\ DOMAIN stream' = 1 .. n + 1 /\ stream'[n + 1] = t /\ Len(stream') = n + 1
      /\ \A q \in 1 .. n : stream'[q] = stream[q]
    BY <1>1, GrownStream
<1>3. /\ t.src = c /\ t = Following(relayed[c])
      /\ \A d \in Client : d # c => relayed'[d] = relayed[d]
    BY DEF Grows, TypeOK
<1>4. ASSUME NEW d, NEW p \in Nat, NEW r \in Nat
      PROVE  /\ r <= n + 1 => (Between(stream', d, p, r) <=> Between(stream, d, p, r))
             /\ d = c /\ p <= n => Between(stream', d, p, n + 2)
             /\ d # c => (Between(stream', d, p, n + 2) <=> Between(stream, d, p, n + 1))
    BY <1>1, GrownBetween
<1>5. ASSUME NEW e \in Client, NEW d \in Client, e # d PROVE RingOf(e, d)'
    <2>1. PICK m \in Nat : m = pos[e] /\ pos'[e] = m /\ m <= n
        BY <1>1 DEF TypeOK
    <2>2. RingOf(e, d)
        BY <1>5 DEF Rings
    <2>3. ASSUME NEW p \in 1 .. n + 1, p > m, stream'[p].src = d, ~Between(stream', d, m, p)
          PROVE  rest[e][d] = Before(stream'[p])
        <3>1. ~Between(stream, d, m, p)
            <4>1. p <= n + 1 /\ p \in Nat
                BY <1>1
            <4> QED  BY <4>1, <2>3, <1>4
        <3>2. CASE p = n + 1
            <4>1. d = c
                BY <3>2, <2>3, <1>2, <1>3
            <4>2. rest[e][d] = Before(Following(relayed[d]))
                BY <3>1, <3>2, <2>1, <2>2, <1>1 DEF RingOf
            <4> QED  BY <4>1, <4>2, <3>2, <1>2, <1>3
        <3>3. CASE p # n + 1
            <4>1. p \in 1 .. n /\ stream'[p] = stream[p]
                BY <3>3, <1>1, <1>2
            <4> QED  BY <4>1, <3>1, <2>1, <2>2, <2>3, <1>1 DEF RingOf
        <3> QED  BY <3>2, <3>3
    <2>4. ASSUME ~Between(stream', d, m, n + 2)
          PROVE  rest[e][d] = Before(Following(relayed'[d]))
        <3>1. d # c
            BY <2>1, <2>4, <1>4
        <3>2. ~Between(stream, d, m, n + 1)
            BY <3>1, <2>1, <2>4, <1>4, <1>1
        <3> QED  BY <3>1, <3>2, <2>1, <2>2, <1>1, <1>3 DEF RingOf
    <2>5. n + 1 + 1 = n + 2
        BY <1>1
    <2> QED  BY <2>1, <2>3, <2>4, <2>5, <1>2 DEF RingOf
<1> QED  BY <1>5 DEF Rings

LEMMA GrownBehind ==
    ASSUME TypeOK, NEW c \in Client, NEW t, Grows(c, t), pos' = pos,
           NEW e \in Client, NEW d \in Client, KeyBehind(e, d), t.message > 0 \/ d # c,
           relayed'[d] # NoTelegram(d)
    PROVE  KeyBehind(e, d)'
<1>1. PICK n \in Nat : n = Len(stream) /\ DOMAIN stream = 1 .. n
    BY StreamTyped
<1>2. /\ DOMAIN stream' = 1 .. n + 1 /\ stream'[n + 1] = t
      /\ \A q \in 1 .. n : stream'[q] = stream[q]
    BY <1>1, GrownStream
<1>3. t.src = c
    BY DEF Grows
<1>4. ASSUME NEW p \in 1 .. n + 1, p > pos[e], stream'[p].src = d
      PROVE  stream'[p].message > 0
    <2>1. CASE p = n + 1
        BY <2>1, <1>2, <1>3, <1>4
    <2>2. CASE p # n + 1
        <3>1. p \in 1 .. n /\ stream'[p] = stream[p]
            BY <2>2, <1>1, <1>2
        <3> QED  BY <3>1, <1>1, <1>4 DEF KeyBehind
    <2> QED  BY <2>1, <2>2
<1>5. relayed'[d] # NoTelegram(d)'
    BY DEF NoTelegram
<1> QED  BY <1>2, <1>4, <1>5 DEF KeyBehind

-----------------------------------------------------------------------------
(***************************************************************************)
(* The packets a client has been given                                     *)
(***************************************************************************)

\* The list of packets, and where each of them ends on stream s.
ListedAt(at, s, packets, n, e) ==
    /\ at \in [DOMAIN packets -> e]
    /\ \A i, k \in DOMAIN packets : i < k => at[i] < at[k]
    /\ \A i \in DOMAIN packets : at[i] <= n /\ Holds(packets[i], s[at[i]])
    /\ \A p \in e : p <= n => \E i \in DOMAIN packets : at[i] = p

LEMMA MeantListed ==
    ASSUME NEW c, NEW packets, NEW n
    PROVE  Meant(c, packets, n) <=> \E at : ListedAt(at, stream, packets, n, Ends(c))
BY DEF Meant, ListedAt

\* What goes out does not change what a client is to have been given.
LEMMA GrownMeant ==
    ASSUME TypeOK, NEW c \in Client, NEW t, Grows(c, t),
           NEW e \in Client, NEW packets, NEW n \in Nat, n <= Len(stream), Meant(e, packets, n)
    PROVE  \E at : ListedAt(at, stream', packets, n, Ends(e)')
<1>1. PICK m \in Nat : m = Len(stream) /\ DOMAIN stream = 1 .. m
    BY StreamTyped
<1>2. /\ DOMAIN stream' = 1 .. m + 1
      /\ \A q \in 1 .. m : stream'[q] = stream[q]
    BY <1>1, GrownStream
<1>3. PICK at : ListedAt(at, stream, packets, n, Ends(e))
    BY MeantListed
<1>4. Ends(e) \subseteq Ends(e)' /\ Ends(e) \subseteq 1 .. m
    BY <1>1, <1>2 DEF Ends
<1>5. at \in [DOMAIN packets -> Ends(e)']
    BY <1>3, <1>4 DEF ListedAt
<1>6. ASSUME NEW p \in Ends(e)', p <= n PROVE p \in Ends(e)
    <2>1. p \in 1 .. m + 1
        BY <1>2 DEF Ends
    <2>2. p \in 1 .. m /\ stream'[p] = stream[p]
        BY <2>1, <1>1, <1>2, <1>6
    <2> QED  BY <2>2, <1>1 DEF Ends
<1>7. \A i \in DOMAIN packets : stream'[at[i]] = stream[at[i]]
    BY <1>2, <1>3, <1>4 DEF ListedAt
<1>8. ListedAt(at, stream', packets, n, Ends(e)')
    BY <1>3, <1>5, <1>6, <1>7 DEF ListedAt
<1> QED  BY <1>8

\* The backend takes a telegram with which no message ends.
LEMMA NothingEnds ==
    ASSUME TypeOK, NEW c \in Client, NEW packets, NEW n \in Nat,
           Meant(c, packets, n), n + 1 \notin Ends(c)
    PROVE  Meant(c, packets, n + 1)
<1>1. PICK at : ListedAt(at, stream, packets, n, Ends(c))
    BY MeantListed
<1>2. Ends(c) \subseteq Nat
    BY StreamTyped DEF Ends
<1>3. \A i \in DOMAIN packets : at[i] <= n + 1
    <2>1. \A i \in DOMAIN packets : at[i] \in Nat /\ at[i] <= n
        BY <1>1, <1>2 DEF ListedAt
    <2> QED  BY <2>1
<1>4. \A p \in Ends(c) : p <= n + 1 => p <= n
    BY <1>2
<1>5. ListedAt(at, stream, packets, n + 1, Ends(c))
    BY <1>1, <1>3, <1>4 DEF ListedAt
<1> QED  BY <1>5, MeantListed

\* The backend takes a telegram with which a message ends, and it is added.
LEMMA OneMoreGiven ==
    ASSUME TypeOK, NEW c \in Client, NEW packets \in Seq(Packet), NEW n \in Nat,
           Meant(c, packets, n), n + 1 \in Ends(c),
           NEW packet \in Packet, Holds(packet, stream[n + 1])
    PROVE  Meant(c, Append(packets, packet), n + 1)
<1>1. PICK at : ListedAt(at, stream, packets, n, Ends(c))
    BY MeantListed
<1>2. Ends(c) \subseteq Nat
    BY StreamTyped DEF Ends
<1>3. PICK m \in Nat : DOMAIN packets = 1 .. m /\ Len(packets) = m
    OBVIOUS
<1>4. PICK more \in Seq(Packet) :
        /\ more = Append(packets, packet) /\ DOMAIN more = 1 .. m + 1 /\ more[m + 1] = packet
        /\ \A i \in 1 .. m : more[i] = packets[i]
    <2>1. PICK more \in Seq(Packet) : more = Append(packets, packet)
        <3>1. Append(packets, packet) \in Seq(Packet)
            OBVIOUS
        <3> QED  BY <3>1, Zenon
    <2>2. Len(more) = m + 1 /\ more[m + 1] = packet /\ \A i \in 1 .. m : more[i] = packets[i]
        BY <2>1, <1>3
    <2>3. DOMAIN more = 1 .. m + 1
        BY <2>2
    <2> QED  BY <2>1, <2>2, <2>3
<1>5. /\ at \in [1 .. m -> Ends(c)]
      /\ \A i, k \in 1 .. m : i < k => at[i] < at[k]
      /\ \A i \in 1 .. m : at[i] <= n /\ Holds(packets[i], stream[at[i]])
      /\ \A p \in Ends(c) : p <= n => \E i \in 1 .. m : at[i] = p
    BY <1>1, <1>3 DEF ListedAt
<1> DEFINE to == [i \in 1 .. m + 1 |-> IF i = m + 1 THEN n + 1 ELSE at[i]]
<1>6. \A i \in 1 .. m : i \in 1 .. m + 1 /\ i # m + 1 /\ at[i] \in Nat /\ at[i] \in Ends(c)
    BY <1>2, <1>3, <1>5
<1>7. to \in [1 .. m + 1 -> Ends(c)]
    BY <1>6
<1>8. to[m + 1] = n + 1 /\ \A i \in 1 .. m : to[i] = at[i]
    BY <1>6
<1> HIDE DEF to
<1>9. ASSUME NEW i \in 1 .. m + 1, NEW k \in 1 .. m + 1, i < k PROVE to[i] < to[k]
    BY <1>3, <1>5, <1>6, <1>8, <1>9
<1>10. ASSUME NEW i \in 1 .. m + 1 PROVE to[i] <= n + 1 /\ Holds(more[i], stream[to[i]])
    <2>1. CASE i = m + 1
        BY <2>1, <1>4, <1>8
    <2>2. CASE i # m + 1
        BY <2>2, <1>3, <1>4, <1>5, <1>6, <1>8
    <2> QED  BY <2>1, <2>2
<1>11. ASSUME NEW p \in Ends(c), p <= n + 1 PROVE \E i \in 1 .. m + 1 : to[i] = p
    <2>1. CASE p = n + 1
        BY <2>1, <1>3, <1>8
    <2>2. CASE p # n + 1
        <3>1. p <= n
            BY <2>2, <1>2, <1>11
        <3> QED  BY <3>1, <1>3, <1>5, <1>6, <1>8
    <2> QED  BY <2>1, <2>2
<1>12. ListedAt(to, stream, more, n + 1, Ends(c))
    BY <1>4, <1>7, <1>9, <1>10, <1>11 DEF ListedAt
<1> QED  BY <1>4, <1>12, MeantListed

-----------------------------------------------------------------------------
(***************************************************************************)
(* Every step keeps the invariant                                          *)
(***************************************************************************)

\* What holds of the list of packets of one client holds in the next state.
LEMMA MeantNext ==
    ASSUME NEW e \in Client, NEW at, NEW packets, NEW n,
           packets = (app[e] \o inq[e])', n = pos'[e], ListedAt(at, stream', packets, n, Ends(e)')
    PROVE  Meant(e, app[e] \o inq[e], pos[e])'
BY DEF ListedAt, Meant

LEMMA GivenKept ==
    ASSUME Given, stream' = stream, pos' = pos,
           \A e \in Client : app'[e] \o inq'[e] = app[e] \o inq[e]
    PROVE  Given'
<1>1. ASSUME NEW e \in Client PROVE Meant(e, app[e] \o inq[e], pos[e])'
    <2>1. PICK packets : packets = app[e] \o inq[e]
        OBVIOUS
    <2>2. PICK n : n = pos[e]
        OBVIOUS
    <2>3. PICK at : ListedAt(at, stream, packets, n, Ends(e))
        BY <2>1, <2>2, MeantListed DEF Given
    <2>4. Ends(e)' = Ends(e)
        BY DEF Ends
    <2>5. ListedAt(at, stream', packets, n, Ends(e)')
        BY <2>3, <2>4
    <2> QED  BY <2>1, <2>2, <2>5, MeantNext
<1> QED  BY <1>1 DEF Given

LEMMA HeadMoved ==
    ASSUME NEW a \in Seq(Packet), NEW q \in Seq(Packet), q # <<>>
    PROVE  Append(a, Head(q)) \o Tail(q) = a \o q
<1>1. Head(q) \in Packet /\ Tail(q) \in Seq(Packet) /\ <<Head(q)>> \in Seq(Packet)
    OBVIOUS
<1>2. Append(a, Head(q)) = a \o <<Head(q)>>
    BY <1>1, AppendIsConcat
<1>3. (a \o <<Head(q)>>) \o Tail(q) = a \o (<<Head(q)>> \o Tail(q))
    BY <1>1, ConcatAssociative
<1>4. <<Head(q)>> \o Tail(q) = q
    BY <1>1
<1> QED  BY <1>2, <1>3, <1>4

LEMMA LastAdded ==
    ASSUME NEW a \in Seq(Packet), NEW q \in Seq(Packet), NEW e \in Packet
    PROVE  a \o Append(q, e) = Append(a \o q, e)
<1>1. <<e>> \in Seq(Packet) /\ a \o q \in Seq(Packet)
    OBVIOUS
<1>2. Append(q, e) = q \o <<e>> /\ Append(a \o q, e) = (a \o q) \o <<e>>
    BY <1>1, AppendIsConcat
<1> QED  BY <1>1, <1>2, ConcatAssociative

LEMMA GrownGiven ==
    ASSUME TypeOK, NEW c \in Client, NEW t, Grows(c, t), Given,
           pos' = pos, app' = app, inq' = inq
    PROVE  Given'
<1>1. ASSUME NEW e \in Client PROVE Meant(e, app[e] \o inq[e], pos[e])'
    <2>1. PICK packets : packets = app[e] \o inq[e]
        OBVIOUS
    <2>2. PICK n \in Nat : n = pos[e] /\ n <= Len(stream)
        BY StreamTyped DEF TypeOK
    <2>3. Meant(e, packets, n)
        BY <2>1, <2>2 DEF Given
    <2>4. PICK at : ListedAt(at, stream', packets, n, Ends(e)')
        BY <2>2, <2>3, GrownMeant
    <2>5. packets = (app[e] \o inq[e])' /\ n = pos'[e]
        BY <2>1, <2>2
    <2> QED  BY <2>4, <2>5, MeantNext
<1> QED  BY <1>1 DEF Given

\* What a step that leaves the stream and the wrappers alone keeps.
StreamSame ==
    /\ stream' = stream /\ relayed' = relayed /\ pos' = pos /\ rest' = rest
    /\ heard' = heard /\ inq' = inq /\ app' = app

LEMMA SameKeeps ==
    ASSUME MessengerInv, StreamSame, Places', Quiet',
           \A c \in Client : phase'[c] \in {"finalizing", "online"} => heard[c] = Client \ {c}
    PROVE  MessengerInv'
<1>0. StreamInv /\ HeardKeys /\ Rings /\ Given
    BY DEF MessengerInv
<1>1. Begun' /\ KeyFirst' /\ Chained' /\ LastRelayed'
    BY <1>0 DEF StreamSame, StreamInv, Begun, KeyFirst, Chained, LastRelayed, NoTelegram
<1>2. HeardKeys'
    <2>1. ASSUME NEW e \in Client, NEW d \in heard[e] PROVE KeyBehind(e, d)'
        <3>1. KeyBehind(e, d)
            BY <1>0 DEF HeardKeys
        <3> QED  BY <3>1 DEF StreamSame, KeyBehind, NoTelegram
    <2> QED  BY <2>1 DEF StreamSame, HeardKeys
<1>3. Rings'
    BY <1>0 DEF StreamSame, Rings, RingOf
<1>4. Given'
    BY <1>0, GivenKept DEF StreamSame
<1> QED  BY <1>1, <1>2, <1>3, <1>4 DEF MessengerInv, StreamInv

\* A client sends: its key packet, or, when all are online, part of a message.
LEMMA SendKeeps ==
    ASSUME MessengerInv, Patient, NEW c \in Client, SendLast(c) \/ SendPart(c)
    PROVE  MessengerInv'
<1>0. Places /\ TypeOK /\ StreamInv /\ HeardKeys
    BY DEF MessengerInv, Places
<1>1. Places' /\ sent' = [sent EXCEPT ![c] = Following(sent[c])]
    BY <1>0, SendTyped
<1>2. StreamSame
    BY DEF SendLast, SendPart, StreamSame, serverVars
<1>3. /\ \A d \in Client : d # c => phase'[d] = phase[d]
      /\ phase'[c] \in {"keying", phase[c]}
    BY <1>0 DEF SendLast, SendPart, TypeOK
<1>4. Quiet'
    <2>1. CASE SendLast(c)
        <3>1. /\ \A d \in Client : sent[d].message = 0
              /\ \A p \in DOMAIN stream : stream[p].message = 0
            BY <2>1, <1>0 DEF SendLast, StreamInv, Quiet
        <3>2. sent'[c] = KeyTelegram(c) /\ \A d \in Client : d # c => sent'[d] = sent[d]
            <4>1. sent[c] = NoTelegram(c)
                BY <2>1, <1>0 DEF SendLast, Places
            <4> QED  BY <4>1, <1>0, <1>1, NonePlace DEF TypeOK
        <3>3. \A d \in Client : sent'[d].message = 0
            BY <3>1, <3>2 DEF KeyTelegram
        <3> QED  BY <3>1, <3>3, <1>2 DEF Quiet, StreamSame
    <2>2. CASE SendPart(c)
        <3>1. SUFFICES ASSUME NEW d \in Client, phase[d] # "online" PROVE FALSE
            BY <2>2 DEF SendPart, Quiet
        <3>2. sent[c].message = 0
            BY <3>1, <1>0 DEF StreamInv, Quiet
        <3>3. OwnPlace(sent[c], c) /\ sent[c] # NoTelegram(c)
            BY <2>2, <1>0 DEF SendPart, Places
        <3>4. sent[c].part = Parts
            BY <3>2, <3>3, AfterKey
        <3>5. MayStart(c)
            BY <3>4, <2>2 DEF SendPart
        <3> QED  BY <3>1, <3>5 DEF MayStart
    <2> QED  BY <2>1, <2>2
<1>5. \A d \in Client : phase'[d] \in {"finalizing", "online"} => heard[d] = Client \ {d}
    BY <1>0, <1>3 DEF HeardKeys
<1> QED  BY <1>1, <1>2, <1>4, <1>5, SameKeeps

\* A chunk ends inside a telegram, or comes inside one.
LEMMA RelayKeeps ==
    ASSUME MessengerInv, NEW c \in Client, RelayHalf(c) \/ RelayInside(c) PROVE MessengerInv'
<1>0. Places /\ StreamInv /\ HeardKeys
    BY DEF MessengerInv
<1>1. Places' /\ StreamSame /\ phase' = phase /\ sent' = sent
    BY <1>0, RelayTyped DEF StreamSame
<1>2. Quiet'
    BY <1>0, <1>1 DEF StreamInv, Quiet, StreamSame
<1>3. \A d \in Client : phase'[d] \in {"finalizing", "online"} => heard[d] = Client \ {d}
    BY <1>0, <1>1 DEF HeardKeys
<1> QED  BY <1>1, <1>2, <1>3, SameKeeps

\* A telegram is on the stream.
LEMMA RelayRestKeeps ==
    ASSUME MessengerInv, NEW c \in Client, RelayRest(c) PROVE MessengerInv'
<1>0. Places /\ TypeOK /\ StreamInv /\ HeardKeys /\ Rings /\ Given
    BY DEF MessengerInv, Places
<1>1. /\ phase' = phase /\ sent' = sent /\ heard' = heard
      /\ pos' = pos /\ rest' = rest /\ inq' = inq /\ app' = app
    BY DEF RelayRest
<1>2. PICK t : t = Following(relayed[c])
    OBVIOUS
<1>3. /\ Places' /\ t \in Telegram /\ t.src = c /\ NotAfter(t, sent[c])
      /\ stream' = Append(stream, t) /\ relayed' = [relayed EXCEPT ![c] = t]
    BY <1>0, <1>2, RelayRestTyped
<1>4. /\ relayed'[c] = t /\ \A d \in Client : d # c => relayed'[d] = relayed[d]
    BY <1>0, <1>3 DEF TypeOK
<1>5. /\ OwnPlace(relayed[c], c) /\ OwnPlace(t, c) /\ t # NoTelegram(c)
      /\ relayed[c] # NoTelegram(c) => t.message > 0
    <2>1. OwnPlace(relayed[c], c) /\ OwnPlace(relayed[c], c)'
        BY <1>0, <1>3 DEF Places
    <2>2. OwnPlace(t, c)
        BY <2>1, <1>4 DEF OwnPlace
    <2> QED  BY <2>1, <2>2, <1>2, NotNone, AfterKey
<1>6. Grows(c, t)
    <2>1. t.message = 0 => t.part = Parts
        BY <1>5, AfterKey
    <2>2. ASSUME NEW p \in DOMAIN stream, stream[p].src = c PROVE relayed[c] # NoTelegram(c)
        BY <2>2, <1>0 DEF StreamInv, Begun
    <2> QED  BY <2>1, <2>2, <1>2, <1>3, <1>5 DEF Grows
<1>7. PICK n \in Nat : n = Len(stream) /\ DOMAIN stream = 1 .. n
    BY <1>0, StreamTyped
<1>8. /\ DOMAIN stream' = 1 .. n + 1 /\ stream'[n + 1] = t
      /\ \A q \in 1 .. n : stream'[q] = stream[q]
    BY <1>0, <1>6, <1>7, GrownStream
<1>9. \A p \in DOMAIN stream' : p \in 1 .. n \/ p = n + 1
    BY <1>7, <1>8
<1>10. Quiet'
    <2>1. SUFFICES ASSUME \E d \in Client : phase[d] # "online"
                   PROVE  \A p \in DOMAIN stream' : stream'[p].message = 0
        BY <1>0, <1>1 DEF StreamInv, Quiet
    <2>2. sent[c].message = 0 /\ \A p \in DOMAIN stream : stream[p].message = 0
        BY <2>1, <1>0 DEF StreamInv, Quiet
    <2>3. t.message = 0
        <3>1. t.message \in Nat
            BY <1>5, PlaceFields DEF OwnPlace
        <3> QED  BY <3>1, <2>2, <1>3 DEF NotAfter
    <2> QED  BY <2>2, <2>3, <1>7, <1>8, <1>9
<1>11. Begun'
    <2>1. ASSUME NEW p \in DOMAIN stream' PROVE relayed'[stream'[p].src] # NoTelegram(stream'[p].src)
        <3>1. CASE p = n + 1
            BY <3>1, <1>3, <1>4, <1>5, <1>8
        <3>2. CASE p \in 1 .. n
            <4>1. /\ stream'[p] = stream[p] /\ stream[p].src \in Client
                  /\ relayed[stream[p].src] # NoTelegram(stream[p].src)
                BY <3>2, <1>0, <1>7, <1>8, StreamTyped DEF StreamInv, Begun
            <4> QED  BY <4>1, <1>4, <1>5
        <3> QED  BY <3>1, <3>2, <1>9
    <2> QED  BY <2>1 DEF Begun, NoTelegram
<1>12. StreamInv'
    BY <1>0, <1>6, <1>10, <1>11, GrownKeyFirst, GrownChain DEF StreamInv
<1>13. HeardKeys'
    <2>1. ASSUME NEW e \in Client, NEW d \in heard[e] PROVE KeyBehind(e, d)'
        <3>1. KeyBehind(e, d) /\ d \in Client
            BY <1>0 DEF HeardKeys, TypeOK
        <3>2. relayed'[d] # NoTelegram(d)
            BY <3>1, <1>4, <1>5 DEF KeyBehind
        <3>3. t.message > 0 \/ d # c
            BY <3>1, <1>5 DEF KeyBehind
        <3> QED  BY <3>1, <3>2, <3>3, <1>0, <1>1, <1>6, GrownBehind
    <2>2. ASSUME NEW e \in Client, phase'[e] \in {"finalizing", "online"}
          PROVE  heard'[e] = Client \ {e}
        BY <2>2, <1>0, <1>1 DEF HeardKeys
    <2> QED  BY <2>1, <2>2, <1>1 DEF HeardKeys
<1>14. Rings' /\ Given'
    BY <1>0, <1>1, <1>6, GrownRings, GrownGiven
<1> QED  BY <1>3, <1>12, <1>13, <1>14 DEF MessengerInv

LEMMA CompleteKeeps ==
    ASSUME MessengerInv, NEW c \in Client, Complete(c) PROVE MessengerInv'
<1>0. Places /\ TypeOK /\ StreamInv /\ HeardKeys
    BY DEF MessengerInv, Places
<1>1. /\ phase[c] = "keying" /\ heard[c] = Client \ {c} /\ StreamSame /\ sent' = sent
      /\ phase' = [phase EXCEPT ![c] = "finalizing"]
    BY DEF Complete, StreamSame, serverVars
<1>2. Places'
    BY <1>0, NextTyped DEF Next
<1>3. Quiet'
    BY <1>0, <1>1 DEF StreamInv, Quiet, StreamSame
<1>4. \A d \in Client : phase'[d] \in {"finalizing", "online"} => heard[d] = Client \ {d}
    BY <1>0, <1>1 DEF HeardKeys, TypeOK
<1> QED  BY <1>1, <1>2, <1>3, <1>4, SameKeeps

\* The wrapper of ClientSmoke starts with empty rings, and those of the
\* wrapper it follows were empty.
LEMMA GoOnlineKeeps ==
    ASSUME MessengerInv, NEW c \in Client, GoOnline(c) PROVE MessengerInv'
<1>0. Places /\ TypeOK /\ StreamInv /\ HeardKeys /\ Rings /\ Given
    BY DEF MessengerInv, Places
<1>1. /\ phase[c] = "finalizing"
      /\ phase' = [phase EXCEPT ![c] = "online"] /\ stream' = stream
      /\ sent' = sent /\ relayed' = relayed /\ heard' = heard /\ pos' = pos /\ inq' = inq /\ app' = app
    BY DEF GoOnline, serverVars
<1>2. /\ phase'[c] = "online"
      /\ \A d \in Client : d # c => phase'[d] = phase[d]
      /\ \A e, d \in Client : rest'[e][d] = IF e = c THEN <<>> ELSE rest[e][d]
    BY <1>0, <1>1 DEF TypeOK, GoOnline, Nothing
<1>3. Places'
    BY <1>0, NextTyped DEF Next
<1>4. Begun' /\ KeyFirst' /\ Chained' /\ LastRelayed'
    BY <1>0, <1>1 DEF StreamInv, Begun, KeyFirst, Chained, LastRelayed, NoTelegram
<1>5. /\ \A d \in Client : sent[d].message = 0
      /\ \A p \in DOMAIN stream : stream[p].message = 0
    BY <1>0, <1>1 DEF StreamInv, Quiet
<1>6. Quiet'
    BY <1>1, <1>5 DEF Quiet
<1>7. HeardKeys'
    <2>1. ASSUME NEW e \in Client, NEW d \in heard[e] PROVE KeyBehind(e, d)'
        <3>1. KeyBehind(e, d)
            BY <1>0 DEF HeardKeys
        <3> QED  BY <3>1, <1>1 DEF KeyBehind, NoTelegram
    <2>2. ASSUME NEW e \in Client, phase'[e] \in {"finalizing", "online"}
          PROVE  heard'[e] = Client \ {e}
        BY <2>2, <1>0, <1>1, <1>2 DEF HeardKeys
    <2> QED  BY <2>1, <2>2, <1>1 DEF HeardKeys
<1>8. Rings'
    <2>1. ASSUME NEW e \in Client, NEW d \in Client, e # d PROVE RingOf(e, d)'
        <3>1. CASE e = c
            <4>1. \A p \in DOMAIN stream : Before(stream[p]) = <<>>
                BY <1>5 DEF Before
            <4>2. Before(Following(relayed[d])) = <<>>
                <5>1. OwnPlace(relayed[d], d) /\ NotAfter(relayed[d], sent[d])
                    BY <1>0 DEF Places
                <5>2. relayed[d].message \in Nat /\ sent[d].message = 0
                    BY <5>1, <1>5, PlaceFields DEF OwnPlace
                <5>3. relayed[d].message = 0
                    BY <5>1, <5>2 DEF NotAfter
                <5> QED  BY <5>1, <5>3, BeforeKey
            <4>3. rest'[e][d] = <<>>
                BY <3>1, <1>2
            <4> QED  BY <4>1, <4>2, <4>3, <1>1 DEF RingOf
        <3>2. CASE e # c
            <4>1. rest'[e][d] = rest[e][d] /\ RingOf(e, d)
                BY <3>2, <2>1, <1>0, <1>2 DEF Rings
            <4> QED  BY <4>1, <1>1 DEF RingOf
        <3> QED  BY <3>1, <3>2
    <2> QED  BY <2>1 DEF Rings
<1>9. Given'
    BY <1>0, <1>1, GivenKept
<1> QED  BY <1>3, <1>4, <1>6, <1>7, <1>8, <1>9 DEF MessengerInv, StreamInv

\* receive() moves the oldest packet on.
LEMMA ReceiveKeeps ==
    ASSUME MessengerInv, NEW c \in Client, Receive(c) PROVE MessengerInv'
<1>0. Places /\ TypeOK /\ StreamInv /\ HeardKeys /\ Rings /\ Given
    BY DEF MessengerInv, Places
<1>1. /\ phase' = phase /\ stream' = stream /\ sent' = sent /\ relayed' = relayed
      /\ heard' = heard /\ pos' = pos /\ rest' = rest
    BY DEF Receive, serverVars
<1>2. /\ Places'
      /\ app' = [app EXCEPT ![c] = Append(app[c], Head(inq[c]))]
      /\ inq' = [inq EXCEPT ![c] = Tail(inq[c])]
      /\ inq[c] \in Seq(Packet) /\ inq[c] # <<>> /\ app[c] \in Seq(Packet)
    BY <1>0, ReceiveTyped, NextTyped DEF TypeOK, Next
<1>3. StreamInv' /\ HeardKeys' /\ Rings'
    BY <1>0, <1>1 DEF StreamInv, Quiet, Begun, KeyFirst, Chained, LastRelayed, NoTelegram,
                      HeardKeys, KeyBehind, Rings, RingOf
<1>4. Append(app[c], Head(inq[c])) \o Tail(inq[c]) = app[c] \o inq[c]
    BY <1>2, HeadMoved
<1>5. ASSUME NEW e \in Client PROVE app'[e] \o inq'[e] = app[e] \o inq[e]
    <2>1. CASE e = c
        BY <2>1, <1>0, <1>2, <1>4 DEF TypeOK
    <2>2. CASE e # c
        <3>1. app'[e] = app[e] /\ inq'[e] = inq[e]
            BY <2>2, <1>0, <1>2 DEF TypeOK
        <3> QED  BY <3>1
    <2> QED  BY <2>1, <2>2
<1>6. Given'
    BY <1>0, <1>1, <1>5, GivenKept
<1> QED  BY <1>2, <1>3, <1>6 DEF MessengerInv

\* A wrapper takes a telegram.
LEMMA PullFacts ==
    ASSUME TypeOK, NEW c \in Client, Pull(c)
    PROVE  /\ phase' = phase /\ stream' = stream /\ sent' = sent /\ app' = app
           /\ relayed' = relayed /\ phase[c] # "ready"
           /\ pos[c] \in Nat /\ pos[c] + 1 \in DOMAIN stream
           /\ pos' = [pos EXCEPT ![c] = pos[c] + 1]
<1>1. pos[c] \in 0 .. Len(stream) /\ DOMAIN stream = 1 .. Len(stream) /\ Len(stream) \in Nat
    BY StreamTyped DEF TypeOK
<1> QED  BY <1>1 DEF Pull, serverVars

\* What it does with a telegram t of another client: the ring, which holds
\* what comes before t, makes a packet when t is the last of its message.
Passes(c, t, q) ==
    /\ rest' = [rest EXCEPT ![c][t.src] = IF t.part = Parts THEN <<>> ELSE q]
    /\ heard' = IF t.part = Parts /\ phase[c] = "keying" /\ t.message = 0
                THEN [heard EXCEPT ![c] = @ \union {t.src}] ELSE heard
    /\ inq' = IF t.part = Parts /\ phase[c] = "online"
              THEN [inq EXCEPT ![c] = Append(@, [src |-> t.src, telegrams |-> q, body |-> "cipher"])]
              ELSE inq

LEMMA PullPasses ==
    ASSUME Parts <= RingSize, TypeOK, KeyFirst, Rings, NEW c \in Client, Pull(c),
           NEW t, t = stream[pos[c] + 1], t.src # c
    PROVE  Passes(c, t, Append(Before(t), t))
<1>1. pos[c] \in Nat /\ pos[c] + 1 \in DOMAIN stream
    BY PullFacts
<1>2. t \in Telegram /\ t.src \in Client /\ (t.message = 0 => t.part = Parts)
    BY <1>1, StreamTyped DEF KeyFirst
<1>3. rest[c][t.src] = Before(t)
    <2>1. PICK p \in Nat : p = pos[c] + 1 /\ p > pos[c] /\ p \in DOMAIN stream /\ t = stream[p]
        BY <1>1
    <2>2. ~Between(stream, t.src, pos[c], p)
        <3>1. \A q \in DOMAIN stream : ~(pos[c] < q /\ q < p)
            BY <1>1, <2>1, StreamTyped
        <3> QED  BY <3>1 DEF Between
    <2>3. RingOf(c, t.src)
        BY <1>2 DEF Rings
    <2> QED  BY <2>1, <2>2, <2>3 DEF RingOf
<1>4. PICK q : q = Append(Before(t), t)
    OBVIOUS
<1>5. MakesPacket(q) = {t.part = Parts}
    BY <1>2, <1>4, PacketMade
<1>6. ~(Skipped(c, t) \/ Full(rest[c][t.src]))
    BY <1>2, <1>3, RingHasRoom DEF Skipped
<1> DEFINE u == stream[pos[c] + 1]
           r == Append(rest[c][u.src], u)
<1>7. PICK whole \in MakesPacket(r) :
        /\ rest' = [rest EXCEPT ![c][u.src] = IF whole THEN <<>> ELSE r]
        /\ heard' = IF whole /\ phase[c] = "keying" /\ u.message = 0
                    THEN [heard EXCEPT ![c] = @ \union {u.src}] ELSE heard
        /\ inq' = IF whole /\ phase[c] = "online"
                  THEN [inq EXCEPT ![c] =
                           Append(@, [src |-> u.src, telegrams |-> r, body |-> "cipher"])]
                  ELSE inq
    BY <1>6 DEF Pull
<1>8. u = t /\ r = q
    BY <1>3, <1>4
<1> HIDE DEF u, r
<1>9. whole = (t.part = Parts)
    BY <1>5, <1>7, <1>8
<1>10. Passes(c, t, q)
    BY <1>7, <1>8, <1>9 DEF Passes
<1> QED  BY <1>4, <1>10

\* The rings after that.
LEMMA PullRings ==
    ASSUME Parts <= RingSize, TypeOK, StreamInv, Rings, NEW c \in Client, Pull(c) PROVE Rings'
<1>1. PICK n \in Nat : n = pos[c]
    BY PullFacts
<1>2. /\ stream' = stream /\ relayed' = relayed /\ n + 1 \in DOMAIN stream
      /\ pos'[c] = n + 1 /\ \A e \in Client : e # c => pos'[e] = pos[e]
    BY <1>1, PullFacts DEF TypeOK
<1>3. DOMAIN stream = 1 .. Len(stream) /\ Len(stream) \in Nat
    BY StreamTyped
<1>4. PICK t \in Telegram : t = stream[n + 1] /\ t.src \in Client /\ (t.message = 0 => t.part = Parts)
    BY <1>2, StreamTyped DEF StreamInv, KeyFirst
<1>5. ASSUME NEW e \in Client, NEW d \in Client, <<e, d>> # <<c, t.src>>, e # d
      PROVE  rest'[e][d] = rest[e][d]
    <2>1. CASE t.src = c
        <3>1. rest' = rest
            BY <2>1, <1>1, <1>4 DEF Pull, Skipped
        <3> QED  BY <3>1
    <2>2. CASE t.src # c
        <3>1. Passes(c, t, Append(Before(t), t))
            BY <2>2, <1>1, <1>4, PullPasses DEF StreamInv
        <3>2. rest' = [rest EXCEPT ![c][t.src] = IF t.part = Parts THEN <<>> ELSE Append(Before(t), t)]
            BY <3>1 DEF Passes
        <3> QED  BY <3>2, <1>4, <1>5 DEF TypeOK
    <2> QED  BY <2>1, <2>2
<1>6. ASSUME NEW e \in Client, NEW d \in Client, e # d PROVE RingOf(e, d)'
    <2>0. RingOf(e, d)
        BY <1>6 DEF Rings
    <2>1. CASE e # c
        <3>1. rest'[e][d] = rest[e][d] /\ pos'[e] = pos[e]
            BY <2>1, <1>2, <1>5, <1>6
        <3> QED  BY <3>1, <2>0, <1>2 DEF RingOf
    <2>2. CASE e = c /\ d # t.src
        <3>1. rest'[e][d] = rest[e][d]
            BY <2>2, <1>5, <1>6
        <3>2. ASSUME NEW p \in Nat, Between(stream, d, n, p) PROVE Between(stream, d, n + 1, p)
            <4>1. PICK q \in DOMAIN stream : n < q /\ q < p /\ stream[q].src = d
                BY <3>2 DEF Between
            <4>2. q # n + 1 /\ q \in Nat
                BY <4>1, <2>2, <1>3, <1>4
            <4> QED  BY <4>1, <4>2 DEF Between
        <3>3. ASSUME NEW p \in DOMAIN stream, p > n + 1, stream[p].src = d,
                     ~Between(stream, d, n + 1, p)
              PROVE  rest[e][d] = Before(stream[p])
            <4>1. p \in Nat /\ p > n /\ ~Between(stream, d, n, p)
                BY <1>3, <3>2, <3>3
            <4> QED  BY <4>1, <3>3, <2>0, <2>2, <1>1 DEF RingOf
        <3>4. ASSUME ~Between(stream, d, n + 1, Len(stream) + 1)
              PROVE  rest[e][d] = Before(Following(relayed[d]))
            <4>1. ~Between(stream, d, n, Len(stream) + 1)
                BY <1>3, <3>2, <3>4
            <4> QED  BY <4>1, <2>0, <2>2, <1>1 DEF RingOf
        <3> QED  BY <3>1, <3>3, <3>4, <2>2, <1>2 DEF RingOf
    <2>3. CASE e = c /\ d = t.src
        <3>1. Passes(c, t, Append(Before(t), t))
            BY <2>3, <1>1, <1>4, <1>6, PullPasses DEF StreamInv
        <3>2. rest' = [rest EXCEPT ![c][t.src] = IF t.part = Parts THEN <<>> ELSE Append(Before(t), t)]
            BY <3>1 DEF Passes
        <3>3. rest'[c][d] = Before(Following(t))
            <4>1. rest'[c][d] = IF t.part = Parts THEN <<>> ELSE Append(Before(t), t)
                BY <3>2, <2>3, <1>4 DEF TypeOK
            <4> QED  BY <4>1, <1>4, BeforeNext
        <3>4. ASSUME NEW p \in DOMAIN stream, p > n + 1, stream[p].src = d,
                     ~Between(stream, d, n + 1, p)
              PROVE  stream[p] = Following(t)
            <4>1. n + 1 < p
                BY <1>3, <3>4
            <4> QED  BY <4>1, <3>4, <2>3, <1>2, <1>4 DEF StreamInv, Chained
        <3>5. ASSUME ~Between(stream, d, n + 1, Len(stream) + 1)
              PROVE  relayed[d] = t
            BY <3>5, <2>3, <1>2, <1>4 DEF StreamInv, LastRelayed
        <3> QED  BY <3>3, <3>4, <3>5, <2>3, <1>2 DEF RingOf
    <2> QED  BY <2>1, <2>2, <2>3
<1> QED  BY <1>6 DEF Rings

\* The key packets that have been read are behind.
LEMMA PullHeard ==
    ASSUME Parts <= RingSize, MessengerInv, NEW c \in Client, Pull(c) PROVE HeardKeys'
<1>0. TypeOK /\ StreamInv /\ HeardKeys /\ Rings
    BY DEF MessengerInv, Places
<1>1. PICK n \in Nat : n = pos[c]
    BY <1>0, PullFacts
<1>2. /\ stream' = stream /\ relayed' = relayed /\ phase' = phase
      /\ n + 1 \in DOMAIN stream /\ phase[c] # "ready"
      /\ pos'[c] = n + 1 /\ \A e \in Client : e # c => pos'[e] = pos[e]
    BY <1>0, <1>1, PullFacts DEF TypeOK
<1>3. DOMAIN stream = 1 .. Len(stream) /\ Len(stream) \in Nat
    BY <1>0, StreamTyped
<1>4. PICK t \in Telegram : t = stream[n + 1] /\ t.src \in Client
    BY <1>0, <1>2, StreamTyped
<1>5. ASSUME NEW e \in Client, NEW d \in Client, KeyBehind(e, d) PROVE KeyBehind(e, d)'
    <2>1. \A p \in DOMAIN stream : p > pos'[e] => p > pos[e]
        BY <1>1, <1>2, <1>3
    <2> QED  BY <2>1, <1>2, <1>5 DEF KeyBehind, NoTelegram
<1>6. heard' = heard \/ (/\ t.src # c /\ phase[c] = "keying"
                         /\ heard' = [heard EXCEPT ![c] = @ \union {t.src}])
    <2>1. CASE t.src = c
        BY <2>1, <1>1, <1>4 DEF Pull, Skipped
    <2>2. CASE t.src # c
        <3>1. Passes(c, t, Append(Before(t), t))
            BY <2>2, <1>0, <1>1, <1>4, PullPasses DEF StreamInv
        <3> QED  BY <3>1, <2>2 DEF Passes
    <2> QED  BY <2>1, <2>2
<1>7. CASE heard' = heard
    BY <1>0, <1>2, <1>5, <1>7 DEF HeardKeys, TypeOK
<1>8. CASE /\ t.src # c /\ phase[c] = "keying"
           /\ heard' = [heard EXCEPT ![c] = @ \union {t.src}]
    <2>1. KeyBehind(c, t.src)'
        <3>1. relayed[t.src] # NoTelegram(t.src)
            BY <1>0, <1>2, <1>4 DEF StreamInv, Begun
        <3>2. ASSUME NEW p \in DOMAIN stream, p > n + 1, stream[p].src = t.src
              PROVE  stream[p].message > 0
            <4>1. n + 1 < p
                BY <1>3, <3>2
            <4> QED  BY <4>1, <3>2, <1>0, <1>2, <1>4 DEF StreamInv, KeyFirst
        <3> QED  BY <3>1, <3>2, <1>2 DEF KeyBehind, NoTelegram
    <2>2. \A e \in Client : heard'[e] = IF e = c THEN heard[c] \union {t.src} ELSE heard[e]
        BY <1>0, <1>8 DEF TypeOK
    <2>3. ASSUME NEW e \in Client, NEW d \in heard'[e] PROVE KeyBehind(e, d)'
        <3>1. CASE d \in heard[e]
            BY <3>1, <1>0, <1>5 DEF HeardKeys, TypeOK
        <3>2. CASE d \notin heard[e]
            BY <3>2, <2>1, <2>2, <2>3
        <3> QED  BY <3>1, <3>2
    <2>4. ASSUME NEW e \in Client, phase'[e] \in {"finalizing", "online"}
          PROVE  heard'[e] = Client \ {e}
        BY <2>2, <2>4, <1>0, <1>2, <1>8 DEF HeardKeys
    <2> QED  BY <2>3, <2>4 DEF HeardKeys
<1> QED  BY <1>6, <1>7, <1>8

\* The packet that is added holds the message that ends with t.
LEMMA PacketHolds ==
    ASSUME NEW t \in Telegram, t.message > 0, t.part = Parts,
           NEW packet, packet = [src |-> t.src, telegrams |-> Append(Before(t), t), body |-> "cipher"]
    PROVE  packet \in Packet /\ Holds(packet, t)
<1>1. packet.src = t.src /\ packet.telegrams = UpTo(t)
    BY BeforeThen
<1>2. UpTo(t) \in Seq(Telegram)
    <2>1. PICK s \in Client, m \in 0 .. MaxMessages, n \in 1 .. Parts :
              t = [src |-> s, message |-> m, part |-> n]
        BY DEF Telegram
    <2>2. \A k \in 1 .. n : [t EXCEPT !.part = k] \in Telegram
        BY <2>1, MessengerAssumption DEF Telegram
    <2>3. UpTo(t) \in [1 .. n -> Telegram] /\ n \in Nat
        BY <2>1, <2>2, MessengerAssumption DEF UpTo
    <2> QED  BY <2>3, SeqDef
<1>3. t.src \in Client
    BY DEF Telegram
<1>4. packet \in Packet
    BY <1>1, <1>2, <1>3, BeforeThen DEF Packet
<1>5. Holds(packet, t)
    BY <1>1 DEF Holds, UpTo
<1> QED  BY <1>4, <1>5

\* What a client has been given is what its backend has taken.
LEMMA PullGiven ==
    ASSUME Parts <= RingSize, MessengerInv, NEW c \in Client, Pull(c) PROVE Given'
<1>0. TypeOK /\ StreamInv /\ HeardKeys /\ Rings /\ Given
    BY DEF MessengerInv, Places
<1>1. PICK n \in Nat : n = pos[c]
    BY <1>0, PullFacts
<1>2. /\ stream' = stream /\ phase' = phase /\ app' = app /\ phase[c] # "ready"
      /\ n + 1 \in DOMAIN stream
      /\ pos'[c] = n + 1 /\ \A e \in Client : e # c => pos'[e] = pos[e]
    BY <1>0, <1>1, PullFacts DEF TypeOK
<1>3. PICK t \in Telegram :
        t = stream[n + 1] /\ t.src \in Client /\ t.message \in Nat /\ (t.message = 0 => t.part = Parts)
    BY <1>0, <1>2, StreamTyped DEF StreamInv, KeyFirst
<1>4. n + 1 \in Ends(c) <=> t.src # c /\ t.message > 0 /\ t.part = Parts
    BY <1>2, <1>3 DEF Ends
<1>5. app[c] \in Seq(Packet) /\ inq[c] \in Seq(Packet)
    BY <1>0 DEF TypeOK
<1>6. PICK packets \in Seq(Packet) : packets = app[c] \o inq[c]
    <2>1. app[c] \o inq[c] \in Seq(Packet)
        BY <1>5, ConcatProperties
    <2> QED  BY <2>1, Zenon
<1>7. Meant(c, packets, n)
    BY <1>0, <1>1, <1>6 DEF Given
<1>8. ASSUME NEW e \in Client, e # c, inq'[e] = inq[e]
      PROVE  Meant(e, app[e] \o inq[e], pos[e])'
    <2>1. PICK more : more = app[e] \o inq[e]
        OBVIOUS
    <2>2. PICK m : m = pos[e]
        OBVIOUS
    <2>3. PICK at : ListedAt(at, stream, more, m, Ends(e))
        BY <2>1, <2>2, <1>0, MeantListed DEF Given
    <2>4. Ends(e)' = Ends(e)
        BY <1>2 DEF Ends
    <2>5. ListedAt(at, stream', more, m, Ends(e)')
        BY <2>3, <2>4, <1>2
    <2>6. more = (app[e] \o inq[e])' /\ m = pos'[e]
        BY <2>1, <2>2, <1>2, <1>8
    <2> QED  BY <2>5, <2>6, MeantNext
<1>9. ASSUME NEW more, more = app[c] \o inq'[c], Meant(c, more, n + 1)
      PROVE  Meant(c, app[c] \o inq[c], pos[c])'
    <2>1. PICK at : ListedAt(at, stream, more, n + 1, Ends(c))
        BY <1>9, MeantListed
    <2>2. Ends(c)' = Ends(c)
        BY <1>2 DEF Ends
    <2>3. ListedAt(at, stream', more, n + 1, Ends(c)')
        BY <2>1, <2>2, <1>2
    <2>4. PICK m : m = n + 1
        OBVIOUS
    <2>5. more = (app[c] \o inq[c])' /\ m = pos'[c]
        BY <2>4, <1>2, <1>9
    <2> QED  BY <2>3, <2>4, <2>5, MeantNext
<1>10. phase[c] = "online" /\ t.src # c => t.message > 0
    <2>1. SUFFICES ASSUME phase[c] = "online", t.src # c PROVE t.message > 0
        OBVIOUS
    <2>2. KeyBehind(c, t.src)
        BY <2>1, <1>0, <1>3 DEF HeardKeys
    <2> QED  BY <2>2, <1>1, <1>2, <1>3 DEF KeyBehind
<1>11. phase[c] # "online" => t.message = 0
    BY <1>0, <1>2, <1>3 DEF StreamInv, Quiet
<1>12. CASE n + 1 \in Ends(c)
    <2>1. phase[c] = "online" /\ t.src # c /\ t.message > 0 /\ t.part = Parts
        BY <1>12, <1>4, <1>11
    <2>2. PICK packet : packet = [src |-> t.src, telegrams |-> Append(Before(t), t), body |-> "cipher"]
        OBVIOUS
    <2>3. packet \in Packet /\ Holds(packet, stream[n + 1])
        BY <2>1, <2>2, <1>3, PacketHolds
    <2>4. inq' = [inq EXCEPT ![c] = Append(inq[c], packet)]
        <3>1. Passes(c, t, Append(Before(t), t))
            BY <2>1, <1>0, <1>1, <1>3, PullPasses DEF StreamInv
        <3> QED  BY <3>1, <2>1, <2>2 DEF Passes
    <2>5. inq'[c] = Append(inq[c], packet) /\ \A e \in Client : e # c => inq'[e] = inq[e]
        BY <2>4, <1>0 DEF TypeOK
    <2>6. app[c] \o inq'[c] = Append(packets, packet)
        <3>1. app[c] \o Append(inq[c], packet) = Append(app[c] \o inq[c], packet)
            BY <2>3, <1>5, LastAdded
        <3> QED  BY <3>1, <2>5, <1>6
    <2>7. Meant(c, Append(packets, packet), n + 1)
        BY <2>3, <1>0, <1>7, <1>12, OneMoreGiven
    <2>8. Meant(c, app[c] \o inq[c], pos[c])'
        BY <2>6, <2>7, <1>9
    <2> QED  BY <2>5, <2>8, <1>8 DEF Given
<1>13. CASE n + 1 \notin Ends(c)
    <2>1. inq' = inq
        <3>1. CASE t.src = c
            BY <3>1, <1>1, <1>3 DEF Pull, Skipped
        <3>2. CASE t.src # c
            <4>1. Passes(c, t, Append(Before(t), t))
                BY <3>2, <1>0, <1>1, <1>3, PullPasses DEF StreamInv
            <4> QED  BY <4>1, <3>2, <1>4, <1>10, <1>13 DEF Passes
        <3> QED  BY <3>1, <3>2
    <2>2. Meant(c, packets, n + 1)
        BY <1>0, <1>7, <1>13, NothingEnds
    <2>3. Meant(c, app[c] \o inq[c], pos[c])'
        BY <2>1, <2>2, <1>6, <1>9
    <2> QED  BY <2>1, <2>3, <1>8 DEF Given
<1> QED  BY <1>12, <1>13

LEMMA PullKeeps ==
    ASSUME Parts <= RingSize, MessengerInv, NEW c \in Client, Pull(c) PROVE MessengerInv'
<1>0. Places /\ TypeOK /\ StreamInv /\ Rings
    BY DEF MessengerInv, Places
<1>1. stream' = stream /\ sent' = sent /\ relayed' = relayed /\ phase' = phase
    BY <1>0, PullFacts
<1>2. StreamInv'
    BY <1>0, <1>1 DEF StreamInv, Quiet, Begun, KeyFirst, Chained, LastRelayed, NoTelegram
<1>3. Places'
    BY <1>0, NextTyped DEF Next
<1> QED  BY <1>0, <1>2, <1>3, PullHeard, PullRings, PullGiven DEF MessengerInv

-----------------------------------------------------------------------------
(***************************************************************************)
(* The theorems                                                            *)
(***************************************************************************)

LEMMA InitKeeps == ASSUME Init PROVE MessengerInv
<1>1. stream = <<>> /\ DOMAIN stream = {} /\ Len(stream) = 0
    BY DEF Init
<1>2. Places
    BY InitTyped
<1>3. StreamInv
    BY <1>1 DEF Init, StreamInv, Quiet, Begun, KeyFirst, Chained, LastRelayed, NoTelegram
<1>4. HeardKeys
    BY DEF Init, HeardKeys
<1>5. Rings
    <2>1. ASSUME NEW c \in Client, NEW d \in Client PROVE RingOf(c, d)
        <3>1. relayed[d] = NoTelegram(d) /\ rest[c][d] = <<>>
            BY DEF Init, Nothing
        <3>2. Before(Following(NoTelegram(d))) = <<>>
            BY NonePlace, BeforeKey DEF NoTelegram
        <3> QED  BY <3>1, <3>2, <1>1 DEF RingOf
    <2> QED  BY <2>1 DEF Rings
<1>6. Given
    <2>1. ASSUME NEW c \in Client PROVE Meant(c, app[c] \o inq[c], pos[c])
        <3>1. app[c] = <<>> /\ inq[c] = <<>>
            BY DEF Init, Nothing
        <3>2. app[c] \o inq[c] = <<>>
            BY <3>1
        <3>3. Ends(c) = {}
            BY <1>1 DEF Ends
        <3>4. <<>> \in [DOMAIN <<>> -> {}] /\ DOMAIN <<>> = {}
            OBVIOUS
        <3>5. ListedAt(<<>>, stream, <<>>, pos[c], Ends(c))
            BY <3>3, <3>4 DEF ListedAt
        <3> QED  BY <3>2, <3>5 DEF Meant, ListedAt
    <2> QED  BY <2>1 DEF Given
<1> QED  BY <1>2, <1>3, <1>4, <1>5, <1>6 DEF MessengerInv

LEMMA NextKeeps ==
    ASSUME Patient, Parts <= RingSize, MessengerInv, [Next]_vars PROVE MessengerInv'
<1>0. Places
    BY DEF MessengerInv
<1>1. CASE UNCHANGED vars
    <2>1. StreamSame /\ phase' = phase /\ sent' = sent
        BY <1>1 DEF vars, serverVars, StreamSame
    <2>2. Quiet'
        BY <2>1 DEF MessengerInv, StreamInv, Quiet, StreamSame
    <2>3. \A c \in Client : phase'[c] \in {"finalizing", "online"} => heard[c] = Client \ {c}
        BY <2>1 DEF MessengerInv, HeardKeys
    <2> QED  BY <2>1, <2>2, <2>3, <1>0, NextTyped, SameKeeps
<1>2. ASSUME NEW c \in Client,
             \/ SendLast(c) \/ Pull(c) \/ Complete(c) \/ GoOnline(c)
             \/ SendPart(c) \/ Receive(c)
             \/ RelayHalf(c) \/ RelayRest(c) \/ RelayInside(c)
      PROVE  MessengerInv'
    BY <1>2, SendKeeps, PullKeeps, CompleteKeeps, GoOnlineKeeps, ReceiveKeeps, RelayKeeps,
       RelayRestKeeps
<1> QED  BY <1>1, <1>2 DEF Next

\* When nobody sends before all are online, and a message fits in a ring, the
\* invariant holds.
THEOREM MessengerAlwaysInv == Patient /\ Parts <= RingSize => (Spec => []MessengerInv)
<1>1. SUFFICES ASSUME Patient, Parts <= RingSize PROVE Spec => []MessengerInv
    OBVIOUS
<1>2. Init => MessengerInv
    BY InitKeeps
<1>3. MessengerInv /\ [Next]_vars => MessengerInv'
    BY <1>1, NextKeeps
<1> QED  BY <1>2, <1>3, PTL DEF Spec

\* When nobody sends before all are online, each client is given, of what its
\* backend has taken, every message of the others, whole, once and in the
\* order of the server's stream, if a message fits in a ring.
THEOREM AlwaysOldestFirst == Patient => (Spec => []OldestFirst)
<1>1. CASE Parts <= RingSize
    <2>1. MessengerInv => OldestFirst
        BY DEF MessengerInv, Places, Given, OldestFirst
    <2>2. Patient => (Spec => []MessengerInv)
        BY <1>1, MessengerAlwaysInv
    <2> QED  BY <2>1, <2>2, PTL
<1>2. CASE ~(Parts <= RingSize)
    <2>1. TypeOK => OldestFirst
        BY <1>2 DEF OldestFirst
    <2> QED  BY <2>1, MessengerAlwaysTypeOK, PTL
<1> QED  BY <1>1, <1>2
=============================================================================
