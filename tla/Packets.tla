------------------------------ MODULE Packets ------------------------------
(***************************************************************************)
(* The sniffer that writes down what bots and Ecovacs say to each other     *)
(* (configs/mitm-mqtt.py): MQTT packets are cut out of the websocket        *)
(* messages that pass by, in which they are "concatenated and split", and   *)
(* taken apart.  Both sides of a connection go through one buffer.          *)
(*                                                                         *)
(* A byte is a number.  Base stands for the 128 that divides a byte of a    *)
(* length into digit and continuation bit, so that lengths of several bytes *)
(* occur in short packets; two bytes make a number in base 2 * Base.  Every *)
(* text is taken to be UTF-8.                                               *)
(***************************************************************************)
EXTENDS Integers, FiniteSets, Sequences, SequencesExt

CONSTANTS
  Base,         \* the radix of lengths
  ClientKinds,  \* the packets that the client of a connection may send
  ServerKinds,  \* and its server
  MaxSent       \* bound: packets in a connection

ASSUME BaseAssumption == Base \in Nat \ {0, 1}
ASSUME SentAssumption == MaxSent \in Nat

Sides == {"client", "server"}
Kinds == ClientKinds \cup ServerKinds

VARIABLES
  sent,    \* what each side sends in a websocket connection
  coming,  \* the bytes of it that have not passed by yet
  buffer,  \* ws_buffer of the connection
  dumped,  \* the packets dumped on the messages of each side
  left,    \* how many bytes it is warned of at the end, -1 until then
  sender,  \* history: the side of the last message
  mixed    \* history: whether a message came while the buffer held bytes of the other side

vars == <<sent, coming, buffer, dumped, left, sender, mixed>>

CONNECT     == 1
PUBLISH     == 3
PUBREL      == 6
SUBSCRIBE   == 8
UNSUBSCRIBE == 10

-----------------------------------------------------------------------------
(* How a packet looks on the wire: what MQTT 3.1.1 says, the reference.      *)

Digits(n) ==
  LET digits[m \in 0 .. n] ==
        IF m < Base THEN <<m>> ELSE <<Base + (m % Base)>> \o digits[m \div Base]
  IN  digits[n]

TwoBytes(n)   == <<n \div (2 * Base), n % (2 * Base)>>
Prefixed(s)   == TwoBytes(Len(s)) \o s
Bit(given, n) == IF given THEN n ELSE 0

PayloadNames == <<"ClientId", "WillTopic", "WillMessage", "UserName", "Password">>

ConnectFlags(names) ==
  Bit("WillTopic" \in names, 4) + Bit("Password" \in names, 64) + Bit("UserName" \in names, 128)

Given(p)   == SelectSeq(PayloadNames, LAMBDA n : n \in DOMAIN p.payload)
Filters(p) == SetToSeq(DOMAIN p.filters)

BodyOf(p) ==
  IF p.type = CONNECT
  THEN <<0, 4, 77, 81, 84, 84, 4, ConnectFlags(DOMAIN p.payload), 0, 60>>
       \o FlattenSeq([i \in DOMAIN Given(p) |-> Prefixed(p.payload[Given(p)[i]])])
  ELSE IF p.type = PUBLISH THEN Prefixed(p.topic) \o p.id \o p.payload
  ELSE IF p.type = SUBSCRIBE
  THEN p.id \o FlattenSeq([i \in DOMAIN Filters(p) |->
                 Prefixed(Filters(p)[i]) \o p.filters[Filters(p)[i]]])
  ELSE p.body

\* The low half of the first byte; DUP and RETAIN are left out.
FlagsOf(p) ==
  IF p.type = PUBLISH THEN 2 * p.qos
  ELSE IF p.type \in {PUBREL, SUBSCRIBE, UNSUBSCRIBE} THEN 2 ELSE 0

Wire(p) == <<16 * p.type + FlagsOf(p)>> \o Digits(Len(BodyOf(p))) \o BodyOf(p)

WireOf(packets) == FlattenSeq([i \in DOMAIN packets |-> Wire(packets[i])])

-----------------------------------------------------------------------------
(* MQTTControlPacket: how a packet is read                                   *)

\* The last byte of the length: one of the first three.  Without it the packet
\* cannot be read: IndexError, or "Malformed Remaining Length".
LengthEnds(b) == {i \in 2 .. 4 : i <= Len(b) /\ b[i] < Base}
LengthEnd(b)  == CHOOSE i \in LengthEnds(b) : \A j \in LengthEnds(b) : i <= j

\* _parse_remaining_length()
Remaining(b) ==
  LET e == LengthEnd(b)
  IN  (b[2] % Base) + (IF e > 2 THEN (b[3] % Base) * Base ELSE 0)
                  + (IF e > 3 THEN b[4] * Base * Base ELSE 0)

Total(b) == LengthEnd(b) + Remaining(b)

\* Otherwise the constructor raises, BlockingIOError or something else.
Whole(b) == LengthEnds(b) # {} /\ Total(b) <= Len(b)

\* A slice: what there is of it.
Slice(s, from, to) == SubSeq(s, from, IF to <= Len(s) THEN to ELSE Len(s))

\* _parse_length_prefixed_bytes() at a place in a body.
FieldLength(s, at) == s[at] * 2 * Base + s[at + 1]
Field(s, at)       == Slice(s, at + 2, at + 1 + FieldLength(s, at))

\* Where the fields begin that fill a body from a place on, each with some
\* bytes after it.  At the last byte there is no length to be read.
FieldsFrom(s, at, after) ==
  LET from[i \in Nat] ==
        IF i > Len(s) THEN <<>>
        ELSE <<i>> \o IF i = Len(s) THEN <<>> ELSE from[i + 2 + FieldLength(s, i) + after]
  IN  from[at]

\* _parse_connect_payload(): a field goes to the first name that is still free
\* and that the flags announce.
Announced(flags) ==
  SelectSeq(PayloadNames, LAMBDA n :
    CASE n \in {"WillTopic", "WillMessage"} -> (flags \div 4) % 2 = 1
      [] n = "UserName" -> (flags \div 128) % 2 = 1
      [] n = "Password" -> (flags \div 64) % 2 = 1
      [] OTHER -> TRUE)

Connect(body) ==
  LET fields == FieldsFrom(body, 11, 0)
      names  == Announced(body[8])
  IN  [type |-> CONNECT,
       payload |-> [n \in {names[i] : i \in DOMAIN fields} |->
                      Field(body, fields[CHOOSE i \in DOMAIN fields : names[i] = n])]]

Publish(body, qos) ==
  LET topic == Field(body, 1)
      idEnd == Len(topic) + 2 + (IF qos \in {1, 2} THEN 2 ELSE 0)
  IN  [type |-> PUBLISH, qos |-> qos, topic |-> topic,
       id |-> Slice(body, Len(topic) + 3, idEnd), payload |-> SubSeq(body, idEnd + 1, Len(body))]

\* _parse_subscribe_payload(): a dictionary of the filters.
Subscribe(body) ==
  LET at      == FieldsFrom(body, 3, 1)
      filters == {Field(body, at[i]) : i \in DOMAIN at}
      Qos(f)  == LET i   == at[Max({k \in DOMAIN at : Field(body, at[k]) = f})]
                     end == i + 2 + FieldLength(body, i)
                 IN  Slice(body, end, end)
  IN  [type |-> SUBSCRIBE, id |-> Slice(body, 1, 2), filters |-> [f \in filters |-> Qos(f)]]

PacketType(b) == b[1] \div 16
PacketQos(b)  == (b[1] \div 2) % 4
PacketBody(b) == SubSeq(b, LengthEnd(b) + 1, Total(b))

Packet(b) ==
  LET type == PacketType(b)
      body == PacketBody(b)
  IN  IF type = CONNECT THEN Connect(body)
      ELSE IF type = PUBLISH THEN Publish(body, PacketQos(b))
      ELSE IF type = SUBSCRIBE THEN Subscribe(body)
      ELSE [type |-> type]

\* A body that can be taken apart: each length in it has two bytes (struct.error
\* otherwise), and each field of a CONNECT has a name.
Lengths(at, body) == \A i \in DOMAIN at : at[i] < Len(body)
Readable(b) ==
  LET type == PacketType(b)
      body == PacketBody(b)
  IN  /\ type = CONNECT =>
           LET fields == FieldsFrom(body, 11, 0)
           IN  Lengths(fields, body)
               /\ (fields # <<>> => Len(fields) <= Len(Announced(body[8])))
      /\ type = PUBLISH => Len(body) >= 2
      /\ type = SUBSCRIBE => Lengths(FieldsFrom(body, 3, 1), body)

\* What is seen of a packet: of most types, the type.
Seen(p) == IF p.type \in {CONNECT, PUBLISH, SUBSCRIBE} THEN p ELSE [type |-> p.type]

\* A packet that is read as it was sent when nothing comes before or after it.
ReadAlone(p) ==
  LET w == Wire(p)
  IN  w \in Seq(Nat) /\ Whole(w) /\ Total(w) = Len(w) /\ Readable(w) /\ Packet(w) = Seen(p)

ASSUME KindsAssumption == \A p \in Kinds : ReadAlone(p)

-----------------------------------------------------------------------------
(* A connection                                                             *)

\* websocket_start()
Init ==
  /\ \E n, m \in 0 .. MaxSent :
       /\ n + m <= MaxSent
       /\ \E u \in [1 .. n -> ClientKinds], v \in [1 .. m -> ServerKinds] :
            sent = [client |-> u, server |-> v]
  /\ coming = [d \in Sides |-> WireOf(sent[d])]
  /\ buffer = <<>>
  /\ dumped = [d \in Sides |-> <<>>]
  /\ left = -1
  /\ sender = "client"
  /\ mixed = FALSE

\* A round of the loop: what it finds of the buffer and has dumped already.  A
\* packet is dumped and cut off; what raises changes nothing.
Round(r) ==
  IF Whole(r.rest) /\ Readable(r.rest)
  THEN [rest    |-> SubSeq(r.rest, Total(r.rest) + 1, Len(r.rest)),
        packets |-> Append(r.packets, Packet(r.rest))]
  ELSE r

\* The state of the loop after each round; a packet has a byte at least.
Loop(b) ==
  LET loop[n \in 0 .. Len(b)] ==
        IF n = 0 THEN [rest |-> b, packets |-> <<>>] ELSE Round(loop[n - 1])
  IN  loop

\* The next n bytes of a side come, whatever the buffer holds.
Received(d, n) == buffer \o SubSeq(coming[d], 1, n)
PassBy(d, n)   ==
  /\ left = -1
  /\ coming' = [coming EXCEPT ![d] = SubSeq(coming[d], n + 1, Len(coming[d]))]
  /\ sender' = d
  /\ mixed' = (mixed \/ (buffer # <<>> /\ sender # d))
  /\ UNCHANGED <<sent, left>>

\* Faulty: one packet of a message only.
MessageOnce(d, n) ==
  LET end == Loop(Received(d, n))[1]
  IN  /\ PassBy(d, n)
      /\ dumped' = [dumped EXCEPT ![d] = dumped[d] \o end.packets]
      /\ buffer' = end.rest

\* websocket_message(): flow.websocket.messages[-1] may be of either side.
Message(d, n) ==
  LET end == Loop(Received(d, n))[Len(Received(d, n))]
  IN  /\ PassBy(d, n)
      /\ dumped' = [dumped EXCEPT ![d] = dumped[d] \o end.packets]
      /\ buffer' = end.rest

\* websocket_end(), at any time.
End ==
  /\ left = -1
  /\ left' = Len(buffer)
  /\ buffer' = <<>>
  /\ UNCHANGED <<sent, coming, dumped, sender, mixed>>

Next == End \/ \E d \in Sides : \E n \in 1 .. Len(coming[d]) : Message(d, n)

Spec == Init /\ [][Next]_vars

-----------------------------------------------------------------------------
(* Properties                                                               *)

\* How much of what a side sends has passed by, how many packets of it have
\* whole, and what is seen of these.
Passed(d) == Len(WireOf(sent[d])) - Len(coming[d])
Come(d)   == {i \in DOMAIN sent[d] : Len(WireOf(SubSeq(sent[d], 1, i))) <= Passed(d)}
Count(d)  == Cardinality(Come(d))
Shown(s)  == [i \in DOMAIN s |-> Seen(s[i])]

\* Of each side exactly those packets are dumped that have passed by whole, in
\* order and each read as it was sent.  The comment on ws_buffer is that packets
\* "get concatenated and split across" messages "and need to be reassembled";
\* a message of the other side goes between the pieces, and it does not hold.
EachAsSent == \A d \in Sides : dumped[d] = SubSeq(Shown(sent[d]), 1, Count(d))

\* However packets are concatenated and split over the messages, also in the
\* middle of a length, each side's are dumped as they were sent as long as no
\* message comes in the middle of a packet of the other side; and at the end it is
\* warned of the bytes of those packets that have not come whole.
ReadAsSent ==
  LET Rest(d) == Passed(d) - Len(WireOf(SubSeq(sent[d], 1, Count(d))))
  IN  ~mixed => EachAsSent /\ left \in {-1, Rest("client") + Rest("server")}
=============================================================================
