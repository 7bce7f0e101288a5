----------------------------- MODULE MCPackets -----------------------------
(* Packets of twelve kinds, with lengths of one byte, two and three.          *)
EXTENDS Packets

Published == [type |-> PUBLISH, qos |-> 0, topic |-> <<1>>, id |-> <<>>, payload |-> <<>>]

OfClient == {
  Published,
  [type |-> CONNECT, payload |-> [ClientId |-> <<1>>]],
  [type |-> CONNECT, payload |-> [ClientId |-> <<1>>, WillTopic |-> <<2>>, WillMessage |-> <<3>>]],
  [type |-> CONNECT, payload |-> [ClientId |-> <<>>, UserName |-> <<2, 3>>, Password |-> <<4>>]],
  [type |-> PUBLISH, qos |-> 1, topic |-> <<1, 2, 3, 4, 5, 6, 7, 8, 9>>, id |-> <<0, 7>>, payload |-> <<9>>],
  [type |-> SUBSCRIBE, id |-> <<0, 1>>, filters |-> (<<1>> :> <<0>>) @@ (<<2, 2>> :> <<1>>)],
  [type |-> UNSUBSCRIBE, body |-> <<0, 2, 0, 1, 1>>],
  [type |-> 12, body |-> <<>>]}

\* CONNACK, PUBACK, SUBACK and PINGRESP
OfServer == {
  Published,
  [type |-> 2, body |-> <<0, 0>>],
  [type |-> 4, body |-> <<0, 7>>],
  [type |-> 9, body |-> <<0, 1, 0>>],
  [type |-> 13, body |-> <<>>]}

OnlyPublished == {Published}

\* Nothing is said of what follows a mixture, so it is not explored.
Apart == ~mixed
=============================================================================
