------------------------------- MODULE Broker -------------------------------
(***************************************************************************)
(* What Bumper adds to the MQTT broker (BumperMQTTServerPlugin of           *)
(* bumper/mqtt/server.py) and the proxy to Ecovacs (ProxyClient of          *)
(* bumper/mqtt/proxy.py): who is let in, the mqtt_connection flag in the    *)
(* records, the proxy client made for every bot, and the map by which a     *)
(* bot's answer finds its way back to the sender of a command.              *)
(*                                                                         *)
(* The broker calls the plugin: authenticate, then connected, and, when the *)
(* connection is over, disconnected.  When a client id connects again, the  *)
(* callbacks of its two connections come in any order.                      *)
(***************************************************************************)
EXTENDS Naturals, FiniteSets

CONSTANTS
  Conns,     \* connections to the broker, each reusable once it is over
  Bots,      \* ids of bots
  Users,     \* ids of users of the app
  None,      \* no name, no proxy, no sender
  Ids,       \* request ids of commands from Ecovacs, each drawn once
  Senders,   \* who sends them
  ProxyMode  \* BUMPER_PROXY_MQTT

Names    == Bots \cup Users
Commands == [bot : Bots, id : Ids, from : Senders]

ASSUME NamesAssumption == Bots \cap Users = {} /\ None \notin Names
ASSUME SendersAssumption == None \notin Senders /\ None \notin Conns
ASSUME ModeAssumption == ProxyMode \in BOOLEAN

VARIABLES
  running,   \* FALSE from a crash until the flags are reset
  stage,     \* where each connection stands
  name,      \* the id in its client id
  flag,      \* per name: "none" without a record, else mqtt_connection as "down" or "up"
  overtaken, \* connections whose flag or proxy another one of the same id has taken
  proxyOf,   \* _proxy_clients: per name, the connection whose proxy is stored
  link,      \* the session of each connection's proxy at Ecovacs: "none", "open",
             \* "lost" while amqtt tries to reopen it, "closed"
  spared,    \* connections whose proxy a disconnect() has returned from and not closed
  popped,    \* the proxy a disconnected callback is closing
  mapper,    \* request_mapper of each proxy: per id the sender, or None
  fate       \* per command: "unsent", "lost", "open", "answered", "twice", "wrong"

connVars   == <<stage, name>>
recordVars == <<flag, overtaken>>
proxyVars  == <<proxyOf, link, spared, popped>>
relayVars  == <<mapper, fate>>
vars == <<running, connVars, recordVars, proxyVars, relayVars>>

\* "stuck": the disconnected callback was cut short, the flag never lowered.
Stages == {"free", "resolving", "connecting", "accepted", "up", "gone", "leaving", "stuck"}
Reported == {"up", "gone", "leaving", "stuck"}

Named(n) == {k \in Conns : name[k] = n /\ stage[k] # "free"}
NoEntries == [i \in Ids |-> None]

Init ==
  /\ running = TRUE
  /\ stage = [k \in Conns |-> "free"]
  /\ name = [k \in Conns |-> None]
  /\ flag \in [Names -> {"none", "down"}]
  /\ overtaken = {}
  /\ proxyOf = [n \in Names |-> None]
  /\ link = [k \in Conns |-> "none"]
  /\ spared = {}
  /\ popped = [k \in Conns |-> None]
  /\ mapper = [k \in Conns |-> NoEntries]
  /\ fate = [c \in Commands |-> "unsent"]

-----------------------------------------------------------------------------
(* authenticate()                                                           *)

\* A connection nothing refers to any more can stand for the next one.
Free(k) ==
  /\ stage[k] = "free"
  /\ \A n \in Names : proxyOf[n] # k
  /\ \A j \in Conns : popped[j] # k
  /\ link[k] \notin {"open", "lost"}

Enter(k, n, where) ==
  /\ stage' = [stage EXCEPT ![k] = where]
  /\ name' = [name EXCEPT ![k] = n]
  /\ flag' = [flag EXCEPT ![n] = IF @ = "none" THEN "down" ELSE @]
  /\ link' = [link EXCEPT ![k] = "none"]
  /\ mapper' = [mapper EXCEPT ![k] = NoEntries]
  /\ overtaken' = overtaken \ {k}
  /\ spared' = spared \ {k}

\* A user, or a bot that needs no proxy: a record if there was none, and in.
Authenticate(k, n) ==
  /\ running /\ Free(k)
  /\ Enter(k, n, "accepted")
  /\ UNCHANGED <<running, proxyOf, popped, fate>>

\* A bot with a password in proxy mode: the record is made first.
AuthenticateProxied(k, n) ==
  /\ running /\ ProxyMode /\ Free(k) /\ n \in Bots
  /\ Enter(k, n, "resolving")
  /\ UNCHANGED <<running, proxyOf, popped, fate>>

\* Faulty: a proxy that is already stored is kept.
StoreProxyOnce(k) ==
  /\ stage[k] = "resolving"
  /\ stage' = [stage EXCEPT ![k] = "connecting"]
  /\ proxyOf' = [proxyOf EXCEPT ![name[k]] = IF @ = None THEN k ELSE @]
  /\ overtaken' = overtaken \cup (Named(name[k]) \ {k})
  /\ UNCHANGED <<running, name, flag, link, spared, popped, relayVars>>

\* The address is known: a proxy client takes the place of any other of that id.
StoreProxy(k) ==
  /\ stage[k] = "resolving"
  /\ stage' = [stage EXCEPT ![k] = "connecting"]
  /\ proxyOf' = [proxyOf EXCEPT ![name[k]] = k]
  /\ overtaken' = overtaken \cup (Named(name[k]) \ {k})
  /\ UNCHANGED <<running, name, flag, link, spared, popped, relayVars>>

\* _connect_coro() has opened a connection and Ecovacs has accepted it.
ProxyConnected(k) ==
  /\ stage[k] = "connecting"
  /\ stage' = [stage EXCEPT ![k] = "accepted"]
  /\ link' = [link EXCEPT ![k] = "open"]
  /\ UNCHANGED <<running, name, recordVars, proxyOf, spared, popped, relayVars>>

\* resolve() or _connect_coro() raises: the client is refused, what was stored stays.
Refused(k) ==
  /\ stage[k] \in {"resolving", "connecting"}
  /\ stage' = [stage EXCEPT ![k] = "free"]
  /\ UNCHANGED <<running, name, recordVars, proxyVars, relayVars>>

-----------------------------------------------------------------------------
(* Connected and disconnected                                               *)

Flagged(n, value) == [flag EXCEPT ![n] = IF @ = "none" THEN "none" ELSE value]

\* Faulty: the flag of bots only.
BotConnected(k) ==
  /\ stage[k] = "accepted"
  /\ stage' = [stage EXCEPT ![k] = "up"]
  /\ flag' = IF name[k] \in Bots THEN Flagged(name[k], "up") ELSE flag
  /\ overtaken' = IF flag[name[k]] = "none" THEN overtaken \cup {k} ELSE overtaken
  /\ UNCHANGED <<running, name, proxyVars, relayVars>>

\* on_broker_client_connected(): the flag of a record that exists.
ClientConnected(k) ==
  /\ stage[k] = "accepted"
  /\ stage' = [stage EXCEPT ![k] = "up"]
  /\ flag' = Flagged(name[k], "up")
  /\ overtaken' = IF flag[name[k]] = "none" THEN overtaken \cup {k} ELSE overtaken
  /\ UNCHANGED <<running, name, proxyVars, relayVars>>

\* The connection is over; the broker has not called the plugin yet.
Drop(k) ==
  /\ stage[k] = "up"
  /\ stage' = [stage EXCEPT ![k] = "gone"]
  /\ UNCHANGED <<running, name, recordVars, proxyVars, relayVars>>

\* The flag of the name goes down whatever else is connected under it.
Lower(k) ==
  /\ stage' = [stage EXCEPT ![k] = "free"]
  /\ flag' = Flagged(name[k], "down")
  /\ overtaken' = overtaken \cup (Named(name[k]) \ {k})

\* on_broker_client_disconnected() of a name without a proxy.
ClientDisconnected(k) ==
  /\ stage[k] = "gone" /\ proxyOf[name[k]] = None
  /\ Lower(k)
  /\ UNCHANGED <<running, name, proxyVars, relayVars>>

\* The same with a proxy, up to the await: whichever proxy is stored is taken out.
PopProxy(k) ==
  /\ stage[k] = "gone" /\ proxyOf[name[k]] # None
  /\ stage' = [stage EXCEPT ![k] = "leaving"]
  /\ popped' = [popped EXCEPT ![k] = proxyOf[name[k]]]
  /\ proxyOf' = [proxyOf EXCEPT ![name[k]] = None]
  /\ overtaken' = overtaken \cup (Named(name[k]) \ {k})
  /\ UNCHANGED <<running, name, flag, link, spared, relayVars>>

\* Faulty: the proxy is dropped without being disconnected.
LeaveProxyOpen(k) ==
  /\ stage[k] = "leaving"
  /\ popped' = [popped EXCEPT ![k] = None]
  /\ Lower(k)
  /\ UNCHANGED <<running, name, proxyOf, link, spared, relayVars>>

\* Its disconnect() has returned: an open session is closed, but for a client
\* that is not connected, and may be reconnecting, amqtt does nothing.
ProxyDisconnected(k) ==
  /\ stage[k] = "leaving"
  /\ \/ link[popped[k]] = "open" /\ link' = [link EXCEPT ![popped[k]] = "closed"] /\ UNCHANGED spared
     \/ link[popped[k]] # "open" /\ UNCHANGED link /\ spared' = spared \cup {popped[k]}
  /\ popped' = [popped EXCEPT ![k] = None]
  /\ Lower(k)
  /\ UNCHANGED <<running, name, proxyOf, relayVars>>

\* It has raised: the callback ends there, with the proxy popped and the flag up.
ProxyFails(k) ==
  /\ stage[k] = "leaving" /\ link[popped[k]] = "open"
  /\ stage' = [stage EXCEPT ![k] = "stuck"]
  /\ \/ UNCHANGED link /\ spared' = spared \cup {popped[k]}
     \/ link' = [link EXCEPT ![popped[k]] = "closed"] /\ UNCHANGED spared
  /\ popped' = [popped EXCEPT ![k] = None]
  /\ UNCHANGED <<running, name, recordVars, proxyOf, relayVars>>

\* Ecovacs or the network ends a proxy's session.
LinkLost(k) ==
  /\ link[k] = "open"
  /\ link' = [link EXCEPT ![k] = "lost"]
  /\ UNCHANGED <<running, connVars, recordVars, proxyOf, spared, popped, relayVars>>

\* auto_reconnect, which ClientConfig turns on by itself, calls _connect_coro()
\* again, whether or not anybody still holds the client ...
LinkReopened(k) ==
  /\ link[k] = "lost"
  /\ link' = [link EXCEPT ![k] = "open"]
  /\ UNCHANGED <<running, connVars, recordVars, proxyOf, spared, popped, relayVars>>

\* ... until it runs out of retries.
LinkGivenUp(k) ==
  /\ link[k] = "lost"
  /\ link' = [link EXCEPT ![k] = "closed"]
  /\ UNCHANGED <<running, connVars, recordVars, proxyOf, spared, popped, relayVars>>

\* DeleteOneDevice, logout, or the web interface removes a record.
RemoveRecord(n) ==
  /\ running /\ flag[n] # "none"
  /\ flag' = [flag EXCEPT ![n] = "none"]
  /\ overtaken' = overtaken \cup Named(n)
  /\ UNCHANGED <<running, connVars, proxyVars, relayVars>>

-----------------------------------------------------------------------------
(* Commands from Ecovacs                                                    *)

\* _handle_messages(): the sender is noted before the helper bot publishes the
\* command, which may fail; ids are Ecovacs' own and are not drawn twice.
Relay(k, c) ==
  /\ link[k] = "open" /\ name[k] = c.bot
  /\ \A d \in Commands : d.id = c.id => fate[d] = "unsent"
  /\ mapper' = [mapper EXCEPT ![k][c.id] = c.from]
  /\ \E f \in {"open", "lost"} : fate' = [fate EXCEPT ![c] = f]
  /\ UNCHANGED <<running, connVars, recordVars, proxyVars>>

\* An entry outlives ttl, or the cache is full.
Expire(k, i) ==
  /\ mapper[k][i] # None
  /\ mapper' = [mapper EXCEPT ![k][i] = None]
  /\ UNCHANGED <<running, connVars, recordVars, proxyVars, fate>>

Forwarded(c, to) ==
  IF to # c.from THEN "wrong" ELSE IF fate[c] = "answered" THEN "twice" ELSE "answered"

\* Faulty: the entry is read and left.
AnswerAgain(k, c) ==
  LET p == proxyOf[name[k]] IN
  /\ stage[k] = "up" /\ name[k] = c.bot /\ fate[c] \in {"open", "answered"}
  /\ p # None
  /\ mapper[p][c.id] # None
  /\ fate' = [fate EXCEPT ![c] = Forwarded(c, mapper[p][c.id])]
  /\ UNCHANGED <<running, connVars, recordVars, proxyVars, mapper>>

\* on_broker_message_received(): a bot's answer, or a repetition of it.  The
\* entry is taken out; an answer without one is dropped.
Answer(k, c) ==
  LET p == proxyOf[name[k]] IN
  /\ stage[k] = "up" /\ name[k] = c.bot /\ fate[c] \in {"open", "answered"}
  /\ p # None
  /\ mapper[p][c.id] # None
  /\ fate' = [fate EXCEPT ![c] = Forwarded(c, mapper[p][c.id])]
  /\ mapper' = [mapper EXCEPT ![p][c.id] = None]
  /\ UNCHANGED <<running, connVars, recordVars, proxyVars>>

-----------------------------------------------------------------------------
(* The process                                                              *)

Crash ==
  /\ running
  /\ running' = FALSE
  /\ stage' = [k \in Conns |-> "free"]
  /\ overtaken' = {}
  /\ proxyOf' = [n \in Names |-> None]
  /\ link' = [k \in Conns |-> "closed"]
  /\ spared' = {}
  /\ popped' = [k \in Conns |-> None]
  /\ mapper' = [k \in Conns |-> NoEntries]
  /\ UNCHANGED <<name, flag, fate>>

\* Faulty: only the records of bots are reset.
RestartBots ==
  /\ ~running
  /\ running' = TRUE
  /\ flag' = [n \in Names |-> IF n \in Bots /\ flag[n] = "up" THEN "down" ELSE flag[n]]
  /\ UNCHANGED <<connVars, overtaken, proxyVars, relayVars>>

\* start_configuration() resets the flags of all records.
Restart ==
  /\ ~running
  /\ running' = TRUE
  /\ flag' = [n \in Names |-> IF flag[n] = "up" THEN "down" ELSE flag[n]]
  /\ UNCHANGED <<connVars, overtaken, proxyVars, relayVars>>

Plugin(k) ==
  \/ StoreProxy(k) \/ ProxyConnected(k) \/ Refused(k) \/ ClientConnected(k)
  \/ ClientDisconnected(k) \/ PopProxy(k) \/ ProxyDisconnected(k) \/ ProxyFails(k)

Amqtt(k) == Drop(k) \/ LinkLost(k) \/ LinkReopened(k) \/ LinkGivenUp(k)

Next ==
  \/ \E k \in Conns :
       \/ \E n \in Names : Authenticate(k, n) \/ AuthenticateProxied(k, n)
       \/ Plugin(k) \/ Amqtt(k)
       \/ \E c \in Commands : Relay(k, c) \/ Answer(k, c)
       \/ \E i \in Ids : Expire(k, i)
  \/ \E n \in Names : RemoveRecord(n)
  \/ Crash \/ Restart

Spec == Init /\ [][Next]_vars

-----------------------------------------------------------------------------
(* Properties                                                               *)

TypeOK ==
  /\ running \in BOOLEAN
  /\ stage \in [Conns -> Stages]
  /\ name \in [Conns -> Names \cup {None}]
  /\ flag \in [Names -> {"none", "down", "up"}]
  /\ overtaken \subseteq Conns
  /\ proxyOf \in [Names -> Conns \cup {None}]
  /\ link \in [Conns -> {"none", "open", "lost", "closed"}]
  /\ spared \subseteq Conns
  /\ popped \in [Conns -> Conns \cup {None}]
  /\ mapper \in [Conns -> [Ids -> Senders \cup {None}]]
  /\ fate \in [Commands -> {"unsent", "lost", "open", "answered", "twice", "wrong"}]

\* A raised mqtt_connection belongs to a connection of that id whose end the
\* plugin has not dealt with, because it lasts or because its proxy raised, also
\* when the process died with the flag up.
NoStaleUp ==
  running =>
    \A n \in Names : flag[n] = "up" => \E k \in Named(n) : stage[k] \in Reported

\* The flag of a connected client is up unless another connection of its id
\* took the proxy or lowered the flag, or the record was removed meanwhile.
ConnectedIsUp ==
  \A k \in Conns : stage[k] = "up" /\ k \notin overtaken => flag[name[k]] = "up"

\* No device is listed online after it left.  False when the proxy raises in the
\* disconnected callback: nothing lowers the flag before the next connection.
OnlineIsConnected ==
  running =>
    \A n \in Names : flag[n] = "up" => \E k \in Named(n) : stage[k] \in {"up", "gone", "leaving"}

\* A bot let in through the proxy keeps the proxy made for it: it is the one
\* stored under its id, unless another connection of the id replaced it or took
\* it out.
ProxyKept ==
  \A k \in Conns :
    stage[k] = "up" /\ link[k] # "none" /\ k \notin overtaken => proxyOf[name[k]] = k

\* A session at Ecovacs that is open without its bot has one of three causes:
\* another connection of the id had replaced the proxy or taken it out, a
\* callback is about to close it, or its disconnect() came in vain.
LeftoverExplained ==
  \A k \in Conns :
    link[k] = "open" /\ stage[k] \in {"free", "stuck"} =>
      k \in overtaken \cup spared \/ \E j \in Conns : popped[j] = k

\* No proxy client goes on at Ecovacs for a bot that has left, unless another
\* connection of the id came between.  False when the bot leaves while amqtt is
\* reconnecting: disconnect() does nothing, and the session comes back.
NoProxyLeft ==
  \A k \in Conns :
    link[k] = "open" /\ stage[k] = "free" =>
      k \in overtaken \/ \E j \in Conns : popped[j] = k

\* An answer of a bot goes to the sender of the command it answers and to
\* nobody else, and at most once, however often the bot repeats it, reconnects
\* or answers late.
AnswersCorrelate == \A c \in Commands : fate[c] \notin {"wrong", "twice"}

Visible == [n \in Names |-> IF ~running /\ flag[n] = "up" THEN "down" ELSE flag[n]]
Online  == [n \in Names |-> {k \in Named(n) : stage[k] \in Reported}]

Abstract == INSTANCE Presence WITH Sessions <- Conns, flag <- Visible, online <- Online

\* The MQTT side of the records behaves as Presence says.
ImplementsPresence == Abstract!Spec
=============================================================================
