# Verification of bumper

bumper (`src/bumper`) is a local replacement of the Ecovacs cloud: one Python
process, one asyncio event loop, an MQTT broker, an XMPP server, REST servers
and a TinyDB file. This directory holds TLA+ modules translated from its source,
TLC configurations that check them on small instances, and TLAPS proofs of what
holds for every instance.

Everything in the process runs on one event loop: the code between two `await`s
is atomic, and whatever else is ready may run at an `await`. The modules follow
that rule: one action is the code of one coroutine between two awaits. What lies
outside of the event loop (network, peers, files, crashes, time) has actions of
its own.

## Inventory

| Part | State | Operations | What is hard | What makes it correct |
|---|---|---|---|---|
| Helper bot, connection (`mqtt/helper_bot.py`) | `_client`, `_is_connected`, `_mqtt_task`; the broker's session | `start`, `disconnect`, `_mqtt_loop` | `disconnect()` awaits the task it cancelled while restarts, shutdown and REST handlers touch the same fields; cancels at any stage of a connection; reconnecting | one loop, recovery, a final stop |
| Helper bot, commands (`mqtt/helper_bot.py`, `handle_atr.py`) | `_commands` (TTL cache), `CommandDto` event and response | `send_command*`, `publish`, `_wait_for_resp`, `_on_message` | timeouts, late and repeated answers, lost connections, expiry and eviction, colliding ids | each command answered once, by its own answer or an error; no entry left |
| REST control (`plugins/api/iot.py`, `appsvr.py`) | the cached catalogue | check the bot's record, build the command, send it; device list; QR codes | the catalogue is changed by requests | the list shows the bots there are |
| Tokens and login (`db/tokens.py`, `web/auth_service.py`, `plugins/v1/private/user.py`, `plugins/api/users.py`) | tokens with expiry, auth code, it-token | login, checkLogin, codes, OAuth, logout, maintenance | snapshots of records used after a revocation; codes shared by all tokens of a user; local time | what is handed out is accepted by the servers |
| Device registry (`db/bots.py`, `clients.py`, `base.py`; `plugins/app/dln.py`, `api/homed.py`) | records with connection flags | add, remove, name, set flags, list | upserts that create partial records; flags from two servers; crash with flags set | a flag says what the server knows |
| MQTT broker plugin (`mqtt/server.py`) | proxy clients, flags | authenticate, connected, disconnected, message | session takeover, awaits within callbacks | flags and proxy clients follow the connections |
| MQTT proxy (`mqtt/proxy.py`) | `request_mapper`, cloud client | relay in both directions | late and repeated answers, expiry; reconnecting on its own | an answer goes back to who asked; no connection outlives its bot |
| XMPP server (`xmpp/xmpp.py`) | session state, jid, ping task, list of clients | connect, TLS, SASL, bind, session, iq, presence, disconnect | stanzas out of order, repeated ends, ping tasks | flags follow the sessions, results find the sender |
| Life cycle (`__init__.py`, `web/web_paths.py`, `web/server.py`) | state of each service | start, restart, shutdown, maintenance | overlapping restarts; failed starts; polling, waiting for states nobody announces | servers come back, the process ends |
| Migration (`db/migration.py`) | version, table, backups | migrate, backup | crash between writes | no log lost, all in the new schema |
| Clean logs (`db/clean_logs.py`, `plugins/app/dln.py`, `api/lg.py`, web pages) | table | upsert, delete, lists, pages | two keys for one document; page boundaries | the lists show what was reported |
| Certificates (`utils/certs.py`, `scripts/clean-domains.py`) | five files, the archive | generate, download | crash between writes; wildcard cover | key and chain match; every host of the list is named |
| MQTT sniffer (`configs/mitm-mqtt.py`) | a buffer per connection, for both directions | cut packets out of messages | packets split at any byte, with those of the other side in between | read as sent |

REST handlers, the broker plugin and the XMPP server share the database; the
REST handlers reach bots through the helper bot, which is an MQTT client of the
broker in the same process; `web_paths.py` restarts single services while the
others run; `shutdown()` stops them in order. The rest of `web/plugins` and
`web/static_api` answers with constants and keeps no state.

## Modules

| Module | Stands for | Composed with |
|---|---|---|
| `HelperLink` | the helper bot's connection | |
| `HelperBot` | commands over it | extends `HelperLink`; implements `CommandBridge` |
| `CommandBridge` | abstract: what a REST handler is promised | |
| `Tokens` | tokens, users, login, time | |
| `Presence` | abstract: what a connection flag promises | |
| `Broker` | broker plugin and MQTT proxy | implements `Presence` |
| `XmppSession` | XMPP server | implements `Presence` |
| `Node` | start, restart requests, shutdown | |
| `Startup` | certificates and migration, with crashes | extends `ServerNames` |
| `ServerNames` | names in the server certificate | |
| `Devices` | bots' records, catalogue, device list | |
| `CleanLogs` | clean logs and their pages | extends `Devices` |
| `Packets` | the sniffer's packets | |

`XProof` holds the theorems about `X` (`XmppProof` those about `XmppSession`,
`HelperBotProof` those about `HelperLink` too, `CleanLogsProof` those about
`Devices` too),
`MCX` and `MCX_*.cfg` the instances for TLC. Operators whose comment begins with
"Faulty" belong to no specification: each is the definition after it with a
plausible mistake, by which one sees that a property notices it.

### How state and actions correspond to the code

`HelperLink`. `task[t]` is where a task that runs `_mqtt_loop` stands:
`connecting` and `accepted` (inside `MQTTClient.__aenter__`, before and after the
broker has taken the session), `subscribeP2P` and `subscribeAtr` (the two awaits
of `_subscribe_topics`), `listening`, `backoff` (the sleep of an except clause),
`leaving` (cancelled inside the `async with`), `cancelled` (outside of it), `done`.
`mqttTask`, `client` and `isConnected` are the fields; `client` names the loop
whose client object it is, so a stale `_client` is one whose session is gone.
`session` and `subs` are the broker's side: one session per client id, taken over
by a newer connection. A loop that gives up a connection it has not entered
(`GiveUpConnection`), cancelled or out of time, closes nothing: the broker's
session is then `Stray`, or becomes so later (`strays`). A cancelled loop leaves
by `Cancelled`, or goes on by `CancelSwallowed` if its connection was lost on the
way out.
`disconnect()` is `DisconnectBegin` (to the await) and `DisconnectEnd` (shutdown)
or `RestartEnd` (`_restart_helper_bot`, where `start()` follows without an
await). `OwnNext` is all of this, `LinkNext` adds `SenderStart`: a REST handler
that finds no connection calls `start()`. In the link's own runs no REST handler
does so; in the runs of `HelperBot` `Send` does.

`HelperBot`. `phase[r]`: `idle`, `polling` (`is_connected`), `publishing`,
`waiting`, `done`. `table` is the cache; `age[r]` the time since `r` was put
there; an entry is visible while its age is below `Ttl`. `inbox[t]` is the
message queue of a loop's client, lost with the client. A request is answered
with a kind of payload; `Parsed` and `Accepts` say what `json.loads` and the
three `_send_command_*` make of it. `Tick` lets time pass up to the next timer
that is due. `CommandBridge` has no connection, table, id or time.

`Tokens`. A record is named by the number of its token string in the order in
which strings are drawn, which is also the order of the table; numbers are never
drawn twice (uuid4). `since` and `devices` are the user records, `answer` what
the last handler answered. No handler awaits between its first look at the
database and its answer, so a handler is one action. `now` is the time;
`Before`, `After` and `Switch` describe the zone of `TZ`: its offset from UTC
and the one that replaces it. `Expiry` is what Python makes of an aware `now() +
timedelta`, `Valid` compares instants as `verify` does, `Overdue` strings as the
revocations do. `USE_AUTH` is False in this code and its branch is left out.

`Broker`. `stage[k]` is where a connection stands in the plugin: `resolving` and
`connecting` (the two awaits of `authenticate` with a proxy), `accepted`, `up`
(reported by `on_broker_client_connected`), `gone` (over, not reported yet),
`leaving` (the await in `on_broker_client_disconnected`), `free`. `flag` is
`mqtt_connection` of the record; `proxyOf` is `_proxy_clients`; `link[k]` the
session at Ecovacs of the proxy made for `k`; `mapper[k]` its `request_mapper`;
`fate` remembers per command whom the answer reached. `overtaken` are the
connections with which another one of the same client id, or a removal of the
record, has interfered; the properties say what holds of the others. A session at
Ecovacs that is `lost` is opened again by amqtt (`LinkReopened`; the code leaves
`auto_reconnect` on) or given up. A proxy whose `disconnect()` did nothing,
because it was not connected, or raised, is in `spared`; a connection whose
callback ended with that exception is `stuck`.

`XmppSession`. The fields of `XMPPAsyncClient`, one function each. A chunk of
data is parsed without an await, so a stanza is one action: `Stream`, `StartTls`,
`Auth`, `Bind`, `Session`, `Leave` (presence "unavailable" or the end of the
stream). `bind` and `session` are accepted in every state, as in the code, and
`set_state` refuses to go back. `starttls` is one step though it
awaits the handshake: no stanza is parsed in it, and the end of the connection,
the only other thing that can happen to it, comes before or after it in the
model. `closing` is the time between `transport.close()`
and `ConnectionLost`. `orphans` are ping tasks whose reference a second session
stanza has overwritten. `CtlReceivers`, `ResultReceivers` and `PingReceivers` are
the loops over the list of clients; `Within` is the substring test of ids.

`Presence` is the abstract specification of both: sessions report in and out
under a name, records come and go, the end of a session lowers the flag whoever
else is there. `Visible` maps a flag left up by a crash to "down" until the
reset, since nothing is served in between.

`Node`. `main` is the place of `_lifecycle()` and `shutdown()`; `broker` the
state of the broker; `call[t]` how far a task's call of the broker's `start()` or
`shutdown()` is: the state changes when a call begins (`CallStart`,
`CallShutdown`), when it is through (`Through`), and the caller goes on later
(`MainStarted`, `Stopped`, `Started`, ...). amqtt has states of its own for a start
and a shutdown that failed, `not_started` and `not_stopped`; a shutdown may also
raise with the state it found. `failed` remembers which calls have failed, and
whether the last start of the XMPP server did. `wait_for_state_change()` looks at
once and when its time is over: nobody notifies the condition it waits for. A
request whose `pc` is `settle_*`, `wait_stopped` or `wait_started` is in such a
wait. `late` marks a shutdown that met the web server while it was starting in
its own task.

`Startup`. `boot` is the place of `start_configuration()`. `file[f]` is absent,
half-written (`Torn`), the user's own, or of a generation of keys; a file is
opened and filled in two steps. The migration is `Backup`, `Flatten`, `Truncate`,
`InsertMultiple`, `SetVersion`, `Align`. `Crash` is enabled everywhere.
`ServerNames` holds the list of domains of `certs.py` and computes from a list the
names in the certificate, and those the script prints, each in its own way;
`Startup` takes the list, and the script's copy of it, as constants. One write of
TinyDB is atomic in the model, though it rewrites the file in place: what a crash
inside of it leaves is for the file system to say.

`Devices` and `CleanLogs`. Tables are sequences of documents in the order of
insertion, which decides what "the first document" is. `robots` is the cached
catalogue of config groups, which the QR code handler changes in place. A
sorted list is the one arrangement of places in the table that the order of its
key (`ByStart`, `ByStartAndBot`) allows, where what ties keeps its order as in
Python's stable `sorted`. A request to delete removes one document for each id
it names (`Left`).

`Packets`. The first half says how MQTT packets look on the wire, the second
translates the sniffer's parser and its loop: `Round` is one pass of
`websocket_message()`'s `while`, `Loop` what it has after each. A packet has a
byte at least, so as many rounds as there are bytes are enough; a round without a
whole packet changes nothing, as the `break` or the exception does. Both sides send
their packets, `Message(d, n)` is the next `n` bytes of side `d`, and all go through
the one `buffer`, as in the code; `dumped` keeps the packets by the side whose
message brought their end. `mixed` remembers that a message came while bytes of the
other side were in the buffer. `Base` stands for 128, and the two sides of a
connection send up to `MaxSent` packets. Texts are taken to be UTF-8; DUP and RETAIN
are left out.

## Runs

| Run | Instance | Shows |
|---|---|---|
| `link_restart` | 2 loops, 1 operator, 3 failures | one loop, a final stop, recovery by itself after each failure |
| `link_orphan` | 3 loops, 2 operators, 3 failures | **violation** of `OneLoop`, see below |
| `bot_fresh` | 2 requests with 2 different ids, 2 answers each, 1 failure | no entry left, answers to whom they belong, entries held while they live, the bridge |
| `bot_restart` | 1 request of 2 forms, 1 operator, 1 failure, fairness | the request returns whatever happens to the connection; whoever is subscribed runs; each `disconnect()` returns whose task does not survive the cancel; the commands keep to the link |
| `tokens_fixed` | 2 accounts, 1 phone, 4 strings | what is handed out works, no code is replaced, sessions last, tokens go |
| `tokens_newauth` | 2 accounts, 1 phone, 4 strings, tokens last 1 | **violation** of `NewAuthWorks`, see below |
| `broker` | 2 connections, 1 bot, 1 user, 2 commands, 2 senders | flags and proxies follow connections, answers go back, the record implements `Presence` |
| `xmpp` | 2 sessions, 1 bot, 1 user, 1 replaced ping task | flags follow sessions, results find the controller, an ended session leaves nothing, `Presence` |
| `node` | 3 requests, an interrupt | calls of the broker take turns, restarts restore, a lone one does not give up, everything ends |
| `startup` | 3 logs, 2 bots, 2 generations | matching certificates, no log lost, complete migration, every host of the list named |
| `rest` | 2 bots, 2 classes of 1 product, 2 cleanings of 2 types, 3 logs | lists show what there is, once; so do pages of one and of two, the last of them full or not |
| `packets` | every choice of up to 3 packets by two sides, out of 8 kinds and 5, cut anywhere | packets are read as they were sent, as long as the sides do not interrupt each other |

Further instances, started by hand with `tlc -config`. The first two pass; each of the
others is refuted at what its comment names, see "Where the code departs":

| Configuration | Instance | Shows |
|---|---|---|
| `MCHelperLink_overlap.cfg` | 3 loops, 2 operators, REST handlers, 2 failures | `SubscribedHasLoop` and `DisconnectReturns` when calls of `disconnect()` overlap |
| `MCHelperBot_full.cfg` | 2 requests that may draw the same id, a cache for 1 | no entry left and an end for each request, also when entries are evicted or overwritten |
| `MCHelperLink_swallowed.cfg` | 2 loops, 1 operator, 1 failure | `CleanupReached` is false |
| `MCTokens_autumn.cfg` | 1 account, clocks go back by 2, tokens last 1 | `Lifetime` is false |
| `MCTokens_spring.cfg` | 1 account, clocks go forward by 2, tokens last 2 | `SessionsLast` is false |
| `MCBroker_leftover.cfg`, `MCBroker_stuck.cfg` | 2 connections, 1 bot, 1 user | `NoProxyLeft` and `OnlineIsConnected` are false |
| `MCNode_retry.cfg` | 2 restart requests | `FailedStartIsRetried` is false |
| `MCPackets_mixed.cfg` | 2 packets | `EachAsSent` is false |

Bounds. `MaxDrops` counts failures of the network or the broker; an exception in
the message handler is not counted. `MaxAnswers` and `MaxInbox` bound a bot's
answers and a client's queue; two answers are a late one and a repeated one. A
loop that is done and unreferenced can be used again, so the loops bound only
how many exist at once, and so do connections, sessions and restart requests:
two of them are an old and a new connection of one id. `Timeout`, `Ttl` and
`PublishTimeout` stand for 60, 66 and 10 seconds, and only the order of them and of
their sums matters: as in the code `Timeout < Ttl < PublishTimeout + Timeout`, so a
slow publish makes a request wait without its entry. `MaxSize` is 3600 in the code;
`MCHelperBot_full.cfg` has one entry, the runs room for all. `MaxSerial` bounds the
strings drawn: four are two tokens of one or two accounts and two codes.
`MaxTime` lets a token of the first moment expire and be revoked. `MaxOrphans`
bounds replaced ping tasks. `MaxAsks` bounds restart requests; with three, one
can give up while two others stop and start the broker. `MaxGens` bounds how
often certificates are made; with two, files of two generations can meet.
`MaxLogs` bounds the documents in a table; in `rest` the four of two cleanings
compete for three places, and pages of two have one that is full and a last one
of one. Types of cleaning and contents are symmetric there, and its properties
are invariants. `MaxNamed` bounds the ids in a request to delete; with two, an
id can be named twice. `MaxGhosts` bounds
documents without an id. Lengths in base 4 let a packet of 16 bytes have a
length of three; `MaxSent` is 3, so that a message can end one packet, bring the next
and begin a third. `packets` does not go on from a mixed state (the constraint
`Apart`), of which its property says nothing.

Fairness. asyncio's ready queue is a FIFO, so a coroutine that can go on does:
a loop's next step, a `disconnect()` whose task is over, a request that is
answered or timed out, a message handler with a message, a restart request, the
life cycle. Time passes (`Tick`, timeouts, the maintenance loop, a sleeping ping
task). `connection_lost` follows `transport.close()`. The broker's own `start()`
and `shutdown()` come to an end (`Through`), though not always a good one.
`Notice` is fair because MQTT's keep-alive reports a dead connection. Nothing is
assumed of failures, operators, bots, requests or logins arriving. `Broker` and
`Startup` have no fairness and no liveness properties.

CHECK_DEADLOCK is off in every run: the systems may really stop. A process can
end or stay down, a connection may have nothing to do, and the bounded numbers
of failures, requests and packets run out.

### Where the code departs from what it says

`link_orphan`: two overlapping calls of `disconnect()`. Both await the same
cancelled task. The first to resume clears `_mqtt_task` and, in
`_restart_helper_bot`, starts a new loop; the second resumes and clears
`_mqtt_task` again (`helper_bot.py:166`), though it now holds the new loop. That
loop keeps running, unreachable for `start()` and `disconnect()`; the next
`start()` adds a second one with the same client id. `link_restart` and
`LinkOrderly` show that nothing of the kind happens when no call overlaps
another.

`MCHelperLink_swallowed`: `disconnect()` cancels the loop and awaits it
(`helper_bot.py:165`). If the connection is lost before the loop has left the
`async with`, aiomqtt's `__aexit__` raises `MqttError` in place of
`CancelledError`, the except clause at line 195 takes it, and the loop
reconnects. The cancel is spent and the awaited task never ends: a restart
request or the shutdown waits for ever. `DisconnectReturns` says that there is no other
way.

`tokens_newauth`: `get_new_auth` reads the first record with the it-token,
revokes the user's expired tokens, and answers the auth code of the record it
read (`auth_service.py:228`). Between a token's expiry and the next round of the
maintenance loop that record is the one revoked: the client gets a code that no
token carries. `get_auth_code_v2` works in the other order, and `HandedOutWorks`
holds of it.

`MCTokens_autumn`, `MCTokens_spring`: `TZ` in a zone with summer time. The validity of 30
minutes is added to a local wall clock time (`tokens.py:26`): the token of a login
at 02:50 before clocks go back to 02:00 expires at 03:20, 90 minutes later. And
expired tokens are found by comparing ISO strings in local time (`tokens.py:86`,
`98`): the token of a login at 01:45 before clocks go forward at 02:00 has the
expiration 02:15+01:00, which `verify` reads as 03:15+02:00, but it is revoked at
03:00. With `TZ` at its default, UTC, neither happens: `tokens_fixed` is that case.

`MCBroker_leftover`: a bot leaves while its proxy client is reconnecting to Ecovacs.
amqtt's `disconnect()` does nothing for a client that is not connected, the client
is taken out of `_proxy_clients` all the same (`mqtt/server.py:379`), and its
reconnecting succeeds: a connection in the bot's name that nobody holds or closes.
`LeftoverExplained` says that there is no other way to one, connections of one id apart.

`MCBroker_stuck`: the proxy's `disconnect()` raises (only AttributeError is suppressed,
`mqtt/proxy.py:99`). The callback ends before `_set_client_connected`
(`mqtt/server.py:380`), and the bot is listed as online after it has left.

`MCNode_retry`: amqtt's state after a failed start is `not_started`, not `stopped`. A later
restart request waits three seconds for `stopped` and answers `failed`
(`web_paths.py:102`) without trying, though `MQTTServer.start()` would start the
broker from that state.

`MCPackets_mixed`: the buffer is kept per flow and filled by the messages of both
directions (`mitm-mqtt.py:313`). A message of the server between two pieces of a
client's packet is read as a part of it. `ReadAsSent` holds while this does not
happen.

### Observations

What the models show or had to follow, where no text of the repository says
otherwise:

* Flags are by name, not by connection. When a bot comes back before the end of
  its old connection is reported, the late report lowers the flag of the bot
  that is connected (`mqtt/server.py:380`), and takes the new proxy out
  (`mqtt/server.py:379`); XMPP does the same in `connection_lost`
  (`xmpp/xmpp.py:89`). The properties except such connections by name
  (`overtaken`), and `Presence` allows it.
* A refused bot leaves its proxy client in `_proxy_clients`; a restart of the XMPP
  server clears flags but not the sessions' states.
* A REST handler that finds the connection down may call `start()` after the
  `disconnect()` of the shutdown; `StopIsFinal` is about runs without one.
* Two restart requests at once both end, but one may answer `failed` though
  the broker is about to run; an interrupt while the web server's start is under
  way may leave it accepting requests (`late`).
* A process that dies after `truncate()` serves an incomplete table afterwards: the
  logs are in the backup, which somebody has to restore. Backups are named by
  the second.
* Certificates are only looked at for existence: when a file that was removed
  has been written again and the process dies before the last of the five, all
  required ones exist, and files of two generations are kept for good (`mixed`).
* The QR code handler takes `groupName` off a robot of the cached catalogue
  (`appsvr.py:158`): a second scan of the class answers with no guide until the
  process is restarted, while `GuidedStaysKnown` holds.
* Naming an unknown bot leaves a document with a nickname and no id, which is on
  the "bots" page and cannot be removed there; the app's device list is free of them.
  `AddOneDevice` before the first login therefore loses the nickname. A record
  keeps the company of its first login.
* `remove_by_id` removes one document of an id; two types of one cleaning have
  the same id. The app names an id as often as it shows it, and the second type
  goes with the second.
* `accessToken=` in a checkLogin is neither missing nor looked up
  (`auth_service.py:118`); the answer is a success with an empty token. `_logout`
  looks only at the first user whose record lists the phone (`user.py:54`).
* A cancel or a timeout in the middle of connecting leaves a connection of the helper
  bot that nobody reads until the broker drops it; one the broker accepts late takes the
  session of the next loop, which reconnects (`Recovers`). The broker's answers to it
  are not lost on the way: it is never subscribed (`SubscribedHasLoop`).
* A publish of more than 6 seconds lets the cache forget a request that still waits: a
  later answer is dropped and the caller gets an error.
* A shutdown of the broker that raises ends `shutdown()` there; if it leaves the broker
  in `stopping`, a later shutdown polls for ever (`ShutdownEnds` excepts it).
* `globalapp-eu.oss-eu-central-1.aliyuncs.com` (`settings.py:99`), which `appsvr.py:107`
  hands out, is not in the list of domains and so in no name of the certificate.
* The sniffer keeps the last packet of its output file only, reads TCP messages
  one by one, and refuses lengths of four bytes.

## Proofs

The proofs assume nothing of the constants but the named ASSUMEs of the modules,
so they hold for any number of connections, names, requests, logs and bots, and any
bounds. Three of them say something of data: the domains of a certificate are
names of the DNS, with 2 to 127 labels; the script's copy of the list is the
list; and each packet that a side may send is read as it was sent when it
comes alone (`ReadAlone`), which TLC evaluates for the twelve of the run and two
theorems show for all but two types. Each invariant that a run checks is strengthened to an inductive one,
which TLC has checked before it was proved. Where the hypotheses in a theorem
are more than `Spec`, they are named.

* `LinkTypes`: the types, step by step. `LinkOrderly`: under `Calm` (no operator,
  or one and no REST handler), `LinkInv` is inductive. It adds to the
  properties that the joined task is `_mqtt_task`, that the stage of the loop fixes
  `client` and the subscriptions, and what each operator has left behind.
  `NothingAfterStop` reads `StopIsFinal` off the same invariant.
  `SubscribedIsServed` needs no `Calm`: `SubscribedHasLoop` becomes inductive with
  the types and the fact that the broker has filters only for a session whose loop
  has entered it (`SessionEntered`).
* `BotImplementsLink`: every step of `HelperBot` is a step of `HelperLink` or
  leaves it alone, so what is proved of `HelperLink` carries over.
* `BotTypes`, `TableNeverLeaks`, `DoneIsFinal` for all ids; `AnswersCorrelate` and
  `BotImplementsBridge` when no id is drawn twice. `BotIndInv` says of each entry
  that its request is in flight under that id, and, with distinct ids, of every
  message, stored response and outcome that it stems from the command whose id it
  carries; without the part about messages still queued it is not inductive.
* `AnswersFindTheirRequest`, with distinct ids and as long as there are fewer requests in
  flight than the cache holds (`RoomLeft`). Each live entry belongs to another request
  in flight, so a new one evicts none. Nothing is assumed of the times: the theorem is
  about entries whose time to live is not over.
* `TokenTypes`, `CodesAgree`, `CodesStay`, for any clocks. `Inv` says that the
  table is `Sound`: its records are typed and distinct, no code or time is from the
  future, and older tokens carry the codes of newer ones. Handlers keep part of
  the table (`PartSound`) and then apply at most one of `Added`, `WithAuth` and
  `WithIt`, each with its lemma. `CodesStay` needs in addition that the record a
  handler reads speaks for all of the user (`FirstSpeaks`, `FoundSpeaks`).
  `HandedOutIsGood`, for any clocks: a search that can succeed has a first record,
  since numbers are well-founded, and sharing makes it one of the right user.
  `SessionsEndByLogout`, where `Before = After`: both comparisons then agree on
  `born + Validity` (`OneClock`); otherwise it is false (`MCTokens_spring`).
* `UpIsBacked`: whatever implements `Presence` as `XmppSession` does has a session
  behind each raised flag.
* `BrokerTypes`; `FlagsFollow` from `FlagInv`: before the reset nothing is
  connected, and the two halves, a flag is up only with a connection and up with
  every undisturbed one, need each other. `ProxiesFollow` and `LeftoversExplained` from `ProxyInv`: a
  connection past `authenticate` finds its own proxy stored unless it was
  overtaken, what a disconnect has taken out is of an overtaken connection or its own, a
  proxy that was never connected is not open, and one that can still come back
  without its bot is accounted for (`LeftoverLives`). `AnswersGoBack` from `RelayInv`: an
  id is used once, stands in at most one mapper under its sender, and only while the
  command is open; so a repeated answer finds nothing.
  `BrokerImplementsPresence` maps every callback to a step of `Presence`.
* `SessionTypes`, `FlagsFollow`, `NobodyUpForNothing` and
  `XmppImplementsPresence` for XMPP in the same way;
  `AnswersReach` follows from the types alone: an id contains itself, so the
  address a bot answers to matches the controller, and a controller without a
  jid is reached as everybody is.
* `NodeTypes`; `CallsTakeTurns`: besides `BrokerCalledRightly` the invariant says
  that the broker's state is that of the one call under way, and that who is in a call
  waits for it (`TakeTurns`, `CallersWait`). On it rest `ServersAreBack` (a
  stopped broker or XMPP server is owed by a request that is about to start it, `Owed`),
  `LoneRestarts` (a lone request finds what its own calls did, `OwnDoing`), both as long as
  no call has failed, and
  `ShutdownIsFinal` (once the web server is closed nobody but `shutdown()` touches the
  broker, `WebGate`).
* `StartupTypes`; `NoLogIsLost` and `MigrationIsComplete`: a copy of the database
  as it is precedes whatever empties it (`CopiedFirst`), and between the writes
  the logs are in the migration's hands (`InHand`). `CertificatesMatch`: files that all
  exist are of one generation unless `mixed` (`Coherent`), since a process does not
  get past writing before the last file (`Written`), and the archive is of the
  authority being served (`Served`). `EveryDomainIsCovered`: a domain hangs on a
  node by one label. `ScriptAgrees`: the script's recursion down the tree has one
  solution (`NamedIs`), all that hangs on a node, since where two solutions
  differed there would be a lowest such node; and each node hangs on a root.
  `HostsNamed` is both, for the list of the configuration.
* `EachBotListedOnce` and `GuidesStay` from `DeviceInv`: no two records have one id
  (`OneRecord`), as a login looks for the id before it inserts; and a robot that was
  sent as a guide keeps the class it got, having lost the `groupName` by
  which alone it could be taken again (`GuideKept`).
* `LogTypes`. `AppIsShownLatest` from `LogInv`: a document is found by its
  id and type, so there is one for each (`OneLogEach`), with the content last
  reported (`LatestKept`). That a request takes nothing but what it names is
  `AllRemoved`, over the ids of the list. Every set of places has one
  arrangement in a strict total order (`CanBeSorted`, by the rank of each
  place), hence the lists are complete, without repetition and newest first.
  `PagesAreComplete` needs that too, and that each place lies between two
  neighbouring multiples of the page's size (`OnSomePage`).
* `HoweverSplit`, for packets that are read as sent when each comes alone. `ReadInv`
  says of each side that what has been dumped is exactly the packets that have passed
  whole and, until the sides are mixed, that the buffer has what has passed of the next
  one of the side whose message was last, and that no packet of the other is open. A packet in front of other
  bytes is read as if it were alone (`ReadInFront`): the length ends where it does alone, and
  nothing behind the packet is looked at. One of which a part is missing is not
  read (`NotReadInPart`), even if the part ends within the length. So one round
  takes the packet in front (`OneRound`), and all rounds take all that are
  there (`AllRounds`).
* `PublishAlone`, `PlainAlone`: what `HoweverSplit` assumes is true of every PUBLISH
  and of every packet of the other types that the sniffer only names, whatever its
  body, as long as three bytes are enough for the length. A length comes back from its digits
  (`DigitsRead`): each but the last is at least `Base`, so the length ends where
  its digits do, whatever the body begins with (`BodyIsRead`). MQTT allows a fourth
  digit; the sniffer refuses it.

Data of any length is reasoned about by least counterexamples: `SelectInSeq`,
`Left` and the script's walk are characterised by the smallest number at which
the characterisation would fail; so are the rounds of the sniffer's loop and the
bytes of a sequence of packets, whose functions by recursion are shown to exist
(`LoopUnfolds`, `FlattenUnfolds`).

Only model-checked: liveness (`Recovers`, `DisconnectReturns`,
`EveryRequestReturns`, `EveryTokenGoes`, `EndedIsForgotten`, `RestartEnds`,
`ShutdownEnds`), which is out of the prover's reach; and that a
CONNECT or a SUBSCRIBE which comes alone is read as it was sent, which `HoweverSplit`
assumes of `Kinds`. The runs that expect a violation, and the
instances that are refuted, state nothing to prove.

## Not modelled

* Homes and the user record's other fields (`plugins/api/homed.py`, `db/users.py`):
  single lookups and lists without an order that matters. All users share one home.
* The broker's password file and topic rules, which only log; the subscription
  callback that asks a bot for its time zone: one more command of the helper bot.
* An interrupt while the broker starts, which cancels amqtt inside its own `start()`.
* A stanza split over two chunks of TCP: the server parses per chunk and loses
  both (`xmpp.py:639`); in the model a chunk is a stanza.
* Routing, middleware and the HTTP proxy of the web server, whose handlers keep
  no state; plugins with fixed answers; settings, logging, DNS lookups.
* Texts of commands, answers and stanzas; TLS. A crash inside one write of TinyDB.

`aiomqtt`, `amqtt`, the network, Ecovacs, bots and apps are modelled from how the
code uses them: a publish is delivered once, lost, or fails; a connection fails
at any moment; one session exists per client id; an `__aexit__` that meets a lost
connection raises; amqtt reconnects a client by itself and has the states
`not_started` and `not_stopped`; bots and apps authenticate
before they bind, and under one name.
