---------------------------- MODULE XmppSession ----------------------------
(***************************************************************************)
(* The XMPP server (bumper/xmpp/xmpp.py): the connections it serves, the    *)
(* protocol state of each, the ping task started for it, whom a stanza is   *)
(* passed on to, and the xmpp_connection flag the sessions keep in the      *)
(* records of bots and clients.                                             *)
(*                                                                         *)
(* A chunk of data is parsed without an await, so a stanza is one action.   *)
(* transport.close() lets connection_lost come later: what was received     *)
(* before is still parsed in between (closing).                             *)
(***************************************************************************)
EXTENDS Naturals, FiniteSets

CONSTANTS
  Sessions,    \* the connections, each reusable once it is over
  Bots,        \* ids of bots (did)
  Users,       \* ids of users of the app
  NoName,      \* uid before authentication, and "no jid"
  Resources,   \* resources of jids
  Atom,        \* the one that bots have
  Within,      \* per id: the ids it contains as a piece of text, itself included
  MaxOrphans   \* bound: ping tasks that are no longer referenced, per session

Names == Bots \cup Users

ASSUME NamesAssumption == Bots \cap Users = {} /\ NoName \notin Names
ASSUME WithinAssumption == Within \in [Names -> SUBSET Names] /\ \A n \in Names : n \in Within[n]
ASSUME ResourcesAssumption == Atom \in Resources /\ NoName \notin Resources
ASSUME OrphansAssumption == MaxOrphans \in Nat

VARIABLES
  server,    \* "up", "closing" (inside disconnect()), or "crashed" until the flags are reset
  listed,    \* whether the session is in XMPPServer.clients
  state,     \* its state
  uid,       \* its uid; the type is BOT, CONTROLLER or UNKNOWN with it
  isDev,     \* whether devclass is set
  resource,  \* the resource in its bumper_jid, NoName while there is no jid
  tls,       \* tls_upgraded
  closing,   \* transport.close() was called
  ping,      \* whether schedule_ping_task runs
  orphans,   \* ping tasks still running that a later one has replaced
  flag,      \* per name: "none" without a record, else xmpp_connection as "down" or "up"
  overtaken  \* the sessions whose flag a namesake has lowered, or whose record was removed

sessionVars == <<listed, state, uid, isDev, resource, tls, closing>>
taskVars    == <<ping, orphans>>
recordVars  == <<flag, overtaken>>
vars == <<server, sessionVars, taskVars, recordVars>>

IDLE == 0
CONNECT == 1
INIT == 2
BIND == 3
READY == 4
DISCONNECT == 5

Named(n)   == {s \in Sessions : listed[s] /\ uid[s] = n}
IsBot(s)   == uid[s] \in Bots
Bound(s)   == resource[s] # NoName
Quiet(s)   == ~ping[s] /\ orphans[s] = 0

Init ==
  /\ server = "up"
  /\ listed = [s \in Sessions |-> FALSE]
  /\ state = [s \in Sessions |-> IDLE]
  /\ uid = [s \in Sessions |-> NoName]
  /\ isDev = [s \in Sessions |-> FALSE]
  /\ resource = [s \in Sessions |-> NoName]
  /\ tls = [s \in Sessions |-> FALSE]
  /\ closing = [s \in Sessions |-> FALSE]
  /\ ping = [s \in Sessions |-> FALSE]
  /\ orphans = [s \in Sessions |-> 0]
  /\ flag \in [Names -> {"none", "down"}]
  /\ overtaken = {}

-----------------------------------------------------------------------------
(* Records                                                                  *)

\* set_xmpp behind a get(): a record that is not there is not made.
Flagged(n, value) == [flag EXCEPT ![n] = IF @ = "none" THEN "none" ELSE value]

\* disconnect() finds the record by the session's uid and lowers its flag.
Lower(s) ==
  IF uid[s] = NoName THEN UNCHANGED recordVars
  ELSE /\ flag' = Flagged(uid[s], "down")
       /\ overtaken' = (overtaken \cup Named(uid[s])) \ {s}

\* A bot or client is removed by REST, and comes back with its next login.
RemoveRecord(n) ==
  /\ flag[n] # "none"
  /\ flag' = [flag EXCEPT ![n] = "none"]
  /\ overtaken' = overtaken \cup Named(n)
  /\ UNCHANGED <<server, sessionVars, taskVars>>

-----------------------------------------------------------------------------
(* Connections                                                              *)

\* connection_made() of a new connection.
Accept(s) ==
  /\ server = "up" /\ ~listed[s] /\ Quiet(s)
  /\ listed' = [listed EXCEPT ![s] = TRUE]
  /\ state' = [state EXCEPT ![s] = CONNECT]
  /\ uid' = [uid EXCEPT ![s] = NoName]
  /\ isDev' = [isDev EXCEPT ![s] = FALSE]
  /\ resource' = [resource EXCEPT ![s] = NoName]
  /\ tls' = [tls EXCEPT ![s] = FALSE]
  /\ closing' = [closing EXCEPT ![s] = FALSE]
  /\ UNCHANGED <<server, taskVars, recordVars>>

\* cleanup(): only the task that is still referenced can be cancelled.
Cleanup(s) == ping' = [ping EXCEPT ![s] = FALSE]

\* set_state("DISCONNECT") and the disconnect() in it, repeated if need be.
Disconnect(s) ==
  /\ state' = [state EXCEPT ![s] = DISCONNECT]
  /\ Cleanup(s)
  /\ Lower(s)

\* Faulty: the session is taken off the list and nothing else.
LostQuietly(s) ==
  /\ listed[s]
  /\ listed' = [listed EXCEPT ![s] = FALSE]
  /\ closing' = [closing EXCEPT ![s] = TRUE]
  /\ overtaken' = overtaken \ {s}
  /\ UNCHANGED <<server, state, uid, isDev, resource, tls, taskVars, flag>>

\* connection_lost(), after transport.close() or because the peer is gone.
ConnectionLost(s) ==
  /\ listed[s]
  /\ listed' = [listed EXCEPT ![s] = FALSE]
  /\ closing' = [closing EXCEPT ![s] = TRUE]
  /\ Disconnect(s)
  /\ UNCHANGED <<server, uid, isDev, resource, tls, orphans>>

-----------------------------------------------------------------------------
(* Stanzas.  A peer authenticates before it binds, and under one name.      *)

Parses(s)   == listed[s] /\ server # "crashed"
SetState(s, new) == state' = [state EXCEPT ![s] = IF @ > new THEN @ ELSE new]

\* The opening of a stream: only a bot's address names its class.
Stream(s) ==
  /\ Parses(s) /\ state[s] = CONNECT /\ ~isDev[s]
  /\ isDev' = [isDev EXCEPT ![s] = TRUE]
  /\ UNCHANGED <<server, listed, state, uid, resource, tls, closing, taskVars, recordVars>>

\* starttls, once; connection_made() then gives the same client its new transport.
StartTls(s) ==
  /\ Parses(s) /\ ~tls[s] /\ uid[s] = NoName
  /\ tls' = [tls EXCEPT ![s] = TRUE]
  /\ UNCHANGED <<server, listed, state, uid, isDev, resource, closing, taskVars, recordVars>>

\* SASL, in any state.  Nobody is refused: USE_AUTH is off.
Auth(s, n) ==
  /\ Parses(s)
  /\ uid[s] \in {NoName, n}
  /\ n \in IF isDev[s] THEN Bots ELSE Users
  /\ uid' = [uid EXCEPT ![s] = n]
  /\ flag' = [flag EXCEPT ![n] = IF @ = "none" THEN "down" ELSE @]
  /\ SetState(s, INIT)
  /\ UNCHANGED <<server, listed, isDev, resource, tls, closing, taskVars, overtaken>>

NewJid(s) ==
  \E r \in IF isDev[s] THEN {Atom} ELSE Resources : resource' = [resource EXCEPT ![s] = r]

\* Faulty: the flag is raised when the session opens, not when it binds.
BindSilently(s) ==
  /\ Parses(s) /\ uid[s] # NoName
  /\ NewJid(s)
  /\ SetState(s, BIND)
  /\ UNCHANGED <<server, listed, uid, isDev, tls, closing, taskVars, recordVars>>

\* bind, in any state: the flag goes up and the jid is set whatever set_state says.
Bind(s) ==
  /\ Parses(s) /\ uid[s] # NoName
  /\ flag' = Flagged(uid[s], "up")
  /\ overtaken' = IF flag[uid[s]] = "none" THEN overtaken ELSE overtaken \ Named(uid[s])
  /\ NewJid(s)
  /\ SetState(s, BIND)
  /\ UNCHANGED <<server, listed, uid, isDev, tls, closing, taskVars>>

\* session, in any state: another ping task, the reference to the last one lost.
Session(s) ==
  /\ Parses(s) /\ uid[s] # NoName
  /\ ping[s] => orphans[s] < MaxOrphans
  /\ orphans' = [orphans EXCEPT ![s] = IF ping[s] THEN @ + 1 ELSE @]
  /\ ping' = [ping EXCEPT ![s] = TRUE]
  /\ SetState(s, READY)
  /\ UNCHANGED <<server, listed, uid, isDev, resource, tls, closing, recordVars>>

\* presence "unavailable", or the end of the stream.
Leave(s) ==
  /\ Parses(s)
  /\ closing' = [closing EXCEPT ![s] = TRUE]
  /\ Disconnect(s)
  /\ UNCHANGED <<server, listed, uid, isDev, resource, tls, orphans>>

\* Faulty: the loop of schedule_ping does not look at the state.
PingForever(s) == FALSE

\* A ping task wakes up and finds its session over; otherwise it pings and sleeps on.
PingEnds(s) ==
  /\ state[s] = DISCONNECT
  /\ \/ ping[s] /\ ping' = [ping EXCEPT ![s] = FALSE] /\ UNCHANGED orphans
     \/ orphans[s] > 0 /\ orphans' = [orphans EXCEPT ![s] = @ - 1] /\ UNCHANGED ping
  /\ UNCHANGED <<server, sessionVars, recordVars>>

-----------------------------------------------------------------------------
(* The server                                                               *)

\* XMPPServer.disconnect() up to wait_closed(): client.disconnect() for every
\* client, which closes it and lowers its flag but leaves its state alone.
ServerDisconnect ==
  /\ server = "up"
  /\ server' = "closing"
  /\ closing' = [s \in Sessions |-> closing[s] \/ listed[s]]
  /\ ping' = [s \in Sessions |-> ping[s] /\ ~listed[s]]
  /\ flag' = [n \in Names |-> IF Named(n) # {} /\ flag[n] # "none" THEN "down" ELSE flag[n]]
  /\ UNCHANGED <<listed, state, uid, isDev, resource, tls, orphans, overtaken>>

\* wait_closed() returns once no connection is left; start_async_server() follows.
ServerStart ==
  /\ server = "closing"
  /\ \A s \in Sessions : ~listed[s]
  /\ server' = "up"
  /\ UNCHANGED <<sessionVars, taskVars, recordVars>>

\* The process dies: connections and tasks go, the records stay as they are.
Crash ==
  /\ server # "crashed"
  /\ server' = "crashed"
  /\ listed' = [s \in Sessions |-> FALSE]
  /\ ping' = [s \in Sessions |-> FALSE]
  /\ orphans' = [s \in Sessions |-> 0]
  /\ overtaken' = {}
  /\ UNCHANGED <<state, uid, isDev, resource, tls, closing, flag>>

\* Faulty: the flags are not reset.
RestartOnly ==
  /\ server = "crashed"
  /\ server' = "up"
  /\ UNCHANGED <<sessionVars, taskVars, recordVars>>

\* start_configuration() resets the flags before anything is served.
Restart ==
  /\ server = "crashed"
  /\ server' = "up"
  /\ flag' = [n \in Names |-> IF flag[n] = "none" THEN "none" ELSE "down"]
  /\ UNCHANGED <<sessionVars, taskVars, overtaken>>

-----------------------------------------------------------------------------
(* Whom a stanza is passed on to.  An address is the id of a bot or user,    *)
(* "server" (one without "@"), or NoName: missing, or the empty jid.         *)

Jid(s)    == IF Bound(s) THEN <<uid[s], resource[s]>> ELSE <<>>
Others(s) == {c \in Sessions : listed[c] /\ state[c] = READY /\ Jid(c) # Jid(s)}
ReplyTo(s) == IF Bound(s) THEN uid[s] ELSE NoName

Matches(c, to) == to \in Names => uid[c] \in Within[to]

\* _handle_iq: the query of a bot counts as a result, that of a controller as a command.
CtlReceivers(s, to) == {c \in Others(s) : IsBot(c) /\ to \in Names /\ Matches(c, to)}

\* Faulty: an answer without a user in its address goes to nobody.
AddressedOnly(s, to, errno) == {c \in Others(s) : to \in Names /\ Matches(c, to)}

\* A result: to everybody when no user is named, and to the whole list from a
\* bot that names the server.  errno 103 goes no further: the bot that reported
\* it is told to add the user.
ResultReceivers(s, to, errno) ==
  IF errno = 103 THEN {}
  ELSE {c \in Others(s) : Matches(c, to)}
       \cup (IF IsBot(s) /\ to = "server" THEN {c \in Sessions : listed[c]} ELSE {})

\* A ping to the server is answered, one to a user passed on.
PingReceivers(s, to) ==
  IF to = "server" THEN {s} ELSE {c \in Others(s) : to \in Names /\ Matches(c, to)}

-----------------------------------------------------------------------------
Stanza(s) ==
  \/ Stream(s) \/ StartTls(s) \/ Bind(s) \/ Session(s) \/ Leave(s)
  \/ \E n \in Names : Auth(s, n)

Next ==
  \/ \E s \in Sessions : Accept(s) \/ ConnectionLost(s) \/ PingEnds(s) \/ Stanza(s)
  \/ \E n \in Names : RemoveRecord(n)
  \/ ServerDisconnect \/ ServerStart \/ Crash \/ Restart

\* connection_lost() follows transport.close(); a sleeping task wakes up.
Fairness ==
  /\ \A s \in Sessions : WF_vars(closing[s] /\ ConnectionLost(s)) /\ WF_vars(PingEnds(s))
  /\ WF_vars(ServerStart)

Safety == Init /\ [][Next]_vars
Spec   == Safety /\ Fairness

-----------------------------------------------------------------------------
(* Properties                                                               *)

TypeOK ==
  /\ server \in {"up", "closing", "crashed"}
  /\ listed \in [Sessions -> BOOLEAN] /\ isDev \in [Sessions -> BOOLEAN]
  /\ resource \in [Sessions -> Resources \cup {NoName}] /\ tls \in [Sessions -> BOOLEAN]
  /\ closing \in [Sessions -> BOOLEAN] /\ ping \in [Sessions -> BOOLEAN]
  /\ state \in [Sessions -> IDLE .. DISCONNECT]
  /\ uid \in [Sessions -> Names \cup {NoName}]
  /\ orphans \in [Sessions -> 0 .. MaxOrphans]
  /\ flag \in [Names -> {"none", "down", "up"}]
  /\ overtaken \subseteq Sessions

\* While the server runs, a raised xmpp_connection belongs to a connection that
\* has bound under that name and is still on the list: create_device_list
\* reports no bot online that has gone, be it by presence, by a lost
\* connection, a restart of the server or of the process.
NoStaleUp ==
  server # "crashed" =>
    \A n \in Names : flag[n] = "up" => \E s \in Named(n) : Bound(s)

\* Of a connection that has bound and is not being closed the flag is up,
\* unless another connection of the same id ended after it bound, or the
\* record was removed: connection_lost() and disconnect() look at the uid only.
BoundIsUp ==
  \A s \in Sessions :
    listed[s] /\ Bound(s) /\ ~closing[s] /\ s \notin overtaken => flag[uid[s]] = "up"

\* Whoever got a command can answer it: if a controller that is ready reaches a
\* bot, the bot's result to the jid it read in "from" reaches the controller,
\* bound or not, whatever other connections there are.
AnswerReaches ==
  \A c, b \in Sessions :
    /\ listed[c] /\ state[c] = READY /\ ~IsBot(c)
    /\ \E to \in Names : b \in CtlReceivers(c, to)
    => c \in ResultReceivers(b, ReplyTo(c), 0)

\* A connection that is being closed leaves the list, and none of the ping
\* tasks ever started for it goes on, referenced or not.
EndedIsForgotten ==
  \A s \in Sessions : closing[s] ~> (~listed[s] /\ Quiet(s))

\* What a reader sees: nothing is served between a crash and the reset.
Visible == [n \in Names |-> IF server = "crashed" /\ flag[n] = "up" THEN "down" ELSE flag[n]]
Online  == [n \in Names |-> {s \in Named(n) : Bound(s)}]

Abstract == INSTANCE Presence WITH flag <- Visible, online <- Online

\* The XMPP side of the records behaves as Presence says.
ImplementsPresence == Abstract!Spec
=============================================================================
