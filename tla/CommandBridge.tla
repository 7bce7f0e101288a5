---------------------------- MODULE CommandBridge ----------------------------
(***************************************************************************)
(* What the helper bot promises to the REST side, without connection,       *)
(* request ids, table or time: every command is answered once, either with  *)
(* an error or with an answer that a bot gave to this very command.         *)
(***************************************************************************)
CONSTANTS Requests

VARIABLES
  status,   \* idle, open, ok or error
  reached,  \* the commands a bot has received
  replied   \* the commands a bot has answered

bridgeVars == <<status, reached, replied>>

BridgeInit ==
  /\ status = [r \in Requests |-> "idle"]
  /\ reached = {}
  /\ replied = {}

Open(r) ==
  /\ status[r] = "idle"
  /\ status' = [status EXCEPT ![r] = "open"]
  /\ UNCHANGED <<reached, replied>>

\* Only an open command travels to its bot.
Reach(r) ==
  /\ status[r] = "open"
  /\ reached' = reached \cup {r}
  /\ UNCHANGED <<status, replied>>

\* The bot may answer whenever it likes, also after the caller gave up.
BotReplies(r) ==
  /\ r \in reached
  /\ replied' = replied \cup {r}
  /\ UNCHANGED <<status, reached>>

Succeed(r) ==
  /\ status[r] = "open"
  /\ r \in replied
  /\ status' = [status EXCEPT ![r] = "ok"]
  /\ UNCHANGED <<reached, replied>>

Fail(r) ==
  /\ status[r] = "open"
  /\ status' = [status EXCEPT ![r] = "error"]
  /\ UNCHANGED <<reached, replied>>

BridgeNext ==
  \E r \in Requests : Open(r) \/ Reach(r) \/ BotReplies(r) \/ Succeed(r) \/ Fail(r)

BridgeSpec == BridgeInit /\ [][BridgeNext]_bridgeVars
=============================================================================
