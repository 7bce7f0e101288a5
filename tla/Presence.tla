------------------------------ MODULE Presence ------------------------------
(***************************************************************************)
(* What a connection flag of a bot or client record promises, whichever     *)
(* server keeps it (mqtt_connection by the broker plugin, xmpp_connection   *)
(* by the XMPP sessions): sessions report in and out under a name, the      *)
(* record of a name may come and go, and the end of a session lowers the    *)
(* flag of its name whoever else is still there.                            *)
(***************************************************************************)
CONSTANTS
  Sessions,  \* the connections
  Names      \* the ids of the records

VARIABLES
  flag,    \* per name: "none" without a record, else "down" or "up"
  online   \* per name: the sessions that have reported in and not yet left

presenceVars == <<flag, online>>

Init ==
  /\ flag \in [Names -> {"none", "down"}]
  /\ online = [n \in Names |-> {}]

\* A flag can only be raised or lowered in a record that exists.
Put(n, value) == IF flag[n] = "none" THEN "none" ELSE value

Register(n) ==
  /\ flag[n] = "none"
  /\ flag' = [flag EXCEPT ![n] = "down"]
  /\ UNCHANGED online

Forget(n) ==
  /\ flag' = [flag EXCEPT ![n] = "none"]
  /\ UNCHANGED online

ReportIn(n, s) ==
  /\ online' = [online EXCEPT ![n] = @ \cup {s}]
  /\ flag' = [flag EXCEPT ![n] = Put(n, "up")]

\* The end of a session is noticed: it may leave now or a little later.
ReportOut(n, s) ==
  /\ online' \in {online, [online EXCEPT ![n] = @ \ {s}]}
  /\ flag' = [flag EXCEPT ![n] = Put(n, "down")]

\* A server goes down, or the process dies and lowers the flags when it starts again.
AllOut ==
  /\ online' \in {online, [n \in Names |-> {}]}
  /\ flag' = [n \in Names |-> Put(n, "down")]

Next ==
  \/ \E n \in Names : Register(n) \/ Forget(n)
  \/ \E n \in Names, s \in Sessions : ReportIn(n, s) \/ ReportOut(n, s)
  \/ AllOut

Spec == Init /\ [][Next]_presenceVars

\* A flag that is up is backed by a session.
NoStaleUp == \A n \in Names : flag[n] = "up" => online[n] # {}
=============================================================================
