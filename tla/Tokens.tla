------------------------------- MODULE Tokens -------------------------------
(***************************************************************************)
(* Logins of the app: the token table (bumper/db/tokens.py), the handlers   *)
(* that fill and read it (web/auth_service.py, plugins/v1/private/user.py,  *)
(* plugins/api/users.py) and the maintenance loop that empties it.          *)
(*                                                                         *)
(* No handler awaits between its first and its last use of the database,     *)
(* so each is one action.  USE_AUTH is fixed to False (settings.py).        *)
(*                                                                         *)
(* Strings drawn by uuid4 are numbers in the order they are drawn: a token  *)
(* record is named by its token string, and lower numbers come first in the *)
(* table.  Time is in abstract units.                               *)
(***************************************************************************)
EXTENDS Integers

CONSTANTS
  Users,      \* user ids: hashes of account names
  Devices,    \* the phones the app runs on
  Validity,   \* TOKEN_VALIDITY_SECONDS
  Before,     \* LOCAL_TIMEZONE's offset from UTC ...
  After,      \* ... and the one that replaces it ...
  Switch,     \* ... at this time, when clocks change
  MaxTime,    \* bound: the last moment of a behaviour
  MaxSerial   \* bound: strings drawn

ASSUME ClockAssumption ==
  /\ Validity \in Nat \ {0} /\ Before \in Nat /\ After \in Nat
  /\ Switch \in Nat /\ MaxTime \in Nat
ASSUME SerialAssumption == MaxSerial \in Nat

VARIABLES
  tokens,   \* the table of tokens
  since,    \* when the record of a user was made, 0 without one
  devices,  \* the devices in the record of a user
  serial,   \* how many strings have been drawn
  now,      \* the time
  answer    \* what the last handler answered

vars == <<tokens, since, devices, serial, now, answer>>

NoCode == 0   \* auth_code or it_token is None
Empty  == 0   \* accessToken="" in a query
Absent == -1  \* no accessToken in a query

Tokens == [id : Nat, user : Users, born : Nat, auth : Nat, it : Nat]

-----------------------------------------------------------------------------
(* Expiry: datetime.now(tz) + timedelta, stored by isoformat()              *)

Offset == IF now < Switch THEN Before ELSE After
Wall   == now + Offset

LastWallBefore == Switch + (IF Before > After THEN Before ELSE After)

\* Adding to an aware datetime moves its wall clock; the sum has fold 0, so a
\* wall time that occurs twice or never gets the offset of before the switch.
Expiry(t) ==
  LET wall == t.born + (IF t.born < Switch THEN Before ELSE After) + Validity
  IN  [wall |-> wall, offset |-> IF wall < LastWallBefore THEN Before ELSE After]

\* verify(): two aware datetimes are compared as instants.
Valid(t) == Expiry(t).wall - Expiry(t).offset > now

\* Faulty: the comparison is turned around.
OverdueTurned(t) == Expiry(t).wall > Wall

\* where("expiration") < now.isoformat(): two strings, the wall clock first.
Overdue(t) ==
  \/ Expiry(t).wall < Wall
  \/ Expiry(t).wall = Wall /\ Expiry(t).offset < Offset

-----------------------------------------------------------------------------
(* The repositories                                                         *)

TokensOf(S, u) == {t \in S : t.user = u}

\* The first record of a search; TinyDB keeps the order of insertion.
IsFirst(t, S) == t \in S /\ \A v \in S : t.id <= v.id

\* revoke_user_expired()
Unexpired(u) == {t \in tokens : t.user = u => ~Overdue(t)}

\* add()
Added(S, u) ==
  S \cup {[id |-> serial + 1, user |-> u, born |-> now, auth |-> NoCode, it |-> NoCode]}

\* add_auth_code() and add_it_token(): an upsert reaches every token of the user.
WithAuth(S, u, code) == {IF t.user = u THEN [t EXCEPT !.auth = code] ELSE t : t \in S}
WithIt(S, u, code)   == {IF t.user = u THEN [t EXCEPT !.it = code] ELSE t : t \in S}

\* verify_it() and verify_auth_code().
VerifiesIt(S, u, i)        == \E t \in TokensOf(S, u) : t.it = i
VerifiesAuthCode(S, u, code) == \E t \in TokensOf(S, u) : t.auth = code

Known(u) == since[u] # 0

\* get_by_device_id(): the first record that lists the device.
IsOwner(u, d) ==
  /\ d \in devices[u]
  /\ \A v \in Users : d \in devices[v] => since[u] <= since[v]

Draw == serial < MaxSerial /\ serial' = serial + 1
Answer(kind, u, value) == answer' = [kind |-> kind, user |-> u, value |-> value]

-----------------------------------------------------------------------------
(* What a handler answers from a table S that it leaves alone               *)

\* loginByItToken: the token and user of the first record with an it-token;
\* to who names the user, the it-token is confirmed.
LoginByItToken(S, i) == {[user |-> t.user, token |-> t.id] : t \in {v \in S : IsFirst(v, {w \in S : w.it = i})}}

\* generate_jwt_helper(): an access token is over at once.
Jwt(kind, u, code) ==
  [t |-> kind, u |-> u, ac |-> code, iat |-> now, exp |-> now + (IF kind = "a" THEN 0 ELSE Validity)]

\* _get_auth_code(): the code itself, or else the one in a refresh token,
\* whose signature, kind and expiry nobody looks at.
AuthCodeIn(query) == IF "code" \in DOMAIN query THEN query.code ELSE query.refresh_token.ac

\* oauth_callback()
OauthCallback(S, query) ==
  {[userId |-> t.user,
    access_token |-> Jwt("a", t.user, t.auth), refresh_token |-> Jwt("r", t.user, t.auth)] :
   t \in {v \in S : IsFirst(v, {w \in S : w.auth = AuthCodeIn(query)})}}

-----------------------------------------------------------------------------
(* Handlers                                                                 *)

\* user_repo.add() unless there is a record, and add_device().
Enrol(u, d) ==
  /\ since' = IF Known(u) THEN since ELSE [since EXCEPT ![u] = serial + 1]
  /\ devices' = [devices EXCEPT ![u] = @ \cup {d}]

\* checkLogin with an accessToken that is in the table: the answer repeats it,
\* whether or not verify() accepts it.
Confirms(u, a) == a # Absent /\ (a = Empty \/ \E t \in Unexpired(u) : t.user = u /\ t.id = a)

\* login and checkLogin (_auth_any): the user's expired tokens go; a new
\* token is drawn unless the query named one to confirm.
Login(u, d, a) ==
  /\ Draw
  /\ Enrol(u, d)
  /\ IF Confirms(u, a)
     THEN tokens' = Unexpired(u) /\ Answer("token", u, a)
     ELSE tokens' = Added(Unexpired(u), u) /\ Answer("token", u, serial + 1)
  /\ UNCHANGED now

\* get_auth_code(): a new it-token for a user found by id or by device.
GetAuthCode(u) ==
  /\ Known(u)
  /\ IF TokensOf(tokens, u) = {}
     THEN Answer("error", u, NoCode) /\ UNCHANGED <<tokens, serial>>
     ELSE Draw /\ tokens' = WithIt(tokens, u, serial + 1) /\ Answer("it", u, serial + 1)
  /\ UNCHANGED <<since, devices, now>>

\* _generate_auth_code() on what is left of the table.
NewCode(S, u, kind) ==
  IF TokensOf(S, u) = {}
  THEN tokens' = S /\ Answer("error", u, NoCode) /\ UNCHANGED serial
  ELSE Draw /\ tokens' = WithAuth(S, u, serial + 1) /\ Answer(kind, u, serial + 1)

\* Faulty: always a new code.
GetNewAuthAlways(i) ==
  /\ \E t \in tokens : IsFirst(t, {v \in tokens : v.it = i}) /\ NewCode(Unexpired(t.user), t.user, "newauth")
  /\ UNCHANGED <<since, devices, now>>

\* get_new_auth(): the record is read before expired tokens are revoked.
GetNewAuth(i) ==
  /\ \E t \in tokens :
       /\ IsFirst(t, {v \in tokens : v.it = i})
       /\ IF t.auth # NoCode
          THEN tokens' = Unexpired(t.user) /\ Answer("newauth", t.user, t.auth) /\ UNCHANGED serial
          ELSE NewCode(Unexpired(t.user), t.user, "newauth")
  /\ UNCHANGED <<since, devices, now>>

\* Faulty: the record is read before expired tokens are revoked.
GetAuthCodeV2Stale(u) ==
  /\ Known(u)
  /\ \E t \in TokensOf(tokens, u) :
       /\ IsFirst(t, TokensOf(tokens, u))
       /\ IF t.auth # NoCode
          THEN tokens' = Unexpired(u) /\ Answer("code", u, t.auth) /\ UNCHANGED serial
          ELSE NewCode(Unexpired(u), u, "code")
  /\ UNCHANGED <<since, devices, now>>

\* get_auth_code_v2(): expired tokens are revoked before the record is read.
GetAuthCodeV2(u) ==
  /\ Known(u)
  /\ \/ \E t \in TokensOf(Unexpired(u), u) :
          /\ IsFirst(t, TokensOf(Unexpired(u), u))
          /\ IF t.auth # NoCode
             THEN tokens' = Unexpired(u) /\ Answer("code", u, t.auth) /\ UNCHANGED serial
             ELSE NewCode(Unexpired(u), u, "code")
     \/ TokensOf(Unexpired(u), u) = {} /\ NewCode(Unexpired(u), u, "code")
  /\ UNCHANGED <<since, devices, now>>

\* Faulty: every token of the user is dropped.
LogoutAll(d, a) ==
  /\ \E u \in Users : IsOwner(u, d) /\ tokens' = tokens \ TokensOf(tokens, u) /\ Answer("out", u, a)
  /\ UNCHANGED <<since, devices, serial, now>>

\* _logout(): the token goes if verify() finds it with the device's user.
Logout(d, a) ==
  /\ \E u \in Users :
       /\ IsOwner(u, d)
       /\ tokens' = {t \in tokens : ~(t.user = u /\ t.id = a /\ Valid(t))}
       /\ Answer("out", u, a)
  /\ UNCHANGED <<since, devices, serial, now>>

\* logout of users/user.do, and removal on the status page: the record of the
\* user goes, the tokens stay.
Forget(u) ==
  /\ Known(u)
  /\ since' = [since EXCEPT ![u] = 0]
  /\ devices' = [devices EXCEPT ![u] = {}]
  /\ Answer("out", u, NoCode)
  /\ UNCHANGED <<tokens, serial, now>>

\* maintenance(): revoke_expired() every five seconds.
Maintenance ==
  /\ tokens' = {t \in tokens : ~Overdue(t)}
  /\ UNCHANGED <<since, devices, serial, now, answer>>

Tick ==
  /\ now < MaxTime
  /\ now' = now + 1
  /\ UNCHANGED <<tokens, since, devices, serial, answer>>

Init ==
  /\ tokens = {}
  /\ since = [u \in Users |-> 0]
  /\ devices = [u \in Users |-> {}]
  /\ serial = 0
  /\ now = 0
  /\ answer \in [kind : {"none"}, user : Users, value : {NoCode}]

Next ==
  \/ \E u \in Users, d \in Devices, a \in {Absent, Empty} \cup 1 .. MaxSerial : Login(u, d, a)
  \/ \E u \in Users : GetAuthCode(u)
  \/ \E i \in 1 .. MaxSerial : GetNewAuth(i)
  \/ \E u \in Users : GetAuthCodeV2(u)
  \/ \E d \in Devices, a \in 1 .. MaxSerial : Logout(d, a)
  \/ \E u \in Users : Forget(u)
  \/ Maintenance
  \/ Tick

Safety == Init /\ [][Next]_vars

\* Time passes and the maintenance loop runs; no request need ever come.
Spec == Safety /\ WF_vars(Tick) /\ WF_vars(Maintenance)

-----------------------------------------------------------------------------
(* Properties                                                               *)

\* The state has its types, and nothing in the table is from the future.
TypeOK ==
  /\ tokens \subseteq Tokens
  /\ since \in [Users -> Nat] /\ devices \in [Users -> SUBSET Devices]
  /\ serial \in Nat /\ now \in Nat
  /\ \A t \in tokens : t.id <= serial /\ t.auth <= serial /\ t.it <= serial /\ t.born <= now
  /\ \A t, v \in tokens : t.id = v.id => t = v

\* A user has one auth code and one it-token at a time: an older token of the
\* user carries whatever a newer one carries, so that reading the first record
\* is enough, and no two users share a code (add_auth_code, get_first).
CodesShared ==
  \A t, v \in tokens :
    /\ t.user = v.user /\ t.id < v.id =>
         /\ v.auth # NoCode => t.auth = v.auth
         /\ v.it # NoCode => t.it = v.it
    /\ t.auth = v.auth /\ t.auth # NoCode => t.user = v.user
    /\ t.it = v.it /\ t.it # NoCode => t.user = v.user

\* An auth code that a client may be using is never overwritten by the code
\* another login asks for: it lasts as long as its token (get_new_auth,
\* get_auth_code_v2).
CodesKept ==
  [][\A t \in tokens, v \in tokens' : t.id = v.id /\ t.auth # NoCode => v.auth = t.auth]_vars

\* What a handler answers gets its user through the next one.  The token of a
\* login is in the table, unless the query asked to confirm an empty one; the
\* it-token of getAuthCode logs in as a session of that user; the code of
\* getAuthCode v2 is accepted by the MQTT and XMPP servers and exchanged for
\* that user's access, and the refresh token that comes with it is again.
LogsIn(S, u, i) == VerifiesIt(S, u, i) /\ \E r \in LoginByItToken(S, i) : r.user = u

Exchanges(S, u, code) ==
  \E r \in OauthCallback(S, [code |-> code]) :
    /\ r.userId = u
    /\ \E again \in OauthCallback(S, [refresh_token |-> r.refresh_token]) : again.userId = u

HandedOutWorks ==
  [][answer' # answer /\ answer'.value # NoCode =>
       /\ answer'.kind = "token" => \E t \in tokens' : t.user = answer'.user /\ t.id = answer'.value
       /\ answer'.kind = "it"    => LogsIn(tokens', answer'.user, answer'.value)
       /\ answer'.kind = "code"  =>
            /\ VerifiesAuthCode(tokens', answer'.user, answer'.value)
            /\ Exchanges(tokens', answer'.user, answer'.value)]_vars

Gone(i) == \A t \in tokens : t.id # i

\* A session that verify() accepts ends only by its own logout: no login of the
\* same user, no other logout and no revocation of expired tokens drops it.
\* False when clocks go forward: `revoke_expired` compares wall clocks.
SessionsLast ==
  [][\A t \in tokens : Valid(t) /\ Gone(t.id)' => \E d \in Devices : Logout(d, t.id)]_vars

\* verify() accepts a token for TOKEN_VALIDITY_SECONDS (`30 minutes`), to the
\* moment.  False for a login shortly before clocks go back: the sum of its wall
\* clock and the validity is a wall clock of after the change.
Lifetime == \A t \in tokens : Valid(t) <=> now < t.born + Validity

\* Every token whose time can run out leaves the table, with no request to
\* push it out (maintenance).
EveryTokenGoes ==
  \A i \in 1 .. MaxSerial :
    (\E t \in tokens : t.id = i /\ t.born + Validity < MaxTime) ~> Gone(i)

\* get_new_auth() answers a code that the later login can look up: "Deactivate
\* old tokens and auth_codes" (auth_service.py) has not taken it.
NewAuthWorks ==
  [][answer' # answer /\ answer'.kind = "newauth" =>
       \E t \in tokens' : t.user = answer'.user /\ t.auth = answer'.value]_vars

=============================================================================
