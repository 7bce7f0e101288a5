---------------------------- MODULE TokensProof ----------------------------
(***************************************************************************)
(* Proofs about Tokens, for any accounts, phones and validity.  A table is  *)
(* Sound when its records are typed, distinct and share their codes; what   *)
(* handlers do to the table is a choice of records to keep, followed by at  *)
(* most one of Added, WithAuth and WithIt, and each keeps a table sound.    *)
(***************************************************************************)
EXTENDS Tokens, TLAPS, WellFoundedInduction

\* T is well formed when n strings have been drawn and the time is m.
WellFormed(T, n, m) ==
  /\ T \subseteq Tokens
  /\ \A t \in T : t.id <= n /\ t.auth <= n /\ t.it <= n /\ t.born <= m
  /\ \A t, v \in T : t.id = v.id => t = v

\* The body of CodesShared, for any table.
Sharing(T) ==
  \A t, v \in T :
    /\ t.user = v.user /\ t.id < v.id =>
         /\ v.auth # NoCode => t.auth = v.auth
         /\ v.it # NoCode => t.it = v.it
    /\ t.auth = v.auth /\ t.auth # NoCode => t.user = v.user
    /\ t.it = v.it /\ t.it # NoCode => t.user = v.user

Sound(T, n, m) == WellFormed(T, n, m) /\ Sharing(T)

\* The rest of the state has its types.
Rest ==
  /\ since \in [Users -> Nat] /\ devices \in [Users -> SUBSET Devices]
  /\ serial \in Nat /\ now \in Nat

Inv == Rest /\ Sound(tokens, serial, now)

-----------------------------------------------------------------------------

\* Revocations and logouts: part of a sound table is sound, then and later.
LEMMA PartSound ==
  ASSUME NEW T, NEW S \in SUBSET T, NEW n \in Nat, NEW m \in Nat,
         NEW k \in Nat, NEW l \in Nat, n <= k, m <= l, Sound(T, n, m)
  PROVE  Sound(S, k, l)
<1>1. \A t \in S : t \in T /\ t \in Tokens
  BY DEF Sound, WellFormed
<1>2. \A t \in S : t.id \in Nat /\ t.auth \in Nat /\ t.it \in Nat /\ t.born \in Nat
  BY <1>1 DEF Tokens
<1>3. WellFormed(S, k, l)
  BY <1>1, <1>2 DEF Sound, WellFormed
<1>4. Sharing(S)
  BY <1>1 DEF Sound, Sharing
<1> QED BY <1>3, <1>4 DEF Sound

\* A login: the new token is the youngest and has no code yet.
LEMMA AddedSound ==
  ASSUME NEW S, NEW u \in Users, serial \in Nat, now \in Nat, Sound(S, serial, now)
  PROVE  Sound(Added(S, u), serial + 1, now)
<1> DEFINE new == [id |-> serial + 1, user |-> u, born |-> now, auth |-> NoCode, it |-> NoCode]
<1>1. new \in Tokens /\ new.id = serial + 1 /\ new.user = u /\ new.auth = 0 /\ new.it = 0 /\ new.born = now
  BY DEF Tokens, NoCode
<1>2. Added(S, u) = S \cup {new}
  BY DEF Added
<1>3. \A t \in S : /\ t \in Tokens /\ t.id \in Nat /\ t.auth \in Nat /\ t.it \in Nat /\ t.born \in Nat
                   /\ t.id <= serial /\ t.auth <= serial /\ t.it <= serial /\ t.born <= now
  BY DEF Sound, WellFormed, Tokens
<1> HIDE DEF new
<1>4. WellFormed(S \cup {new}, serial + 1, now)
  BY <1>1, <1>3 DEF Sound, WellFormed
<1>5. Sharing(S \cup {new})
  <2> SUFFICES ASSUME NEW t \in S \cup {new}, NEW v \in S \cup {new}
               PROVE  /\ t.user = v.user /\ t.id < v.id =>
                           (v.auth # NoCode => t.auth = v.auth) /\ (v.it # NoCode => t.it = v.it)
                      /\ t.auth = v.auth /\ t.auth # NoCode => t.user = v.user
                      /\ t.it = v.it /\ t.it # NoCode => t.user = v.user
    BY DEF Sharing
  <2>1. CASE t \in S /\ v \in S
    BY <2>1 DEF Sound, Sharing
  <2>2. CASE v = new
    BY <2>2, <1>1 DEF NoCode
  <2>3. CASE t = new /\ v \in S
    BY <2>3, <1>1, <1>3 DEF NoCode
  <2> QED BY <2>1, <2>2, <2>3
<1> QED BY <1>2, <1>4, <1>5 DEF Sound

\* A new auth code reaches every token of the user, and no other.
LEMMA WithAuthSound ==
  ASSUME NEW S, NEW u \in Users, serial \in Nat, now \in Nat, Sound(S, serial, now)
  PROVE  Sound(WithAuth(S, u, serial + 1), serial + 1, now)
<1> DEFINE Marked(t) == IF t.user = u THEN [t EXCEPT !.auth = serial + 1] ELSE t
<1>1. \A t \in S : /\ t \in Tokens /\ t.id \in Nat /\ t.auth \in Nat /\ t.it \in Nat /\ t.born \in Nat
                   /\ t.id <= serial /\ t.auth <= serial /\ t.it <= serial /\ t.born <= now
  BY DEF Sound, WellFormed, Tokens
<1>2. \A t \in S : /\ Marked(t) \in Tokens /\ Marked(t).id = t.id /\ Marked(t).user = t.user
                   /\ Marked(t).born = t.born /\ Marked(t).it = t.it
                   /\ Marked(t).auth = IF t.user = u THEN serial + 1 ELSE t.auth
  BY <1>1 DEF Tokens
<1> HIDE DEF Marked
<1>3. \A w : w \in WithAuth(S, u, serial + 1) <=> \E t \in S : w = Marked(t)
  BY DEF WithAuth, Marked
<1>4. WellFormed(WithAuth(S, u, serial + 1), serial + 1, now)
  BY <1>1, <1>2, <1>3 DEF Sound, WellFormed
<1>5. Sharing(WithAuth(S, u, serial + 1))
  <2> SUFFICES ASSUME NEW t \in S, NEW v \in S
               PROVE  /\ Marked(t).user = Marked(v).user /\ Marked(t).id < Marked(v).id =>
                           /\ Marked(v).auth # NoCode => Marked(t).auth = Marked(v).auth
                           /\ Marked(v).it # NoCode => Marked(t).it = Marked(v).it
                      /\ Marked(t).auth = Marked(v).auth /\ Marked(t).auth # NoCode => Marked(t).user = Marked(v).user
                      /\ Marked(t).it = Marked(v).it /\ Marked(t).it # NoCode => Marked(t).user = Marked(v).user
    BY <1>3 DEF Sharing
  <2> QED BY <1>1, <1>2 DEF Sound, Sharing
<1> QED BY <1>4, <1>5 DEF Sound

\* A new it-token reaches every token of the user, and no other.
LEMMA WithItSound ==
  ASSUME NEW S, NEW u \in Users, serial \in Nat, now \in Nat, Sound(S, serial, now)
  PROVE  Sound(WithIt(S, u, serial + 1), serial + 1, now)
<1> DEFINE Marked(t) == IF t.user = u THEN [t EXCEPT !.it = serial + 1] ELSE t
<1>1. \A t \in S : /\ t \in Tokens /\ t.id \in Nat /\ t.auth \in Nat /\ t.it \in Nat /\ t.born \in Nat
                   /\ t.id <= serial /\ t.auth <= serial /\ t.it <= serial /\ t.born <= now
  BY DEF Sound, WellFormed, Tokens
<1>2. \A t \in S : /\ Marked(t) \in Tokens /\ Marked(t).id = t.id /\ Marked(t).user = t.user
                   /\ Marked(t).born = t.born /\ Marked(t).auth = t.auth
                   /\ Marked(t).it = IF t.user = u THEN serial + 1 ELSE t.it
  BY <1>1 DEF Tokens
<1> HIDE DEF Marked
<1>3. \A w : w \in WithIt(S, u, serial + 1) <=> \E t \in S : w = Marked(t)
  BY DEF WithIt, Marked
<1>4. WellFormed(WithIt(S, u, serial + 1), serial + 1, now)
  BY <1>1, <1>2, <1>3 DEF Sound, WellFormed
<1>5. Sharing(WithIt(S, u, serial + 1))
  <2> SUFFICES ASSUME NEW t \in S, NEW v \in S
               PROVE  /\ Marked(t).user = Marked(v).user /\ Marked(t).id < Marked(v).id =>
                           /\ Marked(v).auth # NoCode => Marked(t).auth = Marked(v).auth
                           /\ Marked(v).it # NoCode => Marked(t).it = Marked(v).it
                      /\ Marked(t).auth = Marked(v).auth /\ Marked(t).auth # NoCode => Marked(t).user = Marked(v).user
                      /\ Marked(t).it = Marked(v).it /\ Marked(t).it # NoCode => Marked(t).user = Marked(v).user
    BY <1>3 DEF Sharing
  <2> QED BY <1>1, <1>2 DEF Sound, Sharing
<1> QED BY <1>4, <1>5 DEF Sound

-----------------------------------------------------------------------------
(* The steps                                                                *)

LEMMA InvInit == Init => Inv
BY DEF Init, Inv, Rest, Sound, WellFormed, Sharing

\* What is left after a revocation is sound.
LEMMA UnexpiredSound ==
  ASSUME Inv, NEW u
  PROVE  /\ Unexpired(u) \subseteq tokens
         /\ Sound(Unexpired(u), serial, now)
         /\ Sound(Unexpired(u), serial + 1, now)
<1>1. Unexpired(u) \subseteq tokens
  BY DEF Unexpired
<1>2. serial \in Nat /\ now \in Nat /\ serial + 1 \in Nat /\ serial <= serial + 1 /\ serial <= serial /\ now <= now
  BY DEF Inv, Rest
<1> QED BY <1>1, <1>2, PartSound DEF Inv

\* A new auth code keeps a sound table sound.
LEMMA NewCodeSound ==
  ASSUME Inv, NEW S, NEW u \in Users, NEW kind, Sound(S, serial, now), NewCode(S, u, kind)
  PROVE  serial' \in Nat /\ Sound(tokens', serial', now)
<1>1. CASE TokensOf(S, u) = {}
  BY <1>1 DEF NewCode, Inv, Rest
<1>2. CASE TokensOf(S, u) # {}
  BY <1>2, WithAuthSound DEF NewCode, Draw, Inv, Rest
<1> QED BY <1>1, <1>2

LEMMA InvStep ==
  ASSUME Inv, [Next]_vars
  PROVE  Inv'
<1>0. \A t \in tokens : t.user \in Users
  BY DEF Inv, Sound, WellFormed, Tokens
<1>1. ASSUME NEW u \in Users, NEW d \in Devices, NEW a, Login(u, d, a) PROVE Inv'
  <2>1. Rest' /\ serial' = serial + 1 /\ now' = now
    BY <1>1 DEF Inv, Rest, Login, Draw, Enrol, Known
  <2>2. Sound(tokens', serial + 1, now)
    <3>1. CASE Confirms(u, a)
      BY <1>1, <3>1, UnexpiredSound DEF Login
    <3>2. CASE ~Confirms(u, a)
      BY <1>1, <3>2, UnexpiredSound, AddedSound DEF Login, Inv, Rest
    <3> QED BY <3>1, <3>2
  <2> QED BY <2>1, <2>2 DEF Inv, Sound, WellFormed, Sharing
<1>2. ASSUME NEW u \in Users, GetAuthCode(u) PROVE Inv'
  <2>1. Rest' /\ now' = now
    BY <1>2 DEF Inv, Rest, GetAuthCode, Draw
  <2>2. Sound(tokens', serial', now)
    BY <1>2, WithItSound DEF GetAuthCode, Draw, Inv, Rest
  <2> QED BY <2>1, <2>2 DEF Inv, Sound, WellFormed, Sharing
<1>3. ASSUME NEW i, GetNewAuth(i) PROVE Inv'
  <2>1. serial' \in Nat /\ Sound(tokens', serial', now)
    <3>1. PICK t \in tokens :
            IF t.auth # NoCode
            THEN tokens' = Unexpired(t.user) /\ Answer("newauth", t.user, t.auth) /\ UNCHANGED serial
            ELSE NewCode(Unexpired(t.user), t.user, "newauth")
      BY <1>3 DEF GetNewAuth
    <3>2. CASE t.auth # NoCode
      BY <3>1, <3>2, UnexpiredSound DEF Inv, Rest
    <3>3. CASE t.auth = NoCode
      BY <3>1, <3>3, <1>0, UnexpiredSound, NewCodeSound
    <3> QED BY <3>2, <3>3
  <2>2. Rest' /\ now' = now
    BY <1>3, <2>1 DEF Inv, Rest, GetNewAuth
  <2> QED BY <2>1, <2>2 DEF Inv, Sound, WellFormed, Sharing
<1>4. ASSUME NEW u \in Users, GetAuthCodeV2(u) PROVE Inv'
  <2>1. serial' \in Nat /\ Sound(tokens', serial', now)
    <3>1. CASE tokens' = Unexpired(u) /\ UNCHANGED serial
      BY <3>1, UnexpiredSound DEF Inv, Rest
    <3>2. CASE NewCode(Unexpired(u), u, "code")
      BY <3>2, UnexpiredSound, NewCodeSound
    <3> QED BY <1>4, <3>1, <3>2 DEF GetAuthCodeV2
  <2>2. Rest' /\ now' = now
    BY <1>4, <2>1 DEF Inv, Rest, GetAuthCodeV2
  <2> QED BY <2>1, <2>2 DEF Inv, Sound, WellFormed, Sharing
<1>5. ASSUME NEW S \in SUBSET tokens, tokens' = S, UNCHANGED serial, Rest', now <= now' PROVE Inv'
  <2>1. Sound(S, serial, now')
    BY <1>5, PartSound DEF Inv, Rest
  <2> QED BY <1>5, <2>1 DEF Inv, Sound, WellFormed, Sharing
<1>6. ASSUME NEW d, NEW a, Logout(d, a) PROVE Inv'
  BY <1>5, <1>6 DEF Logout, Inv, Rest
<1>7. ASSUME NEW u \in Users, Forget(u) PROVE Inv'
  <2>1. Rest' /\ now <= now' /\ tokens' = tokens /\ UNCHANGED serial
    BY <1>7 DEF Forget, Inv, Rest
  <2> QED BY <1>5, <2>1
<1>8. CASE Maintenance
  BY <1>5, <1>8 DEF Maintenance, Inv, Rest
<1>9. CASE Tick
  BY <1>5, <1>9 DEF Tick, Inv, Rest
<1>10. CASE UNCHANGED vars
  BY <1>5, <1>10 DEF vars, Inv, Rest
<1> QED BY <1>1, <1>2, <1>3, <1>4, <1>6, <1>7, <1>8, <1>9, <1>10 DEF Next

LEMMA InvAlways == Safety => []Inv
BY InvInit, InvStep, PTL DEF Safety

-----------------------------------------------------------------------------
(* Theorems                                                                 *)

\* The table and the user records keep their types, and tokens stay distinct.
THEOREM TokenTypes == Safety => []TypeOK
<1>1. Inv => TypeOK
  BY DEF Inv, Rest, Sound, WellFormed, TypeOK
<1> QED BY <1>1, InvAlways, PTL

\* The first record of a user speaks for all of them, whatever sequence of
\* logins, logouts and revocations: get_first() and get_by_auth_code() may
\* look at one record only.
THEOREM CodesAgree == Safety => []CodesShared
<1>1. Inv => CodesShared
  BY DEF Inv, Sound, Sharing, CodesShared
<1> QED BY <1>1, InvAlways, PTL

\* The oldest of a user's tokens has a code if any of them has.
LEMMA FirstSpeaks ==
  ASSUME Inv, NEW S \in SUBSET tokens, NEW u, NEW t, IsFirst(t, TokensOf(S, u)), t.auth = NoCode
  PROVE  \A v \in TokensOf(S, u) : v.auth = NoCode
<1> SUFFICES ASSUME NEW v \in TokensOf(S, u), v.auth # NoCode PROVE FALSE
  OBVIOUS
<1>1. t \in tokens /\ v \in tokens /\ t.user = v.user /\ t.id <= v.id
  BY DEF IsFirst, TokensOf
<1>2. t.id \in Nat /\ v.id \in Nat /\ (t.id = v.id => t = v)
  BY <1>1 DEF Inv, Sound, WellFormed, Tokens
<1>3. t.id < v.id => t.auth = v.auth
  BY <1>1 DEF Inv, Sound, Sharing
<1> QED BY <1>1, <1>2, <1>3

\* The record that an it-token finds has a code if any of the user's has: the
\* oldest token carries every it-token that is still in the table.
LEMMA FoundSpeaks ==
  ASSUME Inv, NEW i \in Nat \ {0}, NEW t, IsFirst(t, {v \in tokens : v.it = i}), t.auth = NoCode
  PROVE  \A v \in TokensOf(tokens, t.user) : v.auth = NoCode
<1> SUFFICES ASSUME NEW v \in tokens, v.user = t.user, v.auth # NoCode PROVE FALSE
  BY DEF TokensOf
<1>1. t \in tokens /\ t.it = i /\ (v.it = i => t.id <= v.id)
  BY DEF IsFirst
<1>2. t.id \in Nat /\ v.id \in Nat /\ (t.id = v.id => t = v)
  BY <1>1 DEF Inv, Sound, WellFormed, Tokens
<1>3. (t.id < v.id => t.auth = v.auth) /\ (v.id < t.id => v.it = t.it)
  BY <1>1 DEF Inv, Sound, Sharing, NoCode
<1> QED BY <1>1, <1>2, <1>3

\* A code for tokens without one overwrites none.
LEMMA NewCodeKeeps ==
  ASSUME Inv, NEW S \in SUBSET tokens, NEW u \in Users, NEW kind, NewCode(S, u, kind),
         \A v \in TokensOf(S, u) : v.auth = NoCode
  PROVE  \A t \in tokens, v \in tokens' : t.id = v.id /\ t.auth # NoCode => v.auth = t.auth
<1>1. \A t, v \in tokens : t.id = v.id => t = v
  BY DEF Inv, Sound, WellFormed
<1>2. CASE TokensOf(S, u) = {}
  BY <1>1, <1>2 DEF NewCode
<1>3. CASE TokensOf(S, u) # {}
  <2>1. \A v \in tokens' : \E w \in S : IF w.user = u THEN v = [w EXCEPT !.auth = serial + 1] ELSE v = w
    BY <1>3 DEF NewCode, WithAuth
  <2> SUFFICES ASSUME NEW t \in tokens, NEW v \in tokens', t.id = v.id, t.auth # NoCode
               PROVE  v.auth = t.auth
    OBVIOUS
  <2>2. PICK w \in S : IF w.user = u THEN v = [w EXCEPT !.auth = serial + 1] ELSE v = w
    BY <2>1
  <2>3. w \in tokens /\ w \in Tokens
    BY DEF Inv, Sound, WellFormed
  <2>4. v.id = w.id
    BY <2>2, <2>3 DEF Tokens
  <2>5. w = t
    BY <1>1, <2>3, <2>4
  <2>6. w.user # u
    BY <2>5 DEF TokensOf
  <2> QED BY <2>2, <2>5, <2>6
<1> QED BY <1>2, <1>3

\* Nobody's auth code is replaced under a session: both handlers that draw a
\* code look first whether the user has one, and look at the right record.
THEOREM CodesStay == Safety => CodesKept
<1> DEFINE Kept == \A t \in tokens, v \in tokens' : t.id = v.id /\ t.auth # NoCode => v.auth = t.auth
<1>1. ASSUME Inv, [Next]_vars PROVE [Kept]_vars
  <2>0. \A t, v \in tokens : t.id = v.id => t = v
    BY <1>1 DEF Inv, Sound, WellFormed
  <2>1. tokens' \subseteq tokens => Kept
    BY <2>0
  <2>2. \A u : Unexpired(u) \subseteq tokens
    BY DEF Unexpired
  <2>3. ASSUME NEW u \in Users, NEW d \in Devices, NEW a, Login(u, d, a) PROVE Kept
    <3>1. CASE Confirms(u, a)
      BY <2>1, <2>2, <2>3, <3>1 DEF Login
    <3>2. CASE ~Confirms(u, a)
      <4>1. \A v \in tokens' : v \in tokens \/ v.id = serial + 1
        BY <2>2, <2>3, <3>2 DEF Login, Added
      <4>2. \A t \in tokens : t.id # serial + 1
        BY <1>1 DEF Inv, Rest, Sound, WellFormed, Tokens
      <4> QED BY <2>0, <4>1, <4>2
    <3> QED BY <3>1, <3>2
  <2>4. ASSUME NEW u \in Users, GetAuthCode(u) PROVE Kept
    <3>1. CASE tokens' = tokens
      BY <2>1, <3>1
    <3>2. CASE tokens' = WithIt(tokens, u, serial + 1)
      <4>1. \A t \in tokens : t \in Tokens
        BY <1>1 DEF Inv, Sound, WellFormed
      <4>2. \A v \in tokens' : \E w \in tokens : v.id = w.id /\ v.auth = w.auth
        BY <3>2, <4>1 DEF WithIt, Tokens
      <4> QED BY <2>0, <4>2
    <3> QED BY <2>4, <3>1, <3>2 DEF GetAuthCode
  <2>5. ASSUME NEW i \in 1 .. MaxSerial, GetNewAuth(i) PROVE Kept
    <3>1. PICK t \in tokens :
            /\ IsFirst(t, {v \in tokens : v.it = i})
            /\ IF t.auth # NoCode
               THEN tokens' = Unexpired(t.user)
               ELSE NewCode(Unexpired(t.user), t.user, "newauth")
      BY <2>5 DEF GetNewAuth
    <3>2. CASE t.auth # NoCode
      BY <2>1, <2>2, <3>1, <3>2
    <3>3. CASE t.auth = NoCode
      <4>1. \A v \in TokensOf(tokens, t.user) : v.auth = NoCode
        BY <1>1, <3>1, <3>3, FoundSpeaks, SerialAssumption
      <4>2. \A v \in TokensOf(Unexpired(t.user), t.user) : v.auth = NoCode
        BY <2>2, <4>1 DEF TokensOf
      <4>3. t.user \in Users
        BY <1>1 DEF Inv, Sound, WellFormed, Tokens
      <4> QED BY <1>1, <2>2, <3>1, <3>3, <4>2, <4>3, NewCodeKeeps
    <3> QED BY <3>2, <3>3
  <2>6. ASSUME NEW u \in Users, GetAuthCodeV2(u) PROVE Kept
    <3>1. CASE tokens' = Unexpired(u)
      BY <2>1, <2>2, <3>1
    <3>2. ASSUME NEW t, IsFirst(t, TokensOf(Unexpired(u), u)), t.auth = NoCode,
                 NewCode(Unexpired(u), u, "code")
          PROVE  Kept
      <4>1. \A v \in TokensOf(Unexpired(u), u) : v.auth = NoCode
        BY <1>1, <2>2, <3>2, FirstSpeaks
      <4> QED BY <1>1, <2>2, <3>2, <4>1, NewCodeKeeps
    <3>3. CASE TokensOf(Unexpired(u), u) = {} /\ NewCode(Unexpired(u), u, "code")
      BY <2>1, <2>2, <3>3 DEF NewCode
    <3> QED BY <2>6, <3>1, <3>2, <3>3 DEF GetAuthCodeV2
  <2>7. ASSUME NEW d, NEW a, Logout(d, a) PROVE Kept
    BY <2>1, <2>7 DEF Logout
  <2>8. CASE (\E u \in Users : Forget(u)) \/ Maintenance \/ Tick
    BY <2>1, <2>8 DEF Forget, Maintenance, Tick
  <2> QED BY <1>1, <2>3, <2>4, <2>5, <2>6, <2>7, <2>8 DEF Next
<1> QED BY <1>1, InvAlways, PTL DEF Safety, CodesKept

-----------------------------------------------------------------------------
(* Clocks that do not change                                                *)

\* With one offset, a deadline is the login's time plus the validity, and both
\* comparisons, of instants and of strings, agree on it.
LEMMA OneClock ==
  ASSUME Before = After, Inv, NEW t \in tokens
  PROVE  /\ Valid(t) <=> now < t.born + Validity
         /\ Overdue(t) <=> t.born + Validity < now
<1>1. t.born \in Nat /\ now \in Nat /\ Validity \in Nat /\ Before \in Nat
  BY ClockAssumption DEF Inv, Rest, Sound, WellFormed, Tokens
<1>2. Expiry(t) = [wall |-> t.born + Before + Validity, offset |-> Before]
  BY DEF Expiry
<1>3. Expiry(t).wall = t.born + Before + Validity /\ Expiry(t).offset = Before
  BY <1>2
<1>4. Wall = now + Before /\ Offset = Before
  BY DEF Wall, Offset
<1> QED BY <1>1, <1>3, <1>4 DEF Valid, Overdue

\* Giving out a code drops no token.
LEMMA CodesKeepIds ==
  ASSUME NEW S, NEW t \in S, t \in Tokens, NEW u, NEW code
  PROVE  /\ \E v \in WithAuth(S, u, code) : v.id = t.id
         /\ \E v \in WithIt(S, u, code) : v.id = t.id
<1> DEFINE Auth(w) == IF w.user = u THEN [w EXCEPT !.auth = code] ELSE w
           It(w)   == IF w.user = u THEN [w EXCEPT !.it = code] ELSE w
<1>1. Auth(t).id = t.id /\ It(t).id = t.id
  BY DEF Tokens
<1>2. WithAuth(S, u, code) = {Auth(w) : w \in S} /\ WithIt(S, u, code) = {It(w) : w \in S}
  BY DEF WithAuth, WithIt
<1> HIDE DEF Auth, It
<1> QED BY <1>1, <1>2

\* Where clocks never change, a session ends before its time by its own logout
\* and in no other way.
THEOREM SessionsEndByLogout == Before = After => (Safety => SessionsLast)
<1> SUFFICES ASSUME Before = After PROVE Safety => SessionsLast
  OBVIOUS
<1> DEFINE Lasts == \A t \in tokens : Valid(t) /\ Gone(t.id)' => \E d \in Devices : Logout(d, t.id)
<1>1. ASSUME Inv, [Next]_vars PROVE [Lasts]_vars
  <2> SUFFICES ASSUME NEW t \in tokens, Valid(t), Gone(t.id)'
               PROVE  (\E d \in Devices : Logout(d, t.id)) \/ UNCHANGED vars
    OBVIOUS
  <2>1. ~Overdue(t)
    <3>1. t.born + Validity \in Nat /\ now \in Nat
      BY <1>1, ClockAssumption DEF Inv, Rest, Sound, WellFormed, Tokens
    <3> QED BY <1>1, <3>1, OneClock
  <2>2. t \notin tokens' /\ \A v \in tokens' : v.id # t.id
    BY DEF Gone
  <2>3. \A u : t \in Unexpired(u)
    BY <2>1 DEF Unexpired
  <2>4. t \in Tokens /\ \A v \in tokens : v.id = t.id => v = t
    BY <1>1 DEF Inv, Sound, WellFormed
  <2>5. ASSUME NEW S, t \in S, NEW u, NEW kind PROVE ~NewCode(S, u, kind)
    <3>1. CASE TokensOf(S, u) = {}
      BY <2>2, <2>5, <3>1 DEF NewCode
    <3>2. CASE TokensOf(S, u) # {}
      <4>1. \E v \in WithAuth(S, u, serial + 1) : v.id = t.id
        BY <2>4, <2>5, CodesKeepIds
      <4> QED BY <2>2, <3>2, <4>1 DEF NewCode
    <3> QED BY <3>1, <3>2
  <2>6. \A u, d, a : ~Login(u, d, a)
    BY <2>2, <2>3 DEF Login, Added
  <2>7. \A u : ~GetAuthCode(u)
    <3>1. \A u : \E v \in WithIt(tokens, u, serial + 1) : v.id = t.id
      BY <2>4, CodesKeepIds
    <3> QED BY <2>2, <3>1 DEF GetAuthCode
  <2>8. \A i : ~GetNewAuth(i)
    BY <2>2, <2>3, <2>5 DEF GetNewAuth
  <2>9. \A u : ~GetAuthCodeV2(u)
    BY <2>2, <2>3, <2>5 DEF GetAuthCodeV2
  <2>10. \A d, a : Logout(d, a) => a = t.id
    BY <2>2 DEF Logout
  <2>11. \A u : ~Forget(u)
    BY <2>2 DEF Forget
  <2>12. ~Maintenance /\ ~Tick
    BY <2>1, <2>2 DEF Maintenance, Tick
  <2> QED BY <1>1, <2>6, <2>7, <2>8, <2>9, <2>10, <2>11, <2>12 DEF Next
<1> QED BY <1>1, InvAlways, PTL DEF Safety, SessionsLast
-----------------------------------------------------------------------------
(* What is handed out                                                       *)

\* A search that can succeed has a first record.
LEMMA FirstExists ==
  ASSUME NEW S, S \subseteq Tokens, S # {}
  PROVE  \E t \in S : IsFirst(t, S)
<1> DEFINE IdsOf == {t.id : t \in S}
           less == OpToRel(<, Nat)
<1>1. IdsOf \subseteq Nat /\ IdsOf # {}
  BY DEF Tokens
<1>2. \A x, y \in Nat : y < x => <<y, x>> \in less
  BY DEF OpToRel
<1>3. IsWellFoundedOn(less, Nat)
  BY NatLessThanWellFounded
<1> HIDE DEF IdsOf, less
<1>4. PICK x \in IdsOf : \A y \in IdsOf : ~(<<y, x>> \in less)
  BY <1>1, <1>3, WFMin
<1>5. ASSUME NEW y \in IdsOf PROVE x <= y
  <2>1. x \in Nat /\ y \in Nat /\ ~(y < x)
    BY <1>1, <1>2, <1>4
  <2> QED BY <2>1
<1>6. PICK t \in S : t.id = x
  BY DEF IdsOf
<1>7. \A v \in S : t.id <= v.id
  BY <1>5, <1>6 DEF IdsOf
<1> QED BY <1>7 DEF IsFirst

\* loginByItToken finds the user to whom the it-token was given.
LEMMA ItLogsIn ==
  ASSUME NEW S, S \subseteq Tokens, Sharing(S), NEW t \in S, t.it # NoCode
  PROVE  LogsIn(S, t.user, t.it)
<1> DEFINE Found == {w \in S : w.it = t.it}
<1>1. PICK v \in Found : IsFirst(v, Found)
  <2>1. Found \subseteq Tokens /\ Found # {}
    OBVIOUS
  <2> QED BY <2>1, FirstExists
<1>2. v.user = t.user
  BY <1>1 DEF Sharing
<1>3. [user |-> v.user, token |-> v.id] \in LoginByItToken(S, t.it)
  BY <1>1 DEF LoginByItToken
<1>4. VerifiesIt(S, t.user, t.it)
  BY DEF VerifiesIt, TokensOf
<1> QED BY <1>2, <1>3, <1>4 DEF LogsIn

\* The callback finds the user of an auth code, by the code or by a refresh
\* token that carries it.
LEMMA CodeExchanges ==
  ASSUME NEW S, S \subseteq Tokens, Sharing(S), NEW t \in S, t.auth # NoCode
  PROVE  VerifiesAuthCode(S, t.user, t.auth) /\ Exchanges(S, t.user, t.auth)
<1> DEFINE Found == {w \in S : w.auth = t.auth}
           Access(v) == [userId |-> v.user, access_token |-> Jwt("a", v.user, v.auth),
                         refresh_token |-> Jwt("r", v.user, v.auth)]
<1>1. PICK v \in Found : IsFirst(v, Found)
  <2>1. Found \subseteq Tokens /\ Found # {}
    OBVIOUS
  <2> QED BY <2>1, FirstExists
<1>2. v.user = t.user /\ v.auth = t.auth
  BY <1>1 DEF Sharing
<1>3. ASSUME NEW query, AuthCodeIn(query) = t.auth
      PROVE  Access(v) \in OauthCallback(S, query)
  BY <1>1, <1>3 DEF OauthCallback
<1>4. Access(v) \in OauthCallback(S, [code |-> t.auth])
  <2>1. AuthCodeIn([code |-> t.auth]) = t.auth
    BY DEF AuthCodeIn
  <2> QED BY <1>3, <2>1
<1>5. Access(v) \in OauthCallback(S, [refresh_token |-> Access(v).refresh_token])
  <2>1. AuthCodeIn([refresh_token |-> Access(v).refresh_token]) = t.auth
    BY <1>2 DEF AuthCodeIn, Jwt
  <2> QED BY <1>3, <2>1
<1>6. VerifiesAuthCode(S, t.user, t.auth)
  BY DEF VerifiesAuthCode, TokensOf
<1> QED BY <1>2, <1>4, <1>5, <1>6 DEF Exchanges

\* A code that was drawn is on a token of its user.
LEMMA CodesLand ==
  ASSUME NEW S, S \subseteq Tokens, NEW u, NEW code, TokensOf(S, u) # {}
  PROVE  /\ \E t \in WithAuth(S, u, code) : t.user = u /\ t.auth = code
         /\ \E t \in WithIt(S, u, code) : t.user = u /\ t.it = code
<1> DEFINE Auth(w) == IF w.user = u THEN [w EXCEPT !.auth = code] ELSE w
           It(w)   == IF w.user = u THEN [w EXCEPT !.it = code] ELSE w
<1>1. PICK t \in S : t.user = u
  BY DEF TokensOf
<1>2. Auth(t).user = u /\ Auth(t).auth = code /\ It(t).user = u /\ It(t).it = code
  BY <1>1 DEF Tokens
<1>3. WithAuth(S, u, code) = {Auth(w) : w \in S} /\ WithIt(S, u, code) = {It(w) : w \in S}
  BY DEF WithAuth, WithIt
<1> HIDE DEF Auth, It
<1> QED BY <1>2, <1>3

\* What a handler answers is good for the next step of the login, whichever
\* other accounts, devices, logouts and revocations came between: the token is
\* in the table, the it-token and the auth code lead to their own user.
THEOREM HandedOutIsGood == Safety => HandedOutWorks
<1> DEFINE Good ==
      answer' # answer /\ answer'.value # NoCode =>
        /\ answer'.kind = "token" => \E t \in tokens' : t.user = answer'.user /\ t.id = answer'.value
        /\ answer'.kind = "it"    => LogsIn(tokens', answer'.user, answer'.value)
        /\ answer'.kind = "code"  =>
             /\ VerifiesAuthCode(tokens', answer'.user, answer'.value)
             /\ Exchanges(tokens', answer'.user, answer'.value)
<1>1. ASSUME Inv, [Next]_vars PROVE [Good]_vars
  <2>0. tokens \subseteq Tokens /\ tokens' \subseteq Tokens /\ Sharing(tokens') /\ serial \in Nat
    <3>1. Inv'
      BY <1>1, InvStep
    <3> QED BY <1>1, <3>1 DEF Inv, Rest, Sound, WellFormed, Sharing
  <2>1. \A u : Unexpired(u) \subseteq tokens
    BY DEF Unexpired
  <2>2. ASSUME NEW kind, NEW u, NEW value, Answer(kind, u, value)
        PROVE  answer'.kind = kind /\ answer'.user = u /\ answer'.value = value
    BY <2>2 DEF Answer
  <2>3. ASSUME UNCHANGED answer PROVE Good
    BY <2>3
  <2>4. ASSUME NEW kind, kind \notin {"token", "it", "code"}, NEW u, NEW value, Answer(kind, u, value)
        PROVE  Good
    BY <2>2, <2>4
  <2>5. ASSUME NEW t \in tokens', t.auth # NoCode, Answer("code", t.user, t.auth) PROVE Good
    <3>1. VerifiesAuthCode(tokens', t.user, t.auth) /\ Exchanges(tokens', t.user, t.auth)
      BY <2>0, <2>5, CodeExchanges
    <3> QED BY <2>2, <2>5, <3>1
  <2>6. ASSUME NEW u, NEW kind, NewCode(Unexpired(u), u, kind), kind \in {"newauth", "code"} PROVE Good
    <3>1. CASE TokensOf(Unexpired(u), u) = {}
      BY <2>4, <2>6, <3>1 DEF NewCode
    <3>2. CASE TokensOf(Unexpired(u), u) # {}
      <4>1. \E t \in tokens' : t.user = u /\ t.auth = serial + 1
        BY <2>0, <2>1, <2>6, <3>2, CodesLand DEF NewCode
      <4>2. Answer(kind, u, serial + 1) /\ serial + 1 # NoCode
        BY <2>0, <2>6, <3>2 DEF NewCode, NoCode
      <4> QED BY <2>4, <2>5, <2>6, <4>1, <4>2
    <3> QED BY <3>1, <3>2
  <2>7. ASSUME NEW u \in Users, NEW d \in Devices, NEW a, Login(u, d, a) PROVE Good
    <3>1. CASE Confirms(u, a)
      <4>1. Answer("token", u, a) /\ tokens' = Unexpired(u)
        BY <2>7, <3>1 DEF Login
      <4>2. a = NoCode \/ \E t \in Unexpired(u) : t.user = u /\ t.id = a
        BY <3>1 DEF Confirms, NoCode, Empty
      <4> QED BY <2>2, <4>1, <4>2
    <3>2. CASE ~Confirms(u, a)
      <4>1. Answer("token", u, serial + 1) /\ tokens' = Added(Unexpired(u), u)
        BY <2>7, <3>2 DEF Login
      <4>2. \E t \in tokens' : t.user = u /\ t.id = serial + 1
        <5> DEFINE new == [id |-> serial + 1, user |-> u, born |-> now, auth |-> NoCode, it |-> NoCode]
        <5>1. new \in tokens' /\ new.user = u /\ new.id = serial + 1
          BY <4>1 DEF Added
        <5> QED BY <5>1
      <4> QED BY <2>2, <4>1, <4>2
    <3> QED BY <3>1, <3>2
  <2>8. ASSUME NEW u \in Users, GetAuthCode(u) PROVE Good
    <3>1. CASE TokensOf(tokens, u) = {}
      BY <2>4, <2>8, <3>1 DEF GetAuthCode
    <3>2. CASE TokensOf(tokens, u) # {}
      <4>1. Answer("it", u, serial + 1) /\ tokens' = WithIt(tokens, u, serial + 1)
        BY <2>8, <3>2 DEF GetAuthCode
      <4>2. PICK t \in tokens' : t.user = u /\ t.it = serial + 1
        <5>1. \E t \in WithIt(tokens, u, serial + 1) : t.user = u /\ t.it = serial + 1
          BY <2>0, <3>2, CodesLand
        <5> QED BY <4>1, <5>1
      <4>3. LogsIn(tokens', u, serial + 1)
        <5>1. t.it # NoCode
          BY <2>0, <4>2 DEF NoCode
        <5> QED BY <2>0, <4>2, <5>1, ItLogsIn
      <4> QED BY <2>2, <4>1, <4>3
    <3> QED BY <3>1, <3>2
  <2>9. ASSUME NEW i, GetNewAuth(i) PROVE Good
    BY <2>4, <2>6, <2>9 DEF GetNewAuth
  <2>10. ASSUME NEW u \in Users, GetAuthCodeV2(u) PROVE Good
    <3>1. CASE NewCode(Unexpired(u), u, "code")
      BY <2>6, <3>1
    <3>2. ASSUME NEW t \in TokensOf(Unexpired(u), u), t.auth # NoCode,
                 tokens' = Unexpired(u), Answer("code", u, t.auth)
          PROVE  Good
      <4>1. t \in tokens' /\ t.user = u
        BY <3>2 DEF TokensOf
      <4> QED BY <2>5, <3>2, <4>1
    <3> QED BY <2>10, <3>1, <3>2 DEF GetAuthCodeV2
  <2>11. ASSUME NEW d, NEW a, Logout(d, a) PROVE Good
    BY <2>4, <2>11 DEF Logout
  <2>12. ASSUME NEW u \in Users, Forget(u) PROVE Good
    BY <2>4, <2>12 DEF Forget
  <2>13. CASE Maintenance \/ Tick \/ UNCHANGED vars
    BY <2>3, <2>13 DEF Maintenance, Tick, vars
  <2> QED BY <1>1, <2>7, <2>8, <2>9, <2>10, <2>11, <2>12, <2>13 DEF Next
<1> QED BY <1>1, InvAlways, PTL DEF Safety, HandedOutWorks
=============================================================================
