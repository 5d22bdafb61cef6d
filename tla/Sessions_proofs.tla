------------------------- MODULE Sessions_proofs -------------------------
(***************************************************************************)
(* What holds of tokens and sessions for any users, any number of requests *)
(* of a browser under way and any lifetimes of the tokens.                 *)
(***************************************************************************)
EXTENDS Sessions, TLAPS

\* A request that refreshes came with a refresh token.
RefreshersHaveTokens ==
  \A r \in Slot :
    request[r].pc \in {"look up", "issue", "last used"} => request[r].cookies.refresh # None

TypeInv == TypeOK /\ RefreshersHaveTokens

LEMMA NoSetIsEmpty == NoSet \in SetCookies /\ DOMAIN NoSet = {}
BY DEF NoSet, SetCookies

\* What a Set-Cookie header may hold.
LEMMA CookiesAreTyped ==
  ASSUME NEW set \in SetCookies
  PROVE  /\ "access" \in DOMAIN set => set["access"] \in Access \cup {None}
         /\ "refresh" \in DOMAIN set => set["refresh"] \in Token \cup {None}
BY NoSetIsEmpty DEF SetCookies, Cookies

\* A slot that serves a request holds a request record.
LEMMA BusySlots ==
  ASSUME TypeOK, NEW r \in Slot, request[r].pc # "idle"
  PROVE  request[r] \in Serving
BY DEF TypeOK, Idle

\* A step of one request that leaves it a request record keeps the type.
LEMMA RequestFrame ==
  ASSUME TypeInv, NEW r \in Slot, NEW new \in Serving \cup {Idle},
         request' = [request EXCEPT ![r] = new],
         new.pc \in {"look up", "issue", "last used"} => new.cookies.refresh # None
  PROVE  request' \in [Slot -> {Idle} \cup Serving] /\ RefreshersHaveTokens'
BY DEF TypeInv, TypeOK, RefreshersHaveTokens

Position ==
  {"find account", "create", "find user", "sign", "session", "last login", "revoke",
   "authenticate", "look up", "issue", "last used", "answered"}

\* The handler of a request goes on to another position.
LEMMA GoToFrame ==
  ASSUME TypeInv, NEW r \in Slot, request[r] \in Serving, NEW pc \in Position, GoTo(r, pc),
         pc \in {"look up", "issue", "last used"} => request[r].cookies.refresh # None
  PROVE  request' \in [Slot -> {Idle} \cup Serving] /\ RefreshersHaveTokens'
<1> DEFINE new == [request[r] EXCEPT !.pc = pc]
<1>1. /\ new \in Serving
      /\ new.pc \in {"look up", "issue", "last used"} => new.cookies.refresh # None
  BY DEF Serving, Position
<1>2. request' = [request EXCEPT ![r] = new]
  BY DEF GoTo, Serving
<1> HIDE DEF new
<1>3. QED
  BY <1>1, <1>2, RequestFrame

\* It goes on with other cookies set.
LEMMA SetFrame ==
  ASSUME TypeInv, NEW r \in Slot, request[r] \in Serving, NEW pc \in Position, NEW set \in SetCookies,
         request' = [request EXCEPT ![r].pc = pc, ![r].set = set],
         pc \in {"look up", "issue", "last used"} => request[r].cookies.refresh # None
  PROVE  request' \in [Slot -> {Idle} \cup Serving] /\ RefreshersHaveTokens'
<1> DEFINE new == [request[r] EXCEPT !.pc = pc, !.set = set]
<1>1. /\ new \in Serving
      /\ new.pc \in {"look up", "issue", "last used"} => new.cookies.refresh # None
  BY DEF Serving, Position
<1>2. request' = [request EXCEPT ![r] = new]
  BY DEF Serving
<1> HIDE DEF new
<1>3. QED
  BY <1>1, <1>2, RequestFrame

LEMMA RespondFrame ==
  ASSUME TypeInv, NEW r \in Slot, request[r] \in Serving, NEW set \in SetCookies, Respond(r, set)
  PROVE  request' \in [Slot -> {Idle} \cup Serving] /\ RefreshersHaveTokens'
BY SetFrame DEF Respond, Position

LEMMA Counting ==
  ASSUME NEW S, NEW f \in [S -> Nat], NEW x
  PROVE  [f EXCEPT ![x] = @ + 1] \in [S -> Nat]
<1>1. \A y \in S : [f EXCEPT ![x] = @ + 1][y] \in Nat
  <2>1. CASE x \in S
    BY <2>1
  <2>2. CASE x \notin S
    BY <2>2
  <2>3. QED
    BY <2>1, <2>2
<1>2. QED
  BY <1>1

LEMMA FirstSteps ==
  ASSUME NEW op \in DOMAIN FirstStep
  PROVE  FirstStep[op] \in {"find account", "find user", "revoke", "authenticate"}
<1>1. op \in {"register", "login", "logout", "visit"}
  BY DEF FirstStep
<1>2. /\ FirstStep["register"] = "find account" /\ FirstStep["login"] = "find user"
      /\ FirstStep["logout"] = "revoke" /\ FirstStep["visit"] = "authenticate"
  BY DEF FirstStep
<1>3. QED
  BY <1>1, <1>2

LEMMA SignedIsTyped ==
  ASSUME TypeOK, NEW r \in Slot, request[r] \in Serving
  PROVE  /\ Signed(r).refresh \in Token
         /\ Signed(r).access \in Access
         /\ Signed(r).access.session = Signed(r).refresh
         /\ Signed(r) \in SetCookies
BY DEF Signed, Serving, Token, Access, SetCookies, Cookies

LEMMA NewSessionIsRow == TypeOK => NewSession \in Row /\ NewSession # None
<1>1. TypeOK => now \in Nat
  BY SessionsAssumption DEF TypeOK, Time
<1>2. now \in Nat => NewSession \in Row
  BY SessionsAssumption DEF NewSession, Row
<1>3. QED
  BY <1>1, <1>2, SessionsAssumption

LEMMA RevokedRows ==
  ASSUME TypeOK, NEW r \in Slot
  PROVE  /\ RevokedBy(r) \in [Token -> Row \cup {None}]
         /\ \A t \in Token : RevokedBy(r)[t] = None <=> sessions[t] = None
<1> DEFINE revoked(row) == [row EXCEPT !.revoked = TRUE]
<1>1. \A row \in Row : revoked(row) \in Row /\ revoked(row) # None
  <2>1. \A row \in Row : revoked(row) \in Row
    BY DEF Row
  <2>2. QED
    BY <2>1, SessionsAssumption
<1>2. RevokedBy(r) =
        [t \in Token |-> IF t = request[r].cookies.refresh /\ sessions[t] # None
                         THEN revoked(sessions[t]) ELSE sessions[t]]
  BY DEF RevokedBy
<1> HIDE DEF revoked
<1>3. QED
  BY <1>1, <1>2 DEF TypeOK

\* A cookie stays as it is, or is dropped when its time is over.
LEMMA Dropping ==
  ASSUME TypeOK, Tick
  PROVE  /\ jar' \in Cookies
         /\ jar'.access = jar.access \/ jar'.access = None
         /\ jar'.refresh = jar.refresh \/ (jar'.refresh = None /\ until.refresh <= now')
BY DEF Tick, TypeOK, Cookies

\* Every step keeps the state's shape.
LEMMA TypeStep == TypeInv /\ [Next]_vars => TypeInv'
<1> SUFFICES ASSUME TypeInv, [Next]_vars PROVE TypeInv'
  OBVIOUS
<1> TypeOK /\ now \in Nat
  BY SessionsAssumption DEF TypeInv, TypeOK, Time
<1>1. CASE UNCHANGED vars
  BY <1>1 DEF vars, TypeInv, TypeOK, RefreshersHaveTokens
<1>2. CASE Tick
  <2>1. now' \in Time
    BY <1>2, SessionsAssumption DEF Tick, Time
  <2>3. jar' \in Cookies
    BY <1>2, Dropping
  <2>2. QED
    BY <1>2, <2>1, <2>3 DEF Tick, history, TypeInv, TypeOK, RefreshersHaveTokens
<1>3. ASSUME NEW r \in Slot, Step(r) PROVE TypeInv'
  <2> USE DEF history
  <2>1. ASSUME NEW op \in DOMAIN FirstStep, NEW e \in Email, Send(r, op, e) PROVE TypeInv'
    <3> DEFINE new == [pc |-> FirstStep[op], email |-> e, cookies |-> jar, iat |-> now, set |-> NoSet]
    <3>1. FirstStep[op] \in {"find account", "find user", "revoke", "authenticate"}
      BY FirstSteps
    <3>2. new \in Serving /\ new.pc \notin {"look up", "issue", "last used"}
      BY <3>1, NoSetIsEmpty DEF Serving, TypeOK
    <3>3. request' = [request EXCEPT ![r] = new]
      BY <2>1 DEF Send
    <3> HIDE DEF new
    <3>4. request' \in [Slot -> {Idle} \cup Serving] /\ RefreshersHaveTokens'
      BY <3>2, <3>3, RequestFrame
    <3>5. sent' \in Nat /\ raced' \in BOOLEAN
      BY <2>1 DEF Send, TypeOK
    <3>6. QED
      BY <2>1, <3>4, <3>5 DEF Send, TypeInv, TypeOK
  <2>2. CASE Deliver(r)
    <3>1. request[r] \in Serving
      BY <2>2, BusySlots DEF Deliver, At
    <3>2. jar' \in Cookies
      <4>1. CASE UNCHANGED jar
        BY <4>1 DEF TypeOK
      <4> DEFINE set == request[r].set
      <4>2. CASE jar' = [c \in DOMAIN jar |-> IF c \in DOMAIN set THEN set[c] ELSE jar[c]]
        <5>1. set \in SetCookies
          BY <3>1 DEF Serving
        <5>2. /\ "access" \in DOMAIN set => set["access"] \in Access \cup {None}
              /\ "refresh" \in DOMAIN set => set["refresh"] \in Token \cup {None}
          BY <5>1, CookiesAreTyped
        <5> HIDE DEF set
        <5>3. QED
          BY <4>2, <5>2 DEF TypeOK, Cookies
      <4>3. QED
        BY <2>2, <4>1, <4>2 DEF Deliver
    <3>6. until' \in [{"access", "refresh"} -> Nat]
      <4>1. MaxAge \in [{"access", "refresh"} -> Nat] /\ DOMAIN jar = {"access", "refresh"}
        BY SessionsAssumption DEF MaxAge, TypeOK, Cookies
      <4> DEFINE set == request[r].set
      <4>2. \/ until' = until
            \/ until' = [c \in DOMAIN jar |-> IF c \in DOMAIN set THEN now + MaxAge[c] ELSE until[c]]
        BY <2>2 DEF Deliver
      <4> HIDE DEF set
      <4>3. QED
        BY <4>1, <4>2 DEF TypeOK
    <3>3. request' = [request EXCEPT ![r] = Idle]
      BY <2>2 DEF Deliver
    <3>4. request' \in [Slot -> {Idle} \cup Serving] /\ RefreshersHaveTokens'
      BY <3>3, RequestFrame DEF Idle
    <3>5. QED
      BY <2>2, <3>2, <3>4, <3>6 DEF Deliver, TypeInv, TypeOK
  <2>4. CASE FindAccount(r)
    <3>1. request[r] \in Serving
      BY <2>4, BusySlots DEF FindAccount, At
    <3>2. request' \in [Slot -> {Idle} \cup Serving] /\ RefreshersHaveTokens'
      BY <2>4, <3>1, GoToFrame, RespondFrame, NoSetIsEmpty DEF FindAccount, Position
    <3>3. QED
      BY <2>4, <3>2 DEF FindAccount, TypeInv, TypeOK
  <2>5. CASE CreateUser(r)
    <3>1. request[r] \in Serving
      BY <2>5, BusySlots DEF CreateUser, At
    <3>2. request' \in [Slot -> {Idle} \cup Serving] /\ RefreshersHaveTokens'
      BY <2>5, <3>1, RespondFrame, NoSetIsEmpty DEF CreateUser
    <3>3. request[r].email \in Email
      BY <3>1 DEF Serving
    <3>4. users' \in SUBSET Email /\ created' \in [Email -> Nat]
      BY <2>5, <3>3 DEF CreateUser, TypeOK
    <3>5. QED
      BY <2>5, <3>2, <3>4 DEF CreateUser, TypeInv, TypeOK
  <2>6. CASE FindUser(r)
    <3>1. request[r] \in Serving
      BY <2>6, BusySlots DEF FindUser, At
    <3>2. request' \in [Slot -> {Idle} \cup Serving] /\ RefreshersHaveTokens'
      BY <2>6, <3>1, GoToFrame, RespondFrame, NoSetIsEmpty DEF FindUser, Position
    <3>3. QED
      BY <2>6, <3>2 DEF FindUser, TypeInv, TypeOK
  <2>7. CASE SignTokens(r)
    <3>1. request[r] \in Serving
      BY <2>7, BusySlots DEF SignTokens, At
    <3> DEFINE new == [request[r] EXCEPT !.pc = "session", !.iat = now]
    <3>2. new \in Serving /\ new.pc \notin {"look up", "issue", "last used"}
      BY <3>1 DEF Serving, TypeOK
    <3>3. request' = [request EXCEPT ![r] = new]
      BY <2>7, <3>1 DEF SignTokens, Serving
    <3> HIDE DEF new
    <3>4. request' \in [Slot -> {Idle} \cup Serving] /\ RefreshersHaveTokens'
      BY <3>2, <3>3, RequestFrame
    <3>5. QED
      BY <2>7, <3>4 DEF SignTokens, TypeInv, TypeOK
  <2>8. CASE CreateSession(r)
    <3>1. request[r] \in Serving
      BY <2>8, BusySlots DEF CreateSession, At
    <3>2. request' \in [Slot -> {Idle} \cup Serving] /\ RefreshersHaveTokens'
      BY <2>8, <3>1, SetFrame, RespondFrame, SignedIsTyped, NoSetIsEmpty DEF CreateSession, Position
    <3>3. sessions' \in [Token -> Row \cup {None}] /\ issued' \in SUBSET Access
      <4> DEFINE new == Signed(r)
      <4>1. new.refresh \in Token /\ new.access \in Access /\ NewSession \in Row
        BY <3>1, SignedIsTyped, NewSessionIsRow
      <4>2. \/ sessions' = sessions /\ issued' = issued
            \/ sessions' = [sessions EXCEPT ![new.refresh] = NewSession] /\ issued' = issued \cup {new.access}
        BY <2>8 DEF CreateSession
      <4> HIDE DEF new
      <4>3. sessions \in [Token -> Row \cup {None}] /\ issued \in SUBSET Access
        BY DEF TypeOK
      <4>4. QED
        BY <4>1, <4>2, <4>3
    <3>4. QED
      BY <2>8, <3>2, <3>3 DEF CreateSession, TypeInv, TypeOK
  <2>9. CASE UpdateLastLogin(r)
    <3>1. request[r] \in Serving
      BY <2>9, BusySlots DEF UpdateLastLogin, At
    <3>2. request' \in [Slot -> {Idle} \cup Serving] /\ RefreshersHaveTokens'
      BY <2>9, <3>1, GoToFrame DEF UpdateLastLogin, Position
    <3> DEFINE token == request[r].set.refresh
    <3>3. opened' = [opened EXCEPT ![token] = @ + 1]
      BY <2>9 DEF UpdateLastLogin
    <3> HIDE DEF token
    <3>4. opened' \in [Token -> Nat]
      BY <3>3, Counting DEF TypeOK
    <3>5. QED
      BY <2>9, <3>2, <3>4 DEF UpdateLastLogin, TypeInv, TypeOK
  <2>10. CASE Revoke(r)
    <3>1. request[r] \in Serving
      BY <2>10, BusySlots DEF Revoke, At
    <3>2. NoCookies \in SetCookies
      BY DEF NoCookies, SetCookies, Cookies
    <3>3. request' \in [Slot -> {Idle} \cup Serving] /\ RefreshersHaveTokens'
      BY <2>10, <3>1, <3>2, RespondFrame DEF Revoke
    <3>4. sessions' \in [Token -> Row \cup {None}]
      BY <2>10, RevokedRows DEF Revoke
    <3>5. QED
      BY <2>10, <3>3, <3>4 DEF Revoke, TypeInv, TypeOK
  <2>11. CASE Authenticate(r)
    <3>1. request[r] \in Serving
      BY <2>11, BusySlots DEF Authenticate, At
    <3>2. request' \in [Slot -> {Idle} \cup Serving] /\ RefreshersHaveTokens'
      BY <2>11, <3>1, GoToFrame, RespondFrame, NoSetIsEmpty DEF Authenticate, Position
    <3>3. QED
      BY <2>11, <3>2 DEF Authenticate, TypeInv, TypeOK
  <2>12. CASE LookUpSession(r)
    <3>1. request[r] \in Serving /\ request[r].cookies.refresh # None
      BY <2>12, BusySlots DEF LookUpSession, At, TypeInv, RefreshersHaveTokens
    <3>2. request' \in [Slot -> {Idle} \cup Serving] /\ RefreshersHaveTokens'
      BY <2>12, <3>1, GoToFrame, RespondFrame, NoSetIsEmpty DEF LookUpSession, Position
    <3>3. QED
      BY <2>12, <3>2 DEF LookUpSession, TypeInv, TypeOK
  <2>13. CASE Issue(r)
    <3>1. request[r] \in Serving /\ request[r].cookies.refresh # None
      BY <2>13, BusySlots DEF Issue, At, TypeInv, RefreshersHaveTokens
    <3> DEFINE new == [session |-> request[r].cookies.refresh, iat |-> now]
    <3>2. new \in Access
      BY <3>1 DEF Access, Serving, Cookies, TypeOK
    <3>3. issued' = issued \cup {new} /\ request' = [request EXCEPT ![r].pc = "last used", ![r].set = [access |-> new]]
      BY <2>13 DEF Issue
    <3> HIDE DEF new
    <3>4. [access |-> new] \in SetCookies
      BY <3>2 DEF SetCookies
    <3>5. request' \in [Slot -> {Idle} \cup Serving] /\ RefreshersHaveTokens'
      BY <3>1, <3>3, <3>4, SetFrame DEF Position
    <3>6. issued' \in SUBSET Access
      BY <3>2, <3>3 DEF TypeOK
    <3>7. QED
      BY <2>13, <3>5, <3>6 DEF Issue, TypeInv, TypeOK
  <2>14. CASE UpdateLastUsed(r)
    <3>1. request[r] \in Serving
      BY <2>14, BusySlots DEF UpdateLastUsed, At
    <3>2. request' \in [Slot -> {Idle} \cup Serving] /\ RefreshersHaveTokens'
      BY <2>14, <3>1, GoToFrame DEF UpdateLastUsed, Position
    <3>3. QED
      BY <2>14, <3>2 DEF UpdateLastUsed, TypeInv, TypeOK
  <2>15. CASE Fail(r)
    <3>1. request[r] \in Serving
      BY <2>15, BusySlots DEF Fail
    <3>2. PICK set \in {NoSet, request[r].set} : Respond(r, set)
      BY <2>15 DEF Fail
    <3>3. set \in SetCookies
      BY <3>1, NoSetIsEmpty DEF Serving
    <3>4. request' \in [Slot -> {Idle} \cup Serving] /\ RefreshersHaveTokens'
      BY <3>1, <3>2, <3>3, RespondFrame
    <3>5. QED
      BY <2>15, <3>4 DEF Fail, TypeInv, TypeOK
  <2>16. QED
    BY <1>3, <2>1, <2>2, <2>4, <2>5, <2>6, <2>7, <2>8, <2>9, <2>10, <2>11, <2>12, <2>13, <2>14, <2>15
       DEF Step
<1>4. QED
  BY <1>1, <1>2, <1>3 DEF Next

LEMMA TypeInvariance == Spec => []TypeInv
<1>1. Init => TypeInv
  <2> SUFFICES ASSUME Init PROVE TypeInv
    OBVIOUS
  <2>1. now \in Time /\ sent \in Nat /\ failures \in Nat
    BY SessionsAssumption DEF Init, Time
  <2>2. jar \in Cookies /\ until \in [{"access", "refresh"} -> Nat]
    BY DEF Init, NoCookies, Cookies
  <2>3. request \in [Slot -> {Idle} \cup Serving]
    BY DEF Init
  <2>4. RefreshersHaveTokens
    BY DEF Init, RefreshersHaveTokens, Idle
  <2>5. sessions \in [Token -> Row \cup {None}] /\ opened \in [Token -> Nat]
    BY DEF Init
  <2>6. raced \in BOOLEAN
    BY DEF Init
  <2>7. created \in [Email -> Nat] /\ users \in SUBSET Email /\ issued \in SUBSET Access
    BY DEF Init
  <2>8. QED
    BY <2>1, <2>2, <2>3, <2>4, <2>5, <2>6, <2>7 DEF TypeInv, TypeOK
<1>2. QED
  BY <1>1, TypeStep, PTL DEF Spec

\* The state keeps its shape; in particular a request is let past
\* refreshAccessToken with a refresh token only.
THEOREM TypeCorrect == Spec => []TypeOK
BY TypeInvariance, PTL DEF TypeInv

-----------------------------------------------------------------------------
\* The sets of a request that names a refresh token.
Names(r, t) ==
  /\ ~At(r, "idle")
  /\ "refresh" \in DOMAIN request[r].set
  /\ request[r].set.refresh = t

JarHasRow == jar.refresh # None => sessions[jar.refresh] # None

AnswersHaveRows == \A r \in Slot, t \in Token : Names(r, t) => sessions[t] # None

\* A login that has its session is the only one to have it, and has not been
\* answered.
LoginsAreNew ==
  \A r \in Slot : At(r, "last login") =>
    \E t \in Token :
      /\ Names(r, t)
      /\ opened[t] = 0
      /\ \A q \in Slot : At(q, "last login") /\ Names(q, t) => q = r

SessionInv == AnsweredOnce /\ JarHasRow /\ AnswersHaveRows /\ LoginsAreNew

\* A step in which a request ends or does not become a login with its session
\* leaves the other logins what they are.
LEMMA LoginsFrame ==
  ASSUME LoginsAreNew, NEW r \in Slot,
         \A q \in Slot \ {r} : request'[q] = request[q],
         ~At(r, "last login")',
         opened' = opened
  PROVE  LoginsAreNew'
<1>1. \A q \in Slot \ {r}, t \in Token : Names(q, t)' <=> Names(q, t)
  BY DEF Names, At
<1>2. \A q \in Slot : At(q, "last login")' => At(q, "last login") /\ q # r
  BY DEF At
<1> SUFFICES ASSUME NEW q \in Slot, At(q, "last login")'
             PROVE  \E t \in Token :
                      /\ Names(q, t)'
                      /\ opened'[t] = 0
                      /\ \A p \in Slot : At(p, "last login")' /\ Names(p, t)' => p = q
  BY DEF LoginsAreNew
<1>3. At(q, "last login") /\ q # r
  BY <1>2
<1>4. PICK t \in Token :
        /\ Names(q, t)
        /\ opened[t] = 0
        /\ \A p \in Slot : At(p, "last login") /\ Names(p, t) => p = q
  BY <1>3 DEF LoginsAreNew
<1>5. QED
  BY <1>1, <1>2, <1>3, <1>4

\* A step after which a request has no session it had not before keeps all
\* that is said of sessions.
LEMMA SessionFrame ==
  ASSUME SessionInv, NEW r \in Slot,
         \A q \in Slot \ {r} : request'[q] = request[q],
         ~At(r, "last login")',
         \A t \in Token : Names(r, t)' => sessions'[t] # None,
         \A t \in Token : sessions[t] # None => sessions'[t] # None,
         jar' = jar, TypeOK, UNCHANGED <<users, created, opened>>
  PROVE  SessionInv'
<1>1. \A q \in Slot \ {r}, t \in Token : Names(q, t)' <=> Names(q, t)
  BY DEF Names, At
<1>2. \A q \in Slot : At(q, "last login")' => At(q, "last login") /\ q # r
  BY DEF At
<1>3. AnsweredOnce'
  BY DEF SessionInv, AnsweredOnce
<1>4. JarHasRow'
  BY DEF SessionInv, JarHasRow, TypeOK, Cookies
<1>5. AnswersHaveRows'
  BY <1>1 DEF SessionInv, AnswersHaveRows
<1>6. LoginsAreNew'
  BY LoginsFrame DEF SessionInv
<1>7. QED
  BY <1>3, <1>4, <1>5, <1>6 DEF SessionInv

\* A request that goes on names the session it named.
LEMMA GoToNames ==
  ASSUME TypeOK, NEW r \in Slot, NEW pc, GoTo(r, pc), request[r].pc # "idle", pc # "idle"
  PROVE  /\ \A q \in Slot \ {r} : request'[q] = request[q]
         /\ request'[r].pc = pc
         /\ \A t : Names(r, t)' <=> Names(r, t)
BY BusySlots DEF GoTo, Names, At, Serving, TypeOK

\* A request that is answered names the session of its cookies.
LEMMA RespondNames ==
  ASSUME TypeOK, NEW r \in Slot, NEW set, Respond(r, set), request[r].pc # "idle"
  PROVE  /\ \A q \in Slot \ {r} : request'[q] = request[q]
         /\ request'[r].pc = "answered"
         /\ \A t : Names(r, t)' => "refresh" \in DOMAIN set /\ set.refresh = t
BY BusySlots DEF Respond, Names, At, Serving, TypeOK

LEMMA NoSetNames == "refresh" \notin DOMAIN NoSet
BY DEF NoSet

LEMMA NamedHaveRows ==
  ASSUME SessionInv, NEW r \in Slot, NEW t \in Token, Names(r, t)
  PROVE  sessions[t] # None
BY DEF SessionInv, AnswersHaveRows

LEMMA NoRowNotOpened ==
  ASSUME TypeOK, SessionInv, NEW t \in Token, sessions[t] = None
  PROVE  opened[t] = 0
BY DEF TypeOK, SessionInv, AnsweredOnce

LEMMA Opening ==
  ASSUME opened \in [Token -> Nat], NEW token \in Token, opened[token] = 0,
         opened' = [opened EXCEPT ![token] = @ + 1]
  PROVE  opened'[token] = 1 /\ \A t \in Token \ {token} : opened'[t] = opened[t]
OBVIOUS

\* Every step keeps tokens with their rows and sessions with their logins.
LEMMA SessionStep == TypeInv /\ TypeInv' /\ SessionInv /\ [Next]_vars => SessionInv'
<1> SUFFICES ASSUME TypeInv, TypeInv', SessionInv, [Next]_vars PROVE SessionInv'
  OBVIOUS
<1> TypeOK /\ TypeOK'
  BY DEF TypeInv
<1>1. CASE UNCHANGED vars
  BY <1>1 DEF vars, SessionInv, AnsweredOnce, JarHasRow, AnswersHaveRows, LoginsAreNew, Names, At
<1>2. CASE Tick
  <2>1. jar'.refresh = jar.refresh \/ jar'.refresh = None
    BY <1>2, Dropping
  <2>2. JarHasRow'
    BY <1>2, <2>1 DEF Tick, SessionInv, JarHasRow
  <2>3. AnsweredOnce' /\ AnswersHaveRows' /\ LoginsAreNew'
    BY <1>2 DEF Tick, history, SessionInv, AnsweredOnce, AnswersHaveRows, LoginsAreNew, Names, At
  <2>4. QED
    BY <2>2, <2>3 DEF SessionInv
<1>3. ASSUME NEW r \in Slot, Step(r) PROVE SessionInv'
  <2> USE DEF history
  <2> \A t \in Token : Names(r, t) => sessions[t] # None
    BY DEF SessionInv, AnswersHaveRows
  <2>1. ASSUME NEW op \in DOMAIN FirstStep, NEW e \in Email, Send(r, op, e) PROVE SessionInv'
    <3>1. FirstStep[op] # "last login"
      BY FirstSteps
    <3>2. /\ \A q \in Slot \ {r} : request'[q] = request[q]
          /\ request'[r].pc = FirstStep[op]
          /\ request'[r].set = NoSet
      BY <2>1 DEF Send, TypeOK
    <3>3. \A t \in Token : ~Names(r, t)'
      BY <3>2, NoSetNames DEF Names
    <3>4. QED
      BY <2>1, <3>1, <3>2, <3>3, SessionFrame DEF Send, At
  <2>2. CASE Deliver(r)
    <3>1. /\ \A q \in Slot \ {r} : request'[q] = request[q]
          /\ request'[r] = Idle
      BY <2>2 DEF Deliver, TypeOK
    <3>2. JarHasRow'
      <4>1. request[r] \in Serving
        BY <2>2, BusySlots DEF Deliver, At
      <4>2. jar' # jar => jar'.refresh = jar.refresh \/ Names(r, jar'.refresh)
        BY <2>2 DEF Deliver, Names, At, TypeOK, Cookies
      <4>3. jar'.refresh \in Token \cup {None}
        BY DEF TypeOK, Cookies
      <4>4. QED
        BY <2>2, <4>2, <4>3 DEF Deliver, SessionInv, JarHasRow
    <3>3. AnsweredOnce'
      BY <2>2 DEF Deliver, SessionInv, AnsweredOnce
    <3>4. AnswersHaveRows'
      BY <2>2, <3>1 DEF Deliver, SessionInv, AnswersHaveRows, Names, At, Idle
    <3>5. LoginsAreNew'
      <4>1. ~At(r, "last login")' /\ opened' = opened
        <5>1. Idle.pc # "last login"
          BY DEF Idle
        <5>2. opened' = opened
          BY <2>2 DEF Deliver
        <5>3. QED
          BY <3>1, <5>1, <5>2 DEF At
      <4>2. QED
        BY <3>1, <4>1, LoginsFrame DEF SessionInv
    <3>6. QED
      BY <3>2, <3>3, <3>4, <3>5 DEF SessionInv
  <2>3. CASE FindAccount(r)
    BY <2>3, GoToNames, RespondNames, NoSetNames, SessionFrame DEF FindAccount, At
  <2>4. CASE FindUser(r)
    BY <2>4, GoToNames, RespondNames, NoSetNames, SessionFrame DEF FindUser, At
  <2>5. CASE Authenticate(r)
    BY <2>5, GoToNames, RespondNames, NoSetNames, SessionFrame DEF Authenticate, At
  <2>6. CASE LookUpSession(r)
    <3>1. /\ GoTo(r, "issue") \/ Respond(r, NoSet)
          /\ request[r].pc # "idle"
          /\ UNCHANGED <<users, sessions, jar, created, opened>>
      BY <2>6 DEF LookUpSession, At
    <3>2. /\ \A q \in Slot \ {r} : request'[q] = request[q]
          /\ request'[r].pc # "last login"
          /\ \A t \in Token : Names(r, t)' => Names(r, t)
      BY <3>1, GoToNames, RespondNames, NoSetNames
    <3>3. QED
      BY <3>1, <3>2, SessionFrame DEF At
  <2>7. CASE UpdateLastUsed(r)
    BY <2>7, GoToNames, SessionFrame DEF UpdateLastUsed, At
  <2>8. CASE SignTokens(r)
    <3>1. request[r] \in Serving
      BY <2>8, BusySlots DEF SignTokens, At
    <3>2. /\ \A q \in Slot \ {r} : request'[q] = request[q]
          /\ request'[r].pc = "session"
          /\ request'[r].set = request[r].set
      BY <2>8, <3>1 DEF SignTokens, Serving, TypeOK
    <3>3. \A t \in Token : Names(r, t)' => Names(r, t)
      BY <2>8, <3>2 DEF SignTokens, Names, At
    <3>4. QED
      BY <2>8, <3>2, <3>3, SessionFrame DEF SignTokens, At
  <2>9. CASE Revoke(r)
    <3>1. \A t \in Token : sessions'[t] = None <=> sessions[t] = None
      BY <2>9, RevokedRows DEF Revoke
    <3>2. NoCookies.refresh = None /\ \A t \in Token : sessions[t] # None => sessions'[t] # None
      BY <3>1 DEF NoCookies
    <3>3. None \notin Token
      BY SessionsAssumption
    <3>4. QED
      BY <2>9, <3>2, <3>3, RespondNames, SessionFrame DEF Revoke, At
  <2>10. CASE Issue(r)
    <3>1. request[r] \in Serving
      BY <2>10, BusySlots DEF Issue, At
    <3> DEFINE new == [session |-> request[r].cookies.refresh, iat |-> now]
    <3>2. request' = [request EXCEPT ![r].pc = "last used", ![r].set = [access |-> new]]
      BY <2>10 DEF Issue
    <3> HIDE DEF new
    <3>3. /\ \A q \in Slot \ {r} : request'[q] = request[q]
          /\ request'[r].pc = "last used"
          /\ request'[r].set = [access |-> new]
      BY <3>1, <3>2 DEF Serving, TypeOK
    <3>4. \A t \in Token : ~Names(r, t)'
      BY <3>3 DEF Names
    <3>5. QED
      BY <2>10, <3>3, <3>4, SessionFrame DEF Issue, At
  <2>11. CASE Fail(r)
    <3>1. PICK set \in {NoSet, request[r].set} : Respond(r, set)
      BY <2>11 DEF Fail
    <3>2. \A t \in Token : Names(r, t)' => Names(r, t)
      BY <2>11, <3>1, RespondNames, NoSetNames DEF Fail, Names, At
    <3>3. QED
      BY <2>11, <3>1, <3>2, RespondNames, SessionFrame DEF Fail, At
  <2>12. CASE CreateUser(r)
    <3>1. AnsweredOnce'
      BY <2>12 DEF CreateUser, SessionInv, AnsweredOnce, TypeOK
    <3>2. /\ \A q \in Slot \ {r} : request'[q] = request[q]
          /\ request'[r].pc = "answered"
          /\ \A t : ~Names(r, t)'
      BY <2>12, RespondNames, NoSetNames DEF CreateUser, At
    <3>3. JarHasRow'
      BY <2>12 DEF CreateUser, SessionInv, JarHasRow
    <3>4. AnswersHaveRows'
      BY <2>12, <3>2 DEF CreateUser, SessionInv, AnswersHaveRows, Names, At
    <3>5. LoginsAreNew'
      BY <2>12, <3>2, LoginsFrame DEF CreateUser, SessionInv, At
    <3>6. QED
      BY <3>1, <3>3, <3>4, <3>5 DEF SessionInv
  <2>13. CASE CreateSession(r)
    <3>1. request[r] \in Serving
      BY <2>13, BusySlots DEF CreateSession, At
    <3>2. CASE sessions[Signed(r).refresh] # None
      BY <2>13, <3>2, RespondNames, NoSetNames, SessionFrame DEF CreateSession, At
    <3>3. CASE sessions[Signed(r).refresh] = None
      <4>1. PICK new \in [access : Access, refresh : Token], token \in Token :
              new = Signed(r) /\ token = new.refresh
        BY <3>1, SignedIsTyped DEF Signed
      <4>2. /\ sessions' = [sessions EXCEPT ![token] = NewSession]
            /\ request' = [request EXCEPT ![r].pc = "last login", ![r].set = new]
            /\ UNCHANGED <<users, jar, created, opened>>
        BY <2>13, <3>3, <4>1 DEF CreateSession
      <4>3. sessions[token] = None
        BY <3>3, <4>1
      <4>4. sessions'[token] # None /\ \A t \in Token : sessions[t] # None => sessions'[t] # None
        BY <4>1, <4>2, NewSessionIsRow DEF TypeOK
      <4>5. /\ \A q \in Slot \ {r} : request'[q] = request[q]
            /\ request'[r].pc = "last login"
            /\ request'[r].set = new
        BY <3>1, <4>2 DEF Serving, TypeOK
      <4>6. \A t \in Token : Names(r, t)' <=> t = token
        BY <4>1, <4>5 DEF Names, At
      <4>7. \A q \in Slot \ {r}, t \in Token : Names(q, t)' <=> Names(q, t)
        BY <4>5 DEF Names, At
      <4>8. AnsweredOnce'
        BY <4>2, <4>4 DEF SessionInv, AnsweredOnce
      <4>9. JarHasRow'
        BY <4>2, <4>4 DEF SessionInv, JarHasRow, TypeOK, Cookies
      <4>10. AnswersHaveRows'
        BY <4>4, <4>6, <4>7 DEF SessionInv, AnswersHaveRows
      <4>11. LoginsAreNew'
        <5>1. opened'[token] = 0
          BY <4>1, <4>2, <4>3, NoRowNotOpened
        <5>2. \A q \in Slot \ {r} : ~Names(q, token)'
          BY <4>1, <4>3, <4>7, NamedHaveRows
        <5>3. ASSUME NEW q \in Slot \ {r}, At(q, "last login")'
              PROVE  \E t \in Token :
                       /\ Names(q, t)'
                       /\ opened'[t] = 0
                       /\ \A p \in Slot : At(p, "last login")' /\ Names(p, t)' => p = q
          <6>1. At(q, "last login")
            BY <4>5, <5>3 DEF At
          <6>2. PICK t \in Token :
                  /\ Names(q, t)
                  /\ opened[t] = 0
                  /\ \A p \in Slot : At(p, "last login") /\ Names(p, t) => p = q
            BY <6>1 DEF SessionInv, LoginsAreNew
          <6>3. t # token
            BY <4>3, <6>2, NamedHaveRows
          <6>4. \A p \in Slot \ {r} : At(p, "last login")' <=> At(p, "last login")
            BY <4>5 DEF At
          <6>5. QED
            BY <4>2, <4>6, <4>7, <6>2, <6>3, <6>4
        <5>4. QED
          BY <4>1, <4>6, <5>1, <5>2, <5>3 DEF LoginsAreNew
      <4>12. QED
        BY <4>8, <4>9, <4>10, <4>11 DEF SessionInv
    <3>4. QED
      BY <3>2, <3>3
  <2>14. CASE UpdateLastLogin(r)
    <3>1. At(r, "last login")
      BY <2>14 DEF UpdateLastLogin
    <3>2. PICK token \in Token :
            /\ Names(r, token)
            /\ opened[token] = 0
            /\ \A q \in Slot : At(q, "last login") /\ Names(q, token) => q = r
      BY <3>1 DEF SessionInv, LoginsAreNew
    <3>3. opened' = [opened EXCEPT ![token] = @ + 1]
      BY <2>14, <3>2 DEF UpdateLastLogin, Names
    <3>4. /\ \A q \in Slot \ {r} : request'[q] = request[q]
          /\ request'[r].pc = "answered"
          /\ \A t : Names(r, t)' <=> Names(r, t)
      BY <2>14, <3>1, GoToNames DEF UpdateLastLogin, At
    <3>5. \A q \in Slot \ {r}, t \in Token : Names(q, t)' <=> Names(q, t)
      BY <3>4 DEF Names, At
    <3>6. AnsweredOnce'
      <4>1. sessions[token] # None
        BY <3>2
      <4>2. /\ opened'[token] = 1
            /\ \A t \in Token \ {token} : opened'[t] = opened[t]
        <5>1. opened \in [Token -> Nat]
          BY DEF TypeOK
        <5>2. QED
          BY <3>2, <3>3, <5>1, Opening
      <4>3. \A t \in Token : opened'[t] <= 1 /\ (opened'[t] = 1 => sessions[t] # None)
        BY <4>1, <4>2 DEF SessionInv, AnsweredOnce
      <4>4. QED
        BY <2>14, <4>3 DEF UpdateLastLogin, SessionInv, AnsweredOnce
    <3>7. JarHasRow'
      BY <2>14 DEF UpdateLastLogin, SessionInv, JarHasRow
    <3>8. AnswersHaveRows'
      BY <2>14, <3>4, <3>5 DEF UpdateLastLogin, SessionInv, AnswersHaveRows
    <3>9. LoginsAreNew'
      <4> SUFFICES ASSUME NEW q \in Slot, At(q, "last login")'
                   PROVE  \E t \in Token :
                            /\ Names(q, t)'
                            /\ opened'[t] = 0
                            /\ \A p \in Slot : At(p, "last login")' /\ Names(p, t)' => p = q
        BY DEF LoginsAreNew
      <4>1. \A p \in Slot : At(p, "last login")' => At(p, "last login") /\ p # r
        BY <3>4 DEF At
      <4>2. PICK t \in Token :
              /\ Names(q, t)
              /\ opened[t] = 0
              /\ \A p \in Slot : At(p, "last login") /\ Names(p, t) => p = q
        BY <4>1 DEF SessionInv, LoginsAreNew
      <4>3. t # token
        BY <3>2, <4>1, <4>2
      <4>4. opened'[t] = 0
        BY <3>3, <4>2, <4>3 DEF TypeOK
      <4>5. QED
        BY <3>5, <4>1, <4>2, <4>4
    <3>10. QED
      BY <3>6, <3>7, <3>8, <3>9 DEF SessionInv
  <2>15. QED
    BY <1>3, <2>1, <2>2, <2>3, <2>4, <2>5, <2>6, <2>7, <2>8, <2>9, <2>10, <2>11, <2>12, <2>13, <2>14
       DEF Step
<1>4. QED
  BY <1>1, <1>2, <1>3 DEF Next

LEMMA SessionInvariance == Spec => [](TypeInv /\ SessionInv)
<1>1. Init => SessionInv
  <2> SUFFICES ASSUME Init PROVE SessionInv
    OBVIOUS
  <2>1. \A r \in Slot : At(r, "idle")
    BY DEF Init, At, Idle
  <2>2. AnsweredOnce
    BY DEF Init, AnsweredOnce
  <2>3. JarHasRow
    BY DEF Init, JarHasRow, NoCookies
  <2>4. AnswersHaveRows /\ LoginsAreNew
    BY <2>1 DEF AnswersHaveRows, LoginsAreNew, Names, At
  <2>5. QED
    BY <2>2, <2>3, <2>4 DEF SessionInv
<1>2. TypeInv /\ SessionInv /\ [Next]_vars => SessionInv'
  BY TypeStep, SessionStep
<1>3. QED
  BY <1>1, <1>2, TypeInvariance, PTL DEF Spec

\* However requests race or fail, a refresh token that a browser has, or is
\* about to get, has its row in user_sessions and so can be revoked.
THEOREM TokensCanBeRevoked == Spec => []HeldTokensHaveRows
<1>1. TypeInv /\ SessionInv => HeldTokensHaveRows
  <2> SUFFICES ASSUME TypeInv, SessionInv, NEW t \in Held, t # None PROVE sessions[t] # None
    BY DEF HeldTokensHaveRows
  <2>1. CASE t = jar.refresh
    BY <2>1 DEF SessionInv, JarHasRow
  <2>2. ASSUME NEW r \in Slot, ~At(r, "idle"), "refresh" \in DOMAIN request[r].set,
               t = request[r].set.refresh
        PROVE  sessions[t] # None
    <3>1. request[r].set \in SetCookies
      BY <2>2, BusySlots DEF At, Serving, TypeInv
    <3>2. t \in Token
      BY <2>2, <3>1, CookiesAreTyped
    <3>3. QED
      BY <2>2, <3>2 DEF SessionInv, AnswersHaveRows, Names
  <2>3. QED
    BY <2>1, <2>2 DEF Held
<1>2. QED
  BY <1>1, SessionInvariance, PTL

\* However registrations and logins race, an account is created once and no two
\* logins are given one session.
THEOREM AccountsAndSessionsAreNew == Spec => []AnsweredOnce
BY SessionInvariance, PTL DEF SessionInv

-----------------------------------------------------------------------------
\* What OverSessionsIssueNothing asks of a step.
IssuesNothing ==
  \A t \in Token : Over(t) =>
    /\ Refreshing(t)' \subseteq Refreshing(t)
    /\ \A a \in issued' \ issued : a.session = t => Refreshing(t) # {}

\* A request that goes on, or is answered, is let past refreshAccessToken by
\* LookUpSession only.
LEMMA GoToLetsNobodyIn ==
  ASSUME TypeOK, NEW r \in Slot, NEW pc, GoTo(r, pc), request[r].pc # "idle",
         pc \notin {"idle", "issue", "last used"}, NEW t
  PROVE  Refreshing(t)' \subseteq Refreshing(t)
<1>1. /\ \A q \in Slot \ {r} : request'[q] = request[q]
      /\ request'[r].pc = pc
  BY GoToNames
<1>2. QED
  BY <1>1 DEF Refreshing

LEMMA RespondLetsNobodyIn ==
  ASSUME TypeOK, NEW r \in Slot, NEW set, Respond(r, set), request[r].pc # "idle", NEW t
  PROVE  Refreshing(t)' \subseteq Refreshing(t)
<1>1. /\ \A q \in Slot \ {r} : request'[q] = request[q]
      /\ request'[r].pc = "answered"
  BY RespondNames
<1>2. QED
  BY <1>1 DEF Refreshing

LEMMA SetKeeps ==
  ASSUME TypeOK, NEW r \in Slot, request[r] \in Serving, NEW pc, NEW set,
         request' = [request EXCEPT ![r].pc = pc, ![r].set = set]
  PROVE  /\ \A q \in Slot \ {r} : request'[q] = request[q]
         /\ request'[r].pc = pc
         /\ request'[r].cookies = request[r].cookies
BY DEF Serving, TypeOK

\* A session that is revoked or over lets no other request in, and only the
\* requests it let in before are issued access tokens.
THEOREM RevokedSessionsIssueNothing == Spec => OverSessionsIssueNothing
<1>1. TypeInv /\ [Next]_vars => [IssuesNothing]_vars
  <2> SUFFICES ASSUME TypeInv, [Next]_vars PROVE IssuesNothing \/ UNCHANGED vars
    OBVIOUS
  <2> TypeOK
    BY DEF TypeInv
  <2>1. CASE Tick
    BY <2>1 DEF Tick, history, IssuesNothing, Refreshing
  <2>2. ASSUME NEW r \in Slot, Step(r) PROVE IssuesNothing
    <3> USE DEF history
    <3> SUFFICES ASSUME NEW t \in Token, Over(t)
                 PROVE  /\ Refreshing(t)' \subseteq Refreshing(t)
                        /\ \A a \in issued' \ issued : a.session = t => Refreshing(t) # {}
      BY DEF IssuesNothing
    <3>1. ASSUME NEW op \in DOMAIN FirstStep, NEW e \in Email, Send(r, op, e)
          PROVE  Refreshing(t)' \subseteq Refreshing(t) /\ issued' = issued
      <4>1. FirstStep[op] \notin {"issue", "last used"}
        BY FirstSteps
      <4>2. /\ \A q \in Slot \ {r} : request'[q] = request[q]
            /\ request'[r].pc = FirstStep[op]
        BY <3>1 DEF Send, TypeOK
      <4>3. QED
        BY <3>1, <4>1, <4>2 DEF Send, Refreshing
    <3>2. CASE Deliver(r)
      <4>1. /\ \A q \in Slot \ {r} : request'[q] = request[q]
            /\ request'[r] = Idle
        BY <3>2 DEF Deliver, TypeOK
      <4>2. Idle.pc \notin {"issue", "last used"}
        BY DEF Idle
      <4>3. Refreshing(t)' \subseteq Refreshing(t)
        BY <4>1, <4>2 DEF Refreshing
      <4>4. QED
        BY <3>2, <4>3 DEF Deliver
    <3>3. CASE FindAccount(r)
      BY <3>3, GoToLetsNobodyIn, RespondLetsNobodyIn DEF FindAccount, At
    <3>4. CASE CreateUser(r)
      BY <3>4, RespondLetsNobodyIn DEF CreateUser, At
    <3>5. CASE FindUser(r)
      BY <3>5, GoToLetsNobodyIn, RespondLetsNobodyIn DEF FindUser, At
    <3>6. CASE SignTokens(r)
      BY <3>6, BusySlots DEF SignTokens, At, Refreshing, Serving, TypeOK
    <3>7. CASE CreateSession(r)
      <4>1. request[r] \in Serving
        BY <3>7, BusySlots DEF CreateSession, At
      <4>2. Refreshing(t)' \subseteq Refreshing(t)
        <5>1. CASE Respond(r, NoSet)
          BY <3>7, <5>1, RespondLetsNobodyIn DEF CreateSession, At
        <5>2. CASE request' = [request EXCEPT ![r].pc = "last login", ![r].set = Signed(r)]
          <6>1. /\ \A q \in Slot \ {r} : request'[q] = request[q]
                /\ request'[r].pc = "last login"
            BY <4>1, <5>2, SetKeeps
          <6>2. QED
            BY <6>1 DEF Refreshing
        <5>3. QED
          BY <3>7, <5>1, <5>2 DEF CreateSession
      <4>3. issued' # issued =>
              sessions[Signed(r).refresh] = None /\ issued' = issued \cup {Signed(r).access}
        BY <3>7 DEF CreateSession
      <4>4. Signed(r).access.session = Signed(r).refresh
        BY <4>1, SignedIsTyped
      <4>5. \A a \in issued' \ issued : a.session # t
        BY <4>3, <4>4 DEF Over
      <4>6. QED
        BY <4>2, <4>5
    <3>8. CASE UpdateLastLogin(r)
      BY <3>8, GoToLetsNobodyIn DEF UpdateLastLogin, At
    <3>9. CASE Revoke(r)
      BY <3>9, RespondLetsNobodyIn DEF Revoke, At
    <3>10. CASE Authenticate(r)
      BY <3>10, GoToLetsNobodyIn, RespondLetsNobodyIn DEF Authenticate, At
    <3>11. CASE LookUpSession(r)
      <4>1. request[r].pc # "idle" /\ issued' = issued
        BY <3>11 DEF LookUpSession, At
      <4>2. CASE Respond(r, NoSet)
        BY <4>1, <4>2, RespondLetsNobodyIn
      <4>3. CASE GoTo(r, "issue") /\ ~Over(request[r].cookies.refresh)
        <5>1. request[r].cookies.refresh # t
          BY <4>3
        <5>2. /\ \A q \in Slot \ {r} : request'[q] = request[q]
              /\ request'[r].cookies = request[r].cookies
          BY <4>1, <4>3, BusySlots DEF GoTo, Serving, TypeOK
        <5>3. Refreshing(t)' \subseteq Refreshing(t)
          BY <5>1, <5>2 DEF Refreshing
        <5>4. QED
          BY <4>1, <5>3
      <4>4. QED
        BY <3>11, <4>2, <4>3 DEF LookUpSession
    <3>12. CASE Issue(r)
      <4>1. request[r] \in Serving
        BY <3>12, BusySlots DEF Issue, At
      <4> DEFINE new == [session |-> request[r].cookies.refresh, iat |-> now]
      <4>2. issued' = issued \cup {new} /\ new.session = request[r].cookies.refresh
        BY <3>12 DEF Issue
      <4>3. request' = [request EXCEPT ![r].pc = "last used", ![r].set = [access |-> new]]
        BY <3>12 DEF Issue
      <4> HIDE DEF new
      <4>4. /\ \A q \in Slot \ {r} : request'[q] = request[q]
            /\ request'[r].cookies = request[r].cookies
            /\ request[r].pc = "issue"
        <5>1. request[r].pc = "issue"
          BY <3>12 DEF Issue, At
        <5>2. QED
          BY <4>1, <4>3, <5>1, SetKeeps
      <4>5. Refreshing(t)' \subseteq Refreshing(t)
        BY <4>4 DEF Refreshing
      <4>6. new.session = t => r \in Refreshing(t)
        BY <4>2, <4>4 DEF Refreshing
      <4>7. QED
        BY <4>2, <4>5, <4>6
    <3>13. CASE UpdateLastUsed(r)
      BY <3>13, GoToLetsNobodyIn DEF UpdateLastUsed, At
    <3>14. CASE Fail(r)
      BY <3>14, RespondLetsNobodyIn DEF Fail
    <3>15. QED
      BY <2>2, <3>1, <3>2, <3>3, <3>4, <3>5, <3>6, <3>7, <3>8, <3>9, <3>10, <3>11, <3>12, <3>13, <3>14
         DEF Step
  <2>3. QED
    BY <2>1, <2>2 DEF Next
<1>2. QED
  BY <1>1, TypeInvariance, PTL DEF Spec, OverSessionsIssueNothing, IssuesNothing

-----------------------------------------------------------------------------
(* A browser that makes one request at a time holds one session, as long   *)
(* as that session can be refreshed.  The invariant also says what the     *)
(* request under way is about to set: both cookies of one session, or an   *)
(* access token of the session it came with, whose refresh token the       *)
(* browser may have dropped meanwhile, but not before it ran out.          *)

\* The session that a set, laid over the cookies of its request, is of.
Fits(set, cookies) ==
  /\ "refresh" \in DOMAIN set =>
       /\ "access" \in DOMAIN set
       /\ set["refresh"] = None \/ set["refresh"].iat <= now
  /\ "access" \in DOMAIN set =>
       set["access"] = None
         \/ set["access"].session =
              (IF "refresh" \in DOMAIN set THEN set["refresh"] ELSE cookies.refresh)

\* The session is the browser's, or was until its refresh token ran out.
Kept(t) == t = jar.refresh \/ (jar.refresh = None /\ ~Unexpired(t, RefreshTTL))

JarFits ==
  /\ jar.access = None \/ Kept(jar.access.session)
  /\ jar.refresh = None \/ jar.refresh.iat + RefreshTTL <= until.refresh

OneBusy == \A q, r \in Slot : ~At(q, "idle") /\ ~At(r, "idle") => q = r

RequestFits(r) ==
  /\ request[r].cookies.refresh = None \/ Kept(request[r].cookies.refresh)
  /\ request[r].iat <= now
  /\ Fits(request[r].set, request[r].cookies)

BusyFit == \A r \in Slot : ~At(r, "idle") => RequestFits(r)

JarInv == ~raced => JarFits /\ OneBusy /\ BusyFit

LEMMA NoSetFits == \A cookies : Fits(NoSet, cookies)
BY NoSetIsEmpty DEF Fits

\* A step of a handler, which leaves the jar and the cookies of its request.
LEMMA BusyFrame ==
  ASSUME TypeInv, JarInv, NEW r \in Slot, ~At(r, "idle"), NEW new \in Serving,
         request' = [request EXCEPT ![r] = new], new.cookies = request[r].cookies,
         ~raced => new.iat <= now /\ Fits(new.set, new.cookies),
         UNCHANGED <<now, jar, until, raced>>
  PROVE  JarInv'
<1> SUFFICES ASSUME ~raced PROVE JarFits' /\ OneBusy' /\ BusyFit'
  BY DEF JarInv
<1>1. JarFits /\ OneBusy /\ BusyFit
  BY DEF JarInv
<1>2. /\ \A q \in Slot \ {r} : request'[q] = request[q]
      /\ request'[r] = new
  BY DEF TypeInv, TypeOK
<1>3. JarFits'
  BY <1>1 DEF JarFits, Kept, Unexpired
<1>4. OneBusy'
  <2> SUFFICES ASSUME NEW p \in Slot, NEW q \in Slot, ~At(p, "idle")', ~At(q, "idle")'
               PROVE  p = q
    BY DEF OneBusy
  <2>1. \A s \in Slot : request'[s] # request[s] => s = r
    BY <1>2
  <2>2. ~At(p, "idle") /\ ~At(q, "idle")
    BY <2>1 DEF At
  <2>3. QED
    BY <1>1, <2>2 DEF OneBusy
<1>5. BusyFit'
  <2> SUFFICES ASSUME NEW q \in Slot, ~At(q, "idle")'
               PROVE  RequestFits(q)'
    BY DEF BusyFit
  <2>1. CASE q = r
    <3>1. request'[q] = new /\ RequestFits(r)
      BY <1>1, <1>2, <2>1 DEF BusyFit
    <3>2. QED
      BY <3>1 DEF RequestFits, Fits, Kept, Unexpired
  <2>2. CASE q # r
    <3>1. request'[q] = request[q] /\ ~At(q, "idle")
      BY <1>2, <2>2 DEF At
    <3>2. QED
      BY <1>1, <3>1 DEF BusyFit, RequestFits, Fits, Kept, Unexpired
  <2>3. QED
    BY <2>1, <2>2
<1>6. QED
  BY <1>3, <1>4, <1>5

LEMMA GoToFits ==
  ASSUME TypeInv, JarInv, NEW r \in Slot, ~At(r, "idle"), NEW pc \in Position, GoTo(r, pc),
         UNCHANGED <<now, jar, until, raced>>
  PROVE  JarInv'
<1> DEFINE new == [request[r] EXCEPT !.pc = pc]
<1>1. request[r] \in Serving
  BY BusySlots DEF At, TypeInv
<1>2. /\ new \in Serving /\ new.iat = request[r].iat
      /\ new.cookies = request[r].cookies /\ new.set = request[r].set
  BY <1>1 DEF Serving, Position
<1>3. request' = [request EXCEPT ![r] = new]
  BY <1>1 DEF GoTo, Serving
<1> HIDE DEF new
<1>4. ~raced => new.iat <= now /\ Fits(new.set, new.cookies)
  BY <1>2 DEF JarInv, BusyFit, RequestFits
<1>5. QED
  BY <1>2, <1>3, <1>4, BusyFrame

LEMMA SetFits ==
  ASSUME TypeInv, JarInv, NEW r \in Slot, ~At(r, "idle"), NEW pc \in Position,
         NEW set \in SetCookies, request' = [request EXCEPT ![r].pc = pc, ![r].set = set],
         ~raced => Fits(set, request[r].cookies), UNCHANGED <<now, jar, until, raced>>
  PROVE  JarInv'
<1> DEFINE new == [request[r] EXCEPT !.pc = pc, !.set = set]
<1>1. request[r] \in Serving
  BY BusySlots DEF At, TypeInv
<1>2. /\ new \in Serving /\ new.iat = request[r].iat
      /\ new.cookies = request[r].cookies /\ new.set = set
  BY <1>1 DEF Serving, Position
<1>3. request' = [request EXCEPT ![r] = new]
  BY <1>1 DEF Serving
<1> HIDE DEF new
<1>4. ~raced => new.iat <= now /\ Fits(new.set, new.cookies)
  BY <1>2 DEF JarInv, BusyFit, RequestFits
<1>5. QED
  BY <1>2, <1>3, <1>4, BusyFrame

LEMMA RespondFits ==
  ASSUME TypeInv, JarInv, NEW r \in Slot, ~At(r, "idle"), NEW set \in SetCookies,
         Respond(r, set), ~raced => Fits(set, request[r].cookies),
         UNCHANGED <<now, jar, until, raced>>
  PROVE  JarInv'
BY SetFits DEF Respond, Position

LEMMA RespondNothingFits ==
  ASSUME TypeInv, JarInv, NEW r \in Slot, ~At(r, "idle"), Respond(r, NoSet),
         UNCHANGED <<now, jar, until, raced>>
  PROVE  JarInv'
BY RespondFits, NoSetFits, NoSetIsEmpty

\* A session is kept as a second passes: a refresh token is dropped only when
\* it has run out, and one that has run out stays so.
LEMMA TickKeepsJar ==
  ASSUME TypeInv, JarInv, Tick
  PROVE  JarInv'
<1>1. /\ now \in Nat /\ now' = now + 1 /\ UNCHANGED <<until, request, raced>>
      /\ jar'.access = jar.access \/ jar'.access = None
      /\ jar'.refresh = jar.refresh \/ (jar'.refresh = None /\ until.refresh <= now')
  BY Dropping DEF Tick, TypeInv, TypeOK, Time
<1> SUFFICES ASSUME ~raced PROVE JarFits' /\ OneBusy' /\ BusyFit'
  BY <1>1 DEF JarInv
<1>2. JarFits /\ OneBusy /\ BusyFit
  BY DEF JarInv
<1>3. ASSUME NEW t \in Token, Kept(t) PROVE Kept(t)'
  <2>1. t.iat \in Nat /\ RefreshTTL \in Nat /\ until.refresh \in Nat /\ None \notin Token
    BY SessionsAssumption DEF Token, Time, TypeInv, TypeOK
  <2>2. CASE t = jar.refresh
    <3>1. t.iat + RefreshTTL <= until.refresh
      BY <1>2, <2>1, <2>2 DEF JarFits
    <3>2. QED
      BY <1>1, <2>1, <2>2, <3>1 DEF Kept, Unexpired
  <2>3. CASE jar.refresh = None /\ ~Unexpired(t, RefreshTTL)
    BY <1>1, <2>1, <2>3 DEF Kept, Unexpired
  <2>4. QED
    BY <1>3, <2>2, <2>3 DEF Kept
<1>4. JarFits'
  <2>1. jar.access # None => jar.access.session \in Token
    BY DEF TypeInv, TypeOK, Cookies, Access
  <2>2. QED
    BY <1>1, <1>2, <1>3, <2>1 DEF JarFits
<1>5. OneBusy'
  BY <1>1, <1>2 DEF OneBusy, At
<1>6. BusyFit'
  <2> SUFFICES ASSUME NEW r \in Slot, ~At(r, "idle") PROVE RequestFits(r)'
    BY <1>1 DEF BusyFit, At
  <2>1. RequestFits(r) /\ request[r] \in Serving
    BY <1>2, BusySlots DEF BusyFit, At, TypeInv
  <2>2. /\ request[r].cookies.refresh = None \/ request[r].cookies.refresh \in Token
        /\ request[r].iat \in Time /\ request[r].set \in SetCookies
    BY <2>1 DEF Serving, Cookies
  <2>5. request[r].iat \in Nat
    BY <2>2, SessionsAssumption DEF Time
  <2>3. Fits(request[r].set, request[r].cookies)'
    <3> DEFINE set == request[r].set
    <3>1. "refresh" \in DOMAIN set /\ set["refresh"] # None => set["refresh"].iat \in Nat
      BY <2>2, CookiesAreTyped DEF Token, Time
    <3>2. Fits(set, request[r].cookies)
      BY <2>1 DEF RequestFits
    <3>3. request'[r] = request[r]
      BY <1>1
    <3>4. QED
      BY <1>1, <3>1, <3>2, <3>3 DEF Fits
  <2>4. QED
    BY <1>1, <1>3, <2>1, <2>2, <2>3, <2>5 DEF RequestFits
<1>7. QED
  BY <1>4, <1>5, <1>6

\* Both cookies, or the access token alone, are laid over the jar.
LEMMA DeliverKeepsJar ==
  ASSUME TypeInv, JarInv, NEW r \in Slot, Deliver(r)
  PROVE  JarInv'
<1>1. /\ ~At(r, "idle") /\ request' = [request EXCEPT ![r] = Idle]
      /\ raced' = raced /\ now' = now
  BY DEF Deliver, At
<1> SUFFICES ASSUME ~raced PROVE JarFits' /\ OneBusy' /\ BusyFit'
  BY <1>1 DEF JarInv
<1>2. JarFits /\ OneBusy /\ BusyFit
  BY DEF JarInv
<1>3. \A q \in Slot : At(q, "idle")'
  <2> SUFFICES ASSUME NEW q \in Slot PROVE At(q, "idle")'
    OBVIOUS
  <2>1. CASE q = r
    BY <1>1, <2>1 DEF At, Idle, TypeInv, TypeOK
  <2>2. CASE q # r
    BY <1>1, <1>2, <2>2 DEF At, OneBusy, TypeInv, TypeOK
  <2>3. QED
    BY <2>1, <2>2
<1>4. OneBusy' /\ BusyFit'
  BY <1>3 DEF OneBusy, BusyFit
<1>5. JarFits'
  <2>1. CASE UNCHANGED <<jar, until>>
    BY <1>1, <1>2, <2>1 DEF JarFits, Kept, Unexpired
  <2> DEFINE set == request[r].set
             cookies == request[r].cookies
  <2>2. CASE /\ jar' = [c \in DOMAIN jar |-> IF c \in DOMAIN set THEN set[c] ELSE jar[c]]
             /\ until' = [c \in DOMAIN jar |-> IF c \in DOMAIN set THEN now + MaxAge[c] ELSE until[c]]
    <3>1. /\ Fits(set, cookies)
          /\ cookies.refresh = None \/ Kept(cookies.refresh)
      BY <1>1, <1>2 DEF BusyFit, RequestFits
    <3>2. set \in SetCookies /\ cookies \in Cookies
      BY <1>1, BusySlots DEF At, TypeInv, Serving
    <3>3. /\ "access" \in DOMAIN set => set["access"] \in Access \cup {None}
          /\ "refresh" \in DOMAIN set => set["refresh"] \in Token \cup {None}
      BY <3>2, CookiesAreTyped
    <3> HIDE DEF set, cookies
    <3>4. /\ jar'.access = IF "access" \in DOMAIN set THEN set["access"] ELSE jar.access
          /\ jar'.refresh = IF "refresh" \in DOMAIN set THEN set["refresh"] ELSE jar.refresh
          /\ until'.refresh = IF "refresh" \in DOMAIN set THEN now + RefreshTTL ELSE until.refresh
      BY <2>2 DEF TypeInv, TypeOK, Cookies, MaxAge
    <3>5. now \in Nat /\ RefreshTTL \in Nat /\ \A t \in Token : t.iat \in Nat
      BY SessionsAssumption DEF TypeInv, TypeOK, Time, Token
    <3>6. \A a \in Access : a.session \in Token /\ a.session # None
      BY SessionsAssumption DEF Access
    <3>7. CASE "refresh" \in DOMAIN set
      <4>1. /\ "access" \in DOMAIN set /\ (set["refresh"] = None \/ set["refresh"].iat <= now)
            /\ set["access"] = None \/ set["access"].session = set["refresh"]
        BY <3>1, <3>7 DEF Fits
      <4>2. jar'.refresh = None \/ jar'.refresh.iat + RefreshTTL <= until'.refresh
        BY <3>3, <3>4, <3>5, <3>7, <4>1
      <4>3. QED
        BY <3>4, <3>7, <4>1, <4>2 DEF JarFits, Kept
    <3>8. CASE "refresh" \notin DOMAIN set
      <4>1. jar'.refresh = jar.refresh /\ until'.refresh = until.refresh
        BY <3>4, <3>8
      <4>2. CASE "access" \notin DOMAIN set
        BY <1>1, <1>2, <3>4, <4>1, <4>2 DEF JarFits, Kept, Unexpired
      <4>3. CASE "access" \in DOMAIN set
        <5>1. set["access"] = None \/ Kept(set["access"].session)
          BY <3>1, <3>3, <3>6, <3>8, <4>3 DEF Fits
        <5>2. QED
          BY <1>1, <1>2, <3>4, <4>1, <4>3, <5>1 DEF JarFits, Kept, Unexpired
      <4>4. QED
        BY <4>2, <4>3
    <3>9. QED
      BY <3>7, <3>8
  <2>3. QED
    BY <2>1, <2>2 DEF Deliver
<1>6. QED
  BY <1>4, <1>5

LEMMA JarStep == TypeInv /\ JarInv /\ [Next]_vars => JarInv'
<1> SUFFICES ASSUME TypeInv, JarInv, [Next]_vars PROVE JarInv'
  OBVIOUS
<1>2. CASE UNCHANGED vars
  BY <1>2 DEF vars, JarInv, JarFits, OneBusy, BusyFit, RequestFits, Fits, Kept, Unexpired, At
<1>3. CASE Tick
  BY <1>3, TickKeepsJar
<1>4. ASSUME NEW r \in Slot, Step(r) PROVE JarInv'
  <2>1. ASSUME NEW op \in DOMAIN FirstStep, NEW e \in Email, Send(r, op, e) PROVE JarInv'
    <3> DEFINE new == [pc |-> FirstStep[op], email |-> e, cookies |-> jar, iat |-> now, set |-> NoSet]
    <3>1. new.cookies = jar /\ new.iat = now /\ new.set = NoSet
      OBVIOUS
    <3>2. request' = [request EXCEPT ![r] = new] /\ UNCHANGED <<now, jar, until>>
      BY <2>1 DEF Send
    <3> HIDE DEF new
    <3> SUFFICES ASSUME ~raced' PROVE JarFits' /\ OneBusy' /\ BusyFit'
      BY DEF JarInv
    <3>3. ~raced /\ \A q \in Slot : At(q, "idle")
      BY <2>1 DEF Send
    <3>4. JarFits'
      BY <3>2, <3>3 DEF JarInv, JarFits, Kept, Unexpired
    <3>5. \A q \in Slot \ {r} : At(q, "idle")'
      BY <3>2, <3>3 DEF At, TypeInv, TypeOK
    <3>6. OneBusy'
      BY <3>5 DEF OneBusy
    <3>7. request'[r] = new
      BY <3>2 DEF TypeInv, TypeOK
    <3>10. now' <= now'
      BY SessionsAssumption, <3>2 DEF TypeInv, TypeOK, Time
    <3>11. RequestFits(r)'
      BY <3>1, <3>2, <3>7, <3>10, NoSetIsEmpty DEF RequestFits, Kept, Fits
    <3>8. BusyFit'
      BY <3>5, <3>11 DEF BusyFit
    <3>9. QED
      BY <3>4, <3>6, <3>8
  <2>2. CASE Deliver(r)
    BY <2>2, DeliverKeepsJar
  <2>3. CASE FindAccount(r)
    BY <2>3, GoToFits, RespondNothingFits DEF FindAccount, At, Position
  <2>4. CASE CreateUser(r)
    BY <2>4, RespondNothingFits DEF CreateUser, At
  <2>5. CASE FindUser(r)
    BY <2>5, GoToFits, RespondNothingFits DEF FindUser, At, Position
  <2>6. CASE SignTokens(r)
    <3>1. request[r] \in Serving /\ ~At(r, "idle")
      BY <2>6, BusySlots DEF SignTokens, At, TypeInv
    <3> DEFINE new == [request[r] EXCEPT !.pc = "session", !.iat = now]
    <3>2. /\ new \in Serving /\ new.iat = now
          /\ new.cookies = request[r].cookies /\ new.set = request[r].set
      BY <3>1 DEF Serving, TypeInv, TypeOK
    <3>6. now \in Nat
      BY SessionsAssumption DEF TypeInv, TypeOK, Time
    <3>3. request' = [request EXCEPT ![r] = new] /\ UNCHANGED <<now, jar, until, raced>>
      BY <2>6, <3>1 DEF SignTokens, Serving
    <3> HIDE DEF new
    <3>4. ~raced => new.iat <= now /\ Fits(new.set, new.cookies)
      BY <3>1, <3>2, <3>6 DEF JarInv, BusyFit, RequestFits
    <3>5. QED
      BY <3>1, <3>2, <3>3, <3>4, BusyFrame
  <2>7. CASE CreateSession(r)
    <3>1. request[r] \in Serving /\ ~At(r, "idle") /\ UNCHANGED <<now, jar, until, raced>>
      BY <2>7, BusySlots DEF CreateSession, At, TypeInv
    <3>2. CASE Respond(r, NoSet)
      BY <3>1, <3>2, RespondNothingFits
    <3>3. CASE request' = [request EXCEPT ![r].pc = "last login", ![r].set = Signed(r)]
      <4>1. Signed(r) \in SetCookies /\ Signed(r).access.session = Signed(r).refresh
        BY <3>1, SignedIsTyped DEF TypeInv
      <4>2. ~raced => Fits(Signed(r), request[r].cookies)
        <5>1. DOMAIN Signed(r) = {"access", "refresh"} /\ Signed(r).refresh.iat = request[r].iat
          BY DEF Signed
        <5>2. ~raced => request[r].iat <= now
          BY <3>1 DEF JarInv, BusyFit, RequestFits
        <5>3. QED
          BY <4>1, <5>1, <5>2 DEF Fits
      <4>3. QED
        BY <3>1, <3>3, <4>1, <4>2, SetFits DEF Position
    <3>4. QED
      BY <2>7, <3>2, <3>3 DEF CreateSession
  <2>8. CASE UpdateLastLogin(r)
    BY <2>8, GoToFits DEF UpdateLastLogin, At, Position
  <2>9. CASE Revoke(r)
    <3>1. NoCookies \in SetCookies
      BY DEF NoCookies, SetCookies, Cookies
    <3>2. Fits(NoCookies, request[r].cookies)
      BY DEF NoCookies, Fits
    <3>3. QED
      BY <2>9, <3>1, <3>2, RespondFits DEF Revoke, At
  <2>10. CASE Authenticate(r)
    BY <2>10, GoToFits, RespondNothingFits DEF Authenticate, At, Position
  <2>11. CASE LookUpSession(r)
    BY <2>11, GoToFits, RespondNothingFits DEF LookUpSession, At, Position
  <2>12. CASE Issue(r)
    <3>1. request[r] \in Serving /\ ~At(r, "idle") /\ UNCHANGED <<now, jar, until, raced>>
      BY <2>12, BusySlots DEF Issue, At, TypeInv
    <3>2. request[r].cookies.refresh # None
      BY <2>12 DEF Issue, At, TypeInv, RefreshersHaveTokens
    <3> DEFINE new == [session |-> request[r].cookies.refresh, iat |-> now]
    <3>3. new \in Access /\ new.session = request[r].cookies.refresh
      BY <3>1, <3>2 DEF Access, Serving, Cookies, TypeInv, TypeOK
    <3>4. request' = [request EXCEPT ![r].pc = "last used", ![r].set = [access |-> new]]
      BY <2>12 DEF Issue
    <3> HIDE DEF new
    <3>5. [access |-> new] \in SetCookies
      BY <3>3 DEF SetCookies
    <3>6. Fits([access |-> new], request[r].cookies)
      BY <3>3 DEF Fits
    <3>7. QED
      BY <3>1, <3>4, <3>5, <3>6, SetFits DEF Position
  <2>13. CASE UpdateLastUsed(r)
    BY <2>13, GoToFits DEF UpdateLastUsed, At, Position
  <2>14. CASE Fail(r)
    <3>1. request[r] \in Serving /\ ~At(r, "idle") /\ UNCHANGED <<now, jar, until, raced>>
      BY <2>14, BusySlots DEF Fail, At, TypeInv
    <3>2. PICK set \in {NoSet, request[r].set} : Respond(r, set)
      BY <2>14 DEF Fail
    <3>3. set \in SetCookies
      BY <3>1, NoSetIsEmpty DEF Serving
    <3>4. ~raced => Fits(set, request[r].cookies)
      BY <3>1, NoSetFits DEF JarInv, BusyFit, RequestFits
    <3>5. QED
      BY <3>1, <3>2, <3>3, <3>4, RespondFits
  <2>15. QED
    BY <1>4, <2>1, <2>2, <2>3, <2>4, <2>5, <2>6, <2>7, <2>8, <2>9, <2>10, <2>11, <2>12, <2>13, <2>14
       DEF Step
<1>5. QED
  BY <1>2, <1>3, <1>4 DEF Next

\* However it logs in, is refreshed and logs out, a browser whose requests do
\* not overlap has no access token of another session than its refresh token's:
\* the code sets and clears the two cookies together, and refreshes for the
\* cookie it got.  An access token can outlive the refresh token's cookie
\* (AuthCookies.options), but only of a session that can be refreshed no more.
THEOREM UnracedJarsAreOneSession == Spec => []JarIsOneSession
<1>1. Init => JarInv
  BY DEF Init, JarInv, JarFits, OneBusy, BusyFit, At, Idle, NoCookies
<1>2. JarInv => JarIsOneSession
  BY DEF JarInv, JarFits, Kept, JarIsOneSession
<1>3. QED
  BY <1>1, <1>2, TypeInvariance, JarStep, PTL DEF Spec
=============================================================================
