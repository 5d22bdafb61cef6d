------------------------------ MODULE Sessions ------------------------------
(***************************************************************************)
(* Accounts, sessions and the two cookies of a browser: register, login,   *)
(* logout and requireAuth with its silent refresh.                         *)
(*                                                                         *)
(* One browser has several requests under way.  Each carries the cookies   *)
(* of the moment it was sent, is interleaved with the others at its        *)
(* awaited statements, and brings its Set-Cookie headers back in any       *)
(* order.  Time is counted in seconds, the granularity of the tokens: two  *)
(* refresh tokens signed for a user in the same second are equal.          *)
(***************************************************************************)
EXTENDS Naturals

CONSTANTS
  Email,
  Slot,         \* requests of the browser under way at once
  AccessTTL,    \* ACCESS_TOKEN_TTL_MS in seconds
  RefreshTTL,   \* REFRESH_TOKEN_TTL_MS in seconds
  None,         \* no cookie, no row
  MaxTime,      \* bound: seconds
  MaxRequests,  \* bound: requests in a behaviour
  MaxFailures   \* bound: requests that fail half-way

Time == 0..MaxTime

\* A refresh token is told by its user and the second it was signed; an access
\* token by its second too, and (history) by the session it was issued for.
Token == [user : Email, iat : Time]
Access == [session : Token, iat : Time]

\* A row of user_sessions.
Row == [expires : Nat, revoked : BOOLEAN]

ASSUME SessionsAssumption ==
  /\ None \notin Row \cup Token
  /\ AccessTTL \in Nat \ {0}
  /\ RefreshTTL \in Nat \ {0}
  /\ MaxTime \in Nat
  /\ MaxRequests \in Nat
  /\ MaxFailures \in Nat

VARIABLES
  now,
  users,      \* users: addresses with an account
  sessions,   \* user_sessions by refresh token
  jar,        \* the browser's two cookies
  until,      \* the second at which it drops each of them
  request,    \* what each slot is serving
  issued,     \* history: access tokens issued
  created,    \* history: registrations of an address answered 201
  opened,     \* history: logins answered 200 with a refresh token
  raced,      \* history: two requests of the browser were under way at once
  sent,       \* requests so far
  failures    \* failures so far

vars == <<now, users, sessions, jar, until, request, issued, created, opened, raced, sent, failures>>

history == <<issued, created, opened>>

Cookies == [access : Access \cup {None}, refresh : Token \cup {None}]

NoCookies == [access |-> None, refresh |-> None]

\* The Max-Age of each cookie.
MaxAge == [access |-> AccessTTL, refresh |-> RefreshTTL]

Idle == [pc |-> "idle"]

Init ==
  /\ now = 0
  /\ users \in SUBSET Email
  /\ sessions = [t \in Token |-> None]
  /\ jar = NoCookies
  /\ until = [c \in DOMAIN jar |-> 0]
  /\ request = [r \in Slot |-> Idle]
  /\ issued = {}
  /\ created = [e \in Email |-> 0]
  /\ opened = [t \in Token |-> 0]
  /\ raced = FALSE
  /\ sent = 0
  /\ failures = 0

At(r, pc) == request[r].pc = pc

GoTo(r, pc) == request' = [request EXCEPT ![r].pc = pc]

\* The handler returns with these cookies set.
Respond(r, set) == request' = [request EXCEPT ![r].pc = "answered", ![r].set = set]

NoSet == [c \in {} |-> None]

\* A second passes, and the browser drops the cookies whose time is over.
Tick ==
  /\ now < MaxTime
  /\ now' = now + 1
  /\ jar' = [c \in DOMAIN jar |-> IF until[c] <= now' THEN None ELSE jar[c]]
  /\ UNCHANGED <<users, sessions, until, request, history, raced, sent, failures>>

\* Where the handler of each operation begins.
FirstStep ==
  [register |-> "find account", login |-> "find user",
   logout |-> "revoke", visit |-> "authenticate"]

Send(r, op, e) ==
  /\ At(r, "idle")
  /\ sent < MaxRequests
  /\ sent' = sent + 1
  /\ request' = [request EXCEPT ![r] =
       [pc |-> FirstStep[op], email |-> e, cookies |-> jar, iat |-> now, set |-> NoSet]]
  /\ raced' = (raced \/ \E q \in Slot : ~At(q, "idle"))
  /\ UNCHANGED <<now, users, sessions, jar, until, history, failures>>

\* The response arrives, in any order, or its cookies are lost: the frontend's
\* ServerHttp passes on those of a POST only.
Deliver(r) ==
  /\ At(r, "answered")
  /\ request' = [request EXCEPT ![r] = Idle]
  /\ LET set == request[r].set
     IN  \/ UNCHANGED <<jar, until>>
         \/ /\ jar' = [c \in DOMAIN jar |-> IF c \in DOMAIN set THEN set[c] ELSE jar[c]]
            /\ until' = [c \in DOMAIN jar |-> IF c \in DOMAIN set THEN now + MaxAge[c] ELSE until[c]]
  /\ UNCHANGED <<now, users, sessions, history, raced, sent, failures>>

-----------------------------------------------------------------------------
(* AuthHandlers.register.                                                  *)

FindAccount(r) ==
  /\ At(r, "find account")
  /\ IF request[r].email \in users THEN Respond(r, NoSet) ELSE GoTo(r, "create")
  /\ UNCHANGED <<now, users, sessions, jar, until, history, raced, sent, failures>>

\* The password is hashed and the account inserted; when another registration
\* of the address was first, the unique column makes the insert throw.
CreateUser(r) ==
  /\ At(r, "create")
  /\ Respond(r, NoSet)
  /\ IF request[r].email \in users
     THEN UNCHANGED <<users, created>>
     ELSE /\ users' = users \cup {request[r].email}
          /\ created' = [created EXCEPT ![request[r].email] = @ + 1]
  /\ UNCHANGED <<now, sessions, jar, until, issued, opened, raced, sent, failures>>

-----------------------------------------------------------------------------
(* AuthHandlers.login.                                                     *)

\* Only a known address with the right password gets any further.
FindUser(r) ==
  /\ At(r, "find user")
  /\ \/ request[r].email \in users /\ GoTo(r, "sign")
     \/ Respond(r, NoSet)
  /\ UNCHANGED <<now, users, sessions, jar, until, history, raced, sent, failures>>

SignTokens(r) ==
  /\ At(r, "sign")
  /\ request' = [request EXCEPT ![r].pc = "session", ![r].iat = now]
  /\ UNCHANGED <<now, users, sessions, jar, until, history, raced, sent, failures>>

\* The tokens a login has signed.
Signed(r) ==
  LET token == [user |-> request[r].email, iat |-> request[r].iat]
  IN  [refresh |-> token, access |-> [session |-> token, iat |-> request[r].iat]]

NewSession == [expires |-> now + RefreshTTL, revoked |-> FALSE]

\* Faulty: on conflict the session that is there is used.
SharingCreateSession(r) ==
  /\ At(r, "session")
  /\ LET new == Signed(r)
     IN  /\ sessions' = [sessions EXCEPT ![new.refresh] = NewSession]
         /\ issued' = issued \cup {new.access}
         /\ request' = [request EXCEPT ![r].pc = "last login", ![r].set = new]
  /\ UNCHANGED <<now, users, jar, until, created, opened, raced, sent, failures>>

\* The session is inserted and the cookies set, or the insert throws because
\* the user logged in within the same second.
CreateSession(r) ==
  /\ At(r, "session")
  /\ LET new == Signed(r)
     IN  IF sessions[new.refresh] # None
         THEN Respond(r, NoSet) /\ UNCHANGED <<sessions, issued>>
         ELSE /\ sessions' = [sessions EXCEPT ![new.refresh] = NewSession]
              /\ issued' = issued \cup {new.access}
              /\ request' = [request EXCEPT ![r].pc = "last login", ![r].set = new]
  /\ UNCHANGED <<now, users, jar, until, created, opened, raced, sent, failures>>

UpdateLastLogin(r) ==
  /\ At(r, "last login")
  /\ GoTo(r, "answered")
  /\ opened' = [opened EXCEPT ![request[r].set.refresh] = @ + 1]
  /\ UNCHANGED <<now, users, sessions, jar, until, issued, created, raced, sent, failures>>

-----------------------------------------------------------------------------
(* AuthHandlers.logout.                                                    *)

RevokedBy(r) ==
  [t \in Token |->
     IF t = request[r].cookies.refresh /\ sessions[t] # None
     THEN [sessions[t] EXCEPT !.revoked = TRUE] ELSE sessions[t]]

\* Faulty: only the refresh token is cleared.
HalfRevoke(r) ==
  /\ At(r, "revoke")
  /\ sessions' = RevokedBy(r)
  /\ Respond(r, [refresh |-> None])
  /\ UNCHANGED <<now, users, jar, until, history, raced, sent, failures>>

Revoke(r) ==
  /\ At(r, "revoke")
  /\ sessions' = RevokedBy(r)
  /\ Respond(r, NoCookies)
  /\ UNCHANGED <<now, users, jar, until, history, raced, sent, failures>>

-----------------------------------------------------------------------------
(* AuthMiddleware.requireAuth and refreshAccessToken.                      *)

\* Tokens.verifyToken: a token is good until its exp.
Unexpired(token, ttl) == now < token.iat + ttl

\* A good access token is let in; what happens behind is not modelled here.
Authenticate(r) ==
  /\ At(r, "authenticate")
  /\ LET cookies == request[r].cookies
     IN  IF \/ cookies.access # None /\ Unexpired(cookies.access, AccessTTL)
            \/ cookies.refresh = None
         THEN Respond(r, NoSet)
         ELSE GoTo(r, "look up")
  /\ UNCHANGED <<now, users, sessions, jar, until, history, raced, sent, failures>>

\* A session that may no longer be refreshed.
Over(t) ==
  /\ sessions[t] # None
  /\ \/ sessions[t].revoked
     \/ sessions[t].expires < now
     \/ ~Unexpired(t, RefreshTTL)

\* Faulty: the row is found and not looked at.
TrustingLookUpSession(r) ==
  /\ At(r, "look up")
  /\ LET t == request[r].cookies.refresh
     IN  IF sessions[t] # None /\ Unexpired(t, RefreshTTL) THEN GoTo(r, "issue") ELSE Respond(r, NoSet)
  /\ UNCHANGED <<now, users, sessions, jar, until, history, raced, sent, failures>>

LookUpSession(r) ==
  /\ At(r, "look up")
  /\ LET t == request[r].cookies.refresh
     IN  IF sessions[t] # None /\ ~Over(t) THEN GoTo(r, "issue") ELSE Respond(r, NoSet)
  /\ UNCHANGED <<now, users, sessions, jar, until, history, raced, sent, failures>>

\* A new access token for the user of the refresh token, which stays as it is.
Issue(r) ==
  /\ At(r, "issue")
  /\ LET new == [session |-> request[r].cookies.refresh, iat |-> now]
     IN  /\ issued' = issued \cup {new}
         /\ request' = [request EXCEPT ![r].pc = "last used", ![r].set = [access |-> new]]
  /\ UNCHANGED <<now, users, sessions, jar, until, created, opened, raced, sent, failures>>

UpdateLastUsed(r) ==
  /\ At(r, "last used")
  /\ GoTo(r, "answered")
  /\ UNCHANGED <<now, users, sessions, jar, until, history, raced, sent, failures>>

-----------------------------------------------------------------------------
\* Faulty: a failed insert is caught and the login answered as if it had been.
SwallowingFail(r) ==
  /\ At(r, "session")
  /\ failures < MaxFailures
  /\ failures' = failures + 1
  /\ Respond(r, Signed(r))
  /\ UNCHANGED <<now, users, sessions, jar, until, history, raced, sent>>

\* A query throws, and the answer is 500; the cookies set before may be in it.
Fail(r) ==
  /\ request[r].pc \notin {"idle", "answered"}
  /\ failures < MaxFailures
  /\ failures' = failures + 1
  /\ \E set \in {NoSet, request[r].set} : Respond(r, set)
  /\ UNCHANGED <<now, users, sessions, jar, until, history, raced, sent>>

Step(r) ==
  \/ \E op \in DOMAIN FirstStep, e \in Email : Send(r, op, e)
  \/ Deliver(r)
  \/ FindAccount(r) \/ CreateUser(r)
  \/ FindUser(r) \/ SignTokens(r) \/ CreateSession(r) \/ UpdateLastLogin(r)
  \/ Revoke(r)
  \/ Authenticate(r) \/ LookUpSession(r) \/ Issue(r) \/ UpdateLastUsed(r)
  \/ Fail(r)

Next == Tick \/ \E r \in Slot : Step(r)

Spec == Init /\ [][Next]_vars

-----------------------------------------------------------------------------
SetCookies ==
  {NoSet} \cup [access : Access \cup {None}] \cup [refresh : Token \cup {None}] \cup Cookies

Serving ==
  [pc : {"find account", "create", "find user", "sign", "session", "last login", "revoke",
         "authenticate", "look up", "issue", "last used", "answered"},
   email : Email, cookies : Cookies, iat : Time, set : SetCookies]

TypeOK ==
  /\ now \in Time
  /\ users \in SUBSET Email
  /\ sessions \in [Token -> Row \cup {None}]
  /\ jar \in Cookies
  /\ until \in [{"access", "refresh"} -> Nat]
  /\ request \in [Slot -> {Idle} \cup Serving]
  /\ issued \in SUBSET Access
  /\ created \in [Email -> Nat]
  /\ opened \in [Token -> Nat]
  /\ raced \in BOOLEAN
  /\ sent \in Nat
  /\ failures \in Nat

\* The refresh tokens the browser has or is about to get.
Held ==
  {jar.refresh} \cup {request[r].set.refresh :
    r \in {q \in Slot : ~At(q, "idle") /\ "refresh" \in DOMAIN request[q].set}}

\* A refresh token never reaches a browser without its row, whichever query of
\* a login fails: what a browser holds can be revoked.
HeldTokensHaveRows == \A t \in Held \ {None} : sessions[t] # None

\* However registrations and logins race, an address is told only once that it
\* has a new account, and two logins never get the same session: logging out
\* of one does not end another.
AnsweredOnce ==
  /\ \A e \in Email : created[e] <= 1 /\ (created[e] = 1 => e \in users)
  /\ \A t \in Token : opened[t] <= 1 /\ (opened[t] = 1 => sessions[t] # None)

Refreshing(t) ==
  {r \in Slot : request[r].pc \in {"issue", "last used"} /\ request[r].cookies.refresh = t}

\* Once a session is revoked or over, no request gets past refreshAccessToken
\* with it, and only those already past the look-up still issue access tokens
\* for it: with none of them left, the last access token is as old as it gets.
OverSessionsIssueNothing ==
  [][\A t \in Token : Over(t) =>
       /\ Refreshing(t)' \subseteq Refreshing(t)
       /\ \A a \in issued' \ issued : a.session = t => Refreshing(t) # {}]_vars

\* A browser that makes one request at a time never mixes sessions: its access
\* token is of the session its refresh token names, and after a logout it has
\* neither.  Only when the refresh token has run out may the browser have
\* dropped it and still hold an access token, refreshed shortly before.
\* (Requests that race do mix sessions: a refresh answered after a logout leaves
\* an access token without its session.)
JarIsOneSession ==
  ~raced /\ jar.access # None =>
    \/ jar.access.session = jar.refresh
    \/ jar.refresh = None /\ ~Unexpired(jar.access.session, RefreshTTL)
=============================================================================
