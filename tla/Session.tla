------------------------------- MODULE Session ------------------------------
(***************************************************************************)
(* The login session (backend/auth.go).  The whole session lives in the    *)
(* browser's cookie: a request carries a copy, the server decides from it, *)
(* and the response may replace or expire the browser's cookie when it     *)
(* arrives.  Requests of one browser overlap, and responses arrive in any  *)
(* order or not at all.                                                    *)
(*                                                                         *)
(* One browser and one user are modelled; GitHub's answers in the callback *)
(* are external.                                                           *)
(***************************************************************************)
EXTENDS Naturals

CONSTANTS
  Reqs,        \* the browser's request slots, used again and again
  States,      \* values randomState can return
  Idle,        \* the cookie's MaxAge, also the server's idle limit
  Refresh,     \* sessionRefreshInterval
  Absolute,    \* sessionAbsoluteMax
  MaxNow       \* bound on the clock

ASSUME SessionAssumption ==
  /\ Idle \in Nat /\ Refresh \in Nat /\ Absolute \in Nat /\ MaxNow \in Nat
  /\ Refresh <= Idle /\ Idle <= Absolute

VARIABLES
  now,
  jar,        \* the browser's cookie, and until when it keeps it
  states,     \* the states handed out
  pc,         \* per slot: "idle", "github" (a callback's calls) or "reply"
  reply,      \* the Set-Cookie of the response under way ...
  of,         \* ... and what it answers: "logout", "callback" or "other"
  crossed,    \* history: a request that began before the last logout arrived
  out,        \* history: a logout arrived, and no session since
  activity    \* history: <<login, time>> of the recent requests that were let
              \* in, by the login that made their session, and of logins

vars == <<now, jar, states, pc, reply, of, crossed, out, activity>>

NoState == "no state"
NoLogin == [user |-> FALSE, state |-> NoState, dated |-> FALSE, issued |-> 0,
            refreshed |-> 0, born |-> 0, legacy |-> FALSE]

\* A session of a build that kept no timestamps.
Legacy == [NoLogin EXCEPT !.user = TRUE, !.legacy = TRUE]

Keep    == [kind |-> "keep",   cookie |-> NoLogin]
Expire  == [kind |-> "expire", cookie |-> NoLogin]
Save(c) == [kind |-> "save",   cookie |-> c]

EmptyJar == [cookie |-> NoLogin, until |-> 0]

\* What sessionStore.Get makes of the request's cookie.
Sent == IF now <= jar.until THEN jar.cookie ELSE NoLogin

\* (Legacy sessions have no login to be counted from.)
Recent(ps) == {p \in ps : now <= p[2] + Idle}
Noted(c) == Recent(IF c.legacy THEN activity ELSE activity \cup {<<c.born, now>>})

-----------------------------------------------------------------------------
Init ==
  /\ now = 0
  /\ jar \in {EmptyJar, [cookie |-> Legacy, until |-> Idle]}
  /\ states = {}
  /\ pc      = [r \in Reqs |-> "idle"]
  /\ reply   = [r \in Reqs |-> Keep]
  /\ of      = [r \in Reqs |-> "other"]
  /\ crossed = [r \in Reqs |-> FALSE]
  /\ out     = FALSE
  /\ activity = {}

NoIdleLimit(c) == c.dated /\ now > c.issued + Absolute

\* authMiddleware's limits; a session without timestamps is within them.
OverLimit(c) == c.dated /\ (now > c.issued + Absolute \/ now > c.refreshed + Idle)

Due(c) == ~c.dated \/ now >= c.refreshed + Refresh

RefreshRestartsLimit(c) == [c EXCEPT !.dated = TRUE, !.issued = now, !.refreshed = now]

\* The re-issued cookie: the copy the request carried, with a new
\* refreshed_at, and with an issued_at if it had none.
Refreshed(c) == [c EXCEPT !.dated = TRUE, !.refreshed = now,
                          !.issued = IF c.dated THEN @ ELSE now]

\* The middleware's answer when the handler sets no cookie itself.
Sliding(c) == IF Due(c) THEN Save(Refreshed(c)) ELSE Keep

Respond(r, set, what) ==
  /\ pc'    = [pc EXCEPT ![r] = "reply"]
  /\ reply' = [reply EXCEPT ![r] = set]
  /\ of'    = [of EXCEPT ![r] = what]
  /\ crossed' = [crossed EXCEPT ![r] = FALSE]

\* A protected request without a session: 401.
Unauthenticated(r) ==
  /\ pc[r] = "idle" /\ ~Sent.user
  /\ Respond(r, Keep, "other")
  /\ UNCHANGED <<now, jar, states, out, activity>>

\* A session past its limits: 401, and the cookie is expired.
TimedOut(r) ==
  /\ pc[r] = "idle" /\ Sent.user /\ OverLimit(Sent)
  /\ Respond(r, Expire, "other")
  /\ UNCHANGED <<now, jar, states, out, activity>>

\* A request that is let in; its cookie is refreshed when that is due.
Accepted(r) ==
  /\ pc[r] = "idle" /\ Sent.user /\ ~OverLimit(Sent)
  /\ Respond(r, Sliding(Sent), "other")
  /\ activity' = Noted(Sent)
  /\ UNCHANGED <<now, jar, states, out>>

RefreshHasLastWord(c) == IF Due(c) THEN Save(Refreshed(c)) ELSE Expire

\* POST /api/auth/logout: the handler's expired cookie keeps the middleware
\* from adding a refreshed one.
LogoutCookie(c) == Expire

Logout(r) ==
  /\ pc[r] = "idle" /\ Sent.user /\ ~OverLimit(Sent)
  /\ Respond(r, LogoutCookie(Sent), "logout")
  /\ activity' = Noted(Sent)
  /\ UNCHANGED <<now, jar, states, out>>

\* GET /api/auth/login keeps the session it finds and adds a state to it.
Login(r, s) ==
  /\ pc[r] = "idle" /\ s \notin states
  /\ states' = states \cup {s}
  /\ Respond(r, Save([Sent EXCEPT !.state = s]), "other")
  /\ UNCHANGED <<now, jar, out, activity>>

\* GET /api/auth/callback: the state must be the cookie's.
CallbackForbidden(r, s) ==
  /\ pc[r] = "idle" /\ Sent.state # s
  /\ Respond(r, Keep, "other")
  /\ UNCHANGED <<now, jar, states, out, activity>>

Callback(r, s) ==
  /\ pc[r] = "idle" /\ Sent.state = s
  /\ pc' = [pc EXCEPT ![r] = "github"]
  /\ crossed' = [crossed EXCEPT ![r] = FALSE]
  /\ UNCHANGED <<now, jar, states, reply, of, out, activity>>

\* A session of its own: nothing of the old cookie carries over.
NewSession == [NoLogin EXCEPT !.user = TRUE, !.dated = TRUE, !.issued = now,
                              !.refreshed = now, !.born = now]

\* GitHub vouches for the user's membership; or an exchange or a check fails
\* and the cookie stays as it is.
CallbackDone(r) ==
  /\ pc[r] = "github"
  /\ pc'    = [pc EXCEPT ![r] = "reply"]
  /\ reply' = [reply EXCEPT ![r] = Save(NewSession)]
  /\ of'    = [of EXCEPT ![r] = "callback"]
  /\ activity' = Recent(activity \cup {<<now, now>>})
  /\ UNCHANGED <<now, jar, states, crossed, out>>

CallbackFails(r) ==
  /\ pc[r] = "github"
  /\ pc'    = [pc EXCEPT ![r] = "reply"]
  /\ reply' = [reply EXCEPT ![r] = Keep]
  /\ of'    = [of EXCEPT ![r] = "other"]
  /\ UNCHANGED <<now, jar, states, crossed, out, activity>>

\* The response's headers reach the browser.
Arrives(r) ==
  LET set == reply[r] IN
  /\ pc[r] = "reply"
  /\ pc' = [pc EXCEPT ![r] = "idle"]
  /\ jar' = CASE set.kind = "keep"   -> jar
              [] set.kind = "save"   -> [cookie |-> set.cookie, until |-> now + Idle]
              [] set.kind = "expire" -> EmptyJar
  /\ reply'   = [reply EXCEPT ![r] = Keep]
  /\ of'      = [of EXCEPT ![r] = "other"]
  /\ out'     = (of[r] = "logout" \/ (out /\ ~set.cookie.user))
  /\ crossed' = IF of[r] = "logout"
                THEN [q \in Reqs |-> q # r /\ pc[q] # "idle"] ELSE crossed
  /\ UNCHANGED <<now, states, activity>>

\* Or never does.
Lost(r) ==
  /\ pc[r] = "reply"
  /\ pc'    = [pc EXCEPT ![r] = "idle"]
  /\ reply' = [reply EXCEPT ![r] = Keep]
  /\ of'    = [of EXCEPT ![r] = "other"]
  /\ UNCHANGED <<now, jar, states, crossed, out, activity>>

Tick ==
  /\ now < MaxNow
  /\ now' = now + 1
  /\ activity' = {p \in activity : now + 1 <= p[2] + Idle}
  /\ UNCHANGED <<jar, states, pc, reply, of, crossed, out>>

Next ==
  \/ Tick
  \/ \E r \in Reqs :
       \/ Unauthenticated(r) \/ TimedOut(r) \/ Accepted(r) \/ Logout(r)
       \/ CallbackDone(r) \/ CallbackFails(r) \/ Arrives(r) \/ Lost(r)
       \/ \E s \in States : Login(r, s) \/ CallbackForbidden(r, s) \/ Callback(r, s)

Spec == Init /\ [][Next]_vars

-----------------------------------------------------------------------------
(* Properties *)

Cookie == [user : BOOLEAN, state : States \cup {NoState}, dated : BOOLEAN, issued : Nat,
           refreshed : Nat, born : Nat, legacy : BOOLEAN]

\* Every variable has its type, and a session without timestamps comes from an
\* older build.
TypeOK ==
  /\ now \in Nat
  /\ jar \in [cookie : Cookie, until : Nat]
  /\ jar.cookie.user /\ ~jar.cookie.dated => jar.cookie.legacy
  /\ states \subseteq States
  /\ pc \in [Reqs -> {"idle", "github", "reply"}]
  /\ reply \in [Reqs -> [kind : {"keep", "expire", "save"}, cookie : Cookie]]
  /\ of \in [Reqs -> {"other", "logout", "callback"}]
  /\ crossed \in [Reqs -> BOOLEAN] /\ out \in BOOLEAN
  /\ activity \subseteq Nat \X Nat

\* However refreshed cookies overtake each other, get lost or come back, no
\* request is let in more than Absolute after the login that made its session.
AbsoluteLimit == \A p \in activity : p[2] <= p[1] + Absolute

\* Nor is one when its session was left alone for more than Idle, although a
\* visit to the login page makes the browser keep the cookie longer.
IdleLimit ==
  [][\A p \in activity' \ activity :
       p[1] # p[2] => \E z \in activity : z[1] = p[1]]_vars

\* The inductive invariant behind the two limits: a copy of a dated session
\* counts its absolute limit from the login that made it, and while its idle
\* limit has not passed, the request that refreshed it last is remembered (at
\* time t, when acts are the remembered ones).
Honest(c, t, acts) ==
  c.user /\ ~c.legacy =>
    /\ c.dated /\ c.issued = c.born /\ c.refreshed <= t
    /\ t <= c.refreshed + Idle =>
         \E q \in acts : q[1] = c.born /\ c.refreshed <= q[2]

HonestCopies ==
  /\ Honest(jar.cookie, now, activity)
  /\ \A r \in Reqs : Honest(reply[r].cookie, now, activity)

LimitInv == TypeOK /\ HonestCopies /\ AbsoluteLimit

\* The response of r gives the browser a session that a logout had ended.
Revives(r) ==
  /\ pc[r] = "reply" /\ pc'[r] = "idle"
  /\ jar'.cookie.user
  /\ \/ of[r] = "logout" /\ out'
     \/ out /\ ~jar.cookie.user

\* "The handler gets the last word": a logout that arrives ends the session,
\* and after it only a login, or the response to a request that was under way
\* when it arrived, starts one.  (That such a response does is the price of
\* keeping no session on the server.)
OnlyCrossingsUndoLogout ==
  [][\A r \in Reqs : Revives(r) => of[r] = "callback" \/ (crossed[r] /\ of[r] = "other")]_vars

\* The inductive invariant behind OnlyCrossingsUndoLogout: after a logout the
\* browser holds no session, and the only responses under way that could give
\* it one are a login's and those that crossed it.
LogoutInv ==
  /\ TypeOK
  /\ out => ~jar.cookie.user
  /\ \A r \in Reqs :
       /\ of[r] = "logout" => reply[r].kind = "expire"
       /\ pc[r] = "reply" /\ of[r] = "other" /\ out /\ reply[r].cookie.user => crossed[r]
=============================================================================
