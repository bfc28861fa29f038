---------------------------- MODULE ConsoleProofs ----------------------------
(***************************************************************************)
(* Proofs about Session: the two limits and logout, for any number of      *)
(* overlapping requests, any states and any limits, with no bound on the   *)
(* clock but MaxNow; and about Console, whose pages a session lets in:     *)
(* what the cache shows, what the forms keep, send and confirm, for every  *)
(* operation and every query, any endpoints and any number of changes.     *)
(***************************************************************************)
EXTENDS Session, Console, FiniteSetTheorems, WellFoundedInduction, TLAPS

Response == [kind : {"keep", "expire", "save"}, cookie : Cookie]

-----------------------------------------------------------------------------
(* What the operations on cookies return *)

LEMMA NoLoginCookie ==
  /\ NoLogin \in Cookie /\ ~NoLogin.user
  /\ Keep \in Response /\ Keep.kind = "keep" /\ ~Keep.cookie.user
  /\ Expire \in Response /\ Expire.kind = "expire" /\ ~Expire.cookie.user
  /\ EmptyJar \in [cookie : Cookie, until : Nat] /\ ~EmptyJar.cookie.user
BY DEF NoLogin, Cookie, Keep, Expire, Response, EmptyJar

LEMMA LegacyCookie ==
  /\ Legacy \in Cookie /\ Legacy.legacy
  /\ [cookie |-> Legacy, until |-> Idle] \in [cookie : Cookie, until : Nat]
<1>1. Legacy \in Cookie /\ Legacy.legacy
  BY DEF Legacy, NoLogin, Cookie
<1> QED
  BY <1>1, SessionAssumption

\* A response that saves a cookie.
LEMMA SaveResponse ==
  ASSUME NEW c \in Cookie
  PROVE  Save(c) \in Response /\ Save(c).kind = "save" /\ Save(c).cookie = c
BY DEF Save, Response

\* The refreshed copy is of the same session and keeps the time it was issued.
LEMMA RefreshedCookie ==
  ASSUME NEW c \in Cookie, now \in Nat
  PROVE  /\ Refreshed(c) \in Cookie
         /\ Refreshed(c).user = c.user /\ Refreshed(c).born = c.born
         /\ Refreshed(c).legacy = c.legacy
         /\ Refreshed(c).dated = TRUE /\ Refreshed(c).refreshed = now
         /\ Refreshed(c).issued = IF c.dated THEN c.issued ELSE now
BY DEF Refreshed, Cookie

\* The login page only adds a state.
LEMMA StateCookie ==
  ASSUME NEW c \in Cookie, NEW s \in States
  PROVE  LET d == [c EXCEPT !.state = s] IN
         /\ d \in Cookie
         /\ d.user = c.user /\ d.born = c.born /\ d.legacy = c.legacy
         /\ d.dated = c.dated /\ d.refreshed = c.refreshed /\ d.issued = c.issued
BY DEF Cookie

LEMMA NewSessionCookie ==
  ASSUME now \in Nat
  PROVE  /\ NewSession \in Cookie
         /\ NewSession.user /\ NewSession.dated /\ ~NewSession.legacy
         /\ NewSession.born = now /\ NewSession.issued = now /\ NewSession.refreshed = now
<1>1. NoLogin \in Cookie /\ NoLogin.legacy = FALSE
  BY NoLoginCookie DEF NoLogin
<1> QED
  BY <1>1 DEF NewSession, Cookie

\* A request carries the browser's cookie or none.
LEMMA SentCookie ==
  ASSUME TypeOK
  PROVE  Sent \in Cookie /\ Sent \in {jar.cookie, NoLogin}
BY NoLoginCookie DEF TypeOK, Sent

LEMMA NotedType ==
  ASSUME TypeOK, NEW c \in Cookie
  PROVE  Noted(c) \subseteq Nat \X Nat
BY DEF TypeOK, Noted, Recent, Cookie

-----------------------------------------------------------------------------
(* Types *)

\* The variables a request slot owns, after a response was made.
LEMMA RespondType ==
  ASSUME TypeOK, NEW r \in Reqs, NEW set \in Response,
         NEW what \in {"other", "logout", "callback"}, Respond(r, set, what)
  PROVE  /\ pc' \in [Reqs -> {"idle", "github", "reply"}]
         /\ reply' \in [Reqs -> Response]
         /\ of' \in [Reqs -> {"other", "logout", "callback"}]
         /\ crossed' \in [Reqs -> BOOLEAN]
BY DEF TypeOK, Respond, Response

\* The middleware's answer.
LEMMA SlidingResponse ==
  ASSUME NEW c \in Cookie, now \in Nat
  PROVE  /\ Sliding(c) \in Response
         /\ Sliding(c).kind # "expire"
         /\ Sliding(c) = Keep \/ Sliding(c).cookie = Refreshed(c)
<1>1. Save(Refreshed(c)) \in Response /\ Save(Refreshed(c)).kind = "save"
      /\ Save(Refreshed(c)).cookie = Refreshed(c)
  BY RefreshedCookie, SaveResponse
<1> QED
  BY <1>1, NoLoginCookie DEF Sliding

\* What the cookie jar holds once a response has arrived.
LEMMA ArrivalJar ==
  ASSUME TypeOK, NEW r \in Reqs, Arrives(r)
  PROVE  /\ reply[r] \in Response
         /\ reply[r].kind = "keep"   => jar' = jar
         /\ reply[r].kind = "save"   => jar' = [cookie |-> reply[r].cookie, until |-> now + Idle]
         /\ reply[r].kind = "expire" => jar' = EmptyJar
         /\ jar' \in [cookie : Cookie, until : Nat]
<1>1. /\ reply[r] \in Response /\ jar \in [cookie : Cookie, until : Nat]
      /\ now \in Nat /\ Idle \in Nat
  BY SessionAssumption DEF TypeOK, Response
<1>2. /\ reply[r].kind = "keep"   => jar' = jar
      /\ reply[r].kind = "save"   => jar' = [cookie |-> reply[r].cookie, until |-> now + Idle]
      /\ reply[r].kind = "expire" => jar' = EmptyJar
  BY DEF Arrives
<1>3. reply[r].cookie \in Cookie /\ reply[r].kind \in {"keep", "save", "expire"}
  BY <1>1 DEF Response
<1>4. [cookie |-> reply[r].cookie, until |-> now + Idle] \in [cookie : Cookie, until : Nat]
  BY <1>1, <1>3
<1> QED
  BY <1>1, <1>2, <1>3, <1>4, NoLoginCookie

\* Type correctness is kept by every step.
LEMMA TypeStep ==
  ASSUME TypeOK, HonestCopies, Next
  PROVE  TypeOK'
<1>0. Sent \in Cookie /\ now \in Nat /\ Idle \in Nat /\ activity \subseteq Nat \X Nat
  BY SentCookie, SessionAssumption DEF TypeOK
<1>1. ASSUME NEW r \in Reqs, NEW set \in Response,
             NEW what \in {"other", "logout", "callback"}, Respond(r, set, what),
             UNCHANGED <<now, jar, out>>, states' \subseteq States,
             activity' \subseteq Nat \X Nat
      PROVE  TypeOK'
  BY <1>1, RespondType DEF TypeOK, Response
<1>2. ASSUME NEW r \in Reqs, Unauthenticated(r) \/ TimedOut(r) PROVE TypeOK'
  BY <1>0, <1>1, <1>2, NoLoginCookie DEF Unauthenticated, TimedOut, TypeOK
<1>3. ASSUME NEW r \in Reqs, Accepted(r) PROVE TypeOK'
  <2>1. Sliding(Sent) \in Response /\ activity' \subseteq Nat \X Nat
    BY <1>0, <1>3, SlidingResponse, NotedType DEF Accepted
  <2> QED
    BY <2>1, <1>1, <1>3 DEF Accepted, TypeOK
<1>4. ASSUME NEW r \in Reqs, Logout(r) PROVE TypeOK'
  <2>1. LogoutCookie(Sent) \in Response /\ activity' \subseteq Nat \X Nat
    BY <1>0, <1>4, NoLoginCookie, NotedType DEF Logout, LogoutCookie
  <2> QED
    BY <2>1, <1>1, <1>4 DEF Logout, TypeOK
<1>5. ASSUME NEW r \in Reqs, NEW s \in States, Login(r, s) PROVE TypeOK'
  <2>1. Save([Sent EXCEPT !.state = s]) \in Response
    BY <1>0, StateCookie, SaveResponse
  <2> QED
    BY <2>1, <1>0, <1>1, <1>5 DEF Login, TypeOK
<1>6. ASSUME NEW r \in Reqs, NEW s \in States, CallbackForbidden(r, s) PROVE TypeOK'
  BY <1>0, <1>1, <1>6, NoLoginCookie DEF CallbackForbidden, TypeOK
<1>7. ASSUME NEW r \in Reqs, NEW s \in States, Callback(r, s) PROVE TypeOK'
  BY <1>7 DEF Callback, TypeOK
<1>8. ASSUME NEW r \in Reqs, CallbackDone(r) PROVE TypeOK'
  <2>1. Save(NewSession) \in Response /\ activity' \subseteq Nat \X Nat
    BY <1>0, <1>8, NewSessionCookie, SaveResponse DEF CallbackDone, Recent
  <2> QED
    BY <2>1, <1>8 DEF CallbackDone, TypeOK, Response
<1>9. ASSUME NEW r \in Reqs, CallbackFails(r) \/ Lost(r) PROVE TypeOK'
  <2>1. reply' = [reply EXCEPT ![r] = Keep] /\ of' = [of EXCEPT ![r] = "other"]
    BY <1>9 DEF CallbackFails, Lost
  <2>2. reply' \in [Reqs -> Response] /\ of' \in [Reqs -> {"other", "logout", "callback"}]
    BY <2>1, NoLoginCookie DEF TypeOK, Response
  <2>3. /\ pc' \in [Reqs -> {"idle", "github", "reply"}]
        /\ UNCHANGED <<now, jar, states, crossed, out, activity>>
    BY <1>9 DEF CallbackFails, Lost, TypeOK
  <2> QED
    BY <2>2, <2>3 DEF TypeOK, Response
<1>10. ASSUME NEW r \in Reqs, Arrives(r) PROVE TypeOK'
  <2>1. /\ jar' \in [cookie : Cookie, until : Nat]
        /\ jar'.cookie \in {jar.cookie, reply[r].cookie, EmptyJar.cookie}
    BY <1>10, ArrivalJar DEF Response
  <2>2. jar'.cookie.user /\ ~jar'.cookie.dated => jar'.cookie.legacy
    BY <2>1, NoLoginCookie DEF HonestCopies, Honest
  <2>3. reply[r].cookie.user \in BOOLEAN /\ out \in BOOLEAN
    BY <1>10, ArrivalJar DEF Response, Cookie, TypeOK
  <2>4. out' \in BOOLEAN /\ crossed' \in [Reqs -> BOOLEAN]
    BY <1>10, <2>3 DEF Arrives, TypeOK
  <2>5. /\ pc' \in [Reqs -> {"idle", "github", "reply"}]
        /\ of' \in [Reqs -> {"other", "logout", "callback"}]
        /\ UNCHANGED <<now, states, activity>>
    BY <1>10 DEF Arrives, TypeOK
  <2>6. reply' \in [Reqs -> Response]
    BY <1>10, NoLoginCookie DEF Arrives, TypeOK, Response
  <2> QED
    BY <2>1, <2>2, <2>4, <2>5, <2>6 DEF TypeOK, Response
<1>11. CASE Tick
  BY <1>0, <1>11 DEF Tick, TypeOK
<1> QED
  BY <1>2, <1>3, <1>4, <1>5, <1>6, <1>7, <1>8, <1>9, <1>10, <1>11 DEF Next

-----------------------------------------------------------------------------
(* The limits *)

\* A copy under way stays honest while time passes and recent activity is
\* remembered.
LEMMA HonestKept ==
  ASSUME NEW c \in Cookie, NEW t \in Nat, NEW u \in Nat, t <= u,
         NEW A \in SUBSET (Nat \X Nat), NEW B \in SUBSET (Nat \X Nat),
         \A z \in A : u <= z[2] + Idle => z \in B,
         Honest(c, t, A)
  PROVE  Honest(c, u, B)
<1> SUFFICES ASSUME c.user, ~c.legacy
             PROVE  /\ c.dated /\ c.issued = c.born /\ c.refreshed <= u
                    /\ u <= c.refreshed + Idle =>
                         \E z \in B : z[1] = c.born /\ c.refreshed <= z[2]
  BY DEF Honest
<1>1. c.refreshed \in Nat /\ Idle \in Nat
  BY SessionAssumption DEF Cookie
<1>2. c.dated /\ c.issued = c.born /\ c.refreshed <= t
  BY DEF Honest
<1>3. ASSUME u <= c.refreshed + Idle
      PROVE  \E z \in B : z[1] = c.born /\ c.refreshed <= z[2]
  <2>1. PICK z \in A : z[1] = c.born /\ c.refreshed <= z[2]
    BY <1>1, <1>3 DEF Honest
  <2>2. z[2] \in Nat
    BY <2>1
  <2>3. u <= z[2] + Idle
    BY <1>1, <1>3, <2>1, <2>2
  <2> QED
    BY <2>1, <2>3
<1> QED
  BY <1>1, <1>2, <1>3

\* A request that is let in is within both limits, and is remembered.
LEMMA NotedFacts ==
  ASSUME TypeOK, NEW c \in Cookie, c.user, ~OverLimit(c), Honest(c, now, activity)
  PROVE  /\ \A z \in activity : now <= z[2] + Idle => z \in Noted(c)
         /\ ~c.legacy => /\ <<c.born, now>> \in Noted(c)
                         /\ now <= c.born + Absolute
                         /\ \E z \in activity : z[1] = c.born
         /\ \A p \in Noted(c) \ activity : ~c.legacy /\ p = <<c.born, now>>
         /\ Honest(Refreshed(c), now, Noted(c))
<1>1. /\ now \in Nat /\ Idle \in Nat /\ Absolute \in Nat
      /\ c.born \in Nat /\ c.issued \in Nat /\ c.refreshed \in Nat
  BY SessionAssumption DEF TypeOK, Cookie
<1>2. \A z \in activity : now <= z[2] + Idle => z \in Noted(c)
  BY DEF Noted, Recent
<1>3. ~c.legacy => <<c.born, now>> \in Noted(c)
  BY <1>1 DEF Noted, Recent
<1>4. ASSUME ~c.legacy
      PROVE  now <= c.born + Absolute /\ \E z \in activity : z[1] = c.born
  <2>1. c.dated /\ c.issued = c.born
    BY <1>4 DEF Honest
  <2>2. now <= c.issued + Absolute /\ now <= c.refreshed + Idle
    BY <1>1, <2>1 DEF OverLimit
  <2> QED
    BY <1>4, <2>1, <2>2 DEF Honest
<1>5. \A p \in Noted(c) \ activity : ~c.legacy /\ p = <<c.born, now>>
  BY DEF Noted, Recent
<1>6. Honest(Refreshed(c), now, Noted(c))
  <2> SUFFICES ASSUME ~c.legacy
               PROVE  /\ Refreshed(c).dated /\ Refreshed(c).issued = Refreshed(c).born
                      /\ Refreshed(c).refreshed <= now
                      /\ \E z \in Noted(c) : /\ z[1] = Refreshed(c).born
                                             /\ Refreshed(c).refreshed <= z[2]
    BY <1>1, RefreshedCookie DEF Honest
  <2>1. c.dated /\ c.issued = c.born
    BY DEF Honest
  <2>2. /\ Refreshed(c).dated /\ Refreshed(c).issued = c.born
        /\ Refreshed(c).born = c.born /\ Refreshed(c).refreshed = now
    BY <1>1, <2>1, RefreshedCookie
  <2>3. <<c.born, now>>[1] = c.born /\ <<c.born, now>>[2] = now /\ now <= now
    BY <1>1
  <2>4. \E z \in Noted(c) : z[1] = c.born /\ now <= z[2]
    BY <1>3, <2>3
  <2> QED
    BY <2>2, <2>3, <2>4
<1> QED
  BY <1>2, <1>3, <1>4, <1>5, <1>6

\* The copies of sessions there are.
Copies == {jar.cookie, NoLogin} \cup {reply[z].cookie : z \in Reqs}

\* A step that only moves copies around and remembers recent activity keeps
\* them honest; the copy in a new response is the response's own affair.
LEMMA CopiesKept ==
  ASSUME TypeOK, HonestCopies, now' \in Nat, now <= now', activity' \in SUBSET (Nat \X Nat),
         \A z \in activity : now' <= z[2] + Idle => z \in activity',
         jar'.cookie \in Copies,
         \A s \in Reqs : \/ reply'[s].cookie \in Copies
                         \/ Honest(reply'[s].cookie, now', activity')
  PROVE  HonestCopies'
<1>1. ASSUME NEW c \in Copies PROVE Honest(c, now', activity')
  <2>1. c \in Cookie /\ Honest(c, now, activity)
    BY NoLoginCookie DEF Copies, HonestCopies, Honest, TypeOK
  <2>2. now \in Nat /\ activity \in SUBSET (Nat \X Nat)
    BY DEF TypeOK
  <2> QED
    BY <2>1, <2>2, HonestKept
<1> QED
  BY <1>1 DEF HonestCopies

\* The case of a response that was just made.
LEMMA RespondKept ==
  ASSUME TypeOK, HonestCopies, NEW r \in Reqs, NEW set, NEW what, Respond(r, set, what),
         UNCHANGED <<now, jar>>, activity' \in SUBSET (Nat \X Nat),
         \A z \in activity : now <= z[2] + Idle => z \in activity',
         set.cookie \in Copies \/ Honest(set.cookie, now, activity')
  PROVE  HonestCopies'
<1>1. now \in Nat /\ now <= now /\ jar.cookie \in Copies
  BY DEF TypeOK, Copies
<1>2. \A s \in Reqs : reply'[s] = IF s = r THEN set ELSE reply[s]
  BY DEF Respond, TypeOK
<1>3. \A s \in Reqs : reply[s].cookie \in Copies
  BY DEF Copies
<1>4. \A s \in Reqs : \/ reply'[s].cookie \in Copies
                       \/ Honest(reply'[s].cookie, now', activity')
  BY <1>2, <1>3
<1> QED
  BY <1>1, <1>4, CopiesKept

\* A request that is let in is remembered, and leaves the session's copies
\* honest and every request within its limits.
LEMMA LetInStep ==
  ASSUME LimitInv, NEW r \in Reqs, Accepted(r) \/ Logout(r)
  PROVE  /\ HonestCopies' /\ AbsoluteLimit'
         /\ \A p \in activity' \ activity : \E z \in activity : z[1] = p[1]
<1> DEFINE c == Sent
<1>1. /\ TypeOK /\ HonestCopies /\ AbsoluteLimit
      /\ c \in Cookie /\ Honest(c, now, activity) /\ c.user /\ ~OverLimit(c)
      /\ now \in Nat /\ activity \in SUBSET (Nat \X Nat)
  BY SentCookie DEF LimitInv, Accepted, Logout, HonestCopies, Honest, TypeOK, NoLogin
<1>2. activity' = Noted(c) /\ Noted(c) \in SUBSET (Nat \X Nat) /\ UNCHANGED <<now, jar>>
  BY <1>1, NotedType DEF Accepted, Logout
<1> HIDE DEF c
<1>3. /\ \A z \in activity : now <= z[2] + Idle => z \in activity'
      /\ ~c.legacy => now <= c.born + Absolute /\ \E z \in activity : z[1] = c.born
      /\ \A p \in activity' \ activity : ~c.legacy /\ p = <<c.born, now>>
      /\ Honest(Refreshed(c), now, activity')
  BY <1>1, <1>2, NotedFacts
<1>4. HonestCopies'
  <2>1. CASE Accepted(r)
    <3>1. Respond(r, Sliding(c), "other")
      BY <2>1 DEF Accepted, c
    <3>2. Sliding(c).cookie \in Copies \/ Honest(Sliding(c).cookie, now, activity')
      <4>1. Keep.cookie \in Copies
        BY DEF Keep, Copies
      <4> QED
        BY <1>1, <1>3, <4>1, SlidingResponse
    <3> QED
      BY <1>1, <1>2, <1>3, <3>1, <3>2, RespondKept
  <2>2. CASE Logout(r)
    <3>1. Respond(r, Expire, "logout") /\ Expire.cookie \in Copies
      BY <2>2 DEF Logout, LogoutCookie, Expire, Copies
    <3> QED
      BY <1>1, <1>2, <1>3, <3>1, RespondKept
  <2> QED
    BY <2>1, <2>2
<1>5. ASSUME NEW p \in activity' \ activity
      PROVE  p[2] <= p[1] + Absolute /\ \E z \in activity : z[1] = p[1]
  <2>1. p = <<c.born, now>> /\ now <= c.born + Absolute /\ \E z \in activity : z[1] = c.born
    BY <1>3, <1>5
  <2> QED
    BY <2>1
<1> QED
  BY <1>1, <1>4, <1>5 DEF AbsoluteLimit

\* Every other step keeps the limits too, and remembers nothing but logins.
LEMMA OtherStep ==
  ASSUME LimitInv, Next, \A r \in Reqs : ~Accepted(r) /\ ~Logout(r)
  PROVE  /\ HonestCopies' /\ AbsoluteLimit'
         /\ \A p \in activity' \ activity : p[1] = p[2]
<1>0. /\ TypeOK /\ HonestCopies /\ AbsoluteLimit /\ now \in Nat /\ now <= now
      /\ activity \in SUBSET (Nat \X Nat) /\ Idle \in Nat /\ Absolute \in Nat
      /\ jar.cookie \in Copies /\ Keep.cookie \in Copies /\ Expire.cookie \in Copies
      /\ \A s \in Reqs : reply[s].cookie \in Copies
  BY SessionAssumption DEF LimitInv, TypeOK, Copies, Keep, Expire
<1>1. ASSUME NEW r \in Reqs, Unauthenticated(r) \/ TimedOut(r)
             \/ \E s \in States : CallbackForbidden(r, s)
      PROVE  HonestCopies' /\ UNCHANGED activity
  <2>1. \E set \in {Keep, Expire} : Respond(r, set, "other")
    BY <1>1 DEF Unauthenticated, TimedOut, CallbackForbidden
  <2>2. UNCHANGED <<now, jar, activity>>
    BY <1>1 DEF Unauthenticated, TimedOut, CallbackForbidden
  <2> QED
    BY <1>0, <2>1, <2>2, RespondKept
<1>2. ASSUME NEW r \in Reqs, NEW s \in States, Login(r, s)
      PROVE  HonestCopies' /\ UNCHANGED activity
  <2> DEFINE d == [Sent EXCEPT !.state = s]
  <2>1. Respond(r, Save(d), "other") /\ UNCHANGED <<now, jar, activity>>
    BY <1>2 DEF Login
  <2>2. Sent \in Cookie /\ Honest(Sent, now, activity)
    BY <1>0, SentCookie, NoLoginCookie DEF HonestCopies, Honest
  <2>3. Honest(d, now, activity) /\ Save(d).cookie = d
    BY <2>2, StateCookie DEF Honest, Save
  <2> HIDE DEF d
  <2> QED
    BY <1>0, <2>1, <2>3, RespondKept
<1>3. ASSUME NEW r \in Reqs, NEW s \in States, Callback(r, s)
      PROVE  HonestCopies' /\ UNCHANGED activity
  BY <1>0, <1>3, CopiesKept DEF Callback
<1>4. ASSUME NEW r \in Reqs, CallbackFails(r) \/ Lost(r)
      PROVE  HonestCopies' /\ UNCHANGED activity
  <2>1. UNCHANGED <<now, jar, activity>> /\ reply' = [reply EXCEPT ![r] = Keep]
    BY <1>4 DEF CallbackFails, Lost
  <2>2. \A s \in Reqs : reply'[s] \in {Keep, reply[s]}
    BY <1>0, <2>1 DEF TypeOK
  <2>3. \A s \in Reqs : reply'[s].cookie \in Copies
    BY <1>0, <2>2
  <2> QED
    BY <1>0, <2>1, <2>3, CopiesKept
<1>5. ASSUME NEW r \in Reqs, CallbackDone(r)
      PROVE  HonestCopies' /\ activity' \subseteq activity \cup {<<now, now>>}
  <2>1. /\ UNCHANGED <<now, jar>> /\ reply' = [reply EXCEPT ![r] = Save(NewSession)]
        /\ activity' = {p \in activity \cup {<<now, now>>} : now <= p[2] + Idle}
    BY <1>5 DEF CallbackDone, Recent
  <2>2. Save(NewSession).cookie = NewSession
    BY DEF Save
  <2>3. <<now, now>> \in activity' /\ <<now, now>>[1] = now /\ <<now, now>>[2] = now
    BY <1>0, <2>1
  <2>4. \E z \in activity' : z[1] = now /\ now <= z[2]
    BY <1>0, <2>3
  <2>5. Honest(NewSession, now, activity')
    BY <1>0, <2>4, NewSessionCookie DEF Honest
  <2>6. \A s \in Reqs : reply'[s] \in {Save(NewSession), reply[s]}
    BY <1>0, <2>1 DEF TypeOK
  <2>7. \A s \in Reqs : \/ reply'[s].cookie \in Copies
                         \/ Honest(reply'[s].cookie, now', activity')
    BY <1>0, <2>1, <2>2, <2>5, <2>6
  <2>8. activity' \in SUBSET (Nat \X Nat) /\ \A z \in activity : now <= z[2] + Idle => z \in activity'
    BY <1>0, <2>1
  <2> QED
    BY <1>0, <2>1, <2>7, <2>8, CopiesKept
<1>6. ASSUME NEW r \in Reqs, Arrives(r)
      PROVE  HonestCopies' /\ UNCHANGED activity
  <2>1. UNCHANGED <<now, activity>> /\ reply' = [reply EXCEPT ![r] = Keep]
    BY <1>6 DEF Arrives
  <2>2. \A s \in Reqs : reply'[s] \in {Keep, reply[s]}
    BY <1>0, <2>1 DEF TypeOK
  <2>3. \A s \in Reqs : reply'[s].cookie \in Copies
    BY <1>0, <2>2
  <2>4. jar'.cookie \in {jar.cookie, reply[r].cookie, NoLogin}
    BY <1>0, <1>6, ArrivalJar DEF Response, EmptyJar
  <2>5. jar'.cookie \in Copies
    BY <1>0, <2>4 DEF Copies
  <2>6. /\ now' \in Nat /\ now <= now' /\ activity' \in SUBSET (Nat \X Nat)
        /\ \A z \in activity : now' <= z[2] + Idle => z \in activity'
    BY <1>0, <2>1
  <2> QED
    BY <1>0, <2>1, <2>3, <2>5, <2>6, CopiesKept
<1>7. CASE Tick
  <2>1. /\ now' = now + 1 /\ UNCHANGED <<jar, reply>>
        /\ activity' = {p \in activity : now + 1 <= p[2] + Idle}
    BY <1>7 DEF Tick
  <2>2. now' \in Nat /\ now <= now' /\ activity' \in SUBSET (Nat \X Nat)
    BY <1>0, <2>1
  <2>3. HonestCopies'
    BY <1>0, <2>1, <2>2, CopiesKept
  <2>4. activity' \subseteq activity
    BY <2>1
  <2> QED
    BY <1>0, <2>3, <2>4 DEF AbsoluteLimit
<1>8. now <= now + Absolute /\ <<now, now>>[1] = now /\ <<now, now>>[2] = now
  BY <1>0
<1> QED
  BY <1>0, <1>1, <1>2, <1>3, <1>4, <1>5, <1>6, <1>7, <1>8 DEF Next, AbsoluteLimit

\* Both limits rest on this invariant.
LEMMA Limits == Spec => []LimitInv
<1>1. Init => LimitInv
  <2> SUFFICES ASSUME Init PROVE LimitInv
    OBVIOUS
  <2>1. jar \in {EmptyJar, [cookie |-> Legacy, until |-> Idle]} /\ activity = {}
    BY DEF Init
  <2>2. jar \in [cookie : Cookie, until : Nat] /\ (jar.cookie.user => jar.cookie.legacy)
    BY <2>1, NoLoginCookie, LegacyCookie
  <2>3. reply \in [Reqs -> Response] /\ \A r \in Reqs : ~reply[r].cookie.user
    BY NoLoginCookie DEF Init
  <2>4. TypeOK
    BY <2>2, <2>3 DEF Init, TypeOK, Response
  <2>5. HonestCopies
    BY <2>2, <2>3 DEF HonestCopies, Honest
  <2> QED
    BY <2>1, <2>4, <2>5 DEF LimitInv, AbsoluteLimit
<1>2. LimitInv /\ [Next]_vars => LimitInv'
  <2> SUFFICES ASSUME LimitInv, [Next]_vars PROVE LimitInv'
    OBVIOUS
  <2>1. CASE UNCHANGED vars
    BY <2>1 DEF vars, LimitInv, TypeOK, HonestCopies, AbsoluteLimit
  <2>2. CASE Next
    <3>1. TypeOK'
      BY <2>2, TypeStep DEF LimitInv
    <3>2. HonestCopies' /\ AbsoluteLimit'
      BY <2>2, LetInStep, OtherStep
    <3> QED
      BY <3>1, <3>2 DEF LimitInv
  <2> QED
    BY <2>1, <2>2
<1> QED
  BY <1>1, <1>2, PTL DEF Spec

\* Every reachable state is well typed, and only a session of an older build is
\* without timestamps.
THEOREM TypeCorrect == Spec => []TypeOK
<1>1. LimitInv => TypeOK
  BY DEF LimitInv
<1> QED
  BY <1>1, Limits, PTL

\* However refreshed cookies overtake each other, are lost or come back, no
\* request is let in more than the absolute limit after its session's login.
THEOREM AbsoluteLimitHolds == Spec => []AbsoluteLimit
<1>1. LimitInv => AbsoluteLimit
  BY DEF LimitInv
<1> QED
  BY <1>1, Limits, PTL

\* Nor is one when its session was left alone for longer than the idle limit.
THEOREM IdleLimitHolds == Spec => IdleLimit
<1> DEFINE A == \A p \in activity' \ activity :
                  p[1] # p[2] => \E z \in activity : z[1] = p[1]
<1>1. LimitInv /\ [Next]_vars => [A]_vars
  <2> SUFFICES ASSUME LimitInv, Next PROVE A
    OBVIOUS
  <2> QED
    BY LetInStep, OtherStep
<1> QED
  BY <1>1, Limits, PTL DEF Spec, IdleLimit

-----------------------------------------------------------------------------
(* Logout *)

\* A new response without a user's cookie, or while no logout is in effect.
LEMMA LogoutRespond ==
  ASSUME LogoutInv, TypeOK', NEW r \in Reqs, NEW set \in Response,
         NEW what \in {"other", "logout"}, Respond(r, set, what),
         UNCHANGED <<jar, out>>,
         what = "logout" => set.kind = "expire",
         ~out \/ ~set.cookie.user
  PROVE  LogoutInv'
<1>1. \A s \in Reqs : /\ reply'[s] = IF s = r THEN set ELSE reply[s]
                      /\ of'[s] = IF s = r THEN what ELSE of[s]
                      /\ s # r => pc'[s] = pc[s] /\ crossed'[s] = crossed[s]
  <2>1. /\ reply \in [Reqs -> Response] /\ DOMAIN of = Reqs /\ DOMAIN pc = Reqs
        /\ DOMAIN crossed = Reqs
    BY DEF LogoutInv, TypeOK, Response
  <2> QED
    BY <2>1 DEF Respond
<1>2. ASSUME NEW s \in Reqs
      PROVE  /\ of'[s] = "logout" => reply'[s].kind = "expire"
             /\ pc'[s] = "reply" /\ of'[s] = "other" /\ out' /\ reply'[s].cookie.user => crossed'[s]
  <2>1. CASE s = r
    BY <1>1, <2>1
  <2>2. CASE s # r
    BY <1>1, <2>2 DEF LogoutInv
  <2> QED
    BY <2>1, <2>2
<1> QED
  BY <1>2 DEF LogoutInv

\* After a logout nothing but a login and crossing responses hold a session.
LEMMA LogoutStep ==
  ASSUME LogoutInv, HonestCopies, Next
  PROVE  LogoutInv'
<1>0. /\ TypeOK /\ TypeOK' /\ Sent \in Cookie /\ now \in Nat
      /\ Sent.user => jar.cookie.user
      /\ out => ~Sent.user
      /\ Keep \in Response /\ Expire \in Response /\ Expire.kind = "expire"
      /\ ~Keep.cookie.user /\ ~Expire.cookie.user
  BY TypeStep, SentCookie, NoLoginCookie DEF LogoutInv, TypeOK
<1>1. ASSUME NEW r \in Reqs, Unauthenticated(r) \/ TimedOut(r)
             \/ \E s \in States : CallbackForbidden(r, s)
      PROVE  LogoutInv'
  <2>1. \E set \in {Keep, Expire} : Respond(r, set, "other")
    BY <1>1 DEF Unauthenticated, TimedOut, CallbackForbidden
  <2>2. UNCHANGED <<jar, out>>
    BY <1>1 DEF Unauthenticated, TimedOut, CallbackForbidden
  <2> QED
    BY <1>0, <2>1, <2>2, LogoutRespond
<1>2. ASSUME NEW r \in Reqs, Accepted(r) PROVE LogoutInv'
  <2>1. Respond(r, Sliding(Sent), "other") /\ UNCHANGED <<jar, out>> /\ ~out
    BY <1>0, <1>2 DEF Accepted
  <2>2. Sliding(Sent) \in Response
    BY <1>0, SlidingResponse
  <2> QED
    BY <1>0, <2>1, <2>2, LogoutRespond
<1>3. ASSUME NEW r \in Reqs, Logout(r) PROVE LogoutInv'
  <2>1. Respond(r, Expire, "logout") /\ UNCHANGED <<jar, out>>
    BY <1>3 DEF Logout, LogoutCookie
  <2> QED
    BY <1>0, <2>1, LogoutRespond
<1>4. ASSUME NEW r \in Reqs, NEW s \in States, Login(r, s) PROVE LogoutInv'
  <2> DEFINE d == [Sent EXCEPT !.state = s]
  <2>1. Respond(r, Save(d), "other") /\ UNCHANGED <<jar, out>>
    BY <1>4 DEF Login
  <2>2. d \in Cookie /\ d.user = Sent.user
    BY <1>0, StateCookie
  <2> HIDE DEF d
  <2>3. Save(d) \in Response /\ Save(d).cookie = d
    BY <2>2, SaveResponse
  <2> QED
    BY <1>0, <2>1, <2>2, <2>3, LogoutRespond
<1>5. ASSUME NEW r \in Reqs, NEW s \in States, Callback(r, s) PROVE LogoutInv'
  <2>1. /\ UNCHANGED <<jar, out, reply, of>>
        /\ \A z \in Reqs : pc'[z] = "reply" => pc[z] = "reply" /\ crossed'[z] = crossed[z]
    BY <1>0, <1>5 DEF Callback, TypeOK
  <2> QED
    BY <1>0, <2>1 DEF LogoutInv
<1>6. ASSUME NEW r \in Reqs, CallbackDone(r) PROVE LogoutInv'
  <2>1. /\ UNCHANGED <<jar, out, crossed>>
        /\ of'[r] = "callback"
        /\ \A z \in Reqs \ {r} : reply'[z] = reply[z] /\ of'[z] = of[z] /\ pc'[z] = pc[z]
    BY <1>0, <1>6 DEF CallbackDone, TypeOK
  <2> QED
    BY <1>0, <2>1 DEF LogoutInv
<1>7. ASSUME NEW r \in Reqs, CallbackFails(r) \/ Lost(r) PROVE LogoutInv'
  <2>1. /\ UNCHANGED <<jar, out, crossed>>
        /\ of'[r] = "other" /\ reply'[r] = Keep
        /\ \A z \in Reqs \ {r} : reply'[z] = reply[z] /\ of'[z] = of[z] /\ pc'[z] = pc[z]
    BY <1>0, <1>7 DEF CallbackFails, Lost, TypeOK
  <2> QED
    BY <1>0, <2>1 DEF LogoutInv
<1>8. ASSUME NEW r \in Reqs, Arrives(r) PROVE LogoutInv'
  <2>1. /\ of'[r] = "other" /\ reply'[r] = Keep /\ pc'[r] = "idle"
        /\ \A z \in Reqs \ {r} : reply'[z] = reply[z] /\ of'[z] = of[z] /\ pc'[z] = pc[z]
    BY <1>0, <1>8 DEF Arrives, TypeOK
  <2>2. CASE of[r] = "logout"
    <3>1. jar' = EmptyJar
      BY <1>8, <2>2, ArrivalJar, <1>0 DEF LogoutInv
    <3>2. \A z \in Reqs \ {r} : pc[z] = "reply" => crossed'[z]
      BY <1>8, <2>2 DEF Arrives
    <3> QED
      BY <1>0, <2>1, <3>1, <3>2, NoLoginCookie DEF LogoutInv
  <2>3. CASE of[r] # "logout"
    <3>1. crossed' = crossed /\ (out' => out /\ ~reply[r].cookie.user)
      BY <1>8, <2>3 DEF Arrives
    <3>2. jar'.cookie \in {jar.cookie, reply[r].cookie, EmptyJar.cookie}
      BY <1>0, <1>8, ArrivalJar DEF Response
    <3>3. out' => ~jar'.cookie.user
      BY <3>1, <3>2, NoLoginCookie DEF LogoutInv
    <3> QED
      BY <1>0, <2>1, <3>1, <3>3 DEF LogoutInv
  <2> QED
    BY <2>2, <2>3
<1>9. CASE Tick
  BY <1>0, <1>9 DEF Tick, LogoutInv
<1> QED
  BY <1>1, <1>2, <1>3, <1>4, <1>5, <1>6, <1>7, <1>8, <1>9 DEF Next

LEMMA LogoutHolds == Spec => []LogoutInv
<1>1. Init /\ LimitInv => LogoutInv
  BY DEF Init, LogoutInv, LimitInv
<1>2. LogoutInv /\ LimitInv /\ [Next]_vars => LogoutInv'
  <2>1. LogoutInv /\ UNCHANGED vars => LogoutInv'
    BY DEF vars, LogoutInv, TypeOK
  <2> QED
    BY <2>1, LogoutStep DEF LimitInv
<1> QED
  BY <1>1, <1>2, Limits, PTL DEF Spec

\* A logout that reaches the browser ends the session; only a login, or a
\* response that was under way when it did, gives the browser one again.
THEOREM LogoutEndsSession == Spec => OnlyCrossingsUndoLogout
<1> DEFINE A == \A r \in Reqs : Revives(r) => of[r] = "callback" \/ (crossed[r] /\ of[r] = "other")
<1>1. LogoutInv /\ LogoutInv' /\ [Next]_vars => [A]_vars
  <2> SUFFICES ASSUME LogoutInv, LogoutInv', Next, NEW r \in Reqs, Revives(r)
               PROVE  of[r] = "callback" \/ (crossed[r] /\ of[r] = "other")
    OBVIOUS
  <2>1. /\ TypeOK /\ pc[r] = "reply" /\ pc'[r] = "idle" /\ jar'.cookie.user
        /\ of[r] \in {"other", "logout", "callback"}
    BY DEF Revives, LogoutInv, TypeOK
  <2>2. ~out'
    BY <2>1 DEF LogoutInv
  <2>3. out /\ ~jar.cookie.user
    BY <2>1, <2>2 DEF Revives
  <2>4. Arrives(r)
    <3>1. ~UNCHANGED jar
      BY <2>1, <2>3, Zenon
    <3>2. PICK z \in Reqs : Arrives(z)
      BY <3>1 DEF Next, Unauthenticated, TimedOut, Accepted, Logout, CallbackDone,
           CallbackFails, Lost, Tick, Login, CallbackForbidden, Callback
    <3>3. z = r
      BY <2>1, <3>2 DEF Arrives, TypeOK
    <3> QED
      BY <3>2, <3>3
  <2>5. jar'.cookie \in {jar.cookie, reply[r].cookie, EmptyJar.cookie}
    BY <2>1, <2>4, ArrivalJar DEF Response
  <2>6. reply[r].cookie.user /\ reply[r].kind # "expire"
    BY <2>1, <2>3, <2>4, <2>5, ArrivalJar, NoLoginCookie
  <2> QED
    BY <2>1, <2>3, <2>6 DEF LogoutInv
<1> QED
  BY <1>1, LogoutHolds, PTL DEF Spec, OnlyCrossingsUndoLogout

-----------------------------------------------------------------------------
(* The console: its operations and pages *)

\* The queries of all pages.
LEMMA QueriesListed ==
  ASSUME NEW x \in Queries
  PROVE  x \in {Buckets, Bucket, Objects, Keys, Key, Secret, ConnectionSecret, Tokens, Current,
                Token, Status, Health, Statistics, StorageHealth, PageHealth, Layout, History,
                Workers, NodeWorkers, NodeVariables, NodeInfo, NodeStats, BlockErrors, BlockInfo}
BY DEF Queries, Pages, Shows, Dashboard, BucketsPage, BucketDetail, KeysPage, KeyDetail, TokensPage,
       TokenDetail, NodesPage, NodeDetail, WorkersPage, BlocksPage, RepairPage, LayoutPage

\* Who shows what an operation can change.
LEMMA Readers ==
  ASSUME NEW x \in Queries
  PROVE  /\ "bucketlist" \in x.reads => x \in {Buckets, Statistics}
         /\ "local" \in x.reads => x \in {Buckets, Bucket, Keys, Key}
         /\ "aliases" \in x.reads => x \in {Buckets, Bucket, Key}
         /\ "perms" \in x.reads => x \in {Buckets, Bucket, Objects, Keys, Key}
         /\ "usage" \in x.reads => x \in {Buckets, Bucket, Statistics}
         /\ "quotas" \in x.reads => x \in {Buckets, Bucket}
         /\ "website" \in x.reads => x = Bucket
         /\ "key" \in x.reads => x \in {Bucket, Keys, Key}
         /\ "objects" \in x.reads => x = Objects
         /\ "keylist" \in x.reads => x = Keys
         /\ "tokenlist" \in x.reads => x = Tokens
         /\ "token" \in x.reads => x \in {Tokens, Current, Token}
         /\ "links" \in x.reads => x \in {Status, Health}
         /\ "roles" \in x.reads =>
              x \in {Status, Health, Statistics, Layout, History, NodeInfo}
         /\ "errors" \in x.reads =>
              x \in {StorageHealth, PageHealth, NodeStats, BlockErrors, BlockInfo}
         /\ "repairs" \in x.reads => x \in {StorageHealth, PageHealth, Workers, NodeWorkers}
         /\ "staged" \in x.reads => x = Layout
         /\ "trackers" \in x.reads => x = History
         /\ "vars" \in x.reads => x \in {Workers, NodeWorkers, NodeVariables}
         /\ "secret" \in x.reads => x \in Secrets
BY QueriesListed
DEF Query, Buckets, Bucket, Objects, Keys, Key, Secret, ConnectionSecret, Tokens, Current, Token,
    Status, Health, Statistics, StorageHealth, PageHealth, Layout, History, Workers, NodeWorkers,
    NodeVariables, NodeInfo, NodeStats, BlockErrors, BlockInfo, Secrets

\* Which filters match which queries.
LEMMA Prefixes ==
  /\ Matches(All(Buckets.key), Buckets) /\ Matches(All(Bucket.key), Bucket)
  /\ Matches(All(<<"objects", "b">>), Objects)
  /\ Matches(All(Keys.key), Keys) /\ Matches(Only(Key.key), Key) /\ Matches(All(Key.key), Key)
  /\ Matches(Only(Tokens.key), Tokens) /\ Matches(All(Current.key), Current)
  /\ Matches(All(Token.key), Token)
  /\ Matches(All(Status.key), Status)
  /\ Matches(All(Layout.key), Layout) /\ Matches(All(Layout.key), History)
  /\ Matches(All(NodeVariables.key), NodeVariables) /\ Matches(All(NodeWorkers.key), NodeWorkers)
  /\ Matches(All(BlockErrors.key), BlockErrors)
BY DEF Matches, All, Only, Query, Buckets, Bucket, Objects, Keys, Key, Tokens, Current, Token, Status,
       Layout, History, NodeVariables, NodeWorkers, BlockErrors

\* A filter that leaves the secrets alone.
Spares(f) == ~Matches(f, Secret) /\ ~Matches(f, ConnectionSecret)

LEMMA SecretsSpared ==
  /\ Spares(All(Buckets.key)) /\ Spares(All(Bucket.key)) /\ Spares(All(<<"objects", "b">>))
  /\ Spares(All(Keys.key)) /\ Spares(Only(Key.key)) /\ Spares(Only(Tokens.key))
  /\ Spares(All(Current.key)) /\ Spares(All(Status.key)) /\ Spares(All(Layout.key))
  /\ Spares(All(NodeVariables.key)) /\ Spares(All(NodeWorkers.key)) /\ Spares(All(BlockErrors.key))
  /\ Spares(All(<<"cluster">>))
BY DEF Spares, Matches, All, Only, Query, Buckets, Bucket, Keys, Key, Tokens, Current, Status,
       Layout, NodeVariables, NodeWorkers, BlockErrors, Secret, ConnectionSecret

\* What the proofs need of an operation: that its success tells or drops whatever query
\* shows what it changes and is not left to age, and its failure does if it may have done
\* a part of it, the secrets aside; that no secret is touched; and that it has the form of its page.
Tells(o, filters, x) == \E f \in filters : Matches(f, x)

Sound(o) ==
  /\ \A x \in Queries \ Secrets : x.reads \cap o.changes # {} =>
       /\ x \in o.ages \/ x \in o.sets \/ Tells(o, o.tells, x) \/ Tells(o, o.drops, x)
       /\ o.partly => x \in o.ages \/ Tells(o, o.fails, x)
  /\ \A f \in o.tells \cup o.fails : Spares(f)
  /\ o.sets \cap Secrets = {}
  /\ o.pages \subseteq Pages /\ o.goes \subseteq Pages /\ AtMostOne(o.goes)
  /\ o.partly \in BOOLEAN /\ o.perCall \in BOOLEAN /\ o.form \in Kinds

LEMMA PageNames ==
  {"dashboard", "buckets", "bucket", "keys", "key", "tokens", "token", "nodes", "node", "workers",
   "blocks", "repair", "layout"} = Pages
BY DEF Pages, Shows

LEMMA NoSecrets == Bucket \notin Secrets /\ Token \notin Secrets
BY DEF Bucket, Token, Secrets, Secret, ConnectionSecret, Query

\* A form is on the page that shows what it is filled from; a purge writes nothing into
\* the cache and leaves no page.
Homed(o) ==
  /\ o.form \in Following \cup {"whole"} => o.pages = {"bucket"}
  /\ o.form = "live" => o.pages = {"key"}
  /\ o.form = "remount" => o.pages = {"token"}
  /\ o.form = "drafts" => o.pages = {"node"}
  /\ o.form \in Selecting => o.pages = {"blocks"}
  /\ o.form = "ticks" => o.sets = {} /\ o.drops = {} /\ o.goes = {}

LEMMA TheOperations ==
  ASSUME NEW o \in DOMAIN Operations
  PROVE  Sound(Operations[o]) /\ Homed(Operations[o])
<1> USE Readers, Prefixes, SecretsSpared, PageNames, NoSecrets
    DEF Sound, Homed, Tells, AtMostOne, Kinds, Following, Selecting, Op
<1>1. Sound(CreateBucket) /\ Homed(CreateBucket)
  BY DEF CreateBucket
<1>2. Sound(DeleteBucket) /\ Homed(DeleteBucket)
  BY DEF DeleteBucket, CreateBucket
<1>3. Sound(QuotaCard) /\ Homed(QuotaCard)
  BY DEF QuotaCard, UpdateBucket
<1>4. Sound(WebsiteCard) /\ Homed(WebsiteCard)
  BY DEF WebsiteCard, UpdateBucket
<1>5. Sound(RulesJsonCard) /\ Homed(RulesJsonCard)
  BY DEF RulesJsonCard, UpdateBucket
<1>6. Sound(UnfinishedUploadsCard) /\ Homed(UnfinishedUploadsCard)
  BY DEF UnfinishedUploadsCard
<1>7. Sound(GlobalAlias) /\ Homed(GlobalAlias)
  BY DEF GlobalAlias
<1>8. Sound(LocalAlias) /\ Homed(LocalAlias)
  BY DEF LocalAlias, GlobalAlias
<1>9. Sound(EditPermissions) /\ Homed(EditPermissions)
  BY DEF EditPermissions, PermissionsRefreshed
<1>10. Sound(EditOnBucket) /\ Homed(EditOnBucket)
  BY DEF EditOnBucket, EditPermissions, PermissionsRefreshed
<1>11. Sound(GrantConsole) /\ Homed(GrantConsole)
  BY DEF GrantConsole, EditPermissions, PermissionsRefreshed
<1>12. Sound(ChangeObjects) /\ Homed(ChangeObjects)
  BY DEF ChangeObjects
<1>13. Sound(CreateKey) /\ Homed(CreateKey)
  BY DEF CreateKey
<1>14. Sound(ImportKey) /\ Homed(ImportKey)
  BY DEF ImportKey, CreateKey
<1>15. Sound(DeleteKey) /\ Homed(DeleteKey)
  BY DEF DeleteKey
<1>16. Sound(KeySettings) /\ Homed(KeySettings)
  BY DEF KeySettings
<1>17. Sound(CreateToken) /\ Homed(CreateToken)
  BY DEF CreateToken
<1>18. Sound(DeleteToken) /\ Homed(DeleteToken)
  BY DEF DeleteToken
<1>19. Sound(DeleteThisToken) /\ Homed(DeleteThisToken)
  BY DEF DeleteThisToken
<1>20. Sound(EditToken) /\ Homed(EditToken)
  BY DEF EditToken
<1>21. Sound(ConnectNodes) /\ Homed(ConnectNodes)
  BY DEF ConnectNodes
<1>22. Sound(SetVariable) /\ Homed(SetVariable)
  BY DEF SetVariable
<1>23. Sound(LaunchRepair) /\ Homed(LaunchRepair)
  BY DEF LaunchRepair
<1>24. Sound(RetryBlockResync) /\ Homed(RetryBlockResync)
  BY DEF RetryBlockResync
<1>25. Sound(PurgeBlocks) /\ Homed(PurgeBlocks)
  BY DEF PurgeBlocks, RetryBlockResync
<1>26. Sound(StageLayout) /\ Homed(StageLayout)
  BY DEF StageLayout
<1>27. Sound(ApplyLayout) /\ Homed(ApplyLayout)
  BY DEF ApplyLayout, StageLayout
<1>28. Sound(SkipDeadNodes) /\ Homed(SkipDeadNodes)
  BY DEF SkipDeadNodes
<1> HIDE Readers, Prefixes, SecretsSpared, PageNames, NoSecrets
    DEF Sound, Homed, Tells, AtMostOne, Kinds, Following, Selecting, Op
<1> QED
  BY <1>1, <1>2, <1>3, <1>4, <1>5, <1>6, <1>7, <1>8, <1>9, <1>10, <1>11, <1>12, <1>13, <1>14,
     <1>15, <1>16, <1>17, <1>18, <1>19, <1>20, <1>21, <1>22, <1>23, <1>24, <1>25, <1>26, <1>27,
     <1>28 DEF Operations

-----------------------------------------------------------------------------
(* The pages *)

LEMMA ThePages ==
  ASSUME NEW p \in Pages
  PROVE  /\ OnDemand[p] \subseteq Shows[p]
         /\ \A x \in Secrets : x \in Shows[p] => p = "key" /\ x \in OnDemand[p]
BY PageNames
DEF Shows, OnDemand, Dashboard, BucketsPage, BucketDetail, KeysPage, KeyDetail, TokensPage,
    TokenDetail, NodesPage, NodeDetail, WorkersPage, BlocksPage, RepairPage, LayoutPage,
    Query, Buckets, Bucket, Objects, Keys, Key, Secret, ConnectionSecret, Tokens, Current, Token,
    Status, Health, Statistics, StorageHealth, PageHealth, Layout, History, Workers, NodeWorkers,
    NodeVariables, NodeInfo, NodeStats, BlockErrors, BlockInfo, Secrets

\* Every query is on some page and missing from some.
LEMMA Elsewhere ==
  ASSUME NEW x \in Queries
  PROVE  /\ \E p \in Pages : x \in Shows[p]
         /\ \E p \in Pages : x \notin Shows[p]
<1>1. Shows["buckets"] = {Buckets} /\ Shows["keys"] = {Keys} /\ Buckets # Keys
  BY DEF Shows, BucketsPage, KeysPage, Buckets, Keys, Query
<1> QED
  BY <1>1, PageNames DEF Queries

\* A form's query is mounted wherever its operation is found.
LEMMA FormMounted ==
  ASSUME op \in DOMAIN Operations, Kind # "none"
  PROVE  /\ q \notin Secrets \cup {BlockInfo}
         /\ \A p \in O.pages : q \in Shows[p] \ OnDemand[p]
         /\ Kind = O.form /\ Kind \in Kinds
<1>1. q = FormQuery /\ Kind = O.form
  BY DEF Kind
<1>2. Homed(O) /\ O.form \in Kinds
  BY TheOperations DEF O, Sound
<1>3. /\ Bucket \in Shows["bucket"] \ OnDemand["bucket"]
      /\ Key \in Shows["key"] \ OnDemand["key"]
      /\ Token \in Shows["token"] \ OnDemand["token"]
      /\ NodeVariables \in Shows["node"] \ OnDemand["node"]
      /\ BlockErrors \in Shows["blocks"] \ OnDemand["blocks"]
  BY PageNames
  DEF Shows, OnDemand, BucketDetail, KeyDetail, TokenDetail, NodeDetail, BlocksPage,
      Query, Buckets, Bucket, Keys, Key, Secret, ConnectionSecret, Token, Health, Workers,
      NodeVariables, BlockErrors, BlockInfo
<1>4. {Bucket, Key, Token, NodeVariables, BlockErrors} \cap (Secrets \cup {BlockInfo}) = {}
  BY DEF Query, Bucket, Key, Token, NodeVariables, BlockErrors, Secrets, Secret, ConnectionSecret,
         BlockInfo
<1>5. CASE O.form \in Following \cup {"whole"}
  BY <1>1, <1>2, <1>3, <1>4, <1>5 DEF FormQuery, Homed
<1>6. CASE O.form = "live"
  BY <1>1, <1>2, <1>3, <1>4, <1>6 DEF FormQuery, Homed, Following
<1>7. CASE O.form = "remount"
  BY <1>1, <1>2, <1>3, <1>4, <1>7 DEF FormQuery, Homed, Following
<1>8. CASE O.form = "drafts"
  BY <1>1, <1>2, <1>3, <1>4, <1>8 DEF FormQuery, Homed, Following
<1>9. CASE O.form \in Selecting
  BY <1>1, <1>2, <1>3, <1>4, <1>9 DEF FormQuery, Homed, Following, Selecting
<1> QED
  BY <1>1, <1>2, <1>5, <1>6, <1>7, <1>8, <1>9 DEF Kinds, Following, Selecting

-----------------------------------------------------------------------------
(* What the cache is told *)

LEMMA EmptyStep ==
  /\ CacheTypes(Empty) /\ Empty.entry = {} /\ Empty.fetch = {} /\ Empty.stale = FALSE
  /\ Empty.failed = FALSE /\ Empty.old = FALSE
  /\ AskedFor(Empty) /\ \A n : Told(Empty, n) /\ UpToDate(Empty, n)
BY DEF Empty, CacheTypes, CacheType, AtMostOne, AskedFor, Told, UpToDate

LEMMA AskedRead == Asked \in FetchType /\ Asked.phase = "asked"
BY DEF Asked, FetchType, Entry, EntryType, Item

LEMMA AskStep ==
  ASSUME NEW c, CacheTypes(c)
  PROVE  /\ CacheTypes(Ask(c)) /\ Ask(c).entry = c.entry /\ Ask(c).fetch = {Asked}
         /\ Ask(c).stale = c.stale /\ Ask(c).old = c.old /\ Ask(c).failed = c.failed
         /\ \A n : UpToDate(Ask(c), n)
<1>1. c \in CacheType /\ AtMostOne(c.entry)
  BY DEF CacheTypes
<1>2. Ask(c) \in CacheType
  BY <1>1, AskedRead DEF Ask, CacheType
<1>3. /\ Ask(c).entry = c.entry /\ Ask(c).fetch = {Asked}
      /\ Ask(c).stale = c.stale /\ Ask(c).old = c.old /\ Ask(c).failed = c.failed
  BY <1>1 DEF Ask, CacheType
<1>4. \A n : UpToDate(Ask(c), n)
  BY <1>3, AskedRead DEF UpToDate
<1> QED
  BY <1>1, <1>2, <1>3, <1>4 DEF CacheTypes, AtMostOne

\* A fetch that was kept has crossed if it was read.
CrossedRead(r) == [r EXCEPT !.answer.crossed = @ \/ r.phase = "read"]

LEMMA CrossedReadIs ==
  ASSUME NEW r \in FetchType
  PROVE  /\ CrossedRead(r) \in FetchType /\ CrossedRead(r).phase = r.phase
         /\ CrossedRead(r).answer.own = r.answer.own
         /\ r.phase = "read" => CrossedRead(r).answer.crossed
BY DEF CrossedRead, FetchType, EntryType

LEMMA CrossStep ==
  ASSUME NEW c, CacheTypes(c)
  PROVE  /\ CacheTypes(Cross(c)) /\ Cross(c).entry = c.entry
         /\ Cross(c).stale = c.stale /\ Cross(c).old = c.old /\ Cross(c).failed = c.failed
         /\ Cross(c).fetch = {} <=> c.fetch = {}
         /\ \A r \in Cross(c).fetch : r.phase = "read" => r.answer.crossed
         /\ \A n : UpToDate(c, n) => UpToDate(Cross(c), n)
<1>1. c \in CacheType /\ AtMostOne(c.entry) /\ AtMostOne(c.fetch)
  BY DEF CacheTypes
<1>2. Cross(c) = [c EXCEPT !.fetch = {CrossedRead(r) : r \in @}]
  BY DEF Cross, CrossedRead
<1>3. /\ Cross(c) \in [entry : SUBSET EntryType, stale : BOOLEAN, old : BOOLEAN,
                       failed : BOOLEAN, fetch : {Cross(c).fetch}]
      /\ Cross(c).entry = c.entry /\ Cross(c).fetch = {CrossedRead(r) : r \in c.fetch}
      /\ Cross(c).stale = c.stale /\ Cross(c).old = c.old /\ Cross(c).failed = c.failed
  BY <1>1, <1>2 DEF CacheType
<1>4. c.fetch \subseteq FetchType
  BY <1>1 DEF CacheType
<1>5. /\ Cross(c).fetch \subseteq FetchType /\ AtMostOne(Cross(c).fetch)
      /\ Cross(c).fetch = {} <=> c.fetch = {}
      /\ \A r \in Cross(c).fetch : r.phase = "read" => r.answer.crossed
  BY <1>1, <1>3, <1>4, CrossedReadIs DEF AtMostOne
<1>6. Cross(c) \in CacheType
  BY <1>3, <1>5 DEF CacheType
<1>7. \A n : UpToDate(c, n) => UpToDate(Cross(c), n)
  BY <1>3, <1>4, <1>5, CrossedReadIs DEF UpToDate
<1> QED
  BY <1>1, <1>3, <1>5, <1>6, <1>7 DEF CacheTypes

LEMMA MarkedStep ==
  ASSUME NEW c, CacheTypes(c)
  PROVE  /\ CacheTypes(Marked(c)) /\ Marked(c).entry = c.entry /\ Marked(c).fetch = c.fetch
         /\ Marked(c).failed = c.failed /\ Marked(c).old = c.old
         /\ Marked(c).stale = (c.entry # {} \/ c.fetch # {})
         /\ \A n : UpToDate(c, n) => UpToDate(Marked(c), n)
<1>1. /\ CacheTypes(Marked(c)) /\ Marked(c).entry = c.entry /\ Marked(c).fetch = c.fetch
      /\ Marked(c).failed = c.failed /\ Marked(c).old = c.old
      /\ Marked(c).stale = (c.entry # {} \/ c.fetch # {})
  BY DEF Marked, CacheTypes, CacheType
<1> QED
  BY <1>1 DEF UpToDate

\* After an invalidation whatever is held is marked, and whatever was read has crossed.
LEMMA InvalidatedStep ==
  ASSUME NEW c, CacheTypes(c)
  PROVE  /\ CacheTypes(Invalidated(c)) /\ Invalidated(c).entry = c.entry
         /\ Invalidated(c).failed = c.failed
         /\ \A n : Told(Invalidated(c), n) /\ (UpToDate(c, n) => UpToDate(Invalidated(c), n))
         /\ Mounted => AskedFor(Invalidated(c))
<1>1. CASE Mounted /\ (c.entry # {} \/ c.fetch = {})
  <2>1. Invalidated(c) = Ask(Marked(c))
    BY <1>1 DEF Invalidated
  <2>2. /\ CacheTypes(Invalidated(c)) /\ Invalidated(c).entry = c.entry
        /\ Invalidated(c).failed = c.failed /\ Invalidated(c).fetch = {Asked}
        /\ \A n : UpToDate(Invalidated(c), n)
        /\ Invalidated(c).stale = (c.entry # {} \/ c.fetch # {})
    BY <2>1, MarkedStep, AskStep
  <2> QED
    BY <2>2, AskedRead DEF Told, AskedFor
<1>2. CASE ~(Mounted /\ (c.entry # {} \/ c.fetch = {}))
  <2>1. Invalidated(c) = Cross(Marked(c))
    BY <1>2 DEF Invalidated
  <2>2. /\ CacheTypes(Invalidated(c)) /\ Invalidated(c).entry = c.entry
        /\ Invalidated(c).failed = c.failed
        /\ \A n : UpToDate(c, n) => UpToDate(Invalidated(c), n)
        /\ \A r \in Invalidated(c).fetch : r.phase = "read" => r.answer.crossed
        /\ Invalidated(c).stale = (c.entry # {} \/ c.fetch # {})
    BY <2>1, MarkedStep, CrossStep
  <2>3. Mounted => c.entry = {}
    BY <1>2
  <2> QED
    BY <2>2, <2>3 DEF Told, AskedFor
<1> QED
  BY <1>1, <1>2

LEMMA WrittenStep ==
  ASSUME NEW c, CacheTypes(c), NEW e \in EntryType
  PROVE  /\ CacheTypes(Written(c, e)) /\ Written(c, e).entry = {e}
         /\ Written(c, e).failed = FALSE /\ Written(c, e).old = FALSE
         /\ \A n : e.own >= n => Told(Written(c, e), n)
         /\ \A n : e.own >= n /\ UpToDate(c, n) => UpToDate(Written(c, e), n)
         /\ AskedFor(Written(c, e))
<1>1. /\ Cross(c) \in CacheType /\ AtMostOne(Cross(c).fetch)
      /\ \A r \in Cross(c).fetch : r.phase = "read" => r.answer.crossed
  BY CrossStep DEF CacheTypes
<1>2. /\ Written(c, e) \in CacheType /\ Written(c, e).entry = {e}
      /\ Written(c, e).fetch = Cross(c).fetch
      /\ Written(c, e).stale = FALSE /\ Written(c, e).old = FALSE
      /\ Written(c, e).failed = FALSE
  BY <1>1 DEF Written, CacheType
<1>3. \A n : e.own >= n /\ UpToDate(c, n) => UpToDate(Written(c, e), n)
  BY <1>2, CrossStep DEF UpToDate
<1> QED
  BY <1>1, <1>2, <1>3 DEF CacheTypes, AtMostOne, Told, AskedFor

\* What appears is asked for if it is not fresh, and then shows whatever is known by now.
LEMMA AppearedStep ==
  ASSUME NEW c, CacheTypes(c), NEW d, d = Appeared(c)
  PROVE  /\ CacheTypes(d) /\ d.entry = c.entry /\ d.stale = c.stale /\ d.old = c.old
         /\ d.failed = c.failed
         /\ \A n : Told(c, n) => Told(d, n)
         /\ AskedFor(d)
         /\ q \in Secrets /\ c.entry # {} /\ ~c.stale /\ ~c.old => d = c
         /\ \A n : Outdated(c) \/ UpToDate(c, n) => UpToDate(d, n)
<1>1. CASE Outdated(c)
  <2>1. d = Ask(c)
    BY <1>1 DEF Appeared
  <2>2. /\ CacheTypes(d) /\ d.entry = c.entry /\ d.fetch = {Asked}
        /\ d.stale = c.stale /\ d.old = c.old /\ d.failed = c.failed
        /\ \A n : UpToDate(d, n)
    BY <2>1, AskStep
  <2>3. c.entry = {} \/ c.stale \/ c.old
    BY <1>1 DEF Outdated
  <2> QED
    BY <2>2, <2>3, AskedRead DEF Told, AskedFor
<1>2. CASE ~Outdated(c)
  <2>1. d = c
    BY <1>2 DEF Appeared
  <2>2. c.fetch # {} \/ ~c.stale
    BY <1>2 DEF Outdated
  <2> QED
    BY <1>2, <2>1, <2>2 DEF AskedFor
<1> QED
  BY <1>1, <1>2

-----------------------------------------------------------------------------
(* What a page comes to show *)

\* The scenario decides which form there is.
LEMMA KindStays ==
  ASSUME UNCHANGED scenario
  PROVE  op' = op /\ q' = q /\ Kind' = Kind /\ O' = O
BY DEF scenario, Kind, FormQuery, O

LEMMA TheOne ==
  ASSUME NEW S, AtMostOne(S), NEW x \in S
  PROVE  The(S) = x
BY DEF The, AtMostOne

LEMMA TheIn ==
  ASSUME NEW S, S # {}
  PROVE  The(S) \in S
BY DEF The

\* What differs from where the form started was entered.
Entered(f, ts) == \A z \in Fields : f.draft[z] # f.base[z] => z \in ts

LEMMA FreshIs ==
  ASSUME NEW item \in Item
  PROVE  /\ Fresh(item) \in FormType /\ Fresh(item).base = item /\ Fresh(item).draft = item
         /\ Fresh(item).draft["y"] # Blank /\ \A ts : Entered(Fresh(item), ts)
BY DEF Fresh, FormType, Item, Fields, Blank, Entered

LEMMA StartedIs ==
  ASSUME NEW item \in Item, NEW kind
  PROVE  /\ Started(kind, item) \in FormType /\ Started(kind, item).draft["y"] # Blank
         /\ kind \in Selecting => Started(kind, item).base = Nowhere
         /\ \A ts : Entered(Started(kind, item), ts)
<1>1. Nowhere \in Item
  BY DEF Nowhere, Item
<1> QED
  BY <1>1, FreshIs DEF Started

\* What following the page does to a form f: g is what it becomes.
Followed(kind, f, ts, g) ==
  /\ g \in FormType
  /\ kind = "drafts" \/ Entered(f, ts) => Entered(g, ts)
  /\ g = f \/ kind = "drafts" \/ \A us : Entered(g, us)
  /\ kind = "website" /\ f.draft["y"] # Blank => g.draft["y"] # Blank
  /\ kind # "remount" /\ Entered(f, ts) =>
       \A z \in Fields : f.draft[z] # f.base[z] => g.draft[z] = f.draft[z]
  /\ kind \in Selecting \cup Dialogs => g = f

LEMMA FollowIs ==
  ASSUME NEW kind, NEW f \in FormType, NEW ts \in SUBSET Fields, NEW item \in Item
  PROVE  Followed(kind, f, ts, Follow(kind, f, ts, item))
<1> DEFINE g == Follow(kind, f, ts, item)
           Kept(h) == Followed(kind, f, ts, h)
<1>1. ASSUME kind \in Following PROVE Kept(g)
  <2>1. g = f \/ (g = Fresh(item) /\ f.draft = f.base)
    BY <1>1 DEF Follow, Following, Pristine
  <2>2. kind \notin Selecting \cup Dialogs /\ kind \notin {"remount", "drafts"}
    BY <1>1 DEF Following, Selecting, Dialogs
  <2> HIDE DEF g
  <2>3. CASE g = f
    BY <2>2, <2>3 DEF Followed
  <2>4. CASE g = Fresh(item) /\ f.draft = f.base
    BY <2>2, <2>4, FreshIs DEF Followed
  <2> QED BY <2>1, <2>3, <2>4
<1>2. ASSUME kind = "remount" PROVE Kept(g)
  <2>1. g = IF f.base = item THEN f ELSE Fresh(item)
    BY <1>2 DEF Follow, Following
  <2>2. kind \notin Selecting \cup Dialogs
    BY <1>2 DEF Selecting, Dialogs
  <2> HIDE DEF g
  <2>3. CASE g = f
    BY <1>2, <2>2, <2>3 DEF Followed
  <2>4. CASE g = Fresh(item)
    BY <1>2, <2>2, <2>4, FreshIs DEF Followed
  <2> QED BY <2>1, <2>3, <2>4
<1>3. ASSUME kind = "drafts" PROVE Kept(g)
  <2>1. g = [base |-> item,
             draft |-> [z \in Fields |-> IF z \in ts THEN f.draft[z] ELSE item[z]]]
    BY <1>3 DEF Follow, Following
  <2>2. /\ g \in FormType
        /\ \A z \in Fields : g.draft[z] = IF z \in ts THEN f.draft[z] ELSE item[z]
        /\ g.base = item
    BY <2>1 DEF FormType, Item, Blank
  <2>3. kind \notin Selecting \cup Dialogs
    BY <1>3 DEF Selecting, Dialogs
  <2> HIDE DEF g
  <2> QED BY <1>3, <2>2, <2>3 DEF Entered, Followed
<1>4. ASSUME kind \notin Following \cup {"remount", "drafts"} PROVE Kept(g)
  BY <1>4 DEF Follow, Followed
<1>5. Kept(g)
  <2> HIDE DEF Kept
  <2> QED BY <1>1, <1>2, <1>3, <1>4
<1> QED
  BY <1>5

\* Whatever a page comes to show, its form fits it.
LEMMA ShownStep ==
  ASSUME NEW p, NEW c, CacheTypes(c), NEW f0 \in SUBSET FormType, AtMostOne(f0),
         NEW t0 \in SUBSET Fields,
         Kind = "drafts" \/ \A f \in f0 : Entered(f, t0),
         Kind = "website" => \A f \in f0 : f.draft["y"] # Blank,
         Kind \in Selecting => \A f \in f0 : f.base = Nowhere,
         Shown(p, c, f0, t0)
  PROVE  /\ form' \in SUBSET FormType /\ AtMostOne(form') /\ touched' \in SUBSET Fields
         /\ Fits(p, c, form', touched')
<1> DEFINE item == The(c.entry).item
           f1   == IF ~Up(p, c) THEN {}
                   ELSE IF f0 = {} THEN IF Kind \in Cards THEN {Started(Kind, item)} ELSE {}
                   ELSE {Follow(Kind, f, t0, item) : f \in f0}
<1>1. /\ form' = f1
      /\ touched' = IF f1 = f0 \/ (f0 # {} /\ f1 # {} /\ Kind = "drafts") THEN t0 ELSE {}
  BY DEF Shown
<1>2. touched' \in SUBSET Fields
  BY <1>1
<1>3. CASE ~Up(p, c)
  <2>1. form' = {}
    BY <1>1, <1>3
  <2> QED BY <1>2, <1>3, <2>1 DEF Fits, AtMostOne
<1>4. CASE Up(p, c)
  <2>1. The(c.entry) \in EntryType
    <3>1. c.entry # {} /\ c.entry \subseteq EntryType
      BY <1>4 DEF Up, CacheTypes, CacheType
    <3> QED BY <3>1, TheIn
  <2>2. item \in Item
    BY <2>1 DEF EntryType
  <2> HIDE DEF item
  <2>3. CASE f0 = {}
    <3>1. form' = IF Kind \in Cards THEN {Started(Kind, item)} ELSE {}
      BY <1>1, <1>4, <2>3
    <3> QED BY <1>2, <1>4, <2>2, <3>1, StartedIs DEF Fits, AtMostOne, Entered
  <2>4. CASE f0 # {}
    <3>1. PICK f \in f0 : f0 = {f}
      BY <2>4 DEF AtMostOne
    <3> DEFINE g == Follow(Kind, f, t0, item)
    <3>2. form' = {g}
      BY <1>1, <1>4, <2>4, <3>1
    <3>3. touched' = IF g = f \/ Kind = "drafts" THEN t0 ELSE {}
      BY <1>1, <1>4, <2>4, <3>1
    <3>4. Followed(Kind, f, t0, g)
      BY <2>2, <3>1, FollowIs
    <3>5. Kind \in Selecting => g = f
      BY DEF Follow, Following, Selecting
    <3> HIDE DEF g
    <3>6. Entered(g, touched') /\ (Kind \in Selecting => g.base = Nowhere)
      BY <3>1, <3>3, <3>4, <3>5 DEF Followed
    <3>7. Fits(p, c, form', touched')
      BY <1>4, <3>1, <3>2, <3>4, <3>6 DEF Fits, Entered, Followed
    <3> QED BY <1>2, <3>2, <3>4, <3>7 DEF AtMostOne, Followed
  <2> QED BY <2>3, <2>4
<1> QED
  BY <1>3, <1>4

-----------------------------------------------------------------------------
(* The invariant of the console, taken apart and put together *)

\* The parts of the invariant, of the values that a step leaves behind.
SecretOK(c, o) ==
  q \in Secrets => /\ c.entry # {} => c.fetch = {} /\ ~c.stale
                   /\ ~o => c = Empty
                   /\ ~c.old

DueOK(c, m, n) == m <= n /\ UpToDate(c, m)

ReadOK(c, p, o, n, m) ==
  q \notin O.ages \cup Secrets =>
    /\ ~m => Told(c, n)
    /\ MountedAt(p, o) => AskedFor(c)

CallOK(p, o, n, own, cs) ==
  /\ o => q \in OnDemand[p]
  /\ n <= own
  /\ \A c \in cs : c.phase # "sent" => c.answer.own = own

Harmless(c) ==
  /\ Kind = "website" => "y" \in DOMAIN c.body /\ (c.body["y"] = 0 => c.confirmed)
  /\ Kind \in {"website", "rules"} /\ "x" \in DOMAIN c.body /\ c.body["x"] = 0
       => c.confirmed \/ (Kind = "rules" /\ c.bare)
  /\ Kind = "remount" /\ "x" \in DOMAIN c.body /\ c.body["x"] > 0 => c.confirmed \/ ~c.bare

BodyOK(cs) == \A c \in cs : Harmless(c)

GarageType == [own : Nat, item : Item]

LEMMA Parts ==
  ASSUME ConsoleInv
  PROVE  /\ SecretOK(cache, opened) /\ ReadOK(cache, page, opened, owed, missed)
         /\ DueOK(cache, due, owed)
         /\ CallOK(page, opened, owed, garage.own, call)
         /\ Fits(page, cache, form, touched) /\ BodyOK(call)
BY DEF ConsoleInv, SecretInv, ReadInv, DueInv, CallInv, FormInv, BodyInv, SecretOK, ReadOK, DueOK,
       CallOK, BodyOK, Harmless, Mounted

LEMMA Assemble ==
  ASSUME ConsoleInv, UNCHANGED scenario,
         page' \in Pages, opened' \in BOOLEAN, CacheTypes(cache'), garage' \in GarageType,
         form' \in SUBSET FormType, AtMostOne(form'), touched' \in SUBSET Fields,
         call' \in SUBSET CallType, AtMostOne(call'),
         sent' \in Nat, others' \in Nat, owed' \in Nat, due' \in Nat, missed' \in BOOLEAN,
         SecretOK(cache', opened'), ReadOK(cache', page', opened', owed', missed'),
         DueOK(cache', due', owed'),
         CallOK(page', opened', owed', garage'.own, call'),
         Fits(page', cache', form', touched'), BodyOK(call')
  PROVE  ConsoleInv'
<1>1. op' = op /\ q' = q /\ Kind' = Kind /\ O' = O
  BY KindStays
<1>2. ConsoleTypes'
  <2>1. op' \in DOMAIN Operations /\ q' \in Queries /\ Relevant(op', q')
    BY <1>1 DEF ConsoleInv, ConsoleTypes
  <2> QED
    BY <2>1 DEF ConsoleTypes, GarageType, CacheTypes, AtMostOne
<1>3. SecretInv'
  BY <1>1 DEF SecretInv, SecretOK
<1>4. ReadInv'
  <2>1. Mounted' = MountedAt(page', opened')
    BY <1>1 DEF Mounted, MountedAt
  <2>2. Told(cache, owed)' = Told(cache', owed') /\ AskedFor(cache)' = AskedFor(cache')
    BY DEF Told, AskedFor
  <2> QED
    BY <1>1, <2>1, <2>2 DEF ReadInv, ReadOK
<1>5. CallInv'
  BY <1>1 DEF CallInv, CallOK
<1>6. FormInv'
  <2>1. Up(page, cache)' = Up(page', cache')
    BY <1>1 DEF Up
  <2> QED
    BY <1>1, <2>1 DEF FormInv, Fits
<1>7. BodyInv'
  BY <1>1 DEF BodyInv, BodyOK, Harmless
<1>8. DueInv'
  BY DEF DueInv, DueOK, UpToDate
<1> QED
  BY <1>2, <1>3, <1>4, <1>5, <1>6, <1>7, <1>8 DEF ConsoleInv

-----------------------------------------------------------------------------
(* The operator and the form *)

\* A form may be shown by what the cache holds, whatever is being fetched.
LEMMA FitsHeld ==
  ASSUME NEW p, NEW c, NEW d, NEW fs, NEW ts, Fits(p, c, fs, ts),
         d.failed = c.failed, d.entry = c.entry
  PROVE  Fits(p, d, fs, ts)
BY DEF Fits, Up

\* A step that only changes the form.
LEMMA FormStep ==
  ASSUME ConsoleInv,
         UNCHANGED <<scenario, page, opened, cache, garage, call, sent, others, owed, due, missed>>,
         form' \in SUBSET FormType, AtMostOne(form'), touched' \in SUBSET Fields,
         Fits(page, cache, form', touched')
  PROVE  ConsoleInv'
<1>1. /\ SecretOK(cache', opened') /\ ReadOK(cache', page', opened', owed', missed')
      /\ DueOK(cache', due', owed')
      /\ CallOK(page', opened', owed', garage'.own, call') /\ BodyOK(call')
      /\ Fits(page', cache', form', touched')
  BY Parts
<1>2. UNCHANGED scenario
  OBVIOUS
<1>3. /\ page' \in Pages /\ opened' \in BOOLEAN /\ CacheTypes(cache') /\ garage' \in GarageType
      /\ call' \in SUBSET CallType /\ AtMostOne(call')
      /\ sent' \in Nat /\ others' \in Nat /\ owed' \in Nat /\ due' \in Nat
      /\ missed' \in BOOLEAN
  BY DEF ConsoleInv, ConsoleTypes, GarageType
<1> QED
  BY <1>1, <1>2, <1>3, Assemble

\* A step that only changes the cache, or what is open on demand.
LEMMA CacheStep ==
  ASSUME ConsoleInv,
         UNCHANGED <<scenario, page, garage, form, touched, call, sent, others, owed, missed>>,
         due' \in Nat, due' <= owed, UpToDate(cache', due'),
         opened' \in BOOLEAN, opened' => q \in OnDemand[page],
         CacheTypes(cache'), Fits(page, cache', form, touched), SecretOK(cache', opened'),
         q \notin O.ages \cup Secrets =>
           /\ Told(cache, owed) => Told(cache', owed)
           /\ MountedAt(page, opened') => AskedFor(cache')
  PROVE  ConsoleInv'
<1>1. /\ ReadOK(cache', page', opened', owed', missed') /\ DueOK(cache', due', owed')
      /\ CallOK(page', opened', owed', garage'.own, call') /\ BodyOK(call')
  <2>1. /\ ReadOK(cache, page, opened, owed, missed) /\ BodyOK(call)
        /\ CallOK(page, opened, owed, garage.own, call)
    BY Parts
  <2> QED
    BY <2>1 DEF ReadOK, DueOK, CallOK
<1>2. UNCHANGED scenario
  OBVIOUS
<1>3. /\ page' \in Pages /\ garage' \in GarageType
      /\ form' \in SUBSET FormType /\ AtMostOne(form') /\ touched' \in SUBSET Fields
      /\ call' \in SUBSET CallType /\ AtMostOne(call')
      /\ sent' \in Nat /\ others' \in Nat /\ owed' \in Nat /\ missed' \in BOOLEAN
      /\ due' \in Nat /\ Fits(page', cache', form', touched')
  BY DEF ConsoleInv, ConsoleTypes, GarageType
<1> QED
  BY <1>1, <1>2, <1>3, Assemble

LEMMA OpenDialogStep ==
  ASSUME ConsoleInv, OpenDialog
  PROVE  ConsoleInv'
<1>1. /\ Kind \in Dialogs /\ page \in O.pages /\ cache.entry # {}
      /\ Kind \in HiddenByErrors => ~cache.failed
      /\ form' = {Fresh(e.item) : e \in cache.entry} /\ touched' = {}
      /\ UNCHANGED <<scenario, page, opened, cache, garage, call, sent, others, owed, due, missed>>
  BY DEF OpenDialog
<1>2. cache.entry \subseteq EntryType /\ AtMostOne(cache.entry)
  BY DEF ConsoleInv, ConsoleTypes, CacheTypes, CacheType
<1>3. \A e \in cache.entry : e.item \in Item
  BY <1>2 DEF EntryType
<1>4. form' \in SUBSET FormType /\ AtMostOne(form') /\ touched' \in SUBSET Fields /\ form' # {}
  BY <1>1, <1>2, <1>3, FreshIs DEF AtMostOne
<1>5. Up(page, cache)
  BY <1>1 DEF Up, Dialogs
<1>6. Fits(page, cache, form', touched')
  BY <1>1, <1>3, <1>4, <1>5, FreshIs DEF Fits, Entered, Dialogs, Selecting
<1> QED
  BY <1>1, <1>4, <1>6, FormStep

\* What may be entered.
LEMMA EntriesAre ==
  ASSUME NEW kind, NEW f, NEW item, NEW z, NEW v, <<z, v>> \in Entries(kind, f, item)
  PROVE  z \in Fields /\ v \in 0..Blank /\ (kind = "website" /\ z = "y" => v # Blank)
<1>1. CASE kind = "website"
  BY <1>1 DEF Entries, Fields, Blank
<1>2. CASE kind # "website"
  BY <1>2 DEF Entries, Fields, Blank, Selecting
<1> QED
  BY <1>1, <1>2

LEMMA EnterStep ==
  ASSUME ConsoleInv, NEW z, NEW v, Enter(z, v)
  PROVE  ConsoleInv'
<1>1. /\ form # {}
      /\ form' = {[x EXCEPT !.draft[z] = v] : x \in form} /\ touched' = touched \cup {z}
      /\ UNCHANGED <<scenario, page, opened, cache, garage, call, sent, others, owed, due, missed>>
  BY DEF Enter
<1>2. z \in Fields /\ v \in 0..Blank /\ (Kind = "website" /\ z = "y" => v # Blank)
  BY EntriesAre DEF Enter
<1>3. /\ form \in SUBSET FormType /\ AtMostOne(form) /\ touched \in SUBSET Fields
      /\ Fits(page, cache, form, touched)
  BY Parts DEF ConsoleInv, ConsoleTypes
<1>4. PICK f \in form : form = {f}
  BY <1>1, <1>3 DEF AtMostOne
<1> DEFINE g == [f EXCEPT !.draft[z] = v]
<1>5. form' = {g}
  BY <1>1, <1>4
<1>6. /\ g \in FormType /\ g.base = f.base
      /\ \A y \in Fields : g.draft[y] = IF y = z THEN v ELSE f.draft[y]
  <2>1. f \in FormType
    BY <1>3
  <2> QED
    BY <2>1, <1>2 DEF FormType
<1> HIDE DEF g
<1>7. Fits(page, cache, form', touched')
  BY <1>1, <1>2, <1>3, <1>4, <1>5, <1>6 DEF Fits, Fields
<1>8. form' \in SUBSET FormType /\ AtMostOne(form') /\ touched' \in SUBSET Fields
  BY <1>1, <1>2, <1>3, <1>5, <1>6 DEF AtMostOne
<1> QED
  BY <1>1, <1>7, <1>8, FormStep

LEMMA ToggleSelectAllStep ==
  ASSUME ConsoleInv, ToggleSelectAll
  PROVE  ConsoleInv'
<1>1. /\ form # {} /\ Kind \in Selecting
      /\ form' = {Toggled(x, The(cache.entry).item) : x \in form}
      /\ touched' = touched \cup {f \in Fields : \A x \in form' : x.draft[f] # 0}
      /\ UNCHANGED <<scenario, page, opened, cache, garage, call, sent, others, owed, due, missed>>
  BY DEF ToggleSelectAll
<1>2. /\ form \in SUBSET FormType /\ AtMostOne(form) /\ touched \in SUBSET Fields
      /\ Fits(page, cache, form, touched)
  BY Parts DEF ConsoleInv, ConsoleTypes
<1>3. PICK f \in form : form = {f}
  BY <1>1, <1>2 DEF AtMostOne
<1>4. Up(page, cache)
  BY <1>1, <1>2 DEF Fits
<1> DEFINE item == The(cache.entry).item
<1>5. item \in Item
  <2>1. cache.entry # {} /\ cache.entry \subseteq EntryType
    BY <1>4 DEF Up, ConsoleInv, ConsoleTypes, CacheTypes, CacheType
  <2>2. The(cache.entry) \in EntryType
    BY <2>1, TheIn
  <2> QED
    BY <2>2 DEF EntryType
<1> DEFINE g == Toggled(f, item)
<1>6. form' = {g}
  BY <1>1, <1>3
<1> HIDE DEF item
<1>7. g \in FormType /\ g.base = f.base /\ g.draft \in {Nowhere, item}
  <2>1. f \in FormType
    BY <1>2
  <2>2. Nowhere \in Item /\ Item \subseteq [Fields -> 0..Blank]
    BY DEF Nowhere, Item, Blank
  <2> QED
    BY <1>5, <2>1, <2>2 DEF Toggled, FormType
<1>8. Entered(g, touched')
  <2>1. f.base = Nowhere
    BY <1>1, <1>2, <1>3 DEF Fits
  <2> HIDE DEF g
  <2>2. SUFFICES ASSUME NEW z \in Fields, g.draft[z] # 0 PROVE z \in touched'
    BY <1>7, <2>1 DEF Entered, Nowhere
  <2> QED BY <1>1, <1>6, <2>2
<1> HIDE DEF g
<1>9. Fits(page, cache, form', touched')
  BY <1>1, <1>2, <1>3, <1>4, <1>6, <1>7, <1>8 DEF Fits, Entered, Selecting
<1>10. form' \in SUBSET FormType /\ AtMostOne(form') /\ touched' \in SUBSET Fields
  BY <1>1, <1>2, <1>6, <1>7 DEF AtMostOne
<1> QED
  BY <1>1, <1>9, <1>10, FormStep

\* The form of a state that the invariant holds in is one that a page may go on showing.
LEMMA FormIs ==
  ASSUME ConsoleInv
  PROVE  /\ form \in SUBSET FormType /\ AtMostOne(form) /\ touched \in SUBSET Fields
         /\ \A f \in form : Entered(f, touched)
         /\ Kind = "website" => \A f \in form : f.draft["y"] # Blank
         /\ Kind \in Selecting => \A f \in form : f.base = Nowhere
         /\ form # {} => Up(page, cache)
BY DEF ConsoleInv, ConsoleTypes, FormInv, Fits, Entered

LEMMA CacheIs ==
  ASSUME ConsoleInv
  PROVE  /\ CacheTypes(cache) /\ op \in DOMAIN Operations /\ q \in Queries /\ page \in Pages
         /\ opened \in BOOLEAN /\ owed \in Nat /\ missed \in BOOLEAN /\ sent \in Nat
         /\ others \in Nat /\ garage \in GarageType /\ garage.own \in Nat /\ garage.item \in Item
         /\ call \in SUBSET CallType /\ AtMostOne(call)
         /\ SecretOK(cache, opened) /\ ReadOK(cache, page, opened, owed, missed)
         /\ opened => q \in OnDemand[page]
         /\ owed <= garage.own /\ due \in Nat /\ due <= owed /\ UpToDate(cache, due)
BY Parts DEF ConsoleInv, ConsoleTypes, CallOK, DueOK, GarageType

LEMMA DiscardStep ==
  ASSUME ConsoleInv, Discard
  PROVE  ConsoleInv'
<1>1. /\ Kind \notin Selecting
      /\ IF Kind \in Dialogs THEN form' = {} /\ touched' = {}
         ELSE Shown(page, cache, {Fresh(x.base) : x \in form}, {})
      /\ UNCHANGED <<scenario, page, opened, cache, garage, call, sent, others, owed, due, missed>>
  BY DEF Discard
<1>2. CASE Kind \in Dialogs
  <2>1. form' = {} /\ touched' = {}
    BY <1>1, <1>2
  <2>2. Fits(page, cache, form', touched')
    BY <1>2, <2>1 DEF Fits, Cards
  <2> QED
    BY <1>1, <2>1, <2>2, FormStep DEF AtMostOne
<1>3. CASE Kind \notin Dialogs
  <2> DEFINE fs == {Fresh(x.base) : x \in form}
  <2>1. Shown(page, cache, fs, {})
    BY <1>1, <1>3
  <2>2. \A x \in form : x.base \in Item
    BY FormIs DEF FormType
  <2>3. fs \in SUBSET FormType /\ AtMostOne(fs)
    BY <2>2, FormIs, FreshIs DEF AtMostOne
  <2>4. \A f \in fs : Entered(f, {}) /\ f.draft["y"] # Blank
    BY <2>2, FreshIs
  <2> HIDE DEF fs
  <2>5. /\ form' \in SUBSET FormType /\ AtMostOne(form') /\ touched' \in SUBSET Fields
        /\ Fits(page, cache, form', touched')
    BY <1>1, <2>1, <2>3, <2>4, CacheIs, ShownStep
  <2> QED
    BY <1>1, <2>5, FormStep
<1> QED
  BY <1>2, <1>3

-----------------------------------------------------------------------------
(* The cache alone *)

\* Nothing is mounted on demand before it is opened, and no secret otherwise.
LEMMA SecretOnDemand ==
  ASSUME NEW p \in Pages, NEW o, MountedAt(p, o), q \in Secrets
  PROVE  o /\ p = "key"
BY ThePages DEF MountedAt

LEMMA OpenStep ==
  ASSUME ConsoleInv, Open
  PROVE  ConsoleInv'
<1>1. /\ q \in OnDemand[page] /\ opened' = TRUE /\ cache' = Appeared(cache)
      /\ due' = IF Outdated(cache) THEN owed ELSE due
      /\ UNCHANGED <<scenario, page, garage, form, touched, call, sent, others, owed, missed>>
  BY DEF Open
<1>2. /\ CacheTypes(cache') /\ cache'.entry = cache.entry /\ cache'.failed = cache.failed
      /\ \A n : Told(cache, n) => Told(cache', n)
      /\ AskedFor(cache')
      /\ cache'.old = cache.old
      /\ q \in Secrets /\ cache.entry # {} /\ ~cache.stale /\ ~cache.old => cache' = cache
      /\ \A n : Outdated(cache) \/ UpToDate(cache, n) => UpToDate(cache', n)
  BY <1>1, CacheIs, AppearedStep
<1>3. Fits(page, cache', form, touched)
  BY <1>2, Parts, FitsHeld
<1>4. SecretOK(cache', opened')
  BY <1>1, <1>2, CacheIs DEF SecretOK
<1>5. due' \in Nat /\ due' <= owed /\ UpToDate(cache', due')
  BY <1>1, <1>2, CacheIs
<1> QED
  BY <1>1, <1>2, <1>3, <1>4, <1>5, CacheStep

LEMMA HideStep ==
  ASSUME ConsoleInv, Hide
  PROVE  ConsoleInv'
<1>1. /\ opened /\ opened' = FALSE
      /\ cache' = IF q \in Secrets THEN Empty ELSE cache
      /\ UNCHANGED <<scenario, page, garage, form, touched, call, sent, others, owed, due, missed>>
  BY DEF Hide
<1>2. /\ CacheTypes(cache') /\ SecretOK(cache', opened') /\ (Told(cache, owed) => Told(cache', owed))
      /\ due' \in Nat /\ due' <= owed /\ UpToDate(cache', due')
  BY <1>1, CacheIs, EmptyStep DEF SecretOK
<1>3. Fits(page, cache', form, touched)
  <2>1. CASE q \in Secrets
    <3>1. Kind = "none"
      BY <2>1, CacheIs, FormMounted
    <3>2. form = {}
      BY <3>1, FormIs DEF Up
    <3> QED BY <3>1, <3>2 DEF Fits, Cards
  <2>2. CASE q \notin Secrets
    BY <1>1, <2>2, Parts
  <2> QED BY <2>1, <2>2
<1>4. ~MountedAt(page, opened')
  BY <1>1, CacheIs DEF MountedAt
<1> QED
  BY <1>1, <1>2, <1>3, <1>4, CacheStep

LEMMA InvalidateStep ==
  ASSUME ConsoleInv, q \notin Secrets
  PROVE  /\ CacheTypes(Invalidated(cache)) /\ SecretOK(Invalidated(cache), opened)
         /\ Fits(page, Invalidated(cache), form, touched)
         /\ \A n : Told(Invalidated(cache), n)
         /\ UpToDate(Invalidated(cache), due)
         /\ MountedAt(page, opened) => AskedFor(Invalidated(cache))
<1>1. /\ CacheTypes(Invalidated(cache)) /\ Invalidated(cache).entry = cache.entry
      /\ Invalidated(cache).failed = cache.failed
      /\ \A n : Told(Invalidated(cache), n)
      /\ UpToDate(Invalidated(cache), due)
      /\ Mounted => AskedFor(Invalidated(cache))
  BY CacheIs, InvalidatedStep
<1>2. Fits(page, Invalidated(cache), form, touched)
  BY <1>1, Parts, FitsHeld
<1> QED
  BY <1>1, <1>2 DEF SecretOK, Mounted

LEMMA RefreshStep ==
  ASSUME ConsoleInv, RefreshButton
  PROVE  ConsoleInv'
<1>1. /\ MatchedBy(RefreshAll) /\ cache' = Invalidated(cache)
      /\ UNCHANGED <<scenario, page, opened, garage, form, touched, call, sent, others, owed, due, missed>>
  BY DEF RefreshButton
<1>2. q \notin Secrets
  <2>1. \A f \in RefreshAll : Spares(f)
    BY SecretsSpared DEF RefreshAll
  <2> QED
    BY <1>1, <2>1 DEF MatchedBy, Spares, Secrets
<1>3. /\ CacheTypes(cache') /\ SecretOK(cache', opened')
      /\ Fits(page, cache', form, touched)
      /\ Told(cache', owed) /\ (MountedAt(page, opened') => AskedFor(cache'))
      /\ due' \in Nat /\ due' <= owed /\ UpToDate(cache', due')
  BY <1>1, <1>2, CacheIs, InvalidateStep
<1>4. opened' \in BOOLEAN /\ (opened' => q \in OnDemand[page])
  BY <1>1, CacheIs
<1> QED
  BY <1>1, <1>3, <1>4, CacheStep

LEMMA RefetchStep ==
  ASSUME ConsoleInv, Refetch
  PROVE  ConsoleInv'
<1>1. /\ Mounted /\ (q \in Secrets => cache.entry = {} \/ cache.stale)
      /\ cache' = Ask(cache)
      /\ UNCHANGED <<scenario, page, opened, garage, form, touched, call, sent, others, owed, due, missed>>
  BY DEF Refetch
<1>2. /\ CacheTypes(cache') /\ cache'.entry = cache.entry /\ cache'.fetch = {Asked}
      /\ cache'.stale = cache.stale /\ cache'.failed = cache.failed /\ cache'.old = cache.old
      /\ due' \in Nat /\ due' <= owed /\ UpToDate(cache', due')
  BY <1>1, CacheIs, AskStep
<1>3. Fits(page, cache', form, touched)
  BY <1>2, Parts, FitsHeld
<1>4. SecretOK(cache', opened')
  BY <1>1, <1>2, CacheIs, SecretOnDemand DEF SecretOK, Mounted
<1>5. AskedFor(cache') /\ (Told(cache, owed) => Told(cache', owed))
  BY <1>2, AskedRead DEF AskedFor, Told
<1>6. opened' \in BOOLEAN /\ (opened' => q \in OnDemand[page])
  BY <1>1, CacheIs
<1> QED
  BY <1>1, <1>2, <1>3, <1>4, <1>5, <1>6, CacheStep

LEMMA GarageReadsStep ==
  ASSUME ConsoleInv, GarageReads
  PROVE  ConsoleInv'
<1> DEFINE read == [phase |-> "read", answer |-> Entry(garage.own, garage.item, FALSE)]
<1>1. /\ cache.fetch # {} /\ cache' = [cache EXCEPT !.fetch = {read}]
      /\ UNCHANGED <<scenario, page, opened, garage, form, touched, call, sent, others, owed, due, missed>>
  BY DEF GarageReads
<1>2. read \in FetchType /\ read.answer.own = garage.own
  BY CacheIs DEF FetchType, Entry, EntryType
<1> HIDE DEF read
<1>3. /\ CacheTypes(cache') /\ cache'.entry = cache.entry /\ cache'.fetch = {read}
      /\ cache'.stale = cache.stale /\ cache'.failed = cache.failed /\ cache'.old = cache.old
  BY <1>1, <1>2, CacheIs DEF CacheTypes, CacheType, AtMostOne
<1>4. Fits(page, cache', form, touched)
  BY <1>3, Parts, FitsHeld
<1>5. SecretOK(cache', opened')
  BY <1>1, <1>3, CacheIs, EmptyStep DEF SecretOK
<1>6. AskedFor(cache') /\ (Told(cache, owed) => Told(cache', owed))
  BY <1>2, <1>3, CacheIs DEF AskedFor, Told
<1>7. opened' \in BOOLEAN /\ (opened' => q \in OnDemand[page])
  BY <1>1, CacheIs
<1>8. due' \in Nat /\ due' <= owed /\ UpToDate(cache', due')
  BY <1>1, <1>2, <1>3, CacheIs DEF UpToDate
<1> QED
  BY <1>1, <1>3, <1>4, <1>5, <1>6, <1>7, <1>8, CacheStep

LEMMA GrowsOldStep ==
  ASSUME ConsoleInv, GrowsOld
  PROVE  ConsoleInv'
<1>1. /\ q \notin Secrets /\ cache' = [cache EXCEPT !.old = TRUE]
      /\ UNCHANGED <<scenario, page, opened, garage, form, touched, call, sent, others, owed, due, missed>>
  BY DEF GrowsOld
<1>2. /\ CacheTypes(cache') /\ cache'.entry = cache.entry /\ cache'.fetch = cache.fetch
      /\ cache'.stale = cache.stale /\ cache'.failed = cache.failed
  BY <1>1, CacheIs DEF CacheTypes, CacheType
<1>3. Fits(page, cache', form, touched)
  BY <1>2, Parts, FitsHeld
<1>4. SecretOK(cache', opened')
  BY <1>1 DEF SecretOK
<1>5. /\ Told(cache, owed) => Told(cache', owed)
      /\ AskedFor(cache) => AskedFor(cache')
      /\ due' \in Nat /\ due' <= owed /\ UpToDate(cache', due')
  BY <1>1, <1>2, CacheIs DEF Told, AskedFor, UpToDate
<1>6. opened' \in BOOLEAN /\ (opened' => q \in OnDemand[page])
  BY <1>1, CacheIs
<1>7. q \notin O.ages \cup Secrets => (MountedAt(page, opened') => AskedFor(cache'))
  BY <1>1, <1>5, CacheIs DEF ReadOK
<1> QED
  BY <1>1, <1>2, <1>3, <1>4, <1>5, <1>6, <1>7, CacheStep

\* A form is only shown where its query is mounted.
LEMMA FormOnScreen ==
  ASSUME ConsoleInv, form # {}
  PROVE  Mounted /\ q \notin Secrets
<1>1. Up(page, cache)
  BY FormIs
<1> QED
  BY <1>1, CacheIs, FormMounted DEF Up, Mounted, MountedAt

LEMMA CollectStep ==
  ASSUME ConsoleInv, Collect
  PROVE  ConsoleInv'
<1>1. /\ ~Mounted /\ cache' = Empty
      /\ UNCHANGED <<scenario, page, opened, garage, form, touched, call, sent, others, owed, due, missed>>
  BY DEF Collect
<1>2. form = {}
  BY <1>1, FormOnScreen
<1>3. Fits(page, cache', form, touched)
  BY <1>1, <1>2, EmptyStep DEF Fits, Up
<1>4. /\ SecretOK(cache', opened') /\ CacheTypes(cache') /\ AskedFor(cache') /\ Told(cache', owed)
      /\ due' \in Nat /\ due' <= owed /\ UpToDate(cache', due')
  BY <1>1, CacheIs, EmptyStep DEF SecretOK
<1>5. opened' \in BOOLEAN /\ (opened' => q \in OnDemand[page])
  BY <1>1, CacheIs
<1> QED
  BY <1>1, <1>3, <1>4, <1>5, CacheStep

-----------------------------------------------------------------------------
(* Pages that are left and answers that land *)

\* What the form of a state becomes on a page that shows it with the cache c.
LEMMA FollowedStep ==
  ASSUME ConsoleInv, NEW p, NEW c, CacheTypes(c), Shown(p, c, form, touched)
  PROVE  /\ form' \in SUBSET FormType /\ AtMostOne(form') /\ touched' \in SUBSET Fields
         /\ Fits(p, c, form', touched')
BY FormIs, ShownStep

LEMMA NewFormStep ==
  ASSUME NEW p, NEW c, CacheTypes(c), Shown(p, c, {}, {})
  PROVE  /\ form' \in SUBSET FormType /\ AtMostOne(form') /\ touched' \in SUBSET Fields
         /\ Fits(p, c, form', touched')
<1>1. /\ {} \in SUBSET FormType /\ AtMostOne({}) /\ {} \in SUBSET Fields
      /\ \A f \in {} : Entered(f, {}) /\ f.draft["y"] # Blank /\ f.base = Nowhere
  BY DEF AtMostOne
<1> QED
  BY <1>1, ShownStep

\* The call goes on, whether or not its page is left.
SameCall(c, d) ==
  /\ d.phase = c.phase /\ d.answer = c.answer /\ d.body = c.body
  /\ d.confirmed = c.confirmed /\ d.bare = c.bare

LEMMA CallsStep ==
  ASSUME ConsoleInv, NEW left \in BOOLEAN
  PROVE  /\ Calls(left) \in SUBSET CallType /\ AtMostOne(Calls(left))
         /\ CallOK(page, opened, owed, garage.own, Calls(left)) /\ BodyOK(Calls(left))
<1> DEFINE G(c) == [c EXCEPT !.left = @ \/ left, !.same = @ /\ form' # {} /\ ~left]
<1>1. Calls(left) = {G(c) : c \in call}
  BY DEF Calls
<1>2. ASSUME NEW c \in CallType
      PROVE  G(c) \in CallType /\ SameCall(c, G(c))
  BY DEF CallType, SameCall
<1> HIDE DEF G
<1>3. call \in SUBSET CallType /\ AtMostOne(call)
  BY CacheIs
<1>4. \A d \in Calls(left) : \E c \in call : d = G(c) /\ d \in CallType /\ SameCall(c, d)
  BY <1>1, <1>2, <1>3
<1>5. CallOK(page, opened, owed, garage.own, call) /\ BodyOK(call)
  BY Parts
<1>6. CallOK(page, opened, owed, garage.own, Calls(left))
  BY <1>4, <1>5 DEF CallOK, SameCall
<1>7. BodyOK(Calls(left))
  BY <1>4, <1>5 DEF BodyOK, Harmless, SameCall
<1>8. AtMostOne(Calls(left))
  BY <1>1, <1>3 DEF AtMostOne
<1> QED
  BY <1>4, <1>6, <1>7, <1>8

LEMMA VisitStep ==
  ASSUME ConsoleInv, NEW p \in Pages, NEW c, CacheTypes(c), SecretOK(c, opened), UpToDate(c, due),
         NEW n \in Nat, owed <= n, Visit(p, c, n)
  PROVE  /\ page' = p /\ opened' = FALSE /\ CacheTypes(cache')
         /\ SecretOK(cache', opened')
         /\ due' \in Nat /\ DueOK(cache', due', n)
         /\ q \notin Secrets =>
              /\ \A m : Told(c, m) => Told(cache', m)
              /\ MountedAt(page', opened') => AskedFor(cache')
         /\ form' \in SUBSET FormType /\ AtMostOne(form') /\ touched' \in SUBSET Fields
         /\ Fits(page', cache', form', touched')
<1>1. /\ page' = p /\ opened' = FALSE
      /\ cache' = IF q \in Secrets /\ page = "key" THEN Empty
                  ELSE IF MountedAt(p, FALSE) THEN Appeared(c) ELSE c
      /\ due' = IF MountedAt(p, FALSE) /\ Outdated(c) THEN n ELSE due
      /\ Shown(p, cache', {}, {})
  BY DEF Visit
<1>2. due' \in Nat /\ due' <= n
  <2>1. due \in Nat /\ owed \in Nat /\ due <= owed
    BY CacheIs
  <2>2. due <= n
    BY <2>1
  <2>3. due' = n \/ due' = due
    BY <1>1
  <2> QED
    BY <2>1, <2>2, <2>3
<1>3. CASE q \in Secrets
  <2>1. ~MountedAt(p, FALSE)
    BY <1>3, SecretOnDemand
  <2>2. page # "key" => ~opened
    BY <1>3, CacheIs, ThePages
  <2>3. cache' = Empty
    BY <1>1, <1>3, <2>1, <2>2 DEF SecretOK
  <2>4. CacheTypes(cache') /\ SecretOK(cache', opened') /\ DueOK(cache', due', n)
    BY <1>2, <2>3, EmptyStep DEF SecretOK, DueOK
  <2>5. /\ form' \in SUBSET FormType /\ AtMostOne(form') /\ touched' \in SUBSET Fields
        /\ Fits(page', cache', form', touched')
    BY <1>1, <2>4, NewFormStep
  <2> QED
    BY <1>1, <1>2, <1>3, <2>4, <2>5
<1>4. CASE q \notin Secrets
  <2>1. cache' = IF MountedAt(p, FALSE) THEN Appeared(c) ELSE c
    BY <1>1, <1>4
  <2>2. /\ CacheTypes(cache') /\ (\A m : Told(c, m) => Told(cache', m))
        /\ MountedAt(p, FALSE) => AskedFor(cache')
        /\ UpToDate(cache', due')
    BY <1>1, <2>1, AppearedStep
  <2>3. /\ form' \in SUBSET FormType /\ AtMostOne(form') /\ touched' \in SUBSET Fields
        /\ Fits(page', cache', form', touched')
    BY <1>1, <2>2, NewFormStep
  <2> QED
    BY <1>1, <1>2, <1>4, <2>2, <2>3 DEF SecretOK, DueOK
<1> QED
  BY <1>3, <1>4

LEMMA TourIsPages ==
  ASSUME op \in DOMAIN Operations, q \in Queries
  PROVE  Tour \subseteq Pages
<1>1. O.pages \subseteq Pages /\ O.goes \subseteq Pages
  BY TheOperations DEF O, Sound
<1>2. /\ (CHOOSE p \in Pages : q \in Shows[p]) \in Pages
      /\ (CHOOSE p \in Pages : q \notin Shows[p]) \in Pages
  BY Elsewhere
<1> QED
  BY <1>1, <1>2, PageNames DEF Tour

LEMMA NavigateStep ==
  ASSUME ConsoleInv, NEW p \in Tour, Navigate(p)
  PROVE  ConsoleInv'
<1>1. /\ Visit(p, cache, owed) /\ call' = Calls(TRUE)
      /\ UNCHANGED <<scenario, garage, sent, others, owed, missed>>
  BY DEF Navigate
<1>2. p \in Pages
  BY CacheIs, TourIsPages
<1>3. /\ page' = p /\ opened' = FALSE /\ CacheTypes(cache')
      /\ SecretOK(cache', opened') /\ due' \in Nat /\ DueOK(cache', due', owed)
      /\ q \notin Secrets =>
           /\ \A n : Told(cache, n) => Told(cache', n)
           /\ MountedAt(page', opened') => AskedFor(cache')
      /\ form' \in SUBSET FormType /\ AtMostOne(form') /\ touched' \in SUBSET Fields
      /\ Fits(page', cache', form', touched')
  <2>1. /\ CacheTypes(cache) /\ SecretOK(cache, opened) /\ UpToDate(cache, due)
        /\ owed \in Nat /\ owed <= owed
    BY CacheIs
  <2> QED
    BY <1>1, <1>2, <2>1, VisitStep
<1>4. /\ call' \in SUBSET CallType /\ AtMostOne(call')
      /\ CallOK(page, opened, owed, garage.own, call') /\ BodyOK(call')
  BY <1>1, CallsStep
<1>5. CallOK(page', opened', owed', garage'.own, call')
  BY <1>1, <1>3, <1>4 DEF CallOK
<1>6. ReadOK(cache', page', opened', owed', missed') /\ DueOK(cache', due', owed')
  BY <1>1, <1>3, CacheIs DEF ReadOK
<1>7. /\ page' \in Pages /\ opened' \in BOOLEAN /\ garage' \in GarageType
      /\ sent' \in Nat /\ others' \in Nat /\ owed' \in Nat /\ missed' \in BOOLEAN
      /\ UNCHANGED scenario
  BY <1>1, <1>2, <1>3, CacheIs
<1> QED
  BY <1>3, <1>4, <1>5, <1>6, <1>7, Assemble

LEMMA LandedStep ==
  ASSUME ConsoleInv, NEW c, Landed(c), CacheTypes(c), SecretOK(c, opened),
         ReadOK(c, page, opened, owed, missed), UpToDate(c, due)
  PROVE  ConsoleInv'
<1>1. /\ cache' = c /\ Shown(page, c, form, touched) /\ call' = Calls(FALSE)
      /\ UNCHANGED <<scenario, page, opened, garage, sent, others, owed, due, missed>>
  BY DEF Landed
<1>2. /\ form' \in SUBSET FormType /\ AtMostOne(form') /\ touched' \in SUBSET Fields
      /\ Fits(page', cache', form', touched')
  BY <1>1, FollowedStep
<1>3. /\ call' \in SUBSET CallType /\ AtMostOne(call')
      /\ CallOK(page', opened', owed', garage'.own, call') /\ BodyOK(call')
  BY <1>1, CallsStep
<1>4. /\ CacheTypes(cache') /\ SecretOK(cache', opened')
      /\ ReadOK(cache', page', opened', owed', missed') /\ due' \in Nat /\ DueOK(cache', due', owed')
  BY <1>1, CacheIs DEF DueOK
<1>5. /\ page' \in Pages /\ opened' \in BOOLEAN /\ garage' \in GarageType
      /\ sent' \in Nat /\ others' \in Nat /\ owed' \in Nat /\ missed' \in BOOLEAN
      /\ UNCHANGED scenario
  BY <1>1, CacheIs
<1> QED
  BY <1>2, <1>3, <1>4, <1>5, Assemble

LEMMA FetchLandsStep ==
  ASSUME ConsoleInv, FetchLands
  PROVE  ConsoleInv'
<1>1. PICK r \in cache.fetch : r.phase = "read" /\ Landed([Empty EXCEPT !.entry = {r.answer}])
  BY DEF FetchLands
<1> DEFINE c == [Empty EXCEPT !.entry = {r.answer}]
<1>2. r.answer \in EntryType
  BY CacheIs DEF CacheTypes, CacheType, FetchType
<1>3. /\ CacheTypes(c) /\ c.entry = {r.answer} /\ c.fetch = {} /\ c.stale = FALSE /\ c.old = FALSE
  BY <1>2 DEF Empty, CacheTypes, CacheType, AtMostOne
<1> HIDE DEF c
<1>4. SecretOK(c, opened)
  BY <1>3, CacheIs, EmptyStep DEF SecretOK
<1>5. ReadOK(c, page, opened, owed, missed)
  BY <1>1, <1>3, CacheIs DEF ReadOK, Told, AskedFor
<1>6. UpToDate(c, due)
  BY <1>1, <1>3, CacheIs DEF UpToDate
<1> QED
  BY <1>1, <1>3, <1>4, <1>5, <1>6, LandedStep DEF c

LEMMA FetchFailsStep ==
  ASSUME ConsoleInv, FetchFails
  PROVE  ConsoleInv'
<1> DEFINE c == [cache EXCEPT !.fetch = {}, !.failed = TRUE, !.stale = TRUE]
<1>1. cache.fetch # {} /\ Landed(c)
  BY DEF FetchFails
<1>2. /\ CacheTypes(c) /\ c.entry = cache.entry /\ c.fetch = {} /\ c.stale /\ c.failed
      /\ c.old = cache.old
  BY CacheIs DEF CacheTypes, CacheType, AtMostOne
<1> HIDE DEF c
<1>3. SecretOK(c, opened)
  BY <1>1, <1>2, CacheIs, EmptyStep DEF SecretOK
<1>4. ReadOK(c, page, opened, owed, missed)
  BY <1>2 DEF ReadOK, Told, AskedFor
<1>5. UpToDate(c, due)
  BY <1>2 DEF UpToDate
<1> QED
  BY <1>1, <1>2, <1>3, <1>4, <1>5, LandedStep

-----------------------------------------------------------------------------
(* What a form sends *)

LEMMA BodyIs ==
  ASSUME NEW f \in FormType, NEW S \in SUBSET Fields
  PROVE  /\ Body(f, S) \in BodyType /\ DOMAIN Body(f, S) = S
         /\ \A z \in S : Body(f, S)[z] = Parsed(f.draft[z])
<1>1. \A z \in S : Parsed(f.draft[z]) \in 0..2
  BY DEF FormType, Parsed, Blank
<1>2. Body(f, S) \in [S -> 0..2]
  BY <1>1 DEF Body
<1> QED
  BY <1>2 DEF Body, BodyType

\* What makes a body harmless, and a report of what was entered.
Sendable(kind, f, ts, item, body) ==
  /\ body \in BodyType
  /\ kind = "website" => "y" \in DOMAIN body /\ (body["y"] = 0 => Confirms(kind, f, body))
  /\ kind \in {"website", "rules"} /\ "x" \in DOMAIN body /\ body["x"] = 0
       => Confirms(kind, f, body) \/ (kind = "rules" /\ f.base["x"] = 0)
  /\ kind = "remount" /\ "x" \in DOMAIN body /\ body["x"] > 0
       => Confirms(kind, f, body) \/ f.base["x"] # 0
  /\ kind = "drafts" => \A z \in DOMAIN body : body[z] = f.draft[z]
  /\ DOMAIN body \subseteq
       ts \cup (CASE kind \in Wholesale -> Fields
                  [] kind = "website"   -> {"y"}
                  [] kind = "live"      -> {z \in {"x"} : item[z] # f.base[z]}
                  [] OTHER              -> {})

LEMMA BodiesAre ==
  ASSUME NEW kind \in Kinds \ {"none"}, NEW f \in FormType, NEW ts \in SUBSET Fields,
         NEW item \in Item, Entered(f, ts), kind = "website" => f.draft["y"] # Blank,
         NEW body \in Bodies(kind, f, ts, item)
  PROVE  Sendable(kind, f, ts, item, body)
<1> DEFINE changed == {z \in Fields : f.draft[z] # f.base[z]}
<1>1. changed \in SUBSET Fields /\ changed \subseteq ts
  BY DEF Entered
<1>2. /\ f.draft \in [Fields -> 0..Blank] /\ f.base \in [Fields -> 0..2]
  BY DEF FormType, Item
<1>3. CASE kind = "website"
  <2>1. body = IF f.draft["y"] = 0 THEN Body(f, {"y"}) ELSE Body(f, WebsiteFields(f))
    <3>1. body \in IF changed = {} \/ (f.draft["y"] = 0 /\ f.base["y"] = 0) THEN {}
                   ELSE IF f.draft["y"] = 0 THEN {Body(f, {"y"})}
                   ELSE {Body(f, WebsiteFields(f))}
      BY <1>3 DEF Bodies, Selecting
    <3> QED BY <3>1
  <2>2. CASE f.draft["y"] = 0
    <3>1. body = Body(f, {"y"}) /\ {"y"} \in SUBSET Fields
      BY <2>1, <2>2 DEF Fields
    <3>2. body \in BodyType /\ DOMAIN body = {"y"}
      BY <3>1, BodyIs
    <3> QED
      BY <1>3, <2>2, <3>2 DEF Sendable, Confirms, ConfirmsDisabling, Wholesale
  <2>3. CASE f.draft["y"] # 0
    <3>1. body = Body(f, WebsiteFields(f)) /\ WebsiteFields(f) \in SUBSET Fields
      BY <2>1, <2>3 DEF Fields, WebsiteFields
    <3>2. /\ body \in BodyType /\ DOMAIN body = WebsiteFields(f)
          /\ \A z \in WebsiteFields(f) : body[z] = Parsed(f.draft[z])
      BY <3>1, BodyIs
    <3>3. /\ "y" \in WebsiteFields(f)
          /\ WebsiteFields(f) \subseteq ts \cup {"y"}
      BY <1>1 DEF WebsiteFields, Fields
    <3>4. body["y"] # 0
      BY <1>2, <1>3, <2>3, <3>2, <3>3 DEF Parsed
    <3>5. "x" \in DOMAIN body /\ body["x"] = 0 => f.base["x"] # 0
      BY <3>2 DEF WebsiteFields
    <3>6. "x" \in DOMAIN body /\ body["x"] = 0 => Confirms(kind, f, body)
      BY <1>3, <3>5 DEF Confirms
    <3> QED
      BY <1>3, <3>2, <3>3, <3>4, <3>6 DEF Sendable, Wholesale
  <2> QED BY <2>2, <2>3
<1>4. CASE kind \in Wholesale
  <2>1. body = Body(f, Fields)
    BY <1>4 DEF Bodies, Wholesale, Selecting
  <2>2. body \in BodyType /\ DOMAIN body = Fields
    BY <2>1, BodyIs
  <2> QED
    BY <1>4, <2>2 DEF Sendable, Wholesale
<1>5. CASE kind = "live"
  <2>1. body = Body(f, KeyFields(f, item)) /\ KeyFields(f, item) \in SUBSET Fields
    BY <1>5 DEF Bodies, Selecting, KeyFields
  <2>2. body \in BodyType /\ DOMAIN body = KeyFields(f, item)
    BY <2>1, BodyIs
  <2>3. KeyFields(f, item) \subseteq ts \cup {z \in {"x"} : item[z] # f.base[z]}
    BY <1>1 DEF KeyFields, Fields
  <2> QED
    BY <1>5, <2>2, <2>3 DEF Sendable, Wholesale
<1>6. CASE kind = "drafts"
  <2>1. PICK z \in changed \cap ts \cap ValidFields(f) : body = Body(f, {z})
    BY <1>6 DEF Bodies, Selecting
  <2>2. {z} \in SUBSET Fields
    BY <2>1
  <2>3. body \in BodyType /\ DOMAIN body = {z} /\ body[z] = Parsed(f.draft[z])
    BY <2>1, <2>2, BodyIs
  <2>4. body[z] = f.draft[z]
    BY <2>1, <2>3 DEF Parsed, ValidFields
  <2> QED
    BY <1>6, <2>1, <2>3, <2>4 DEF Sendable, Wholesale
<1>7. CASE kind \in Selecting \cup {"rules", "remount"}
  <2>1. body = Body(f, changed)
    BY <1>7 DEF Bodies, Selecting
  <2>2. /\ body \in BodyType /\ DOMAIN body = changed
        /\ \A z \in changed : body[z] = Parsed(f.draft[z])
    BY <1>1, <2>1, BodyIs
  <2>3. kind = "rules" /\ "x" \in DOMAIN body /\ body["x"] = 0
          => Confirms(kind, f, body) \/ f.base["x"] = 0
    BY DEF Confirms
  <2>4. kind = "remount" /\ "x" \in DOMAIN body /\ body["x"] > 0
          => Confirms(kind, f, body) \/ f.base["x"] # 0
    BY DEF Confirms
  <2>5. kind \notin {"website", "drafts", "live"} /\ kind \notin Wholesale
    BY <1>7 DEF Selecting, Wholesale
  <2>6. DOMAIN body \subseteq ts
    BY <1>1, <2>2
  <2> QED
    BY <2>2, <2>3, <2>4, <2>5, <2>6 DEF Sendable
<1> QED
  BY <1>3, <1>4, <1>5, <1>6, <1>7 DEF Kinds, Wholesale, Selecting

-----------------------------------------------------------------------------
(* The operation under way *)

\* A step that leaves the page, the cache and the form alone.
LEMMA CallStep ==
  ASSUME ConsoleInv, UNCHANGED <<scenario, page, opened, cache, form, touched, owed, due, missed>>,
         garage' \in GarageType, garage.own <= garage'.own, sent' \in Nat, others' \in Nat,
         call' \in SUBSET CallType, AtMostOne(call'), BodyOK(call'),
         \A c \in call' : c.phase # "sent" => c.answer.own = garage'.own
  PROVE  ConsoleInv'
<1>1. /\ SecretOK(cache', opened') /\ ReadOK(cache', page', opened', owed', missed')
      /\ DueOK(cache', due', owed') /\ Fits(page', cache', form', touched')
  BY Parts
<1>2. CallOK(page', opened', owed', garage'.own, call')
  <2>1. garage.own \in Nat /\ garage'.own \in Nat /\ owed \in Nat
    BY CacheIs DEF GarageType
  <2> QED
    BY <2>1, CacheIs DEF CallOK
<1>3. /\ page' \in Pages /\ opened' \in BOOLEAN /\ CacheTypes(cache')
      /\ form' \in SUBSET FormType /\ AtMostOne(form') /\ touched' \in SUBSET Fields
      /\ owed' \in Nat /\ due' \in Nat /\ missed' \in BOOLEAN /\ UNCHANGED scenario
  BY CacheIs, FormIs
<1> QED
  BY <1>1, <1>2, <1>3, Assemble

\* What is sent fits the form it is sent from.
LEMMA SendIs ==
  ASSUME ConsoleInv, Send
  PROVE  \E c \in CallType :
           /\ call' = {c} /\ c.phase = "sent"
           /\ Kind # "none" => \E f \in form :
                /\ form = {f} /\ c.bare = (f.base["x"] = 0)
                /\ Sendable(Kind, f, touched, The(cache.entry).item, c.body)
                /\ Confirms(Kind, f, c.body) => c.confirmed
<1> DEFINE SentCall(body, wide) ==
             [phase |-> "sent", body |-> body, left |-> FALSE, same |-> TRUE,
              wide |-> wide, outcome |-> "success",
              confirmed |-> Kind # "none" /\ (wide \/ Confirms(Kind, The(form), body)),
              bare |-> Kind # "none" /\ The(form).base["x"] = 0,
              answer |-> Entry(0, garage.item, FALSE)]
<1>1. PICK body \in IF Kind = "none" THEN {NoBody}
                    ELSE Bodies(Kind, The(form), touched, The(cache.entry).item),
           wide \in IF Kind = "drafts" THEN BOOLEAN ELSE {FALSE} :
        call' = {SentCall(body, wide)}
  BY DEF Send
<1>2. wide \in BOOLEAN /\ Entry(0, garage.item, FALSE) \in EntryType
  BY CacheIs DEF Entry, EntryType
<1>3. ASSUME body \in BodyType
      PROVE  /\ SentCall(body, wide) \in CallType /\ SentCall(body, wide).phase = "sent"
             /\ SentCall(body, wide).body = body
             /\ Kind # "none" => /\ SentCall(body, wide).bare = (The(form).base["x"] = 0)
                                 /\ Confirms(Kind, The(form), body) => SentCall(body, wide).confirmed
  BY <1>2, <1>3 DEF CallType
<1> HIDE DEF SentCall
<1>4. CASE Kind = "none"
  <2>1. body = NoBody
    BY <1>1, <1>4
  <2>2. body \in [{} -> 0..2] /\ {} \in SUBSET Fields
    BY <2>1 DEF NoBody
  <2>3. body \in BodyType
    BY <2>2 DEF BodyType
  <2> QED
    BY <1>1, <1>3, <1>4, <2>3
<1>5. CASE Kind # "none"
  <2>1. form # {}
    BY <1>5 DEF Send
  <2>2. PICK f \in form : form = {f}
    BY <2>1, FormIs DEF AtMostOne
  <2>3. The(form) = f
    BY <2>2 DEF The
  <2>4. The(cache.entry).item \in Item
    <3>1. cache.entry # {} /\ cache.entry \subseteq EntryType
      BY <2>1, FormIs, CacheIs DEF Up, CacheTypes, CacheType
    <3> QED BY <3>1, TheIn DEF EntryType
  <2>5. Kind \in Kinds \ {"none"}
    BY <1>5, CacheIs, FormMounted
  <2>6. f \in FormType /\ Entered(f, touched) /\ (Kind = "website" => f.draft["y"] # Blank)
        /\ touched \in SUBSET Fields
    BY <2>2, FormIs
  <2>7. body \in Bodies(Kind, f, touched, The(cache.entry).item)
    BY <1>1, <1>5, <2>3
  <2>8. Sendable(Kind, f, touched, The(cache.entry).item, body)
    BY <2>4, <2>5, <2>6, <2>7, BodiesAre
  <2>9. body \in BodyType
    BY <2>8 DEF Sendable
  <2> QED
    BY <1>1, <1>3, <1>5, <2>2, <2>3, <2>8, <2>9
<1> QED
  BY <1>4, <1>5

LEMMA SendStep ==
  ASSUME ConsoleInv, Send
  PROVE  ConsoleInv'
<1>1. /\ UNCHANGED <<scenario, page, opened, cache, garage, form, touched, others, owed, due, missed>>
      /\ sent' = sent + 1
  BY DEF Send
<1>2. PICK c \in CallType :
        /\ call' = {c} /\ c.phase = "sent"
        /\ Kind # "none" => \E f \in form :
             /\ form = {f} /\ c.bare = (f.base["x"] = 0)
             /\ Sendable(Kind, f, touched, The(cache.entry).item, c.body)
             /\ Confirms(Kind, f, c.body) => c.confirmed
  BY SendIs
<1>3. Harmless(c)
  BY <1>2 DEF Harmless, Sendable
<1>4. call' \in SUBSET CallType /\ AtMostOne(call') /\ BodyOK(call')
  BY <1>2, <1>3 DEF AtMostOne, BodyOK
<1>5. /\ garage' \in GarageType /\ garage.own <= garage'.own /\ sent' \in Nat /\ others' \in Nat
  BY <1>1, CacheIs
<1>6. \A d \in call' : d.phase # "sent" => d.answer.own = garage'.own
  BY <1>2
<1> QED
  BY <1>1, <1>4, <1>5, <1>6, CallStep

LEMMA ItemsAre ==
  ASSUME NEW kind, NEW i \in Items(kind)
  PROVE  i \in Item
<1>1. [f \in Fields |-> 0] \in Item
  BY DEF Item
<1> QED
  BY <1>1 DEF Items, Item

LEMMA OthersChangeStep ==
  ASSUME ConsoleInv, OthersChange
  PROVE  ConsoleInv'
<1>1. /\ others' = others + 1
      /\ garage' \in [own : {garage.own}, item : Items(Kind) \ {garage.item}]
      /\ UNCHANGED <<scenario, page, opened, cache, form, touched, call, sent, owed, due, missed>>
  BY DEF OthersChange
<1>2. garage' \in GarageType /\ garage'.own = garage.own
  BY <1>1, CacheIs, ItemsAre DEF GarageType
<1>3. /\ call' \in SUBSET CallType /\ AtMostOne(call') /\ BodyOK(call')
      /\ \A c \in call' : c.phase # "sent" => c.answer.own = garage'.own
  BY <1>1, <1>2, CacheIs, Parts DEF CallOK
<1>4. sent' \in Nat /\ others' \in Nat /\ garage.own <= garage'.own
  BY <1>1, <1>2, CacheIs
<1> QED
  BY <1>1, <1>2, <1>3, <1>4, CallStep

LEMMA DoneIs ==
  ASSUME ConsoleInv, NEW c \in CallType
  PROVE  Done(c) \in GarageType /\ Done(c).own = garage.own + 1
<1>1. c.body \in BodyType /\ garage.own \in Nat /\ garage.item \in Item
  BY CacheIs DEF CallType
<1>2. PICK S \in SUBSET Fields : c.body \in [S -> 0..2]
  BY <1>1 DEF BodyType
<1>3. Stored(Kind, garage.item, c.body) \in Item
  BY <1>1, <1>2 DEF Stored, Item, Nowhere
<1> QED
  BY <1>1, <1>3 DEF Done, GarageType

LEMMA AnsweredIs ==
  ASSUME NEW c \in CallType, Harmless(c), NEW g \in GarageType, NEW phase \in {"done", "failed"}
  PROVE  /\ Answered(c, phase, g) \in SUBSET CallType /\ AtMostOne(Answered(c, phase, g))
         /\ BodyOK(Answered(c, phase, g))
         /\ \A d \in Answered(c, phase, g) : d.answer.own = g.own
<1> DEFINE d == [c EXCEPT !.phase = phase, !.answer = Entry(g.own, g.item, FALSE)]
<1>1. Answered(c, phase, g) = {d}
  BY DEF Answered
<1>2. Entry(g.own, g.item, FALSE) \in EntryType /\ Entry(g.own, g.item, FALSE).own = g.own
  BY DEF Entry, EntryType, GarageType
<1>3. /\ d \in CallType /\ d.body = c.body /\ d.confirmed = c.confirmed /\ d.bare = c.bare
      /\ d.answer.own = g.own
  BY <1>2 DEF CallType
<1> HIDE DEF d
<1>4. Harmless(d)
  BY <1>3 DEF Harmless
<1> QED
  BY <1>1, <1>3, <1>4 DEF AtMostOne, BodyOK

LEMMA GarageExecutesStep ==
  ASSUME ConsoleInv, GarageExecutes
  PROVE  ConsoleInv'
<1>1. PICK c \in call, failed \in 0..2 :
        /\ garage' \in (IF failed < 2 THEN {Done(c)} ELSE {})
                         \cup (IF failed > 0 THEN {[Done(c) EXCEPT !.item = garage.item]} ELSE {})
        /\ call' = Answered([c EXCEPT !.outcome = Outcome(2 - failed, failed)], "done", garage')
        /\ UNCHANGED <<scenario, page, opened, cache, form, touched, sent, others, owed, due, missed>>
  BY DEF GarageExecutes
<1>2. c \in CallType /\ Harmless(c)
  BY CacheIs, Parts DEF BodyOK
<1>3. Done(c) \in GarageType /\ Done(c).own = garage.own + 1
  BY <1>2, DoneIs
<1>4. garage' \in GarageType /\ garage'.own = garage.own + 1
  BY <1>1, <1>3, CacheIs DEF GarageType
<1> DEFINE d == [c EXCEPT !.outcome = Outcome(2 - failed, failed)]
<1>5. d \in CallType /\ d.body = c.body /\ d.confirmed = c.confirmed /\ d.bare = c.bare
  BY <1>2 DEF CallType, Outcome
<1>6. call' = Answered(d, "done", garage')
  BY <1>1
<1> HIDE DEF d
<1>7. Harmless(d)
  BY <1>2, <1>5 DEF Harmless
<1>8. /\ call' \in SUBSET CallType /\ AtMostOne(call') /\ BodyOK(call')
      /\ \A e \in call' : e.answer.own = garage'.own
  BY <1>4, <1>5, <1>6, <1>7, AnsweredIs
<1>9. garage.own <= garage'.own /\ sent' \in Nat /\ others' \in Nat
  BY <1>1, <1>4, CacheIs
<1> QED
  BY <1>1, <1>4, <1>8, <1>9, CallStep

LEMMA CallFailsStep ==
  ASSUME ConsoleInv, CallFails
  PROVE  ConsoleInv'
<1>1. PICK c \in call :
        /\ garage' \in {garage, Done(c)} /\ call' = Answered(c, "failed", garage')
        /\ UNCHANGED <<scenario, page, opened, cache, form, touched, sent, others, owed, due, missed>>
  BY DEF CallFails
<1>2. c \in CallType /\ Harmless(c)
  BY CacheIs, Parts DEF BodyOK
<1>3. Done(c) \in GarageType /\ Done(c).own = garage.own + 1
  BY <1>2, DoneIs
<1>4. garage' \in GarageType /\ garage.own <= garage'.own
  BY <1>1, <1>3, CacheIs
<1>5. /\ call' \in SUBSET CallType /\ AtMostOne(call') /\ BodyOK(call')
      /\ \A e \in call' : e.answer.own = garage'.own
  BY <1>1, <1>2, <1>4, AnsweredIs
<1>6. sent' \in Nat /\ others' \in Nat
  BY <1>1, CacheIs
<1> QED
  BY <1>1, <1>4, <1>5, <1>6, CallStep

-----------------------------------------------------------------------------
(* The end of an operation *)

\* An operation that ends well tells whatever shows it; so does one that fails and may
\* have done a part.
LEMMA OperationIs ==
  ASSUME ConsoleInv
  PROVE  /\ Sound(O)
         /\ q \notin O.ages \cup Secrets =>
              /\ q \in O.sets \/ MatchedBy(O.tells) \/ MatchedBy(O.drops)
              /\ O.partly => MatchedBy(O.fails)
         /\ q \in Secrets => q \notin O.sets /\ ~MatchedBy(O.tells) /\ ~MatchedBy(O.fails)
<1>1. Sound(O)
  BY CacheIs, TheOperations DEF O
<1>2. q \in Queries /\ Relevant(op, q)
  BY DEF ConsoleInv, ConsoleTypes
<1>3. q \notin Secrets => q.reads \cap O.changes # {}
  BY <1>2 DEF Relevant, O
<1>4. q \notin O.ages \cup Secrets =>
        /\ q \in O.sets \/ MatchedBy(O.tells) \/ MatchedBy(O.drops)
        /\ O.partly => MatchedBy(O.fails)
  BY <1>1, <1>2, <1>3 DEF Sound, Tells, MatchedBy
<1>5. q \in Secrets => q \notin O.sets /\ ~MatchedBy(O.tells) /\ ~MatchedBy(O.fails)
  BY <1>1 DEF Sound, MatchedBy, Spares, Secrets
<1> QED
  BY <1>1, <1>4, <1>5

LEMMA FailsStep ==
  ASSUME ConsoleInv, Fails
  PROVE  ConsoleInv'
<1>1. PICK c \in call :
        /\ c.phase = "failed" /\ call' = {}
        /\ cache' = IF MatchedBy(O.fails) THEN Invalidated(cache) ELSE cache
        /\ owed'  = IF O.partly THEN c.answer.own ELSE owed
        /\ UNCHANGED <<scenario, page, opened, garage, form, touched, sent, others, due, missed>>
  BY DEF Fails
<1>2. c.answer.own = garage.own
  BY <1>1, Parts DEF CallOK
<1>3. owed' \in Nat /\ owed' <= garage.own /\ due' \in Nat /\ due' <= owed'
  BY <1>1, <1>2, CacheIs
<1>4. /\ CacheTypes(cache') /\ SecretOK(cache', opened) /\ Fits(page, cache', form, touched)
      /\ ReadOK(cache', page, opened, owed', missed) /\ UpToDate(cache', due)
  <2>1. CASE MatchedBy(O.fails)
    <3>1. cache' = Invalidated(cache) /\ q \notin Secrets
      BY <1>1, <2>1, OperationIs
    <3> QED BY <3>1, InvalidateStep DEF ReadOK
  <2>2. CASE ~MatchedBy(O.fails)
    <3>1. cache' = cache /\ (q \notin O.ages \cup Secrets => owed' = owed)
      BY <1>1, <2>2, OperationIs
    <3> QED BY <3>1, CacheIs, Parts DEF ReadOK
  <2> QED BY <2>1, <2>2
<1>5. /\ CallOK(page', opened', owed', garage'.own, call') /\ BodyOK(call')
      /\ call' \in SUBSET CallType /\ AtMostOne(call')
  BY <1>1, <1>3, CacheIs DEF CallOK, BodyOK, AtMostOne
<1>6. /\ page' \in Pages /\ opened' \in BOOLEAN /\ garage' \in GarageType
      /\ form' \in SUBSET FormType /\ AtMostOne(form') /\ touched' \in SUBSET Fields
      /\ sent' \in Nat /\ others' \in Nat /\ missed' \in BOOLEAN /\ UNCHANGED scenario
  BY <1>1, CacheIs, FormIs
<1>7. /\ CacheTypes(cache') /\ SecretOK(cache', opened')
      /\ ReadOK(cache', page', opened', owed', missed') /\ Fits(page', cache', form', touched')
      /\ DueOK(cache', due', owed')
  BY <1>1, <1>3, <1>4 DEF DueOK
<1> QED
  BY <1>3, <1>5, <1>6, <1>7, Assemble

-----------------------------------------------------------------------------
(* The form after its answer *)

\* Whatever the answer makes of the form, a page may show it.
LEMMA AfterSaveIs ==
  ASSUME ConsoleInv, NEW c \in CallType
  PROVE  LET a == AfterSave(c) IN
         /\ a.form \in SUBSET FormType /\ AtMostOne(a.form) /\ a.touched \in SUBSET Fields
         /\ Kind = "drafts" \/ \A f \in a.form : Entered(f, a.touched)
         /\ Kind = "website" => \A f \in a.form : f.draft["y"] # Blank
         /\ Kind \in Selecting => \A f \in a.form : f.base = Nowhere
<1> DEFINE Ready(a) ==
             /\ a.form \in SUBSET FormType /\ AtMostOne(a.form) /\ a.touched \in SUBSET Fields
             /\ Kind = "drafts" \/ \A f \in a.form : Entered(f, a.touched)
             /\ Kind = "website" => \A f \in a.form : f.draft["y"] # Blank
             /\ Kind \in Selecting => \A f \in a.form : f.base = Nowhere
           a == AfterSave(c)
<1>1. c.answer.item \in Item
  BY DEF CallType, EntryType
<1>2. ASSUME Kind \in Dialogs PROVE Ready(a)
  <2>1. a = [form |-> {}, touched |-> {}]
    BY <1>2 DEF AfterSave, Dialogs, Following
  <2> HIDE DEF a
  <2>2. a.form = {} /\ a.touched = {}
    BY <2>1
  <2> QED BY <2>2 DEF AtMostOne
<1>3. ASSUME Kind \in Following, c.same PROVE Ready(a)
  <2>1. a = [form |-> {Fresh(c.answer.item)}, touched |-> {}]
    BY <1>3 DEF AfterSave, Dialogs, Following
  <2> HIDE DEF a
  <2> QED BY <1>1, <1>3, <2>1, FreshIs DEF AtMostOne, Following, Selecting
<1>4. ASSUME Kind = "ticks", c.same, Clears(c.outcome) PROVE Ready(a)
  <2>1. a = [form |-> {Started(Kind, c.answer.item)}, touched |-> {}]
    BY <1>4 DEF AfterSave, Dialogs, Following
  <2> HIDE DEF a
  <2> QED BY <1>1, <2>1, StartedIs DEF AtMostOne
<1>5. ASSUME Kind = "drafts", c.same PROVE Ready(a)
  <2>1. a = [form |-> form, touched |-> touched \ DOMAIN c.body]
    BY <1>5 DEF AfterSave, Dialogs, Following
  <2> HIDE DEF a
  <2> QED BY <1>5, <2>1, FormIs DEF Selecting
<1>6. ASSUME Kind \notin Dialogs, ~(Kind \in Following /\ c.same),
             ~(Kind = "ticks" /\ c.same /\ Clears(c.outcome)), ~(Kind = "drafts" /\ c.same)
      PROVE  Ready(a)
  <2>1. a = [form |-> form, touched |-> touched]
    BY <1>6 DEF AfterSave
  <2> HIDE DEF a
  <2> QED BY <2>1, FormIs
<1>7. Ready(a)
  <2> HIDE DEF Ready
  <2> QED BY <1>2, <1>3, <1>4, <1>5, <1>6
<1> QED
  BY <1>7

\* What the cache holds once the operator is told, n being how many operations that is.
Spread(c, n, m) ==
  /\ CacheTypes(c) /\ SecretOK(c, opened) /\ UpToDate(c, due)
  /\ q \notin O.ages \cup Secrets => /\ m \/ Told(c, n)
                                     /\ Mounted => AskedFor(c)

LEMMA EmptySpread ==
  ASSUME NEW n, NEW m
  PROVE  Spread(Empty, n, m)
BY EmptyStep DEF Spread, SecretOK

LEMMA HeardSpread ==
  ASSUME ConsoleInv, NEW c \in CallType, c.answer.own = garage.own, NEW m \in BOOLEAN,
         NEW told, ~MatchedBy(O.drops),
         told = IF q \in O.sets THEN Written(cache, c.answer)
                ELSE IF MatchedBy(O.tells) THEN Invalidated(cache)
                ELSE cache
  PROVE  Spread(told, garage.own, m)
<1>1. CASE q \in O.sets
  <2>1. told = Written(cache, c.answer) /\ q \notin Secrets /\ c.answer \in EntryType
    BY <1>1, OperationIs DEF CallType
  <2>2. PICK e \in EntryType : e = c.answer
    BY <2>1
  <2>3. CacheTypes(cache) /\ e.own >= garage.own
    BY <2>2, CacheIs
  <2>4. told = Written(cache, e)
    BY <2>1, <2>2
  <2>5. /\ CacheTypes(Written(cache, e)) /\ AskedFor(Written(cache, e))
        /\ \A n : e.own >= n => Told(Written(cache, e), n)
        /\ \A n : e.own >= n /\ UpToDate(cache, n) => UpToDate(Written(cache, e), n)
    BY <2>3, WrittenStep
  <2>6. e.own >= due /\ UpToDate(cache, due)
    BY <2>2, CacheIs
  <2>7. CacheTypes(told) /\ Told(told, garage.own) /\ AskedFor(told) /\ UpToDate(told, due)
    BY <2>3, <2>4, <2>5, <2>6
  <2> QED BY <2>1, <2>7 DEF Spread, SecretOK
<1>2. CASE q \notin O.sets /\ MatchedBy(O.tells)
  <2>1. told = Invalidated(cache) /\ q \notin Secrets
    BY <1>2, OperationIs
  <2> QED BY <2>1, InvalidateStep DEF Spread, Mounted
<1>3. CASE q \notin O.sets /\ ~MatchedBy(O.tells)
  <2>1. told = cache /\ q \in O.ages \cup Secrets
    BY <1>3, OperationIs
  <2> QED BY <2>1, CacheIs DEF Spread
<1> QED
  BY <1>1, <1>2, <1>3

LEMMA SucceedsStep ==
  ASSUME ConsoleInv, Succeeds
  PROVE  ConsoleInv'
<1> DEFINE heard(c) == ~(O.perCall /\ c.left)
           told(c)  == IF ~heard(c) THEN cache
                       ELSE IF q \in O.sets THEN Written(cache, c.answer)
                       ELSE IF MatchedBy(O.tells) THEN Invalidated(cache)
                       ELSE cache
           kept(c)  == IF MatchedBy(O.drops) THEN Empty ELSE told(c)
<1>1. PICK c \in call :
        /\ c.phase = "done"
        /\ call' = {} /\ owed' = c.answer.own /\ missed' = (missed \/ ~heard(c))
        /\ IF heard(c) /\ O.goes \ {page} # {}
           THEN Visit(The(O.goes), kept(c), c.answer.own)
           ELSE /\ cache' = kept(c)
                /\ Shown(page, kept(c), AfterSave(c).form, AfterSave(c).touched)
                /\ UNCHANGED <<page, opened, due>>
        /\ UNCHANGED <<scenario, garage, sent, others>>
  BY DEF Succeeds
<1>2. c \in CallType /\ c.answer.own = garage.own /\ owed' = garage.own
  BY <1>1, CacheIs, Parts DEF CallOK
<1>3. heard(c) \in BOOLEAN /\ missed' \in BOOLEAN /\ (~heard(c) => missed')
  BY <1>1, <1>2, CacheIs
<1>4. ASSUME ~MatchedBy(O.drops) PROVE Spread(told(c), garage.own, missed')
  <2>1. CASE heard(c)
    <3>1. told(c) = IF q \in O.sets THEN Written(cache, c.answer)
                    ELSE IF MatchedBy(O.tells) THEN Invalidated(cache)
                    ELSE cache
      BY <2>1
    <3> HIDE DEF told
    <3> QED BY <1>2, <1>3, <1>4, <3>1, HeardSpread
  <2>2. CASE ~heard(c)
    <3>1. told(c) = cache
      BY <2>2
    <3> HIDE DEF told
    <3> QED BY <1>3, <2>2, <3>1, CacheIs DEF Spread, ReadOK, Mounted
  <2> QED BY <2>1, <2>2
<1>5. Spread(kept(c), garage.own, missed')
  <2> HIDE DEF told
  <2>1. CASE MatchedBy(O.drops)
    BY <2>1, EmptySpread
  <2>2. CASE ~MatchedBy(O.drops)
    BY <1>4, <2>2
  <2> QED BY <2>1, <2>2
<1> DEFINE k == kept(c)
<1>6. Spread(k, garage.own, missed')
  BY <1>5
<1>7. IF heard(c) /\ O.goes \ {page} # {}
      THEN Visit(The(O.goes), k, garage.own)
      ELSE /\ cache' = k
           /\ Shown(page, k, AfterSave(c).form, AfterSave(c).touched)
           /\ UNCHANGED <<page, opened, due>>
  BY <1>1, <1>2
<1> HIDE DEF k, heard, told, kept
<1>8. /\ page' \in Pages /\ opened' \in BOOLEAN /\ (opened' => q \in OnDemand[page'])
      /\ CacheTypes(cache') /\ SecretOK(cache', opened')
      /\ ReadOK(cache', page', opened', owed', missed')
      /\ due' \in Nat /\ DueOK(cache', due', owed')
      /\ form' \in SUBSET FormType /\ AtMostOne(form') /\ touched' \in SUBSET Fields
      /\ Fits(page', cache', form', touched')
  <2>1. CASE heard(c) /\ O.goes \ {page} # {}
    <3>1. Visit(The(O.goes), k, garage.own)
      BY <1>7, <2>1
    <3>2. The(O.goes) \in Pages
      BY <2>1, OperationIs, TheIn DEF Sound
    <3>3. CacheTypes(k) /\ SecretOK(k, opened) /\ UpToDate(k, due)
      BY <1>6 DEF Spread
    <3> HIDE DEF k
    <3>4. /\ page' = The(O.goes) /\ opened' = FALSE /\ CacheTypes(cache')
          /\ SecretOK(cache', opened') /\ due' \in Nat /\ DueOK(cache', due', garage.own)
          /\ q \notin Secrets =>
               /\ \A m : Told(k, m) => Told(cache', m)
               /\ MountedAt(page', opened') => AskedFor(cache')
          /\ form' \in SUBSET FormType /\ AtMostOne(form') /\ touched' \in SUBSET Fields
          /\ Fits(page', cache', form', touched')
      BY <3>1, <3>2, <3>3, CacheIs, VisitStep
    <3>5. ReadOK(cache', page', opened', owed', missed')
      BY <1>2, <1>6, <3>4 DEF Spread, ReadOK
    <3> QED BY <1>2, <3>2, <3>4, <3>5
  <2>2. CASE ~(heard(c) /\ O.goes \ {page} # {})
    <3>1. /\ cache' = k /\ UNCHANGED <<page, opened, due>>
          /\ Shown(page, k, AfterSave(c).form, AfterSave(c).touched)
      BY <1>7, <2>2
    <3> DEFINE fs == AfterSave(c).form
               ts == AfterSave(c).touched
    <3>2. /\ fs \in SUBSET FormType /\ AtMostOne(fs) /\ ts \in SUBSET Fields
          /\ Kind = "drafts" \/ \A f \in fs : Entered(f, ts)
          /\ Kind = "website" => \A f \in fs : f.draft["y"] # Blank
          /\ Kind \in Selecting => \A f \in fs : f.base = Nowhere
      BY <1>2, AfterSaveIs
    <3>3. Shown(page, k, fs, ts)
      BY <3>1
    <3> HIDE DEF fs, ts
    <3>4. CacheTypes(k)
      BY <1>6 DEF Spread
    <3>5. /\ form' \in SUBSET FormType /\ AtMostOne(form') /\ touched' \in SUBSET Fields
          /\ Fits(page, k, form', touched')
      BY <3>2, <3>3, <3>4, ShownStep
    <3>6. ReadOK(cache', page', opened', owed', missed')
      BY <1>2, <1>6, <3>1 DEF Spread, ReadOK, Mounted
    <3>7. SecretOK(cache', opened') /\ CacheTypes(cache') /\ DueOK(cache', due', owed')
      BY <1>2, <1>6, <3>1, CacheIs DEF Spread, DueOK
    <3> QED BY <3>1, <3>5, <3>6, <3>7, CacheIs
  <2> QED BY <2>1, <2>2
<1>9. /\ call' \in SUBSET CallType /\ AtMostOne(call') /\ BodyOK(call')
      /\ CallOK(page', opened', owed', garage'.own, call')
  BY <1>1, <1>2, <1>8, CacheIs DEF AtMostOne, BodyOK, CallOK
<1>10. /\ garage' \in GarageType /\ sent' \in Nat /\ others' \in Nat /\ owed' \in Nat
       /\ UNCHANGED scenario
  BY <1>1, <1>2, CacheIs
<1> QED
  BY <1>3, <1>8, <1>9, <1>10, Assemble

-----------------------------------------------------------------------------
(* The invariant holds at first, and every step keeps it *)

LEMMA FirstItemsAre ==
  ASSUME NEW kind, NEW i \in FirstItems(kind)
  PROVE  i \in Item
<1>1. i \in Items(kind) \cup {[f \in Fields |-> 0]}
  BY DEF FirstItems
<1>2. [f \in Fields |-> 0] \in Item
  BY DEF Item
<1> QED
  BY <1>1, <1>2, ItemsAre

LEMMA ConsoleInitInv == ConsoleInit => ConsoleInv
<1> SUFFICES ASSUME ConsoleInit PROVE ConsoleInv
  OBVIOUS
<1>1. /\ op \in DOMAIN Operations /\ q \in {x \in Queries : Relevant(op, x)}
      /\ page \in Tour /\ opened = FALSE
      /\ cache = IF MountedAt(page, FALSE) THEN Ask(Empty) ELSE Empty
      /\ garage \in [own : {0}, item : FirstItems(Kind)]
      /\ form = {} /\ touched = {} /\ call = {} /\ sent = 0 /\ others = 0
      /\ owed = 0 /\ due = 0 /\ missed = FALSE
  BY DEF ConsoleInit
<1>2. page \in Pages
  BY <1>1, TourIsPages
<1>3. /\ CacheTypes(cache) /\ cache.entry = {}
      /\ cache.fetch = {} \/ cache.fetch = {Asked}
      /\ q \in Secrets => cache = Empty
      /\ UpToDate(cache, 0)
  BY <1>1, <1>2, EmptyStep, AskStep, SecretOnDemand
<1>4. garage \in [own : Nat, item : Item] /\ garage.own = 0
  BY <1>1, FirstItemsAre
<1>5. ConsoleTypes
  BY <1>1, <1>2, <1>3, <1>4 DEF ConsoleTypes, AtMostOne
<1>6. SecretInv
  BY <1>3, EmptyStep DEF SecretInv
<1>7. ReadInv
  BY <1>3, AskedRead DEF ReadInv, Told, AskedFor
<1>8. DueInv
  <2>1. due = 0 /\ owed = 0
    BY <1>1
  <2> QED
    BY <1>3, <2>1 DEF DueInv
<1>9. CallInv /\ BodyInv
  BY <1>1, <1>4 DEF CallInv, BodyInv
<1>10. FormInv
  BY <1>1, <1>3 DEF FormInv, Fits, Up
<1> QED
  BY <1>5, <1>6, <1>7, <1>8, <1>9, <1>10 DEF ConsoleInv

LEMMA ConsoleStep ==
  ASSUME ConsoleInv, [ConsoleNext]_cvars
  PROVE  ConsoleInv'
<1>1. CASE Operator
  <2>1. ASSUME NEW f \in Fields, NEW v \in 0..Blank, Enter(f, v) PROVE ConsoleInv'
    BY <2>1, EnterStep
  <2>2. ASSUME NEW p \in Tour, Navigate(p) PROVE ConsoleInv'
    BY <2>2, NavigateStep
  <2> QED
    BY <1>1, <2>1, <2>2, OpenStep, HideStep, OpenDialogStep, ToggleSelectAllStep, DiscardStep,
       SendStep, RefreshStep DEF Operator
<1>2. CASE Fetching
  BY <1>2, RefetchStep, GarageReadsStep, FetchLandsStep, FetchFailsStep, GrowsOldStep, CollectStep
  DEF Fetching
<1>3. CASE Answering
  BY <1>3, GarageExecutesStep, CallFailsStep, SucceedsStep, FailsStep, OthersChangeStep
  DEF Answering
<1>4. CASE UNCHANGED cvars
  <2>1. /\ UNCHANGED <<scenario, page, opened, cache, garage, call, sent, others, owed, due, missed>>
        /\ form' = form /\ touched' = touched
    BY <1>4 DEF cvars, scenario
  <2>2. /\ form' \in SUBSET FormType /\ AtMostOne(form') /\ touched' \in SUBSET Fields
        /\ Fits(page, cache, form', touched')
    BY <2>1, FormIs, Parts
  <2> QED BY <2>1, <2>2, FormStep
<1> QED
  BY <1>1, <1>2, <1>3, <1>4 DEF ConsoleNext

LEMMA ConsoleInvariance == ConsoleSpec => []ConsoleInv
<1>1. ConsoleInv /\ [ConsoleNext]_cvars => ConsoleInv'
  BY ConsoleStep
<1> QED
  BY <1>1, ConsoleInitInv, PTL DEF ConsoleSpec

\* Every variable of the console keeps to its values, and there is never a second entry,
\* fetch, form or call.
THEOREM ConsoleTyped == ConsoleSpec => []ConsoleTypes
<1>1. ConsoleInv => ConsoleTypes
  BY DEF ConsoleInv
<1> QED
  BY <1>1, ConsoleInvariance, PTL

\* Whoever was told that an operation succeeded, or failed where a part may be done, is shown
\* it by every page with a query that shows what the operation changes: at once where the
\* code writes, drops or invalidates that query; and where the code leaves it to grow old,
\* once it is opened with data that is over 30 seconds old.
THEOREM TellingShows == ConsoleSpec => []OwnChangeShown
<1>1. ConsoleInv => OwnChangeShown
  <2> SUFFICES ASSUME ConsoleInv, Mounted, cache.fetch = {}, ~cache.failed, NEW e \in cache.entry
               PROVE  /\ e.own >= due
                      /\ ~missed /\ q \notin O.ages \cup Secrets => e.own >= owed \/ e.crossed
    BY DEF OwnChangeShown
  <2>1. e.own >= due
    BY CacheIs DEF UpToDate
  <2>2. ~missed /\ q \notin O.ages \cup Secrets => e.own >= owed \/ e.crossed
    BY DEF ConsoleInv, ReadInv, Told, AskedFor
  <2> QED
    BY <2>1, <2>2
<1> QED
  BY <1>1, ConsoleInvariance, PTL

\* No operation, button or visit makes a secret be fetched while it is shown, and none is
\* left in the cache once it is hidden.
THEOREM SecretsRest == ConsoleSpec => []SecretUndisturbed
<1>1. ConsoleInv => SecretUndisturbed
  BY EmptyStep DEF ConsoleInv, SecretInv, SecretUndisturbed
<1> QED
  BY <1>1, ConsoleInvariance, PTL

-----------------------------------------------------------------------------
(* The forms of an admin token *)

LEMMA LeastNat ==
  ASSUME NEW S \in SUBSET Nat, S # {}
  PROVE  \E n \in S : \A m \in S : n <= m
<1> DEFINE F == {0..n : n \in S}
<1>1. F \subseteq FiniteSubsetsOf(Nat)
  <2>1. ASSUME NEW n \in S PROVE 0..n \in FiniteSubsetsOf(Nat)
    BY FS_Interval DEF FiniteSubsetsOf
  <2> QED
    BY <2>1
<1>2. IsWellFoundedOn(StrictSubsetOrdering(Nat), FiniteSubsetsOf(Nat))
  BY FS_StrictSubsetOrderingWellFounded
<1>3. F # {}
  OBVIOUS
<1>4. PICK x \in F : \A y \in F : ~(<<y, x>> \in StrictSubsetOrdering(Nat))
  <2> HIDE DEF F
  <2> QED BY <1>1, <1>2, <1>3, WFMin
<1>5. PICK n \in S : x = 0..n
  OBVIOUS
<1>6. ASSUME NEW m \in S, ~(n <= m) PROVE FALSE
  <2>1. 0..m \in F /\ 0..m \subseteq 0..n /\ 0..m # 0..n /\ 0..m \subseteq Nat /\ 0..n \subseteq Nat
    BY <1>6
  <2> QED
    BY <2>1, <1>4, <1>5 DEF StrictSubsetOrdering
<1> QED
  BY <1>6

\* What an editing has come to after at most n clicks.
EditFrom(start, upTo, m) ==
  upTo = [n \in 0..m |-> IF n = 0 THEN {start}
                         ELSE upTo[n - 1] \cup UNION {Clicked(r) : r \in upTo[n - 1]}]

LEMMA EditExists ==
  ASSUME NEW start, NEW k \in Nat
  PROVE  \E f : EditFrom(start, f, k)
<1> DEFINE S == {m \in Nat : ~\E f : EditFrom(start, f, m)}
<1>1. SUFFICES ASSUME S # {} PROVE FALSE
  OBVIOUS
<1>2. PICK m \in S : \A i \in S : m <= i
  <2> HIDE DEF S
  <2>1. S \subseteq Nat BY DEF S
  <2> QED BY <1>1, <2>1, LeastNat
<1>3. m # 0
  <2>1. SUFFICES ASSUME m = 0 PROVE EditFrom(start, [n \in 0..0 |-> {start}], 0)
    OBVIOUS
  <2> QED BY DEF EditFrom
<1>4. PICK f : EditFrom(start, f, m - 1)
  <2>1. m - 1 \in Nat /\ ~(m <= m - 1)
    BY <1>3
  <2> QED BY <1>2, <2>1
<1> DEFINE g == [n \in 0..m |-> IF n < m THEN f[n]
                                ELSE f[m - 1] \cup UNION {Clicked(r) : r \in f[m - 1]}]
<1>5. \A n \in 0..m - 1 : f[n] = IF n = 0 THEN {start}
                                ELSE f[n - 1] \cup UNION {Clicked(r) : r \in f[n - 1]}
  BY <1>4 DEF EditFrom
<1>6. ASSUME NEW n \in 0..m
      PROVE  g[n] = IF n = 0 THEN {start}
                    ELSE g[n - 1] \cup UNION {Clicked(r) : r \in g[n - 1]}
  <2>1. CASE n = m
    <3>1. n # 0 /\ n - 1 \in 0..m /\ n - 1 < m
      BY <2>1, <1>3
    <3>2. g[n - 1] = f[m - 1] /\ g[n] = f[m - 1] \cup UNION {Clicked(r) : r \in f[m - 1]}
      BY <2>1, <3>1
    <3> HIDE DEF g
    <3> QED BY <3>1, <3>2
  <2>2. CASE n # m
    <3>1. n < m /\ n \in 0..m - 1 /\ (n # 0 => n - 1 \in 0..m /\ n - 1 < m)
      BY <2>2
    <3>2. g[n] = f[n] /\ (n # 0 => g[n - 1] = f[n - 1])
      BY <3>1
    <3> HIDE DEF g
    <3> QED BY <3>1, <3>2, <1>5
  <2> QED BY <2>1, <2>2
<1>7. EditFrom(start, g, m)
  <2> DEFINE h == [n \in 0..m |-> IF n = 0 THEN {start}
                         ELSE g[n - 1] \cup UNION {Clicked(r) : r \in g[n - 1]}]
  <2>1. \A n \in 0..m : g[n] = h[n]
    <3> HIDE DEF g
    <3> QED BY <1>6
  <2>2. g = [n \in 0..m |-> g[n]] /\ h = [n \in 0..m |-> h[n]]
    OBVIOUS
  <2>3. g = h
    <3> HIDE DEF g, h
    <3> QED BY <2>1, <2>2
  <2> HIDE DEF g
  <2> QED BY <2>3 DEF EditFrom
<1> QED
  BY <1>7

\* Whatever holds at first and is kept by every click holds of what an editing comes
\* to.
LEMMA EditedWithin ==
  ASSUME NEW saved, NEW X,
         [scope |-> saved, replaced |-> FALSE] \in X,
         \A r \in X : Clicked(r) \subseteq X
  PROVE  Edited(saved) \subseteq X
<1> DEFINE start == [scope |-> saved, replaced |-> FALSE]
           upTo  == CHOOSE f : EditFrom(start, f, MaxEdits)
<1>1. EditFrom(start, upTo, MaxEdits)
  BY EditExists, TokenAssumption
<1>2. Edited(saved) = upTo[MaxEdits]
  BY DEF Edited, EditFrom
<1>3. \A n \in 0..MaxEdits :
        upTo[n] = IF n = 0 THEN {start}
                  ELSE upTo[n - 1] \cup UNION {Clicked(r) : r \in upTo[n - 1]}
  <2> HIDE DEF upTo, start
  <2> QED BY <1>1 DEF EditFrom
<1> HIDE DEF upTo
<1> DEFINE S == {n \in 0..MaxEdits : ~(upTo[n] \subseteq X)}
<1>4. S = {}
  <2>1. SUFFICES ASSUME S # {} PROVE FALSE
    OBVIOUS
  <2>2. S \subseteq Nat
    BY TokenAssumption
  <2>3. PICK m \in S : \A i \in S : m <= i
    <3> HIDE DEF S
    <3> QED BY <2>1, <2>2, LeastNat
  <2>4. m # 0
    BY <1>3
  <2>5. m \in 0..MaxEdits /\ m - 1 \in 0..MaxEdits /\ ~(m <= m - 1)
    BY <2>4, TokenAssumption
  <2>6. upTo[m - 1] \subseteq X
    BY <2>3, <2>5
  <2>7. upTo[m] = upTo[m - 1] \cup UNION {Clicked(r) : r \in upTo[m - 1]}
    BY <1>3, <2>4, <2>5
  <2>8. UNION {Clicked(r) : r \in upTo[m - 1]} \subseteq X
    BY <2>6
  <2> QED
    BY <2>3, <2>6, <2>7, <2>8
<1> QED
  BY <1>2, <1>4, TokenAssumption

LEMMA SetEndpointsKeepsUnknown ==
  ASSUME NEW value, NEW ends \in SUBSET Known, NEW on \in BOOLEAN
  PROVE  UnknownEntries(SetEndpoints(value, ends, on)) = UnknownEntries(value)
<1>1. CASE on
  BY <1>1 DEF SetEndpoints, UnknownEntries
<1>2. CASE ~on
  BY <1>2 DEF SetEndpoints, UnknownEntries
<1> QED
  BY <1>1, <1>2

LEMMA UnknownIsKept == UnknownKept
<1>1. SUFFICES ASSUME NEW saved \in Scopes
               PROVE  \A r \in Edited(saved) :
                        r.replaced \/ UnknownEntries(r.scope) = UnknownEntries(saved)
  BY DEF UnknownKept
<1> DEFINE X == {r \in [scope : Scopes, replaced : BOOLEAN] :
                   r.replaced \/ UnknownEntries(r.scope) = UnknownEntries(saved)}
<1>2. [scope |-> saved, replaced |-> FALSE] \in X
  OBVIOUS
<1>3. ASSUME NEW r \in X, NEW s \in Clicked(r) PROVE s \in X
  <2>1. r \in [scope : Scopes, replaced : BOOLEAN]
    OBVIOUS
  <2>2. CASE s \in [scope : Ticks(r.scope), replaced : {r.replaced}]
    <3>1. PICK on \in BOOLEAN, ends \in SUBSET Known : s.scope = SetEndpoints(r.scope, ends, on)
      BY <2>2 DEF Ticks, Known
    <3>2. s.scope \in Scopes
      BY <2>1, <3>1 DEF SetEndpoints, Scopes
    <3>3. UnknownEntries(s.scope) = UnknownEntries(r.scope)
      BY <3>1, SetEndpointsKeepsUnknown
    <3>4. s \in [scope : Scopes, replaced : BOOLEAN] /\ s.replaced = r.replaced
      BY <2>1, <2>2, <3>2
    <3> QED BY <3>3, <3>4
  <2>3. CASE s \in [scope : {ToggleAll(r.scope)} \cup ApplyPreset(r.scope), replaced : {TRUE}]
    <3>1. s.scope \in Scopes
      BY <2>3, TokenAssumption DEF ToggleAll, ApplyPreset, Preset, Scopes
    <3>2. s \in [scope : Scopes, replaced : BOOLEAN] /\ s.replaced = TRUE
      BY <2>3, <3>1
    <3> QED BY <3>2
  <2> QED BY <2>2, <2>3 DEF Clicked
<1>4. Edited(saved) \subseteq X
  <2> HIDE DEF X
  <2> QED BY <1>2, <1>3, EditedWithin
<1> QED
  BY <1>4

LEMMA ExpirationIsAsEntered == ExpirationAsEntered
<1>1. SUFFICES ASSUME NEW iso \in Isos, NEW v \in Inputs, CanSave({Full}, v)
               PROVE  LET after == Saved([scope |-> {Full}, expiration |-> iso], {Full}, v).expiration IN
                        /\ after = {} <=> v.neverExpires
                        /\ v = FromIso(iso) => after = iso
                        /\ \A at \in after : at[1] = v.date
  BY DEF ExpirationAsEntered
<1> DEFINE after == Saved([scope |-> {Full}, expiration |-> iso], {Full}, v).expiration
<1>2. after = IF SameExpiration(v, FromIso(iso)) THEN iso ELSE ExpirationBody(v)
  BY DEF Saved
<1>3. v.neverExpires \in BOOLEAN /\ (v.neverExpires \/ v.date # Unset)
  BY <1>1 DEF Inputs, CanSave, ExpirationValid
<1> DEFINE AsEntered == /\ after = {} <=> v.neverExpires
                        /\ v = FromIso(iso) => after = iso
                        /\ \A at \in after : at[1] = v.date
<1>4. ASSUME iso = {} PROVE AsEntered
  <2>1. FromIso(iso).neverExpires = TRUE
    BY <1>4 DEF FromIso
  <2> HIDE DEF after
  <2>2. CASE v.neverExpires
    <3>1. after = {}
      BY <1>2, <1>4, <2>1, <2>2 DEF SameExpiration
    <3> QED BY <1>4, <2>2, <3>1
  <2>3. CASE ~v.neverExpires
    <3>1. v # FromIso(iso)
      BY <2>1, <2>3
    <3>2. after = {<<v.date, 0>>}
      BY <1>2, <1>3, <2>1, <2>3 DEF SameExpiration, ExpirationBody
    <3>3. after # {} /\ \A at \in after : at[1] = v.date
      BY <3>2
    <3> QED BY <2>3, <3>1, <3>3
  <2> QED BY <2>2, <2>3
<1>5. ASSUME iso # {} PROVE AsEntered
  <2>1. PICK minute \in Minutes, second \in {0, 30} : iso = {<<minute, second>>}
    BY <1>5 DEF Isos
  <2>2. (CHOOSE m \in Minutes : \E at \in iso : at[1] = m) = minute
    BY <2>1
  <2>3. FromIso(iso) = [neverExpires |-> FALSE, date |-> minute]
    BY <1>5, <2>2 DEF FromIso
  <2>4. FromIso(iso).neverExpires = FALSE /\ FromIso(iso).date = minute
    BY <2>3
  <2> HIDE DEF after
  <2>5. CASE v.neverExpires
    <3>1. v # FromIso(iso)
      BY <2>4, <2>5
    <3>2. after = {}
      BY <1>2, <2>4, <2>5 DEF SameExpiration, ExpirationBody
    <3> QED BY <2>5, <3>1, <3>2
  <2>6. CASE ~v.neverExpires /\ v.date = minute
    <3>1. after = {<<minute, second>>}
      BY <1>2, <2>1, <2>4, <2>6 DEF SameExpiration
    <3>2. after = iso /\ after # {} /\ \A at \in after : at[1] = v.date
      BY <2>1, <2>6, <3>1
    <3> QED BY <2>6, <3>2
  <2>7. CASE ~v.neverExpires /\ v.date # minute
    <3>1. v # FromIso(iso)
      BY <2>4, <2>7
    <3>2. after = {<<v.date, 0>>}
      BY <1>2, <1>3, <2>4, <2>7 DEF SameExpiration, ExpirationBody
    <3>3. after # {} /\ \A at \in after : at[1] = v.date
      BY <3>2
    <3> QED BY <2>7, <3>1, <3>3
  <2> QED BY <2>5, <2>6, <2>7
<1>6. AsEntered
  <2> HIDE DEF AsEntered
  <2> QED BY <1>4, <1>5
<1> QED
  BY <1>6

LEMMA PowersAreAsTicked == PowersAsTicked
<1>1. ASSUME NEW saved, NEW scope
      PROVE  \/ EscalationMessage(scope, saved)
             \/ Powers(scope) \subseteq scope \cup Exempt
             \/ Powers(saved) = Known \cup Newer
  BY DEF EscalationMessage, Powers
<1>2. ~Escalates({}) 
  BY DEF Escalates, IsFull
<1>3. ASSUME NEW scope
      PROVE  EscalationMessage(scope, {}) \/ Powers(scope) \subseteq scope \cup Exempt
  BY <1>2 DEF EscalationMessage, Powers
<1>4. Powers(Preset(Called)) # Known \cup Newer
  <2>1. ~Escalates(Preset(Called))
    BY DEF Escalates, IsFull, Preset
  <2>2. PICK e \in Minting : e \notin Exempt
    BY TokenAssumption
  <2>3. e \in Known /\ e \notin Powers(Preset(Called))
    BY <2>1, <2>2, TokenAssumption DEF Powers, Preset
  <2> QED BY <2>3
<1>5. ASSUME NEW scope \in Scopes, Missing(scope) = {}
      PROVE  Called \ Minting \subseteq Powers(scope)
  <2>1. CASE Escalates(scope)
    BY <2>1, TokenAssumption DEF Powers
  <2>2. CASE ~Escalates(scope)
    <3>1. Preset(Called) \ scope = {}
      BY <1>5, <2>2 DEF Missing, Escalates, IsFull
    <3>2. Powers(scope) = scope \cup Exempt
      BY <2>2 DEF Powers
    <3>3. Full \notin Called
      BY TokenAssumption DEF Full
    <3> QED BY <3>1, <3>2, <3>3 DEF Preset
  <2> QED BY <2>1, <2>2
<1> QED
  BY <1>1, <1>3, <1>4, <1>5 DEF PowersAsTicked

-----------------------------------------------------------------------------
(* What the forms send *)

\* A call begins only when something is sent.
LEMMA OnlySendBegins ==
  ASSUME [ConsoleNext]_cvars, call = {}, call' # {}
  PROVE  Send
<1>1. \A left : Calls(left) = {}
  BY DEF Calls
<1>2. CASE Operator
  <2>1. \A p : ~Navigate(p)
    BY <1>1 DEF Navigate
  <2>2. \A f, v : ~Enter(f, v)
    BY DEF Enter
  <2>3. ~Open /\ ~Hide /\ ~OpenDialog /\ ~ToggleSelectAll /\ ~Discard /\ ~RefreshButton
    BY DEF Open, Hide, OpenDialog, ToggleSelectAll, Discard, RefreshButton
  <2> QED BY <1>2, <2>1, <2>2, <2>3 DEF Operator
<1>3. CASE Fetching
  <2>1. \A c : ~Landed(c)
    BY <1>1 DEF Landed
  <2> QED
    BY <1>3, <2>1 DEF Fetching, Refetch, GarageReads, FetchLands, FetchFails, GrowsOld, Collect
<1>4. CASE Answering
  BY <1>4 DEF Answering, GarageExecutes, CallFails, Succeeds, Fails, OthersChange
<1>5. CASE UNCHANGED cvars
  BY <1>5 DEF cvars
<1> QED
  BY <1>2, <1>3, <1>4, <1>5 DEF ConsoleNext

\* OnlyEditedSent, of one step.
SentStep ==
  call = {} /\ Kind # "none" =>
    \A c \in call', f \in form :
      /\ Kind = "drafts" => \A z \in DOMAIN c.body : c.body[z] = f.draft[z]
      /\ DOMAIN c.body \subseteq
        touched \cup (CASE Kind \in Wholesale -> Fields
                        [] Kind = "website"   -> {"y"}
                        [] Kind = "live"      -> {z \in {"x"} : The(cache.entry).item[z] # f.base[z]}
                        [] OTHER              -> {})

LEMMA SendsWhatWasEntered ==
  ASSUME ConsoleInv, [ConsoleNext]_cvars
  PROVE  SentStep
<1>1. SUFFICES ASSUME call = {}, Kind # "none", call' # {} PROVE SentStep
  BY DEF SentStep
<1>2. PICK c \in CallType :
        /\ call' = {c}
        /\ \E f \in form : /\ form = {f}
                           /\ Sendable(Kind, f, touched, The(cache.entry).item, c.body)
  BY <1>1, OnlySendBegins, SendIs
<1>3. PICK f \in form :
        /\ form = {f} /\ Sendable(Kind, f, touched, The(cache.entry).item, c.body)
  BY <1>2
<1> QED
  BY <1>2, <1>3 DEF SentStep, Sendable

\* A form sends what the operator entered, whatever the page showed meanwhile; and however
\* a token's form was clicked through, it drops no name it does not know and moves no end
\* that was left alone.
THEOREM FormsSendWhatWasEdited == ConsoleSpec => OnlyEditedSent
<1>1. TokenSentAsEntered
  BY UnknownIsKept, ExpirationIsAsEntered DEF TokenSentAsEntered
<1>2. ConsoleInv /\ [ConsoleNext]_cvars => [TokenSentAsEntered /\ SentStep]_cvars
  BY <1>1, SendsWhatWasEntered
<1>3. ConsoleSpec => [][TokenSentAsEntered /\ SentStep]_cvars
  BY <1>2, ConsoleInvariance, PTL DEF ConsoleSpec
<1> QED
  BY <1>3 DEF OnlyEditedSent, SentStep

-----------------------------------------------------------------------------
(* Edits *)

\* What an answer in the background leaves of the form.
KeptEdits ==
  \A f \in form :
    /\ Kind \notin HiddenByErrors => form' # {}
    /\ \A g \in form', z \in Fields : f.draft[z] # f.base[z] => g.draft[z] = f.draft[z]

LEMMA SameFormKept ==
  ASSUME ConsoleInv, form' = form
  PROVE  KeptEdits
BY FormIs DEF KeptEdits, AtMostOne

LEMMA LandedKeeps ==
  ASSUME ConsoleInv, NEW c, CacheTypes(c), Landed(c), Kind # "remount",
         cache.entry # {} => c.entry # {}
  PROVE  KeptEdits
<1>1. CASE form = {}
  BY <1>1 DEF KeptEdits
<1>2. CASE form # {}
  <2>1. PICK f \in form : form = {f}
    BY <1>2, FormIs DEF AtMostOne
  <2>2. Up(page, cache) /\ f \in FormType /\ Entered(f, touched) /\ touched \in SUBSET Fields
    BY <2>1, FormIs
  <2>3. c.entry # {}
    BY <2>2 DEF Up
  <2> DEFINE item == The(c.entry).item
             g == Follow(Kind, f, touched, item)
  <2>4. item \in Item
    <3>1. c.entry \subseteq EntryType
      BY DEF CacheTypes, CacheType
    <3> QED BY <2>3, <3>1, TheIn DEF EntryType
  <2>5. form' = IF ~Up(page, c) THEN {} ELSE {g}
    BY <2>1 DEF Landed, Shown
  <2>6. Followed(Kind, f, touched, g)
    BY <2>2, <2>4, FollowIs
  <2>7. Kind \notin HiddenByErrors => Up(page, c)
    BY <2>2, <2>3 DEF Up
  <2> HIDE DEF g
  <2>8. \A z \in Fields : f.draft[z] # f.base[z] => g.draft[z] = f.draft[z]
    BY <2>2, <2>6 DEF Followed
  <2> QED
    BY <2>1, <2>5, <2>7, <2>8 DEF KeptEdits
<1> QED
  BY <1>1, <1>2

LEMMA AnswersKeepEdits ==
  ASSUME ConsoleInv, [ConsoleNext]_cvars,
         cache' # cache, call' = call, page' = page, Kind # "remount"
  PROVE  KeptEdits
<1>1. ASSUME FetchLands PROVE KeptEdits
  <2>1. PICK r \in cache.fetch : Landed([Empty EXCEPT !.entry = {r.answer}])
    BY <1>1 DEF FetchLands
  <2> DEFINE c == [Empty EXCEPT !.entry = {r.answer}]
  <2>2. r.answer \in EntryType
    BY CacheIs DEF CacheTypes, CacheType, FetchType
  <2>3. CacheTypes(c) /\ c.entry = {r.answer}
    BY <2>2 DEF Empty, CacheTypes, CacheType, AtMostOne
  <2>4. Landed(c)
    BY <2>1
  <2> HIDE DEF c
  <2> QED BY <2>3, <2>4, LandedKeeps
<1>2. ASSUME FetchFails PROVE KeptEdits
  <2> DEFINE c == [cache EXCEPT !.fetch = {}, !.failed = TRUE, !.stale = TRUE]
  <2>1. Landed(c)
    BY <1>2 DEF FetchFails
  <2>2. CacheTypes(c) /\ c.entry = cache.entry
    BY CacheIs DEF CacheTypes, CacheType, AtMostOne
  <2> HIDE DEF c
  <2> QED BY <2>1, <2>2, LandedKeeps
<1>3. CASE Operator
  <2>1. \A p : ~Navigate(p)
    BY DEF Navigate, Visit
  <2>2. \A f, v : ~Enter(f, v)
    BY DEF Enter
  <2>3. ~OpenDialog /\ ~ToggleSelectAll /\ ~Discard /\ ~Send
    BY DEF OpenDialog, ToggleSelectAll, Discard, Send
  <2>4. form' = form
    BY <1>3, <2>1, <2>2, <2>3 DEF Operator, Open, Hide, RefreshButton
  <2> QED BY <2>4, SameFormKept
<1>4. CASE Fetching
  <2>1. CASE Refetch \/ GarageReads \/ GrowsOld \/ Collect
    BY <2>1, SameFormKept DEF Refetch, GarageReads, GrowsOld, Collect
  <2> QED BY <1>1, <1>2, <1>4, <2>1 DEF Fetching
<1>5. CASE Answering
  <2>1. ~GarageExecutes /\ ~CallFails /\ ~OthersChange
    BY DEF GarageExecutes, CallFails, OthersChange
  <2>2. ~Succeeds /\ ~Fails
    BY DEF Succeeds, Fails
  <2> QED BY <1>5, <2>1, <2>2 DEF Answering
<1>6. CASE UNCHANGED cvars
  BY <1>6 DEF cvars
<1> QED
  BY <1>3, <1>4, <1>5, <1>6 DEF ConsoleNext

\* A call ends only with its success or its failure.
LEMMA OnlyAnswersEnd ==
  ASSUME [ConsoleNext]_cvars, call # {}, call' = {}
  PROVE  Succeeds \/ Fails
<1>1. \A left : Calls(left) # {}
  BY DEF Calls
<1>2. ~Operator
  <2>1. \A p : ~Navigate(p)
    BY <1>1 DEF Navigate
  <2>2. \A f, v : ~Enter(f, v)
    BY DEF Enter
  <2>3. /\ ~Open /\ ~Hide /\ ~OpenDialog /\ ~ToggleSelectAll /\ ~Discard /\ ~RefreshButton
        /\ ~Send
    BY DEF Open, Hide, OpenDialog, ToggleSelectAll, Discard, RefreshButton, Send
  <2> QED BY <2>1, <2>2, <2>3 DEF Operator
<1>3. ~Fetching
  <2>1. \A c : ~Landed(c)
    BY <1>1 DEF Landed
  <2> QED
    BY <2>1 DEF Fetching, Refetch, GarageReads, FetchLands, FetchFails, GrowsOld, Collect
<1>4. ~GarageExecutes /\ ~CallFails /\ ~OthersChange
  BY DEF GarageExecutes, CallFails, OthersChange, Answered
<1>5. ~UNCHANGED cvars
  BY DEF cvars
<1> QED
  BY <1>2, <1>3, <1>4, <1>5 DEF ConsoleNext, Answering

SelectionKept ==
  Kind = "ticks" /\ call' = {} /\ page' = page =>
    \A c \in call : c.phase = "failed" \/ c.outcome # "success" => form' = form

LEMMA FailureKeepsSelection ==
  ASSUME ConsoleInv, [ConsoleNext]_cvars
  PROVE  SelectionKept
<1>1. SUFFICES ASSUME Kind = "ticks", call' = {}, NEW c \in call,
                      c.phase = "failed" \/ c.outcome # "success"
               PROVE  form' = form
  BY DEF SelectionKept
<1>2. call = {c}
  BY <1>1, CacheIs DEF AtMostOne
<1>3. CASE Fails
  BY <1>3 DEF Fails
<1>4. CASE Succeeds
  <2> DEFINE heard == ~(O.perCall /\ c.left)
             told  == IF ~heard THEN cache
                      ELSE IF q \in O.sets THEN Written(cache, c.answer)
                      ELSE IF MatchedBy(O.tells) THEN Invalidated(cache)
                      ELSE cache
             kept  == IF MatchedBy(O.drops) THEN Empty ELSE told
  <2>1. /\ c.phase = "done"
        /\ IF heard /\ O.goes \ {page} # {}
           THEN Visit(The(O.goes), kept, c.answer.own)
           ELSE Shown(page, kept, AfterSave(c).form, AfterSave(c).touched)
    BY <1>2, <1>4 DEF Succeeds
  <2>2. O.sets = {} /\ O.drops = {} /\ O.goes = {}
    <3>1. O.form = "ticks" /\ Homed(O)
      BY <1>1, CacheIs, FormMounted, TheOperations DEF O
    <3> QED BY <3>1 DEF Homed
  <2>3. kept \in {cache, Invalidated(cache)}
    BY <2>2 DEF MatchedBy
  <2>4. Shown(page, kept, AfterSave(c).form, AfterSave(c).touched)
    BY <2>1, <2>2
  <2>5. AfterSave(c) = [form |-> form, touched |-> touched]
    BY <1>1, <2>1 DEF AfterSave, Dialogs, Following, Clears
  <2> HIDE DEF kept
  <2>6. kept.entry = cache.entry /\ kept.failed = cache.failed
    BY <2>3, CacheIs, InvalidatedStep
  <2>7. Up(page, kept) = Up(page, cache)
    BY <2>6 DEF Up
  <2>8. Shown(page, kept, form, touched)
    BY <2>4, <2>5
  <2>9. CASE form = {}
    <3>1. ~Up(page, cache)
      BY <1>1, <2>9, Parts DEF Fits, Cards, Kinds, Dialogs
    <3> QED BY <2>7, <2>8, <2>9, <3>1 DEF Shown
  <2>10. CASE form # {}
    <3>1. Up(page, kept)
      BY <2>7, <2>10, FormIs
    <3>2. form' = {Follow(Kind, f, touched, The(kept.entry).item) : f \in form}
      BY <2>8, <2>10, <3>1 DEF Shown
    <3>3. \A f \in form : Follow(Kind, f, touched, The(kept.entry).item) = f
      BY <1>1 DEF Follow, Following
    <3> QED BY <3>2, <3>3
  <2> QED BY <2>9, <2>10
<1> QED
  BY <1>1, <1>3, <1>4, OnlyAnswersEnd

\* No answer that comes in the background touches a field that was edited, and a purge that
\* some node failed leaves the selection.
THEOREM AnswersLeaveEdits == ConsoleSpec => EditsKept
<1> DEFINE Kept == /\ cache' # cache /\ call' = call /\ page' = page /\ Kind # "remount" => KeptEdits
                   /\ SelectionKept
<1>1. ConsoleInv /\ [ConsoleNext]_cvars => [Kept]_cvars
  BY AnswersKeepEdits, FailureKeepsSelection
<1>2. ConsoleSpec => [][Kept]_cvars
  <2> HIDE DEF Kept
  <2> QED BY <1>1, ConsoleInvariance, PTL DEF ConsoleSpec
<1> QED
  BY <1>2 DEF EditsKept, KeptEdits, SelectionKept

-----------------------------------------------------------------------------
(* Harm *)

Worse(a, b) ==
  \/ Kind \in {"website", "rules"} /\ a["x"] # 0 /\ b["x"] = 0
  \/ Kind = "remount" /\ a["x"] = 0 /\ b["x"] > 0

Excused(c) == c.confirmed \/ (Kind = "rules" /\ c.bare) \/ (Kind = "remount" /\ ~c.bare)

LEMMA StoredHarm ==
  ASSUME NEW c \in CallType, Harmless(c), NEW item \in Item, Worse(item, Stored(Kind, item, c.body))
  PROVE  Excused(c)
<1> DEFINE merged == [f \in Fields |-> IF f \in DOMAIN c.body THEN c.body[f] ELSE item[f]]
<1>1. /\ merged["x"] = IF "x" \in DOMAIN c.body THEN c.body["x"] ELSE item["x"]
      /\ merged["y"] = IF "y" \in DOMAIN c.body THEN c.body["y"] ELSE item["y"]
  BY DEF Fields
<1>2. Stored(Kind, item, c.body) = IF Kind = "website" /\ merged["y"] = 0 THEN Nowhere
                                   ELSE IF Kind \in Selecting
                                   THEN [f \in Fields |-> IF f \in DOMAIN c.body THEN 0 ELSE item[f]]
                                   ELSE merged
  BY DEF Stored
<1> HIDE DEF merged
<1>3. CASE Kind = "website" /\ merged["y"] = 0
  BY <1>1, <1>3 DEF Harmless, Excused
<1>4. CASE ~(Kind = "website" /\ merged["y"] = 0)
  <2>1. Kind \in {"website", "rules", "remount"} /\ Kind \notin Selecting
    BY DEF Worse, Selecting
  <2>2. Worse(item, merged)
    BY <1>2, <1>4, <2>1
  <2> QED BY <1>1, <2>2 DEF Worse, Harmless, Excused
<1> QED
  BY <1>3, <1>4

\* HarmConfirmed, of one step.
HarmStep ==
  sent' = sent /\ garage'.own > garage.own /\ Worse(garage.item, garage'.item)
    => \A c \in call : Excused(c)

LEMMA NoSilentHarm ==
  ASSUME ConsoleInv, [ConsoleNext]_cvars
  PROVE  HarmStep
<1>1. SUFFICES ASSUME garage'.own > garage.own, Worse(garage.item, garage'.item), NEW c \in call
               PROVE  Excused(c)
  BY DEF HarmStep
<1>2. call = {c} /\ c \in CallType /\ Harmless(c) /\ garage.own \in Nat /\ garage.item \in Item
  BY <1>1, CacheIs, Parts DEF AtMostOne, BodyOK
<1>3. garage' # garage /\ garage'.own # garage.own /\ garage'.item # garage.item
  BY <1>1, <1>2 DEF Worse
<1>4. CASE GarageExecutes \/ CallFails
  <2>1. garage'.item = Done(c).item
    <3>1. CASE GarageExecutes
      <4>1. garage' \in {Done(c), [Done(c) EXCEPT !.item = garage.item]}
        BY <1>2, <3>1 DEF GarageExecutes
      <4>2. [Done(c) EXCEPT !.item = garage.item].item = garage.item
        BY DEF Done
      <4> QED BY <1>3, <4>1, <4>2
    <3>2. CASE CallFails
      BY <1>2, <1>3, <3>2 DEF CallFails
    <3> QED BY <1>4, <3>1, <3>2
  <2>2. garage'.item = Stored(Kind, garage.item, c.body)
    BY <2>1 DEF Done
  <2> QED BY <1>1, <1>2, <2>2, StoredHarm
<1>5. ~OthersChange /\ ~Succeeds /\ ~Fails
  BY <1>3 DEF OthersChange, Succeeds, Fails
<1>6. ~Fetching
  BY <1>3 DEF Fetching, Refetch, GarageReads, FetchLands, FetchFails, Landed, GrowsOld, Collect
<1>7. ~Operator
  BY <1>3 DEF Operator, Navigate, Open, Hide, OpenDialog, ToggleSelectAll, Discard, Send,
              RefreshButton, Enter
<1>8. ~UNCHANGED cvars
  BY <1>3 DEF cvars
<1> QED
  BY <1>4, <1>5, <1>6, <1>7, <1>8 DEF ConsoleNext, Answering

\* No rules are deleted unless that was confirmed, or the card had none to show; no token
\* comes to hold everything unless that was confirmed, or the token that was shown held
\* everything already; and no token comes to more than was ticked.
THEOREM HarmIsConfirmed == ConsoleSpec => HarmConfirmed
<1>1. ConsoleInv /\ [ConsoleNext]_cvars => [PowersAsTicked /\ HarmStep]_cvars
  BY PowersAreAsTicked, NoSilentHarm
<1>2. ConsoleSpec => [][PowersAsTicked /\ HarmStep]_cvars
  BY <1>1, ConsoleInvariance, PTL DEF ConsoleSpec
<1> QED
  BY <1>2 DEF HarmConfirmed, HarmStep, Worse, Excused
=============================================================================
