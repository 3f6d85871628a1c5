--------------------------- MODULE SessionProofs ---------------------------
(***************************************************************************)
(* What TLAPS proves of Sessions, for every number of tabs, calls and      *)
(* sessions, every TTL and every bound on the clock and the faults.        *)
(***************************************************************************)
EXTENDS Sessions, TLAPS

IInv == TypeOK /\ CookieLifetime

\* A state of one call is all that Under changes.
LEMMA UnderType ==
  ASSUME TypeOK, NEW c \in Calls, NEW s \in CallState, Under(c, s)
  PROVE  /\ call' \in [Calls -> CallState]
         /\ call'[c] = s
         /\ \A d \in Calls : d # c => call'[d] = call[d]
BY DEF TypeOK, Under

LEMMA FreeType == Free \in CallState /\ Free.stage = "free"
BY DEF Free, CallState, AuthStatus

\* What Answer makes of a call.
LEMMA AnswerType ==
  ASSUME TypeOK, NEW c \in Calls, NEW a \in AuthStatus, Answer(c, a)
  PROVE  /\ call' \in [Calls -> CallState]
         /\ call'[c].stage = "answered" /\ call'[c].id = NoId
         /\ call'[c].kind = call[c].kind
         /\ \A d \in Calls : d # c => call'[d] = call[d]
<1> DEFINE s == [call[c] EXCEPT !.stage = "answered", !.id = NoId, !.answer = a]
<1>1. s \in CallState /\ s.stage = "answered" /\ s.id = NoId /\ s.kind = call[c].kind
  BY DEF TypeOK, CallState
<1>2. Under(c, s)
  BY DEF Answer
<1> QED
  BY <1>1, <1>2, UnderType

\* What the tabs show afterwards is a status.
LEMMA ShowsType ==
  ASSUME TypeOK, NEW c, NEW what \in AuthStatus, Shows(c, what)
  PROVE  status' \in [Tabs -> AuthStatus]
BY DEF TypeOK, Shows

\* The cookie the browser presents is younger than TTL.
LEMMA PresentedYoung ==
  ASSUME IInv
  PROVE  /\ Presented \in Ids \cup {NoId}
         /\ Presented # NoId => now < since[Presented] + TTL
<1>1. jar.id \in Ids \cup {NoId} /\ jar.until \in Int /\ now \in Int /\ TTL \in Int
  BY SessionsAssumption DEF IInv, TypeOK, Moments
<1>2. \A s \in Ids : since[s] \in Int
  BY DEF IInv, TypeOK
<1> QED
  BY <1>1, <1>2 DEF Presented, IInv, CookieLifetime

----------------------------------------------------------------------------
(* The invariant, step by step. *)

LEMMA InitInv == Init => IInv
<1> SUFFICES ASSUME Init PROVE IInv
  OBVIOUS
<1>1. Free \in CallState /\ Free.stage = "free"
  BY FreeType
<1>2. TypeOK
  BY <1>1, SessionsAssumption DEF Init, TypeOK, EmptyJar, Moments, AuthStatus
<1>3. CookieLifetime
  BY <1>1, SessionsAssumption DEF Init, CookieLifetime, EmptyJar
<1> QED
  BY <1>2, <1>3 DEF IInv

LEMMA SendInv ==
  ASSUME IInv, NEW c \in Calls, NEW t \in Tabs \cup {NoTab},
         NEW kind \in {"login", "me", "logout"}, Send(c, t, kind)
  PROVE  IInv'
<1> DEFINE s == [Free EXCEPT !.stage = "sent", !.kind = kind, !.tab = t,
                             !.id = Presented]
<1>1. s \in CallState /\ s.stage = "sent" /\ s.id = Presented
  BY PresentedYoung DEF Free, CallState, AuthStatus
<1>2. /\ call' \in [Calls -> CallState] /\ call'[c] = s
      /\ \A d \in Calls : d # c => call'[d] = call[d]
  BY <1>1, UnderType DEF Send, IInv
<1>3. TypeOK'
  BY <1>2 DEF Send, IInv, TypeOK
<1>4. CookieLifetime'
  BY <1>1, <1>2, PresentedYoung DEF Send, IInv, CookieLifetime
<1> QED
  BY <1>3, <1>4 DEF IInv

LEMMA ReloadInv ==
  ASSUME IInv, NEW t \in Tabs, Reload(t)
  PROVE  IInv'
<1>1. ASSUME NEW c \in Calls
      PROVE  /\ call'[c] \in CallState /\ call'[c].id = call[c].id
             /\ call'[c].stage = call[c].stage /\ call'[c].kind = call[c].kind
  <2>1. call[c] \in CallState
    BY DEF IInv, TypeOK
  <2>2. CASE call[c].tab = t
    BY <2>1, <2>2 DEF Reload, CallState
  <2>3. CASE call[c].tab # t
    BY <2>1, <2>3 DEF Reload
  <2> QED
    BY <2>2, <2>3
<1>2. call' \in [Calls -> CallState]
  BY <1>1 DEF Reload
<1>3. TypeOK'
  BY <1>2 DEF Reload, IInv, TypeOK, AuthStatus
<1>4. CookieLifetime'
  BY <1>1 DEF Reload, IInv, CookieLifetime
<1> QED
  BY <1>3, <1>4 DEF IInv

LEMMA CompleteLoginInv ==
  ASSUME IInv, NEW c \in Calls, NEW s \in Ids, CompleteLogin(c, s)
  PROVE  IInv'
<1> DEFINE r == [call[c] EXCEPT !.stage = "answered", !.id = s,
                                !.answer = "authenticated"]
<1>1. r \in CallState /\ r.stage = "answered" /\ r.id = s
  BY DEF IInv, TypeOK, CallState, AuthStatus
<1>2. /\ call' \in [Calls -> CallState] /\ call'[c] = r
      /\ \A d \in Calls : d # c => call'[d] = call[d]
  BY <1>1, UnderType DEF CompleteLogin, IInv
<1>3. now \in Int /\ TTL \in Int /\ TTL > 0 /\ now \in 0 .. Horizon
  BY SessionsAssumption DEF IInv, TypeOK
<1>4. TypeOK'
  BY <1>2, <1>3, SessionsAssumption DEF CompleteLogin, IInv, TypeOK, Moments
<1>5. \A i \in Ids : since[i] \in Int /\ since'[i] \in Int
                     /\ since[i] <= since'[i] /\ since'[i] <= now
  BY <1>3 DEF CompleteLogin, IInv, TypeOK, CookieLifetime
<1>6. since'[s] = now
  BY DEF CompleteLogin, IInv, TypeOK
<1>7. jar.id # NoId => jar.until <= since'[jar.id] + TTL
  BY <1>3, <1>5 DEF IInv, TypeOK, CookieLifetime, Moments
<1>8. ASSUME NEW d \in Calls, call[d].stage \in {"sent", "touch"}, call[d].id # NoId
      PROVE  now < since'[call[d].id] + TTL
  <2>1. call[d].id \in Ids /\ now < since[call[d].id] + TTL
    BY <1>8 DEF IInv, TypeOK, CookieLifetime, CallState
  <2> QED
    BY <2>1, <1>3, <1>5
<1>9. ASSUME NEW d \in Calls, call[d].stage = "answered", call[d].kind = "login"
      PROVE  call[d].id # NoId /\ since'[call[d].id] = now
  <2>1. call[d].id # NoId /\ call[d].id \in Ids /\ since[call[d].id] = now
    BY <1>9 DEF IInv, TypeOK, CookieLifetime, CallState
  <2> QED
    BY <2>1, <1>3, <1>5
<1>10. s # NoId
  BY SessionsAssumption
<1>11. CookieLifetime'
  <2>1. UNCHANGED <<now, jar>>
    BY DEF CompleteLogin
  <2>2. ASSUME NEW d \in Calls
        PROVE  /\ call'[d].stage \in {"sent", "touch"} /\ call'[d].id # NoId =>
                    now < since'[call'[d].id] + TTL
               /\ call'[d].stage = "answered" /\ call'[d].kind = "login" =>
                    call'[d].id # NoId /\ since'[call'[d].id] = now
               /\ call'[d].stage = "touch" =>
                    call'[d].kind = "me" /\ call'[d].id # NoId
    <3>1. CASE d = c
      BY <1>1, <1>2, <1>6, <1>10, <3>1
    <3>2. CASE d # c
      <4>1. call[d].stage = "touch" => call[d].kind = "me" /\ call[d].id # NoId
        BY DEF IInv, CookieLifetime
      <4> QED
        BY <1>2, <1>8, <1>9, <3>2, <4>1
    <3> QED
      BY <3>1, <3>2
  <2> QED
    BY <1>5, <1>7, <2>1, <2>2 DEF CookieLifetime
<1> QED
  BY <1>4, <1>11 DEF IInv

\* A step that puts one call in a state with no session, or keeps it in one
\* where its session has been looked at, and leaves clock, logins and cookie.
LEMMA SettleInv ==
  ASSUME IInv, NEW c \in Calls, NEW s \in CallState, Under(c, s),
         UNCHANGED <<now, issued, since, jar>>,
         expires' \in [Ids -> Moments], status' \in [Tabs -> AuthStatus],
         faults' \in 0 .. MaxFaults,
         \/ s.stage = "free"
         \/ s.stage = "answered" /\ s.kind # "login"
         \/ /\ s.stage = "touch" /\ s.id = call[c].id
            /\ call[c].stage = "sent" /\ s.kind = "me" /\ s.id # NoId
  PROVE  IInv'
<1>1. /\ call' \in [Calls -> CallState] /\ call'[c] = s
      /\ \A d \in Calls : d # c => call'[d] = call[d]
  BY UnderType DEF IInv
<1>2. TypeOK'
  BY <1>1 DEF IInv, TypeOK, Moments
<1>3. CookieLifetime'
  BY <1>1 DEF IInv, CookieLifetime
<1> QED
  BY <1>2, <1>3 DEF IInv

\* The answered state of a call that is no login.
LEMMA AnsweredState ==
  ASSUME TypeOK, NEW c \in Calls, call[c].kind # "login", NEW a \in AuthStatus
  PROVE  LET s == [call[c] EXCEPT !.stage = "answered", !.id = NoId, !.answer = a]
         IN  s \in CallState /\ s.stage = "answered" /\ s.kind # "login"
BY DEF TypeOK, CallState

LEMMA AnswerInv ==
  ASSUME IInv, NEW c \in Calls, call[c].kind # "login", NEW a \in AuthStatus,
         Answer(c, a), expires' \in [Ids -> Moments],
         faults' \in 0 .. MaxFaults,
         UNCHANGED <<now, issued, since, jar, status>>
  PROVE  IInv'
<1> DEFINE s == [call[c] EXCEPT !.stage = "answered", !.id = NoId, !.answer = a]
<1>1. s \in CallState /\ s.stage = "answered" /\ s.kind # "login"
  BY AnsweredState DEF IInv
<1>2. Under(c, s)
  BY DEF Answer
<1>3. status' \in [Tabs -> AuthStatus]
  BY DEF IInv, TypeOK
<1> QED
  BY <1>1, <1>2, <1>3, SettleInv

LEMMA ServeInv ==
  ASSUME IInv, NEW c \in Calls,
         RefuseLogin(c) \/ Check(c) \/ Touch(c) \/ Logout(c)
  PROVE  IInv'
<1> USE DEF AuthStatus
<1>1. /\ expires \in [Ids -> Moments] /\ status \in [Tabs -> AuthStatus]
      /\ faults \in 0 .. MaxFaults /\ call[c] \in CallState
  BY DEF IInv, TypeOK
<1>2. CASE RefuseLogin(c)
  BY <1>1, <1>2, FreeType, SettleInv DEF RefuseLogin
<1>3. CASE Check(c)
  <2> DEFINE s == [call[c] EXCEPT !.stage = "touch"]
  <2>1. s \in CallState /\ s.stage = "touch" /\ s.id = call[c].id
        /\ s.kind = call[c].kind
    BY <1>1 DEF CallState
  <2>2. CASE call[c].id # NoId /\ Under(c, s)
    BY <1>1, <1>3, <2>1, <2>2, SettleInv DEF Check
  <2>3. CASE Answer(c, "unauthenticated")
    BY <1>1, <1>3, <2>3, AnswerInv DEF Check
  <2>4. CASE Answer(c, "session_expired")
    BY <1>1, <1>3, <2>4, AnswerInv DEF Check
  <2> QED
    BY <1>3, <2>2, <2>3, <2>4 DEF Check
<1>4. CASE Touch(c)
  <2>1. now + TTL \in Moments
    BY SessionsAssumption DEF IInv, TypeOK, Moments
  <2>2. expires' \in [Ids -> Moments]
    BY <1>1, <1>4, <2>1 DEF Touch
  <2>3. call[c].kind # "login"
    BY <1>4 DEF Touch, IInv, CookieLifetime
  <2> QED
    BY <1>1, <1>4, <2>2, <2>3, AnswerInv DEF Touch
<1>5. CASE Logout(c)
  <2>1. 0 \in Moments
    BY SessionsAssumption DEF Moments
  <2>2. expires' \in [Ids -> Moments]
    BY <1>1, <1>5, <2>1 DEF Logout
  <2> QED
    BY <1>1, <1>5, <2>2, AnswerInv DEF Logout
<1> QED
  BY <1>2, <1>3, <1>4, <1>5

LEMMA ReceiveInv ==
  ASSUME IInv, NEW c \in Calls, Receive(c)
  PROVE  IInv'
<1>1. call[c] \in CallState /\ call[c].stage = "answered"
  BY DEF Receive, IInv, TypeOK
<1>2. status' \in [Tabs -> AuthStatus]
  BY <1>1, ShowsType DEF Receive, IInv, CallState
<1>3. /\ call' \in [Calls -> CallState] /\ call'[c] = Free /\ Free.stage = "free"
      /\ \A d \in Calls : d # c => call'[d] = call[d]
  BY FreeType, UnderType DEF Receive, IInv
<1>4. now \in Int /\ TTL \in Int /\ now + TTL \in Moments /\ 0 \in Moments
  BY SessionsAssumption DEF IInv, TypeOK, Moments
<1>5. /\ jar' \in [id : Ids \cup {NoId}, until : Moments]
      /\ jar'.id # NoId => jar'.until <= since[jar'.id] + TTL
  <2>1. CASE call[c].kind = "login"
    <3>1. jar' = [id |-> call[c].id, until |-> now + TTL]
      BY <2>1 DEF Receive
    <3>2. since[call[c].id] = now
      BY <1>1, <2>1 DEF IInv, CookieLifetime
    <3> QED
      BY <1>1, <1>4, <3>1, <3>2 DEF CallState
  <2>2. CASE call[c].kind = "logout"
    BY <1>4, <2>2 DEF Receive, EmptyJar
  <2>3. CASE call[c].kind = "me"
    BY <2>3 DEF Receive, IInv, TypeOK, CookieLifetime
  <2> QED
    BY <1>1, <2>1, <2>2, <2>3 DEF CallState
<1>6. TypeOK'
  BY <1>2, <1>3, <1>5 DEF Receive, IInv, TypeOK, Moments
<1>7. CookieLifetime'
  BY <1>3, <1>5 DEF Receive, IInv, CookieLifetime
<1> QED
  BY <1>6, <1>7 DEF IInv

LEMMA RedisFailsInv ==
  ASSUME IInv, NEW c \in Calls, RedisFails(c)
  PROVE  IInv'
<1>1. expires' \in [Ids -> Moments] /\ faults' \in 0 .. MaxFaults
  BY SessionsAssumption DEF RedisFails, IInv, TypeOK
<1>2. call[c].kind # "login"
  BY DEF RedisFails, IInv, CookieLifetime
<1> QED
  BY <1>1, <1>2, AnswerInv DEF RedisFails, AuthStatus

LEMMA LoseReplyInv ==
  ASSUME IInv, NEW c \in Calls, LoseReply(c)
  PROVE  IInv'
<1>1. expires' \in [Ids -> Moments]
  BY DEF LoseReply, IInv, TypeOK
<1>2. faults' \in 0 .. MaxFaults
  BY SessionsAssumption DEF LoseReply, IInv, TypeOK
<1>3. status' \in [Tabs -> AuthStatus]
  <2>1. CASE Shows(c, "unauthenticated")
    BY <2>1, ShowsType DEF IInv, AuthStatus
  <2> QED
    BY <2>1 DEF LoseReply, IInv, TypeOK
<1> QED
  BY <1>1, <1>2, <1>3, FreeType, SettleInv DEF LoseReply

LEMMA RedisLosesInv ==
  ASSUME IInv, RedisLoses
  PROVE  IInv'
BY SessionsAssumption DEF RedisLoses, IInv, TypeOK, CookieLifetime, Moments

LEMMA TickInv ==
  ASSUME IInv, Tick
  PROVE  IInv'
<1>1. TypeOK'
  BY SessionsAssumption DEF Tick, IInv, TypeOK, Moments
<1>2. \A s \in Ids : since'[s] <= now'
  BY SessionsAssumption DEF Tick, IInv, TypeOK, CookieLifetime
<1>3. CookieLifetime'
  BY <1>2 DEF Tick, IInv, CookieLifetime
<1> QED
  BY <1>1, <1>3 DEF IInv

LEMMA StepInv == IInv /\ [Next]_vars => IInv'
<1> SUFFICES ASSUME IInv, [Next]_vars PROVE IInv'
  OBVIOUS
<1>1. ASSUME NEW c \in Calls, NEW t \in Tabs,
             SendLogin(c, t) \/ SendMe(c, t) \/ SendPage(c, t) \/ SendLogout(c, t)
      PROVE  IInv'
  BY <1>1, SendInv DEF SendLogin, SendMe, SendPage, SendLogout
<1>2. ASSUME NEW t \in Tabs, Reload(t) PROVE IInv'
  BY <1>2, ReloadInv
<1>3. ASSUME NEW c \in Calls, Serve(c) PROVE IInv'
  BY <1>3, CompleteLoginInv, ServeInv, ReceiveInv DEF Serve
<1>4. ASSUME NEW c \in Calls, LoseReply(c) PROVE IInv'
  BY <1>4, LoseReplyInv
<1>6. ASSUME NEW c \in Calls, RedisFails(c) PROVE IInv'
  BY <1>6, RedisFailsInv
<1>5. CASE UNCHANGED vars
  BY <1>5 DEF vars, IInv, TypeOK, CookieLifetime, Moments
<1> QED
  BY <1>1, <1>2, <1>3, <1>4, <1>5, <1>6, RedisLosesInv, TickInv DEF Next

LEMMA AlwaysInv == Spec => []IInv
BY InitInv, StepInv, PTL DEF Spec

----------------------------------------------------------------------------
(* The theorems. *)

\* Store, cookie jar and tabs only ever hold what the code can put there.
THEOREM TypeCorrect == Spec => []TypeOK
<1>1. IInv => TypeOK
  BY DEF IInv
<1> QED
  BY <1>1, AlwaysInv, PTL

\* RequireAuth and Me never serve a request with a session, and so with a role,
\* that was created TTL ago or earlier, however often the session is touched.
THEOREM StalenessIsBounded == Spec => []BoundedStaleness
<1>1. IInv => BoundedStaleness
  <2> SUFFICES ASSUME IInv, NEW c \in Calls, call[c].stage = "touch"
               PROVE  now < since[call[c].id] + TTL
    BY DEF BoundedStaleness
  <2> QED
    BY DEF IInv, CookieLifetime
<1> QED
  BY <1>1, AlwaysInv, PTL

\* A session that was logged out, or that ran out, does not come back, although
\* a request checks it (Store.Get) before it extends it (Store.Touch).
THEOREM EndedStaysEnded == Spec => NeverRevived
<1>1. ASSUME IInv, [Next]_vars
      PROVE  [\A s \in issued : ~ Alive(s) => ~ Alive(s)']_vars
  <2> SUFFICES ASSUME Next, NEW s \in issued, ~ Alive(s) PROVE ~ Alive(s)'
    BY <1>1
  <2>1. /\ s \in Ids /\ s # NoId /\ expires \in [Ids -> Moments]
        /\ expires[s] \in Int /\ now \in Int /\ now >= 0 /\ expires[s] <= now
    BY <1>1, SessionsAssumption DEF IInv, TypeOK, Moments, Alive
  <2>2. now' \in Int /\ now' >= now
    <3>1. CASE Tick
      BY <2>1, <3>1 DEF Tick
    <3>2. ASSUME NEW c \in Calls, Serve(c) PROVE UNCHANGED now
      BY <3>2 DEF Serve, CompleteLogin, RefuseLogin, Check, Touch, Logout, Receive
    <3>3. ASSUME NEW c \in Calls, NEW t \in Tabs,
                 SendLogin(c, t) \/ SendMe(c, t) \/ SendPage(c, t) \/ SendLogout(c, t)
          PROVE  UNCHANGED now
      BY <3>3 DEF SendLogin, SendMe, SendPage, SendLogout, Send
    <3>4. ASSUME NEW t \in Tabs, Reload(t) PROVE UNCHANGED now
      BY <3>4 DEF Reload
    <3>5. ASSUME NEW c \in Calls, RedisFails(c) \/ LoseReply(c) PROVE UNCHANGED now
      BY <3>5 DEF RedisFails, LoseReply
    <3>6. CASE RedisLoses
      BY <2>1, <3>6 DEF RedisLoses
    <3>7. Tick \/ RedisLoses \/ UNCHANGED now
      BY <3>2, <3>3, <3>4, <3>5, Zenon DEF Next
    <3> QED
      BY <2>1, <3>1, <3>6, <3>7
  <2>3. expires'[s] = expires[s] \/ expires'[s] = 0
    <3>1. ASSUME NEW c \in Calls, NEW i \in Ids, CompleteLogin(c, i)
          PROVE  expires'[s] = expires[s]
      BY <2>1, <3>1 DEF CompleteLogin
    <3>2. ASSUME NEW c \in Calls, Touch(c) PROVE expires'[s] = expires[s]
      BY <2>1, <3>2 DEF Touch
    <3>3. ASSUME NEW c \in Calls, Logout(c)
          PROVE  expires'[s] = expires[s] \/ expires'[s] = 0
      BY <2>1, <3>3 DEF Logout
    <3>4. CASE RedisLoses
      BY <2>1, <3>4 DEF RedisLoses
    <3>5. ASSUME NEW c \in Calls, RefuseLogin(c) \/ Check(c) \/ Receive(c)
          PROVE  UNCHANGED expires
      BY <3>5 DEF RefuseLogin, Check, Receive
    <3>6. ASSUME NEW c \in Calls, NEW t \in Tabs,
                 SendLogin(c, t) \/ SendMe(c, t) \/ SendPage(c, t) \/ SendLogout(c, t)
          PROVE  UNCHANGED expires
      BY <3>6 DEF SendLogin, SendMe, SendPage, SendLogout, Send
    <3>7. CASE \/ Tick \/ \E t \in Tabs : Reload(t)
               \/ \E c \in Calls : RedisFails(c) \/ LoseReply(c)
      BY <3>7 DEF Tick, Reload, RedisFails, LoseReply
    <3> QED
      BY <3>1, <3>2, <3>3, <3>4, <3>5, <3>6, <3>7 DEF Next, Serve
  <2> QED
    BY <2>1, <2>2, <2>3 DEF Alive
<1> QED
  BY <1>1, AlwaysInv, PTL DEF Spec, NeverRevived
=============================================================================
