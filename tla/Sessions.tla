------------------------------ MODULE Sessions ------------------------------
(***************************************************************************)
(* Signed-in sessions: the Redis store of src/shared/session, the calls of *)
(* src/services/api that read and write it (Login, Me, Logout, RequireAuth *)
(* in front of every page request), one browser's cookie jar, and the      *)
(* AuthProvider of every dashboard tab open in that browser.               *)
(*                                                                         *)
(* Time is a counter.  A call takes seconds, a session lives for hours, so *)
(* the counter stands still while a call is under way.                     *)
(***************************************************************************)
EXTENDS Integers, FiniteSets

CONSTANTS
  Tabs,
  Calls,      \* HTTP calls that may be under way at once
  Ids,        \* session ids, each issued once
  NoId,       \* no cookie
  NoTab,      \* no AuthProvider waits for the answer of a call
  TTL,        \* session.TTL, two hours, in ticks
  Horizon,    \* bound on the clock
  MaxFaults   \* bound on lost replies and Redis restarts

ASSUME SessionsAssumption ==
  /\ NoId \notin Ids /\ NoTab \notin Tabs
  /\ TTL \in Nat \ {0} /\ Horizon \in Nat /\ MaxFaults \in Nat

VARIABLES
  now,
  issued,     \* ids handed out so far
  since,      \* when a session was created; the role in it is as old
  expires,    \* when Redis drops the key of a session; 0 without a key
  jar,        \* the pb_session cookie and the moment it runs out
  status,     \* AuthProvider's status in each tab
  call,       \* the calls under way
  faults

vars == <<now, issued, since, expires, jar, status, call, faults>>

AuthStatus == {"loading", "authenticated", "unauthenticated", "session_expired"}

\* id: the cookie sent along, or the session a login created.  answer: what
\* the reply says of the caller.
CallState ==
  [stage : {"free", "sent", "touch", "answered"},
   kind : {"login", "me", "logout"},
   tab : Tabs \cup {NoTab}, id : Ids \cup {NoId}, answer : AuthStatus]

Moments == 0 .. Horizon + TTL

TypeOK ==
  /\ now \in 0 .. Horizon
  /\ issued \in SUBSET Ids
  /\ since \in [Ids -> 0 .. Horizon]
  /\ expires \in [Ids -> Moments]
  /\ jar \in [id : Ids \cup {NoId}, until : Moments]
  /\ status \in [Tabs -> AuthStatus]
  /\ call \in [Calls -> CallState]
  /\ faults \in 0 .. MaxFaults

\* Redis has the key.
Alive(s) == s # NoId /\ expires[s] > now

\* The cookie the browser sends along.
Presented == IF jar.until > now THEN jar.id ELSE NoId

EmptyJar == [id |-> NoId, until |-> 0]

Free == [stage |-> "free", kind |-> "me", tab |-> NoTab, id |-> NoId,
         answer |-> "loading"]

Under(c, s) == call' = [call EXCEPT ![c] = s]

----------------------------------------------------------------------------
(* The tabs. *)

Send(c, t, kind) ==
  /\ call[c].stage = "free"
  /\ Under(c, [Free EXCEPT !.stage = "sent", !.kind = kind, !.tab = t,
                           !.id = Presented])
  /\ UNCHANGED <<now, issued, since, expires, jar, status, faults>>

\* The login form, and its 2FA step when there is one.
SendLogin(c, t) ==
  status[t] \in {"unauthenticated", "session_expired"} /\ Send(c, t, "login")

\* A mistake AuthProvider could have: no interval while authenticated.
SendMeOnMount(c, t) == status[t] = "loading" /\ Send(c, t, "me")

\* refresh: on mount, and every minute while authenticated.
SendMe(c, t) == status[t] \in {"loading", "authenticated"} /\ Send(c, t, "me")

\* Whatever the user does in the dashboard.  RequireAuth does what Me does, but
\* its answer reaches no AuthProvider.
SendPage(c, t) == status[t] = "authenticated" /\ Send(c, NoTab, "me")

\* The sidebar's button; the idle modal's, and its five-minute timer.
SendLogout(c, t) ==
  status[t] \in {"authenticated", "session_expired"} /\ Send(c, t, "logout")

\* The page loads anew; replies still on their way reach no component.
Reload(t) ==
  /\ status[t] # "loading"
  /\ status' = [status EXCEPT ![t] = "loading"]
  /\ call' = [c \in Calls |->
                IF call[c].tab = t THEN [call[c] EXCEPT !.tab = NoTab] ELSE call[c]]
  /\ UNCHANGED <<now, issued, since, expires, jar, faults>>

----------------------------------------------------------------------------
(* The API and Redis. *)

Answer(c, answer) ==
  Under(c, [call[c] EXCEPT !.stage = "answered", !.id = NoId, !.answer = answer])

\* completeLogin: Store.Create.
CompleteLogin(c, s) ==
  /\ call[c].stage = "sent" /\ call[c].kind = "login"
  /\ s \notin issued
  /\ issued' = issued \cup {s}
  /\ since' = [since EXCEPT ![s] = now]
  /\ expires' = [expires EXCEPT ![s] = now + TTL]
  /\ Under(c, [call[c] EXCEPT !.stage = "answered", !.id = s,
                              !.answer = "authenticated"])
  /\ UNCHANGED <<now, jar, status, faults>>

\* Login's early returns; the form shows the error.
RefuseLogin(c) ==
  /\ call[c].stage = "sent" /\ call[c].kind = "login"
  /\ Under(c, Free)
  /\ UNCHANGED <<now, issued, since, expires, jar, status, faults>>

\* A mistake Me could have: a reason AuthProvider does not know.
CheckUnknownReason(c) ==
  /\ call[c].stage = "sent" /\ call[c].kind = "me"
  /\ IF call[c].id = NoId THEN Answer(c, "unauthenticated")
     ELSE IF Alive(call[c].id) THEN Under(c, [call[c] EXCEPT !.stage = "touch"])
     ELSE Answer(c, "expired")
  /\ UNCHANGED <<now, issued, since, expires, jar, status, faults>>

\* Me and RequireAuth up to Store.Get.
Check(c) ==
  /\ call[c].stage = "sent" /\ call[c].kind = "me"
  /\ IF call[c].id = NoId THEN Answer(c, "unauthenticated")
     ELSE IF Alive(call[c].id) THEN Under(c, [call[c] EXCEPT !.stage = "touch"])
     ELSE Answer(c, "session_expired")
  /\ UNCHANGED <<now, issued, since, expires, jar, status, faults>>

\* A mistake Touch could have: writing the session back with a new TTL.
TouchBySet(c) ==
  /\ call[c].stage = "touch"
  /\ expires' = [expires EXCEPT ![call[c].id] = now + TTL]
  /\ Answer(c, "authenticated")
  /\ UNCHANGED <<now, issued, since, jar, status, faults>>

\* Store.Touch: EXPIRE, which finds the key or does nothing; its error is
\* ignored.  The cookie is not sent again.
Touch(c) ==
  /\ call[c].stage = "touch"
  /\ expires' = IF Alive(call[c].id)
                  THEN [expires EXCEPT ![call[c].id] = now + TTL] ELSE expires
  /\ Answer(c, "authenticated")
  /\ UNCHANGED <<now, issued, since, jar, status, faults>>

\* Logout: Store.Delete.
Logout(c) ==
  /\ call[c].stage = "sent" /\ call[c].kind = "logout"
  /\ expires' = IF call[c].id = NoId
                  THEN expires ELSE [expires EXCEPT ![call[c].id] = 0]
  /\ Answer(c, "unauthenticated")
  /\ UNCHANGED <<now, issued, since, jar, status, faults>>

\* EXPIRE or DEL fails: the error is ignored and the answer is the same.
RedisFails(c) ==
  /\ faults < MaxFaults
  /\ \/ call[c].stage = "touch" /\ Answer(c, "authenticated")
     \/ /\ call[c].stage = "sent" /\ call[c].kind = "logout"
        /\ Answer(c, "unauthenticated")
  /\ faults' = faults + 1
  /\ UNCHANGED <<now, issued, since, expires, jar, status>>

----------------------------------------------------------------------------
(* The replies. *)

\* Status of the tab behind c once it learns `what`.
Shows(c, what) ==
  status' = [t \in Tabs |-> IF t = call[c].tab THEN what ELSE status[t]]

\* A mistake the API could have: renewing the cookie along with the key.
ReceiveRenewed(c) ==
  /\ call[c].stage = "answered"
  /\ Under(c, Free)
  /\ jar' = CASE call[c].kind = "login"  -> [id |-> call[c].id, until |-> now + TTL]
              [] call[c].kind = "logout" -> EmptyJar
              [] call[c].kind = "me" /\ call[c].answer = "authenticated" -> [jar EXCEPT !.until = now + TTL]
              [] OTHER -> jar
  /\ Shows(c, call[c].answer)
  /\ UNCHANGED <<now, issued, since, expires, faults>>

\* Set-Cookie, sent by logins and logouts alone, and the status.
Receive(c) ==
  /\ call[c].stage = "answered"
  /\ Under(c, Free)
  /\ jar' = CASE call[c].kind = "login"  -> [id |-> call[c].id, until |-> now + TTL]
              [] call[c].kind = "logout" -> EmptyJar
              [] OTHER -> jar
  /\ Shows(c, call[c].answer)
  /\ UNCHANGED <<now, issued, since, expires, faults>>

\* No answer, or an error: refresh and logout take the tab for signed out all
\* the same.
\* The calls of a reloaded tab are aborted without a fault.
LoseReply(c) ==
  /\ call[c].stage # "free"
  /\ call[c].tab # NoTab => faults < MaxFaults
  /\ faults' = IF call[c].tab = NoTab THEN faults ELSE faults + 1
  /\ Under(c, Free)
  /\ IF call[c].kind \in {"me", "logout"}
       THEN Shows(c, "unauthenticated") ELSE UNCHANGED status
  /\ UNCHANGED <<now, issued, since, expires, jar>>

\* Redis restarts without its data.
RedisLoses ==
  /\ faults < MaxFaults
  /\ expires' = [s \in Ids |-> 0]
  /\ faults' = faults + 1
  /\ UNCHANGED <<now, issued, since, jar, status, call>>

Tick ==
  /\ now < Horizon
  /\ \A c \in Calls : call[c].stage = "free"
  /\ now' = now + 1
  /\ UNCHANGED <<issued, since, expires, jar, status, call, faults>>

Init ==
  /\ now = 0
  /\ issued = {}
  /\ since = [s \in Ids |-> 0]
  /\ expires = [s \in Ids |-> 0]
  /\ jar = EmptyJar
  /\ status = [t \in Tabs |-> "loading"]
  /\ call = [c \in Calls |-> Free]
  /\ faults = 0

Serve(c) ==
  \/ \E s \in Ids : CompleteLogin(c, s)
  \/ RefuseLogin(c)
  \/ Check(c)
  \/ Touch(c)
  \/ Logout(c)
  \/ Receive(c)

Next ==
  \/ \E c \in Calls, t \in Tabs :
       SendLogin(c, t) \/ SendMe(c, t) \/ SendPage(c, t) \/ SendLogout(c, t)
  \/ \E t \in Tabs : Reload(t)
  \/ \E c \in Calls : Serve(c) \/ RedisFails(c) \/ LoseReply(c)
  \/ RedisLoses
  \/ Tick

Spec == Init /\ [][Next]_vars

\* Calls are served and answered, and a tab's interval keeps firing, whatever
\* else keeps the calls busy.
Fairness ==
  /\ \A c \in Calls : WF_vars(Serve(c))
  /\ \A t \in Tabs : SF_vars(\E c \in Calls : SendMe(c, t))

FairSpec == Spec /\ Fairness

----------------------------------------------------------------------------
(* Properties. *)

\* A session that ended, by Logout, by its TTL or with Redis, stays ended: a
\* request that passed Get before and touches it after cannot bring it back
\* (Store.Get, Store.Touch, Store.Delete).
NeverRevived == [][\A s \in issued : ~ Alive(s) => ~ Alive(s)']_vars

\* The role, name and theme in a session are those of the login.  A request is
\* served with a copy less than TTL old, however busy the session: nothing
\* renews the cookie (SetCookie, RequireAuth).
BoundedStaleness ==
  \A c \in Calls : call[c].stage = "touch" => now < since[call[c].id] + TTL

\* Why: the browser presents a session for TTL after its login.
CookieLifetime ==
  /\ \A s \in Ids : since[s] <= now
  /\ jar.id # NoId => jar.until <= since[jar.id] + TTL
  /\ \A c \in Calls :
       /\ call[c].stage \in {"sent", "touch"} /\ call[c].id # NoId =>
            now < since[call[c].id] + TTL
       /\ call[c].stage = "answered" /\ call[c].kind = "login" =>
            call[c].id # NoId /\ since[call[c].id] = now
       /\ call[c].stage = "touch" => call[c].kind = "me" /\ call[c].id # NoId

\* Once the browser has no session to present, no tab goes on showing the
\* dashboard: not one that was signed out from another tab, and not one whose
\* logout was overtaken by the reply to an earlier poll (AuthProvider).
SignedOutSpreads ==
  <>[](Presented = NoId) => <>[](\A t \in Tabs : status[t] # "authenticated")

\* Inactivity is what ends a session: while Redis keeps it, the browser goes on
\* presenting it (Store.Touch's comment, "sliding 2-hour inactivity TTL").
SlidingSession == Alive(jar.id) => Presented = jar.id
=============================================================================
