------------------------------- MODULE Doors -------------------------------
(***************************************************************************)
(* The way in: a visitor's tab between the login page, whose path is a     *)
(* setting, the setup wizard and the dashboard.  Three providers ask the   *)
(* API when the app is opened (who am I, is there an account, what is the  *)
(* login path) and the guards of the pages send the visitor on from what   *)
(* they know by then.  Whether a path is the login page is decided by the  *)
(* dashboard's server when it is asked for.                                *)
(***************************************************************************)
EXTENDS Records

CONSTANT MaxMoves  \* bound on what the visitor does

ASSUME DoorsAssumption == MaxMoves \in Nat

VARIABLES
  door,      \* the visitor's tab
  accounts,  \* there are users
  cookie     \* of the visitor: none, or one whose session is live or dead

entrance == <<door, accounts, cookie>>

Paths == {"dashboard", "setup", "login", "hidden"} \cup Tabs

Away ==
  [at         |-> "away",            \* the page shown
   going      |-> Blank,             \* the navigation under way
   loginPath  |-> "login",           \* BrandingProvider, from its default
   branding   |-> "pending",
   needsSetup |-> "loading",         \* SetupProvider
   status     |-> "loading",         \* AuthProvider
   wizard     |-> "filling",         \* SetupWizard
   moves      |-> 0,
   \* history: the visitor entered a wrong path; was sent on before the branding was
   \* there; the login path moved meanwhile; somebody else finished the wizard; the
   \* session ended since the API was asked about it; which answers failed.
   mistaken |-> FALSE, early |-> FALSE, moved |-> FALSE, overtaken |-> FALSE,
   ended |-> FALSE, failed |-> {}]

\* The app is opened at the path p: every provider starts anew.
Visit(p) ==
  /\ door.at = "away" /\ door.going = Blank
  /\ door' = [Away EXCEPT !.going = p, !.at = "opening",
                          !.mistaken = p \notin {"dashboard", "setup", stored["login_path"]}]
  /\ UNCHANGED <<accounts, cookie, server>>

\* SlugPage, for any path that is no page of the dashboard: its server asks for the
\* login path and shows LoginView or "not found".
PageAt(p, loginPath) ==
  IF p \in {"dashboard", "setup"} THEN p ELSE IF p = loginPath THEN "LoginView" ELSE "notFound"

Arrive ==
  /\ door.going # Blank
  /\ door' = [door EXCEPT !.at = PageAt(door.going, stored["login_path"]), !.going = Blank]
  /\ UNCHANGED <<accounts, cookie, server>>

\* getConfiguredLoginPath falls back to "login".
ArriveUnsure ==
  /\ door.going # Blank /\ Fault
  /\ door' = [door EXCEPT !.at = PageAt(door.going, "login"), !.going = Blank,
                          !.failed = @ \cup {"path"}]
  /\ UNCHANGED <<accounts, cookie, stored, saves, loads, check>>

----------------------------------------------------------------------------
(* The providers. *)

Loaded == door.at \notin {"away", "opening"}

Knows(d) == door' = d /\ UNCHANGED <<accounts, cookie, server>>
Misses(d, what) == /\ Fault /\ door' = [d EXCEPT !.failed = @ \cup {what}]
                   /\ UNCHANGED <<accounts, cookie, stored, saves, loads, check>>

BrandingAnswers ==
  /\ Loaded /\ door.branding = "pending"
  /\ \/ Knows([door EXCEPT !.branding = "done", !.loginPath = stored["login_path"]])
     \/ Misses([door EXCEPT !.branding = "done"], "branding")

SetupAnswers ==
  /\ Loaded /\ door.needsSetup = "loading"
  /\ \/ Knows([door EXCEPT !.needsSetup = IF accounts THEN "no" ELSE "yes"])
     \/ Misses([door EXCEPT !.needsSetup = "no"], "setup")

\* Me: a cookie without a session is told from no cookie.
Me == CASE cookie = "live" -> "authenticated"
        [] cookie = "dead" -> "session_expired"
        [] OTHER           -> "unauthenticated"

\* refresh: what becomes of the door d.
Refreshes(d) ==
  \/ Knows([d EXCEPT !.status = Me, !.ended = FALSE])
  \/ Misses([d EXCEPT !.status = "unauthenticated"], "me")

\* A mistake refresh could have: no reason is looked at.
MeAnswersNot ==
  /\ Loaded /\ door.status \in {"loading", "authenticated"}
  /\ \/ Knows([door EXCEPT !.status = IF cookie = "none" THEN "unauthenticated" ELSE "authenticated",
                            !.ended = FALSE])
     \/ Misses([door EXCEPT !.status = "unauthenticated"], "me")

\* On mount, and every minute while the visitor is known to be signed in.
MeAnswers ==
  /\ Loaded /\ door.status \in {"loading", "authenticated"}
  /\ Refreshes(door)

----------------------------------------------------------------------------
(* The guards: the path that the effect of the page's guard replaces it by. *)

\* With "session_expired" the page stays, behind IdleTimeoutModal.
RequireAuth == IF door.status = "unauthenticated" THEN door.loginPath ELSE Blank
GuestOnly ==
  CASE door.needsSetup = "yes"                                     -> "setup"
    [] door.needsSetup = "no" /\ door.status = "authenticated"     -> "dashboard"
    [] OTHER                                                       -> Blank
SetupOnly == IF door.needsSetup = "no" THEN door.loginPath ELSE Blank

SentOn ==
  CASE door.at = "dashboard"   -> RequireAuth
    [] door.at = "LoginView"   -> GuestOnly
    [] door.at = "setup"       -> SetupOnly
    [] OTHER                   -> Blank

\* The effect runs again when what it depends on changes, and overtakes a
\* navigation that is still under way.
Redirect ==
  /\ SentOn # Blank /\ SentOn # door.going
  /\ door' = [door EXCEPT !.going = SentOn,
                          !.early = @ \/ (door.branding = "pending" /\ SentOn = door.loginPath)]
  /\ UNCHANGED <<accounts, cookie, server>>

----------------------------------------------------------------------------
(* What the visitor does. *)

Move == door.moves < MaxMoves
Moved(d) == [d EXCEPT !.moves = @ + 1]

Guest == door.status \in {"unauthenticated", "session_expired"}

\* handleSubmit, handleVerify: the form is shown to who is known to be a guest.
LogIn ==
  /\ door.at = "LoginView" /\ door.needsSetup = "no" /\ Guest
  /\ accounts /\ Move
  /\ cookie' = "live"
  /\ door' = Moved([door EXCEPT !.status = "authenticated", !.ended = FALSE, !.going = "dashboard"])
  /\ UNCHANGED <<accounts, server>>

\* handleLogout: the dashboard is shown to who is known to be signed in.
LogOut ==
  /\ door.at = "dashboard" /\ door.status = "authenticated" /\ Move
  /\ cookie' = "none"
  /\ door' = Moved([door EXCEPT !.status = "unauthenticated", !.going = door.loginPath,
                                !.early = @ \/ door.branding = "pending"])
  /\ UNCHANGED <<accounts, server>>

\* The "finally" of logout: the visitor is a guest whatever became of the request,
\* which may have ended the session although its answer, and with it the cleared
\* cookie, is lost.  The error keeps the callers from sending the visitor on.
LogOutFails ==
  /\ door.at = "dashboard" /\ door.status \in {"authenticated", "session_expired"}
  /\ Move /\ Fault
  /\ cookie' \in {cookie, IF cookie = "live" THEN "dead" ELSE cookie}
  /\ door' = Moved([door EXCEPT !.status = "unauthenticated", !.failed = @ \cup {"logout"}])
  /\ UNCHANGED <<accounts, stored, saves, loads, check>>

\* IdleTimeoutModal: logout, at "Ok" or once the grace period is over.
Acknowledge ==
  /\ door.at = "dashboard" /\ door.status = "session_expired"
  /\ cookie' = "none"
  /\ door' = [door EXCEPT !.status = "unauthenticated"]
  /\ UNCHANGED <<accounts, server>>

\* The session ends behind the tab's back: its key or the cookie runs out, Redis is
\* restarted, or another tab of the browser logs out.
SessionEnds ==
  /\ cookie = "live" /\ door.at # "away" /\ Move
  /\ cookie' \in {"dead", "none"}
  /\ door' = Moved([door EXCEPT !.ended = TRUE])
  /\ UNCHANGED <<accounts, server>>

Wizard == door.at = "setup" /\ door.needsSetup = "yes"

\* handleFinish: the account is made and signed in, unless there is one ...
Finish ==
  /\ Wizard /\ door.wizard = "filling" /\ Move
  /\ door' = Moved([door EXCEPT !.wizard = IF accounts THEN "filling" ELSE "refreshing"])
  /\ accounts' = TRUE
  /\ cookie' = IF accounts THEN cookie ELSE "live"
  /\ UNCHANGED server

\* ... or the answer is an error after all: the account without a session.
FinishFails ==
  /\ Wizard /\ door.wizard = "filling" /\ Move /\ Fault
  /\ accounts' = TRUE
  /\ door' = Moved([door EXCEPT !.failed = @ \cup {"finish"}])
  /\ UNCHANGED <<cookie, stored, saves, loads, check>>

\* ... and after "await refresh()" the wizard is left for the dashboard.
Finished(d) == [d EXCEPT !.wizard = "filling", !.needsSetup = "no", !.going = "dashboard"]
FinishAnswers ==
  /\ door.wizard = "refreshing"
  /\ Refreshes(Finished(door))

\* Somebody else finishes the wizard first.
SetUpElsewhere ==
  /\ ~accounts /\ door.at # "away" /\ Move
  /\ accounts' = TRUE
  /\ door' = Moved([door EXCEPT !.overtaken = TRUE])
  /\ UNCHANGED <<cookie, server>>

Enters ==
  \/ \E p \in {"dashboard", "setup", "login", "hidden"} : Visit(p)
  \/ Arrive \/ ArriveUnsure \/ Redirect
  \/ BrandingAnswers \/ SetupAnswers \/ MeAnswers
  \/ LogIn \/ LogOut \/ LogOutFails \/ Acknowledge \/ SessionEnds
  \/ Finish \/ FinishFails \/ FinishAnswers \/ SetUpElsewhere

----------------------------------------------------------------------------
(* Properties. *)

\* No answer is awaited and no guard sends the visitor on.
AtTheDoor == /\ Loaded /\ door.going = Blank /\ door.wizard = "filling"
             /\ door.branding = "done" /\ door.needsSetup # "loading" /\ door.status # "loading"
             /\ SentOn = Blank

\* The door a visitor ends at is the right one.  "Not found" is the end only of a
\* path entered wrongly, and of a guard that sent the visitor on while the login
\* path was unknown, could not be asked for, or had moved since.  The wizard is the
\* end only where there is no account, or came to be one after the visitor was told
\* there is none.  The login page is the end only where there is one, and for who
\* has a session only after a failure to ask about it or to end it.  The dashboard
\* is shown to who has a session, until the next poll after it ended, and is covered
\* by the modal for who had one.
QuietDoorIsRight ==
  AtTheDoor =>
    /\ door.at = "notFound" =>
         door.mistaken \/ door.early \/ door.moved \/ {"path", "branding"} \cap door.failed # {}
    /\ door.at = "setup" => ~accounts \/ door.overtaken \/ "finish" \in door.failed
    /\ door.at = "LoginView" =>
         /\ accounts \/ "setup" \in door.failed
         /\ cookie # "live" \/ {"me", "logout"} \cap door.failed # {}
    /\ door.at = "dashboard" =>
         \/ door.status = "authenticated" /\ (cookie = "live" \/ door.ended)
         \/ door.status = "session_expired" /\ cookie # "live"
=============================================================================
