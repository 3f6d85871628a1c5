----------------------------- MODULE Dashboard -----------------------------
(***************************************************************************)
(* The pages of Forms in the tabs of two users and a visitor at the Doors, *)
(* over the same rows: what one tab saves is what the others load, and     *)
(* where the login page is for the visitor.                                *)
(***************************************************************************)
EXTENDS Forms, Doors

CONSTANTS
  Plans,   \* what the tabs may be used for
  MaxDone  \* bound on what the user and the visitor do together

\* A tab shows one page.
ASSUME DashboardAssumption ==
  /\ MaxDone \in Nat
  /\ Plans \subseteq [Tabs -> SUBSET Form]
  /\ \A p \in Plans, t \in Tabs : \A f, g \in p[t] : Forms[f].page = Forms[g].page

vars == <<server, browser, entrance>>

\* Permissions are decided where one user edits the matrix and another the overrides.
Deciding == KeyByKey \subseteq UNION {plan[t] : t \in Tabs}

\* A visitor comes where one user edits the general settings.
Visited == \E t \in Tabs : plan[t] = {"general"} /\ Open = {t}

Init ==
  /\ door = Away /\ accounts \in BOOLEAN /\ cookie \in {"none", "live", "dead"}
  /\ \E path \in {"login", "hidden"} :
       /\ InitForms(Plans, path, IF accounts THEN Blank ELSE Origin)
       /\ path = "login" => ~accounts
  /\ cookie # "none" => accounts
  /\ ~Visited => accounts /\ cookie = "none"

\* A form is saved by a signed-in user, so that there is an account.  Bounds on the
\* interleavings: where a visitor comes, the login path is typed and its form submitted
\* once, before that; where permissions are decided, the users wait until both pages
\* are loaded, and type only the permissions that are checked.
FormsStep ==
  /\ NextForms /\ accounts
  /\ Visited => /\ \A t \in Tabs : typed'[t] \subseteq {"login_path"}
                /\ {edits', sent'} \subseteq {0, 1}
                /\ edits' + sent' > edits + sent => door.at = "away"
  /\ Deciding => /\ (\A t \in Tabs : ~Mounting(t)) \/ edits' + sent' = 0
                 /\ \A t \in Tabs : typed'[t] \subseteq {row[k] : row \in {RoleRow, OwnRow}, k \in Checked}
  /\ door' = [door EXCEPT !.moved = @ \/ (door.at # "away" /\ stored'["login_path"] # stored["login_path"])]
  /\ UNCHANGED <<accounts, cookie>>

\* The visitor waits until the user's page is loaded: a bound on the interleavings.
DoorsStep ==
  /\ Visited /\ (accounts => \A t \in Tabs : ~Mounting(t))
  /\ Enters
  /\ edits + sent + door'.moves <= MaxDone
  /\ UNCHANGED browser

Next == FormsStep \/ DoorsStep

Spec == Init /\ [][Next]_vars

TypeOK ==
  /\ TypeOKForms
  /\ {accounts, door.mistaken, door.early, door.moved, door.overtaken, door.ended} \subseteq BOOLEAN
  /\ cookie \in {"none", "live", "dead"}
  /\ door.failed \subseteq {"path", "branding", "setup", "me", "logout", "finish"}
  /\ door.at \in {"away", "opening", "dashboard", "setup", "LoginView", "notFound"}
  /\ door.going \in Paths \cup {Blank} /\ door.loginPath \in Value
  /\ door.needsSetup \in {"loading", "yes", "no"}
  /\ door.status \in {"loading", "authenticated", "unauthenticated", "session_expired"}
  /\ door.branding \in {"pending", "done"} /\ door.wizard \in {"filling", "refreshing"}
  /\ door.moves \in 0..MaxMoves
=============================================================================
