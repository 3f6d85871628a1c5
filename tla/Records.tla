------------------------------ MODULE Records ------------------------------
(***************************************************************************)
(* The rows that the forms of the dashboard show and change, and the       *)
(* handlers of the API that read and write them, one step per statement.   *)
(*                                                                         *)
(* A form is sent whole.  Most handlers write it with one statement or in  *)
(* a transaction; those of the permissions write key by key and stop at    *)
(* the first error; UpsertConfig reads the row first, to keep a secret     *)
(* that was left blank.  A request whose connection breaks is cancelled    *)
(* with its context: it runs no further statement.                         *)
(***************************************************************************)
EXTENDS Naturals, FiniteSets, Sequences

CONSTANTS
  Tabs,       \* browser tabs, each of another user
  Checked,    \* the permissions that requests are checked for
  MaxFaults   \* bound on statements that fail and answers that are lost

VARIABLES
  stored,   \* the value of each field
  saves,    \* forms that were submitted: waiting for the confirmation or under way
  loads,    \* loads under way
  check,    \* a permission check of a request of the user of UserPage
  faults

server == <<stored, saves, loads, check, faults>>

Keys == {"edit", "delete"}

Blank == ""           \* an empty text, an empty list, a secret nobody entered
Origin == "origin"    \* the header of every request; CORS allows one

\* A tab stands for a text of its own, which no handler converts.
ASSUME RecordsAssumption ==
  /\ MaxFaults \in Nat /\ Checked \subseteq Keys
  /\ Tabs \cap {Blank, " ", "old ", "Hidden"} = {}

RoleRow == [edit |-> "role_edit", delete |-> "role_delete"]
OwnRow == [edit |-> "own_edit", delete |-> "own_delete"]

\* What one load brings.
FieldsOf ==
  [settings  |-> {"site_title", "site_url", "login_path", "discourage_indexing"},
   matrix    |-> {RoleRow[k] : k \in Keys},
   auth      |-> {"enabled", "link_ids"},
   user      |-> {"full_name"},
   sessions  |-> {},
   overrides |-> {OwnRow[k] : k \in Keys},
   grants    |-> {"tenant_ids", "campaign_ids"},
   link      |-> {"destination_url", "campaign_id"},
   config    |-> {"endpoint_url", "auth_type", "auth_secret"}]
Section == DOMAIN FieldsOf
Field == (UNION {FieldsOf[s] : s \in Section}) \cup {"password", "cloudflare"}
SectionOf(f) == CHOOSE s \in Section : f \in FieldsOf[s]

\* Users type values of their own, with spaces and capitals; the rest chooses among
\* what the page offers.
Value == Tabs \cup {Blank, Origin, "old", "old ", " ", "login", "hidden", "Hidden", "on", "off",
                    "allow", "deny", "default", "all", "specific", "none", "bearer"}

KeyByKey == {"matrix", "overrides"}

----------------------------------------------------------------------------
(* What a handler makes of a field before it stores it, and refuses. *)

Trimmed(v) == IF v = " " THEN Blank ELSE IF v = "old " THEN "old" ELSE v
Lowered(v) == IF v = "Hidden" THEN "hidden" ELSE v
OrElse(v, fallback) == IF v = Blank THEN fallback ELSE v

Required == {"site_title", "cloudflare", "full_name", "destination_url", "endpoint_url"}

Stores(f, v) ==
  CASE f = "login_path"                                                     -> OrElse(Lowered(Trimmed(v)), "login")
    [] f = "site_url"                                                       -> OrElse(Trimmed(v), Origin)
    [] f \in {"site_title", "cloudflare", "full_name", "destination_url"}   -> Trimmed(v)
    [] OTHER                                                                -> v

Converted(body) == [f \in DOMAIN body |-> Stores(f, body[f])]
Refused(r) == \E f \in DOMAIN r.body \cap Required : Trimmed(r.body[f]) = Blank

----------------------------------------------------------------------------
(* Writing. *)

Fault == /\ faults < MaxFaults
         /\ faults' = faults + 1

Written(row) == [f \in Field |-> IF f \in DOMAIN row THEN row[f] ELSE stored[f]]
Only(f, v) == [x \in {f} |-> v]

\* The save r becomes r1 and the fields of row are written.  stale, missed, crossed
\* and touched are history: the fields that other tabs changed since a form was
\* loaded, those that other tabs, and the tab itself, changed since a load ran its
\* first SELECT, and those that changed since a check ran its first.
Puts(r, r1, row) ==
  LET now == Written(row)
      changed == {f \in Field : now[f] # stored[f]}
  IN  /\ stored' = now
      /\ saves' = {IF s.tab = r.tab THEN s ELSE [s EXCEPT !.stale = @ \cup changed] : s \in saves \ {r}}
                    \cup {r1}
      /\ loads' = {CASE l.stage = "sent"                       -> l
                     [] l.stage # "sent" /\ l.tab = r.tab     -> [l EXCEPT !.crossed = @ \cup changed]
                     [] OTHER                                 -> [l EXCEPT !.missed = @ \cup changed] : l \in loads}
      /\ check' = IF check.stage = "role" THEN [check EXCEPT !.touched = @ \cup changed] ELSE check
      /\ UNCHANGED faults

Becomes(r, r1) == /\ saves' = (saves \ {r}) \cup {r1}
                  /\ UNCHANGED <<stored, loads, check>>

\* A mistake the handlers of the settings could have: "REPLACE INTO", which resets
\* the columns that it does not name.
UpdateReplacing(r) ==
  /\ r.stage = "sent" /\ r.form \notin KeyByKey \cup {"config"}
  /\ Puts(r, [r EXCEPT !.stage = "done"],
          [f \in IF DOMAIN r.body \subseteq FieldsOf["settings"] THEN FieldsOf["settings"] ELSE DOMAIN r.body
             |-> IF f \in DOMAIN r.body THEN Stores(f, r.body[f]) ELSE "NULL"])

\* UpdateGeneral, UpdateSEO, UpdateCloudflare, Update of a link and of a user,
\* ResetPassword: one UPDATE.  UpdateAuthentication, UpdateEntityGrants: one
\* transaction.  The two uploads and SendNow change no field of a form.
Update(r) ==
  /\ r.stage = "sent" /\ r.form \notin KeyByKey \cup {"config"} /\ ~Refused(r)
  /\ Puts(r, [r EXCEPT !.stage = "done"], Converted(r.body))

\* A field that is required has nothing but spaces.  UpsertConfig asks for an endpoint
\* only of a configuration that is enabled, as all are here.
Refuse(r) ==
  /\ r.stage = "sent" /\ Refused(r)
  /\ Becomes(r, [r EXCEPT !.stage = "failed"])
  /\ UNCHANGED faults

\* A mistake the loops could have: nil taken for false.
UpdateKeyDenying(r) ==
  /\ r.stage = "sent" /\ r.form \in KeyByKey
  /\ \E f \in r.left :
       Puts(r, [r EXCEPT !.left = @ \ {f}], Only(f, IF r.body[f] = "default" THEN "deny" ELSE r.body[f]))

\* Update of PermissionsHandler and UpdatePermissionOverrides: the keys of a map,
\* in any order, one statement each.
UpdateKey(r) ==
  /\ r.stage = "sent" /\ r.form \in KeyByKey
  /\ \E f \in r.left : Puts(r, [r EXCEPT !.left = @ \ {f}], Only(f, r.body[f]))

UpdatedKeys(r) ==
  /\ r.stage = "sent" /\ r.form \in KeyByKey /\ r.left = {}
  /\ Becomes(r, [r EXCEPT !.stage = "done"])
  /\ UNCHANGED faults

\* UpsertConfig: the stored secret is read, and a form without one refused when
\* there is none to keep.
LoadRow(r) ==
  /\ r.stage = "sent" /\ r.form = "config" /\ ~Refused(r)
  /\ Becomes(r, [r EXCEPT !.secret = stored["auth_secret"],
                          !.stage = IF /\ r.body["auth_type"] # "none"
                                       /\ r.body["auth_secret"] = Blank
                                       /\ stored["auth_secret"] = Blank
                                    THEN "failed" ELSE "read"])
  /\ UNCHANGED faults

Secret(r) == CASE r.body["auth_type"] = "none" -> Blank
               [] r.body["auth_type"] # "none" /\ r.body["auth_secret"] # Blank -> r.body["auth_secret"]
               [] OTHER -> r.secret

\* A mistake UpsertConfig could have: no auth_secret_encrypted = VALUES(...) when
\* the form had none, so that the row keeps the secret it has by then.
UpsertConfigColumns(r) ==
  /\ r.stage = "read"
  /\ Puts(r, [r EXCEPT !.stage = "done"],
          IF r.body["auth_type"] # "none" /\ r.body["auth_secret"] = Blank
          THEN [f \in {"endpoint_url", "auth_type"} |-> r.body[f]]
          ELSE [r.body EXCEPT !["auth_secret"] = Secret(r)])

\* ... and the whole row is written.
UpsertConfig(r) ==
  /\ r.stage = "read"
  /\ Puts(r, [r EXCEPT !.stage = "done"], [r.body EXCEPT !["auth_secret"] = Secret(r)])

\* A statement fails, and with it the request; or its answer does not arrive.
SaveFails(r) ==
  /\ r.stage \in {"sent", "read", "done"} /\ Fault
  /\ Becomes(r, [r EXCEPT !.stage = "failed"])

----------------------------------------------------------------------------
(* Reading. *)

Reads(l, l1) == /\ loads' = (loads \ {l}) \cup {l1}
                /\ UNCHANGED <<stored, saves, check>>

Loading(l) == Head(l.todo)
Row(section) == [f \in FieldsOf[section] |-> stored[f]]

\* One SELECT, but for GetAuthentication, which reads the flags first.
Select(l) ==
  /\ l.stage = "sent"
  /\ Reads(l, [l EXCEPT !.answer = Row(Loading(l)),
                        !.stage = IF Loading(l) = "auth" THEN "half" ELSE "answered"])
  /\ UNCHANGED faults

SelectScope(l) ==
  /\ l.stage = "half"
  /\ Reads(l, [l EXCEPT !.answer["link_ids"] = stored["link_ids"], !.stage = "answered"])
  /\ UNCHANGED faults

LoadFails(l) ==
  /\ l.stage \in {"sent", "half"} /\ Fault
  /\ Reads(l, [l EXCEPT !.stage = "failed"])

----------------------------------------------------------------------------
(* AllowedForUser: the override, or else the role default. *)

\* first and touched are history: what the tables said at the first read, and the
\* fields that have changed since.
NoCheck == [key |-> "edit", stage |-> "none", answer |-> Blank, failed |-> FALSE,
            first |-> Blank, touched |-> {}]

Effective(k) == IF stored[OwnRow[k]] = "default" THEN stored[RoleRow[k]] ELSE stored[OwnRow[k]]

Answers(k, answer) == [NoCheck EXCEPT !.key = k, !.stage = "done", !.answer = answer]
AsksRole(k) == [NoCheck EXCEPT !.key = k, !.stage = "role", !.first = Effective(k)]

\* A mistake AllowedForUser could have: "if err == nil && allowed".
ReadOverrideAllowing(k) ==
  /\ check.stage = "none"
  /\ check' = IF stored[OwnRow[k]] = "allow" THEN Answers(k, "allow") ELSE AsksRole(k)
  /\ UNCHANGED <<stored, saves, loads, faults>>

ReadOverride(k) ==
  /\ check.stage = "none"
  /\ check' = IF stored[OwnRow[k]] # "default" THEN Answers(k, stored[OwnRow[k]]) ELSE AsksRole(k)
  /\ UNCHANGED <<stored, saves, loads, faults>>

\* An error reads as "no override".
ReadOverrideFails(k) ==
  /\ check.stage = "none" /\ Fault
  /\ check' = [AsksRole(k) EXCEPT !.failed = TRUE]
  /\ UNCHANGED <<stored, saves, loads>>

\* Allowed.
ReadRole ==
  /\ check.stage = "role"
  /\ check' = [Answers(check.key, stored[RoleRow[check.key]]) EXCEPT !.failed = check.failed]
  /\ UNCHANGED <<stored, saves, loads, faults>>

ReadRoleFails ==
  /\ check.stage = "role" /\ Fault
  /\ check' = [Answers(check.key, "deny") EXCEPT !.failed = TRUE]
  /\ UNCHANGED <<stored, saves, loads>>

HandlesSave(r) == Update(r) \/ Refuse(r) \/ UpdateKey(r) \/ UpdatedKeys(r) \/ LoadRow(r) \/ UpsertConfig(r) \/ SaveFails(r)
HandlesLoad(l) == Select(l) \/ SelectScope(l) \/ LoadFails(l)
Checks ==
  \/ \E k \in Checked : ReadOverride(k) \/ ReadOverrideFails(k)
  \/ ReadRole \/ ReadRoleFails
=============================================================================
