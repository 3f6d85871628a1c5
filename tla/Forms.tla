------------------------------- MODULE Forms -------------------------------
(***************************************************************************)
(* The pages of the dashboard on which a row is edited: the settings, a    *)
(* user, a link and its Forwarding tab, each in a browser tab of its own.  *)
(* A page loads its rows when it is opened and again after some saves;     *)
(* until the next load its forms show what that load brought and what the  *)
(* user typed over it.  A handler works with the values of the render it   *)
(* was made in: what is submitted is fixed before the dialog is answered.  *)
(***************************************************************************)
EXTENDS Records

CONSTANTS
  MaxEdits,  \* bound on the values typed
  MaxSaves   \* bound on the forms submitted

ASSUME FormsAssumption == {MaxEdits, MaxSaves} \subseteq Nat

VARIABLES
  plan,     \* the forms that the user of each tab is going to use
  form,     \* what the forms of each tab show
  base,     \* what their last loads brought
  known,    \* the sections that were loaded
  editing,  \* setEditing of a link's page
  typed,    \* history: fields typed since they were loaded or saved
  behind,   \* history: fields that other tabs changed since they were loaded
  own,      \* history: fields that saves of the tab changed since they were loaded
  reverted, \* history: those of them put back, on the page, to what they were before
  edits, sent

history == <<behind, own, reverted>>
browser == <<plan, form, base, known, editing, typed, history, edits, sent>>

----------------------------------------------------------------------------
(* The forms: where each is, the section that is loaded for it, its fields, *)
(* those of them that are write-only, the flag that disables its button,    *)
(* the section that is loaded again after it was saved.                     *)

OnSettings(section, fields, flag, again) ==
  [page |-> "settings", section |-> section, fields |-> fields, hidden |-> {}, flag |-> flag, again |-> again]

GeneralForm == OnSettings("settings", {"site_title", "site_url", "login_path"}, "saving", "settings")
LogoForm == OnSettings("settings", {}, "uploading", "settings")
SeoForm == OnSettings("settings", {"discourage_indexing"}, "saving", "no")
MatrixForm == OnSettings("matrix", FieldsOf["matrix"], "savingPermissions", "no")
AuthForm == OnSettings("auth", FieldsOf["auth"], "savingAuth", "no")
CloudflareForm ==
  [OnSettings("settings", {"cloudflare"}, "saving", "no") EXCEPT !.hidden = {"cloudflare"}]

OnUser(section, fields, flag) ==
  [page |-> "user", section |-> section, fields |-> fields, hidden |-> {}, flag |-> flag, again |-> "no"]

UserForm == OnUser("user", {"full_name"}, "saving")
PasswordForm == [OnUser("user", {"password"}, "resettingPassword") EXCEPT !.hidden = {"password"}]
OverridesForm == OnUser("overrides", FieldsOf["overrides"], "savingOverrides")
GrantsForm == OnUser("grants", FieldsOf["grants"], "savingGrants")

LinkForm ==
  [page |-> "link", section |-> "link", fields |-> FieldsOf["link"], hidden |-> {}, flag |-> "saving",
   again |-> "link"]

ConfigForm ==
  [page |-> "forwarding", section |-> "config", fields |-> FieldsOf["config"], hidden |-> {"auth_secret"},
   flag |-> "saving", again |-> "no"]
SendNowForm ==
  [page |-> "forwarding", section |-> "config", fields |-> {}, hidden |-> {}, flag |-> "sending",
   again |-> "config"]

Forms ==
  [general |-> GeneralForm, logo |-> LogoForm, seo |-> SeoForm, matrix |-> MatrixForm, auth |-> AuthForm,
   cloudflare |-> CloudflareForm, user |-> UserForm, password |-> PasswordForm,
   overrides |-> OverridesForm, grants |-> GrantsForm, link |-> LinkForm, config |-> ConfigForm,
   send |-> SendNowForm]
Form == DOMAIN Forms
Hidden == UNION {Forms[f].hidden : f \in Form}

\* The loads that follow when a page is opened.
SettingsLoads == <<"settings", "matrix", "auth">>
UserLoads == <<"user", "sessions", "overrides", "grants">>
LinkLoads == <<"link">>
ConfigLoads == <<"config">>
LoadsOf == [settings |-> SettingsLoads, user |-> UserLoads, link |-> LinkLoads, forwarding |-> ConfigLoads]

PageOf(t) == Forms[CHOOSE f \in plan[t] : TRUE].page
PageFields(page) == UNION {Forms[f].fields : f \in {g \in Form : Forms[g].page = page}}

\* What a form shows that was never loaded.
SettingsDefault == [f \in PageFields("settings") |->
  CASE f = "login_path" -> "login" [] f = "discourage_indexing" -> "on" [] OTHER -> Blank]
Default(page) == IF page = "settings" THEN SettingsDefault ELSE [f \in PageFields(page) |-> Blank]

\* A mistake toAuthTypeState could have: the flag alone decides.
ScopeOfFlag(row) == [row EXCEPT !["link_ids"] = IF row["enabled"] = "all" THEN Blank ELSE @]

\* toAuthTypeState.
ScopeOf(row) ==
  [enabled  |-> CASE row["enabled"] = "all"                             -> "all"
                  [] row["enabled"] # "all" /\ row["link_ids"] # Blank  -> "specific"
                  [] OTHER                                              -> "off",
   link_ids |-> IF row["enabled"] = "all" THEN Blank ELSE row["link_ids"]]

\* toAuthTypeSetting.
SettingOf(values) ==
  [enabled  |-> IF values["enabled"] = "all" THEN "all" ELSE "off",
   link_ids |-> IF values["enabled"] = "specific" THEN values["link_ids"] ELSE Blank]

\* What a load puts into the form, and what a handler takes out of it.
Shown(section, row) ==
  CASE section = "auth" -> ScopeOf(row)
    [] OTHER -> [f \in FieldsOf[section] |-> IF f \in Hidden THEN Blank ELSE row[f]]
AsSent(f, v) == IF f \in {"full_name", "destination_url", "endpoint_url"} THEN Trimmed(v) ELSE v
Body(f, values) ==
  CASE f = "auth" -> SettingOf(values)
    [] f = "overrides" -> [x \in {y \in Forms[f].fields : values[y] # Blank} |-> values[x]]
    [] OTHER -> [x \in Forms[f].fields |-> AsSent(x, values[x])]

\* What is typed into a field of a form.  site_url is left alone: it is a text like
\* site_title, and the API changes it all the same.
Choices(t, f) ==
  CASE f \in FieldsOf["matrix"]       -> {"allow", "deny"}
    [] f \in FieldsOf["overrides"]    -> {"default", "allow", "deny"}
    [] f = "enabled"                  -> {"off", "all", "specific"}
    [] f = "discourage_indexing"      -> {"on", "off"}
    [] f = "auth_type"                -> {"none", "bearer"}
    [] f = "login_path"               -> {t, "Hidden"}
    [] f = "cloudflare"               -> {t, " "}
    [] f = "site_url"                 -> {}
    [] f \in {"full_name", "destination_url"} -> {t, "old ", " "}
    [] OTHER                          -> {t}

----------------------------------------------------------------------------
(* Opening a page, and what its loads bring. *)

LoadOf(t, by, todo) ==
  [tab |-> t, by |-> by, todo |-> todo, stage |-> "sent", answer |-> <<>>,
   missed |-> {}, crossed |-> {}]

Open == {t \in Tabs : plan[t] # {}}

\* The effect that runs when a page is mounted.
Mounted == {LoadOf(t, "mount", LoadsOf[PageOf(t)]) : t \in Open}

OfTab(records, t) == {x \in records : x.tab = t}
Mounting(t) == \E l \in OfTab(loads, t) : l.by = "mount"
Asked(t) == \E r \in OfTab(saves, t) : r.stage = "asked"
Busy(t, flag) == \E r \in OfTab(saves, t) : Forms[r.form].flag = flag

\* "Loading..." ends when the chain does; a section that did not load is missing,
\* and a user or a link that did not load leaves the page there.  Only the forms of
\* the settings row are shown with their defaults.
SettingsReady(t, f) == f \in {"matrix", "auth"} => Forms[f].section \in known[t]
UserReady(t) == "user" \in known[t]
LinkReady(t) == "link" \in known[t] /\ editing[t]
ConfigReady(t) == "config" \in known[t] /\ \A l \in OfTab(loads, t) : Loading(l) # "config"

Ready(t, f) ==
  /\ f \in plan[t] /\ ~Mounting(t) /\ ~Asked(t)
  /\ Forms[f].page = "settings" => SettingsReady(t, f)
  /\ Forms[f].page = "user" => UserReady(t)
  /\ Forms[f].page = "link" => LinkReady(t)
  /\ Forms[f].page = "forwarding" => ConfigReady(t)

\* A save is over, one way or the other: its flag is cleared.
Without(t, by) == {r \in saves : r.tab # t \/ r.form # by}

\* The state after the load l brought a section.  Of what the tab saved meanwhile it
\* brings the value of before.
Brought(l) ==
  LET t == l.tab  section == Loading(l)  row == Shown(section, l.answer) IN
  /\ form' = [form EXCEPT ![t] = [f \in DOMAIN @ |-> IF f \in DOMAIN row THEN row[f] ELSE @[f]]]
  /\ base' = [base EXCEPT ![t] = [f \in DOMAIN @ |-> IF f \in DOMAIN row THEN row[f] ELSE @[f]]]
  /\ known' = [known EXCEPT ![t] = @ \cup {section}]
  /\ typed' = [typed EXCEPT ![t] = @ \ DOMAIN row]
  /\ behind' = [behind EXCEPT ![t] = (@ \ DOMAIN row) \cup (l.missed \cap DOMAIN row)]
  /\ own' = [own EXCEPT ![t] = (@ \ DOMAIN row) \cup (l.crossed \cap DOMAIN row)]
  /\ reverted' = [reverted EXCEPT ![t] = (@ \ DOMAIN row) \cup (l.crossed \cap DOMAIN row)]

Next_(l) == IF Len(l.todo) > 1 THEN {LoadOf(l.tab, "mount", Tail(l.todo))} ELSE {}

ReceiveMounted(l) ==
  /\ l.stage = "answered" /\ l.by = "mount"
  /\ Brought(l)
  /\ loads' = (loads \ {l}) \cup Next_(l)
  /\ UNCHANGED <<stored, saves, check, faults, plan, editing, edits, sent>>

\* The rest of a handler that loads again: of handleSaveGeneral, uploadFile,
\* handleSave of a link, handleSendNow.
ReceiveAgain(l) ==
  /\ l.stage = "answered" /\ l.by # "mount"
  /\ Brought(l)
  /\ loads' = loads \ {l}
  /\ saves' = Without(l.tab, l.by)
  /\ editing' = [editing EXCEPT ![l.tab] = @ /\ l.by # "link"]
  /\ UNCHANGED <<stored, check, faults, plan, edits, sent>>

\* loadSettings swallows its error, so that its chain goes on; any other failure ends it.
ReceiveError(l) ==
  /\ l.stage = "failed"
  /\ loads' = (loads \ {l}) \cup (IF l.by = "mount" /\ Loading(l) = "settings" THEN Next_(l) ELSE {})
  /\ saves' = IF l.by = "mount" THEN saves ELSE Without(l.tab, l.by)
  /\ UNCHANGED <<stored, check, faults, plan, form, base, known, editing, typed, history, edits, sent>>

----------------------------------------------------------------------------
(* What the user does. *)

\* setEditing(true), for who may edit links.
Edit(t) ==
  /\ "link" \in plan[t] /\ "link" \in known[t] /\ ~editing[t] /\ ~Asked(t)
  /\ editing' = [editing EXCEPT ![t] = TRUE]
  /\ UNCHANGED <<server, plan, form, base, known, typed, history, edits, sent>>

\* The scope of an authentication type and its links are one choice: either
\* decides what becomes of the other.
Decided(f) == IF f \in FieldsOf["auth"] THEN FieldsOf["auth"] ELSE {f}

Type(t, f, x, v) ==
  /\ Ready(t, f) /\ v # form[t][x]
  /\ x = "link_ids" => form[t]["enabled"] = "specific"
  /\ edits < MaxEdits /\ edits' = edits + 1
  /\ form' = [form EXCEPT ![t][x] = v]
  /\ typed' = [typed EXCEPT ![t] = @ \cup Decided(x)]
  /\ UNCHANGED <<server, plan, base, known, editing, history, sent>>

\* A mistake handleCancelEdit could have: no setCampaignId(String(link.campaign_id)).
CancelEditPartly(t) ==
  /\ Ready(t, "link") /\ ~Busy(t, "saving")
  /\ form' = [form EXCEPT ![t]["destination_url"] = base[t]["destination_url"]]
  /\ editing' = [editing EXCEPT ![t] = FALSE]
  /\ typed' = [typed EXCEPT ![t] = {}]
  /\ reverted' = [reverted EXCEPT ![t] = own[t]]
  /\ UNCHANGED <<server, plan, base, known, behind, own, edits, sent>>

\* handleCancelEdit: back to what the last load brought, were it from before a save.
CancelEdit(t) ==
  /\ Ready(t, "link") /\ ~Busy(t, "saving")
  /\ form' = [form EXCEPT ![t] = base[t]]
  /\ editing' = [editing EXCEPT ![t] = FALSE]
  /\ typed' = [typed EXCEPT ![t] = {}]
  /\ reverted' = [reverted EXCEPT ![t] = own[t]]
  /\ UNCHANGED <<server, plan, base, known, behind, own, edits, sent>>

SaveOf(t, f, stage, warned) ==
  LET body == Body(f, form[t]) IN
  [tab |-> t, form |-> f, body |-> body, stage |-> stage, left |-> DOMAIN body, secret |-> Blank,
   warned |-> warned,
   \* history
   typed |-> typed[t] \cap Forms[f].fields, stale |-> behind[t], own |-> own[t],
   reverted |-> reverted[t],
   loaded |-> Forms[f].section \in known[t]]

\* The first part of a handler, up to "await confirm(...)".
Submits(t, f, stage, warned) ==
  /\ Ready(t, f) /\ ~Busy(t, Forms[f].flag)
  /\ sent < MaxSaves /\ sent' = sent + 1
  /\ saves' = saves \cup {SaveOf(t, f, stage, warned)}
  /\ UNCHANGED <<stored, loads, check, faults, plan, form, base, known, editing, typed, history, edits>>

Asks(t, f) == Submits(t, f, "asked", FALSE)

\* A mistake handleSaveGeneral could have: the path compared with the default.
SaveGeneralComparing(t) ==
  /\ "general" \in plan[t] /\ form[t]["site_title"] # Blank
  /\ Submits(t, "general", "asked", form[t]["login_path"] = "login")

\* The input is "required"; the dialog warns when the path is not that of data.
SaveGeneral(t) ==
  /\ "general" \in plan[t] /\ form[t]["site_title"] # Blank
  /\ Submits(t, "general", "asked",
             "settings" \in known[t] /\ form[t]["login_path"] # base[t]["login_path"])
UploadFile(t) == Submits(t, "logo", "sent", FALSE)
SaveSeo(t) == Asks(t, "seo")
SavePermissions(t) == Asks(t, "matrix")
SaveAuthentication(t) == Asks(t, "auth")
SaveCloudflare(t) == "cloudflare" \in plan[t] /\ form[t]["cloudflare"] # Blank /\ Asks(t, "cloudflare")
SaveUser(t) == Asks(t, "user")
ResetPassword(t) == "password" \in plan[t] /\ form[t]["password"] # Blank /\ Asks(t, "password")
SaveOverrides(t) == Asks(t, "overrides")
SaveGrants(t) == Asks(t, "grants")
SaveLink(t) == Asks(t, "link")
SaveConfig(t) == Asks(t, "config")
SendNow(t) == Asks(t, "send")

Confirm(r) ==
  /\ r.stage = "asked"
  /\ saves' = (saves \ {r}) \cup {[r EXCEPT !.stage = "sent"]}
  /\ UNCHANGED <<stored, loads, check, faults, browser>>

Dismiss(r) ==
  /\ r.stage = "asked"
  /\ saves' = saves \ {r}
  /\ UNCHANGED <<stored, loads, check, faults, browser>>

\* The last part of a handler, once the answer is there: write-only fields are
\* emptied, and what is loaded again keeps the flag set until it is there.
Succeed(r) ==
  LET t == r.tab  kind == Forms[r.form]  now == Body(r.form, form[t]) IN
  /\ r.stage = "done"
  /\ form' = [form EXCEPT ![t] = [f \in DOMAIN @ |-> IF f \in kind.hidden THEN Blank ELSE @[f]]]
  /\ typed' = [typed EXCEPT ![t] =
                 @ \ (kind.hidden \cup {f \in DOMAIN r.body \ r.stale : f \in DOMAIN now /\ now[f] = r.body[f]})]
  /\ IF kind.again = "no"
     THEN saves' = saves \ {r} /\ UNCHANGED loads
     ELSE /\ saves' = (saves \ {r}) \cup {[r EXCEPT !.stage = "again"]}
          /\ loads' = loads \cup {LoadOf(t, r.form, <<kind.again>>)}
  /\ UNCHANGED <<stored, check, faults, plan, base, known, editing, history, edits, sent>>

\* The catch branch: a toast, and the form as it is, which may have been stored all
\* the same.
Fail(r) ==
  /\ r.stage = "failed"
  /\ saves' = saves \ {r}
  /\ UNCHANGED <<stored, loads, check, faults, plan, form, base, known, editing, typed, history, edits, sent>>

\* The value a form shows, as it would be sent, and whether it shows that v is stored:
\* v, or what the API makes of v.
Carried(t, f) == IF f \in FieldsOf["auth"] THEN SettingOf(form[t])[f] ELSE AsSent(f, form[t][f])
Shows(t, f, v) == v \in {Carried(t, f), Stores(f, Carried(t, f))}

\* What the tab t has and a save changes; what it does not show of that; what it does
\* not show although its user has not typed over it, because a reload put it back.
Changed(t) == {f \in DOMAIN form[t] : stored'[f] # stored[f]}
Unseen(t) == {f \in Changed(t) : ~Shows(t, f, stored'[f])}

\* What another tab writes is behind the back of a user who has typed over it, were
\* it the same value.
Overtakes(r) ==
  /\ behind' = [t \in Tabs |-> IF t = r.tab THEN behind[t] ELSE behind[t] \cup Unseen(t) \cup (Changed(t) \cap typed[t])]
  /\ own' = [own EXCEPT ![r.tab] = @ \cup Changed(r.tab)]
  /\ reverted' = [reverted EXCEPT ![r.tab] = @ \cup (Unseen(r.tab) \ typed[r.tab])]

\* A step of the API, seen from the pages.
Serves ==
  /\ \/ \E r \in saves : HandlesSave(r) /\ Overtakes(r)
     \/ (\E l \in loads : HandlesLoad(l)) /\ UNCHANGED history
  /\ UNCHANGED <<plan, form, base, known, editing, typed, edits, sent>>

InitForms(Plans, path, url) ==
  /\ plan \in Plans
  /\ stored = [f \in Field |->
       CASE f = "login_path" -> path                 [] f = "discourage_indexing" -> "off"
         [] f \in FieldsOf["matrix"] -> "deny"        [] f \in FieldsOf["overrides"] -> "default"
         [] f = "enabled" -> "off"                    [] f = "auth_type" -> "bearer"
         [] f = "site_url" -> url                     [] f = "cloudflare" -> Blank
         [] OTHER -> "old"]
  /\ saves = {} /\ loads = Mounted /\ check = NoCheck /\ faults = 0
  /\ form = [t \in Tabs |-> IF plan[t] = {} THEN <<>> ELSE Default(PageOf(t))]
  /\ base = form
  /\ known = [t \in Tabs |-> {}] /\ typed = [t \in Tabs |-> {}]
  /\ behind = typed /\ own = typed /\ reverted = typed
  /\ editing = [t \in Tabs |-> FALSE]
  /\ edits = 0 /\ sent = 0

Handles(t) ==
  \/ SaveGeneral(t) \/ UploadFile(t) \/ SaveSeo(t) \/ SavePermissions(t) \/ SaveAuthentication(t)
  \/ SaveCloudflare(t) \/ SaveUser(t) \/ ResetPassword(t) \/ SaveOverrides(t) \/ SaveGrants(t)
  \/ SaveLink(t) \/ SaveConfig(t) \/ SendNow(t)

NextForms ==
  \/ \E t \in Tabs : \/ Handles(t) \/ Edit(t) \/ CancelEdit(t)
                     \/ \E f \in plan[t] : \E x \in Forms[f].fields :
                          \E v \in Choices(t, x) : Type(t, f, x, v)
  \/ \E r \in saves : Confirm(r) \/ Dismiss(r) \/ Succeed(r) \/ Fail(r)
  \/ \E l \in loads : ReceiveMounted(l) \/ ReceiveAgain(l) \/ ReceiveError(l)
  \/ Serves
  \/ \* a request of the user of UserPage, while both tables of permissions are edited
     /\ KeyByKey \subseteq UNION {plan[t] : t \in Tabs}
     /\ \A t \in Tabs : ~Mounting(t)
     /\ Checks
     /\ UNCHANGED browser

----------------------------------------------------------------------------
(* Properties. *)

TypeOKForms ==
  /\ stored \in [Field -> Value]
  /\ \A r \in saves : /\ r.tab \in Tabs /\ r.form \in plan[r.tab]
                      /\ DOMAIN r.body \subseteq Forms[r.form].fields
                      /\ \A f \in DOMAIN r.body : r.body[f] \in Value
                      /\ r.stage \in {"asked", "sent", "read", "done", "failed", "again"}
                      /\ r.left \subseteq DOMAIN r.body
                      /\ r.typed \cup r.stale \cup r.own \cup r.reverted \subseteq Field
  /\ \A l \in loads : /\ l.tab \in Tabs /\ l.todo \in Seq(Section) /\ l.todo # <<>>
                      /\ l.stage \in {"sent", "half", "answered", "failed"}
                      /\ l.missed \cup l.crossed \subseteq Field
  /\ check.stage \in {"none", "role", "done"} /\ check.answer \in {Blank, "allow", "deny"}
  /\ faults \in 0..MaxFaults /\ edits \in 0..MaxEdits /\ sent \in 0..MaxSaves
  /\ \A t \in Tabs : /\ DOMAIN form[t] = DOMAIN base[t]
                     /\ \A f \in DOMAIN form[t] : {form[t][f], base[t][f]} \subseteq Value
                     /\ known[t] \subseteq Section
                     /\ typed[t] \cup behind[t] \cup own[t] \cup reverted[t] \subseteq Field
                     /\ editing[t] \in BOOLEAN

\* A form tells the truth at every moment: a field that its section's load has
\* brought, that its user has not typed over since, that no other tab has changed and
\* that was not put back on the page to a value from before a save of the same tab
\* shows what is stored, up to the API's conversions -- during and after saves of it
\* and of its neighbours, failed and cancelled ones, lost answers, failed reloads and
\* reloads that cross -- and a write-only field shows nothing.  A field is put back by
\* Cancel when the reload after the last save did not arrive, and by a reload that
\* was read before the save was written.
FormsAreTrue ==
  \A t \in Tabs : \A f \in DOMAIN form[t] \ (typed[t] \cup behind[t] \cup reverted[t]) :
    /\ f \in Hidden => form[t][f] = Blank
    /\ f \notin Hidden /\ SectionOf(f) \in known[t] => Shows(t, f, stored[f])

\* A save changes a field that its user left alone only when another tab changed it
\* after the form had loaded it, when the page had put it back to a value from before
\* a save, when the form was shown without having been loaded (the settings row with
\* its defaults, the grants with empty lists), or to what the API makes of it: the
\* blank site_url becomes the Origin.
UntouchedIsKept ==
  [][\A f \in Field : stored'[f] # stored[f] =>
       \E r \in saves :
         /\ HandlesSave(r)
         /\ \/ f \in r.typed \cup r.stale \cup r.reverted
            \/ f = "auth_secret" /\ r.form = "config" /\ r.body["auth_type"] = "none"
            \/ ~r.loaded /\ r.form \in {"general", "seo", "grants"}
            \/ stored'[f] = Stores(f, stored[f])]_<<server, browser>>

\* The login page moves only after the dialog that warns of it, unless the path it
\* compares with is out of date: another tab changed it, or a save of this tab whose
\* reload failed, or it was never loaded.
MovesAreWarned ==
  [][stored'["login_path"] # stored["login_path"] =>
       \E r \in saves : /\ HandlesSave(r)
                        /\ r.warned \/ "login_path" \in r.stale \cup r.own \/ ~r.loaded]_<<server, browser>>

\* What a save was told is stored is stored: every field of it, as the API converts
\* it, the secret that was kept included, unless another tab changed that field since
\* the form was loaded.
SavedIsStored ==
  \A r \in saves : r.stage = "done" =>
    \A f \in DOMAIN r.body \ r.stale :
      stored[f] = IF f = "auth_secret" THEN Secret(r) ELSE Stores(f, r.body[f])

\* A configuration that needs a secret has one, whatever saves interleave their
\* reads and writes.
SecretWhenNeeded == stored["auth_type"] # "none" => stored["auth_secret"] # Blank

\* AllowedForUser answers as the tables stood at one of its two reads, unless both
\* of the key's rows changed between them or a read failed.
DecisionsAreRight ==
  [][check.stage # "done" /\ check'.stage = "done" =>
       \/ check'.answer \in {check.first, Effective(check'.key)}
       \/ {RoleRow[check'.key], OwnRow[check'.key]} \subseteq check.touched
       \/ check'.failed]_<<server, browser>>
=============================================================================
