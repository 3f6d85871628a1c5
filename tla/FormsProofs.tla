---------------------------- MODULE FormsProofs ----------------------------
(***************************************************************************)
(* What TLAPS proves of Dashboard as its users see it: its variables keep  *)
(* their types, a form tells the truth, a save changes what its user meant *)
(* to change, and the visitor ends at the right door; for any number of    *)
(* tabs, any plans and any bounds.                                         *)
(***************************************************************************)
EXTENDS DashboardProofs, SequenceTheorems

----------------------------------------------------------------------------
(* Sections, forms and their fields. *)

\* A field is in one section.
LEMMA SectionIs ==
  ASSUME NEW s \in Section, NEW f \in FieldsOf[s]
  PROVE  SectionOf(f) = s
<1>1. \A x \in Section : f \in FieldsOf[x] => x = s
  BY Sections
<1> QED
  BY <1>1 DEF SectionOf

LEMMA HiddenIs == Hidden = {"cloudflare", "password", "auth_secret"}
<1>1. \A x : x \in Hidden <=> \E f \in Form : x \in Forms[f].hidden
  BY DEF Hidden
<1> QED
  BY <1>1, FormsAre

\* What the fields of the forms are about.
LEMMA FieldOfForm ==
  ASSUME NEW f \in Form, NEW x \in Forms[f].fields
  PROVE  /\ x \in Field
         /\ x \in FieldsOf["matrix"] => f = "matrix"
         /\ x \in FieldsOf["overrides"] <=> f = "overrides"
         /\ x \in FieldsOf["auth"] <=> f = "auth"
         /\ x \in FieldsOf["grants"] <=> f = "grants"
         /\ x = "login_path" => f = "general"
         /\ x \notin Hidden => Forms[f].section \in Section /\ x \in FieldsOf[Forms[f].section]
         /\ x \in Hidden => f \in {"cloudflare", "password", "config"} /\ x \in Forms[f].hidden
         /\ x = "auth_secret" <=> x \in Hidden /\ f = "config"
BY FormsAre, Sections, FieldsAre, HiddenIs

\* The texts that are sent without the spaces around them.
Texts == {"full_name", "destination_url", "endpoint_url"}

LEMMA SentAsShown ==
  ASSUME NEW x, x \notin Texts, NEW v
  PROVE  AsSent(x, v) = v
BY DEF AsSent, Texts

\* What is submitted is what the form shows, as it would be sent.
LEMMA BodyIs ==
  ASSUME NEW f \in Form, NEW t \in Tabs
  PROVE  LET body == Body(f, form[t])
         IN  /\ DOMAIN body \subseteq Forms[f].fields
             /\ \A x \in DOMAIN body : body[x] = Carried(t, x)
             /\ f # "auth" => \A x \in DOMAIN body : body[x] = AsSent(x, form[t][x])
             /\ f = "overrides" => \A x \in DOMAIN body : form[t][x] # Blank
             /\ f # "overrides" => DOMAIN body = Forms[f].fields
<1>1. CASE f = "auth"
  <2>1. Body(f, form[t]) = SettingOf(form[t])
    BY <1>1 DEF Body
  <2>2. DOMAIN SettingOf(form[t]) = FieldsOf["auth"] /\ Forms[f].fields = FieldsOf["auth"]
    BY <1>1, FormsAre, Sections DEF SettingOf
  <2> QED
    BY <1>1, <2>1, <2>2 DEF Carried
<1>2. CASE f # "auth"
  <2>1. \A x \in Forms[f].fields : x \notin FieldsOf["auth"] /\ (f = "overrides" => x \notin Texts)
    BY <1>2, FieldOfForm, Sections DEF Texts
  <2>2. CASE f = "overrides"
    <3>1. \A x \in Forms[f].fields : AsSent(x, form[t][x]) = form[t][x]
      BY <2>1, <2>2, SentAsShown
    <3> QED
      BY <1>2, <2>1, <2>2, <3>1 DEF Body, Carried
  <2>3. CASE f # "overrides"
    BY <1>2, <2>1, <2>3 DEF Body, Carried
  <2> QED
    BY <2>2, <2>3
<1> QED
  BY <1>1, <1>2

LEMMA SettingIs ==
  ASSUME NEW values
  PROVE  /\ SettingOf(values)["enabled"] \in {"all", "off"}
         /\ SettingOf(values)["enabled"] = "all" => SettingOf(values)["link_ids"] = Blank
         /\ SettingOf(values)["link_ids"] \in {Blank, values["link_ids"]}
BY DEF SettingOf

\* What is loaded into the form of the authentication types comes out of it again.
LEMMA SettingOfScope ==
  ASSUME NEW row, row["enabled"] \in {"all", "off"}
  PROVE  /\ SettingOf(ScopeOf(row))["enabled"] = row["enabled"]
         /\ (row["enabled"] = "all" => row["link_ids"] = Blank)
              => SettingOf(ScopeOf(row))["link_ids"] = row["link_ids"]
         /\ DOMAIN ScopeOf(row) = {"enabled", "link_ids"}
         /\ ScopeOf(row)["enabled"] \in {"all", "specific", "off"}
         /\ ScopeOf(row)["link_ids"] \in {Blank, row["link_ids"]}
<1> DEFINE scope == ScopeOf(row)
<1>1. /\ DOMAIN scope = {"enabled", "link_ids"}
      /\ row["enabled"] = "all" => scope["enabled"] = "all" /\ scope["link_ids"] = Blank
      /\ row["enabled"] # "all" /\ row["link_ids"] # Blank =>
           scope["enabled"] = "specific" /\ scope["link_ids"] = row["link_ids"]
      /\ row["enabled"] # "all" /\ row["link_ids"] = Blank =>
           scope["enabled"] = "off" /\ scope["link_ids"] = Blank
  <2>1. DOMAIN scope = {"enabled", "link_ids"}
    BY DEF ScopeOf
  <2>2. scope["link_ids"] = IF row["enabled"] = "all" THEN Blank ELSE row["link_ids"]
    BY DEF ScopeOf
  <2>3. row["enabled"] = "all" => scope["enabled"] = "all"
    BY DEF ScopeOf
  <2>4. row["enabled"] # "all" /\ row["link_ids"] # Blank => scope["enabled"] = "specific"
    BY DEF ScopeOf
  <2>5. row["enabled"] # "all" /\ row["link_ids"] = Blank => scope["enabled"] = "off"
    BY DEF ScopeOf
  <2> HIDE DEF scope
  <2> QED
    BY <2>1, <2>2, <2>3, <2>4, <2>5
<1> HIDE DEF scope
<1>2. /\ SettingOf(scope)["enabled"] = IF scope["enabled"] = "all" THEN "all" ELSE "off"
      /\ SettingOf(scope)["link_ids"] = IF scope["enabled"] = "specific" THEN scope["link_ids"] ELSE Blank
  BY DEF SettingOf
<1>3. CASE row["enabled"] = "all"
  BY <1>1, <1>2, <1>3 DEF scope
<1>4. CASE row["enabled"] # "all" /\ row["link_ids"] # Blank
  BY <1>1, <1>2, <1>4 DEF scope
<1>5. CASE row["enabled"] # "all" /\ row["link_ids"] = Blank
  BY <1>1, <1>2, <1>5 DEF scope
<1> QED
  BY <1>3, <1>4, <1>5

----------------------------------------------------------------------------
(* The types, field by field: the permissions, the scope of the             *)
(* authentication types and the login path have values of their own.        *)

LoginPaths == {"login", "hidden"} \cup Tabs
Plain == Value \ {" ", "old "}

\* What is stored, and what is sent.
Among(f) ==
  CASE f \in FieldsOf["matrix"]    -> {"allow", "deny"}
    [] f \in FieldsOf["overrides"] -> {"default", "allow", "deny"}
    [] f = "enabled"               -> {"all", "off"}
    [] f = "login_path"            -> LoginPaths
    [] f \in Texts                 -> Plain
    [] OTHER                       -> Value
AmongSent(f) == IF f = "login_path" THEN LoginPaths \cup {"Hidden"} ELSE Among(f)

\* The types of all links, or of some.
Scoped(row) == row["enabled"] = "all" => row["link_ids"] = Blank

TypedRows ==
  /\ stored \in [Field -> Value]
  /\ \A f \in Field : stored[f] \in Among(f)
  /\ Scoped(stored)

TypedSave(r) ==
  /\ r.tab \in Tabs /\ r.form \in plan[r.tab]
  /\ DOMAIN r.body \subseteq Forms[r.form].fields
  /\ \A f \in DOMAIN r.body : r.body[f] \in AmongSent(f)
  /\ r.form # "overrides" => DOMAIN r.body = Forms[r.form].fields
  /\ r.form = "auth" => DOMAIN r.body = FieldsOf["auth"] /\ Scoped(r.body)
  /\ r.stage \in {"asked", "sent", "read", "done", "failed", "again"}
  /\ r.secret \in Value
  /\ r.typed \subseteq Field /\ r.stale \subseteq Field /\ r.own \subseteq Field /\ r.reverted \subseteq Field

IsLoad(l) == l = [tab |-> l.tab, by |-> l.by, todo |-> l.todo, stage |-> l.stage, answer |-> l.answer,
                  missed |-> l.missed, crossed |-> l.crossed]

TypedLoad(l) ==
  /\ IsLoad(l)
  /\ l.tab \in Tabs /\ l.todo \in Seq(Section) /\ l.todo # <<>>
  /\ l.stage \in {"sent", "half", "answered", "failed"}
  /\ l.stage = "half" => Loading(l) = "auth"
  /\ l.stage \in {"half", "answered"} =>
       DOMAIN l.answer = FieldsOf[Loading(l)] /\ \A f \in DOMAIN l.answer : l.answer[f] \in Among(f)
  /\ l.missed \subseteq Field /\ l.crossed \subseteq Field

TypedTab(t) ==
  /\ plan[t] \subseteq Form
  /\ DOMAIN form[t] = DOMAIN base[t] /\ DOMAIN form[t] \subseteq Field
  /\ \A f \in plan[t] : Forms[f].fields \subseteq DOMAIN form[t]
  /\ "link" \in plan[t] => DOMAIN form[t] = FieldsOf["link"]
  /\ "enabled" \in DOMAIN form[t] <=> "link_ids" \in DOMAIN form[t]
  /\ \A f \in DOMAIN form[t] :
       /\ form[t][f] \in Value /\ base[t][f] \in Value
       /\ f = "login_path" => form[t][f] \in AmongSent(f)
       /\ f \in FieldsOf["overrides"] => form[t][f] \in Among(f) \cup {Blank}
       /\ f \in FieldsOf["matrix"] /\ "matrix" \in known[t] => form[t][f] \in Among(f)
  /\ known[t] \subseteq Section /\ typed[t] \subseteq Field
  /\ behind[t] \subseteq Field /\ own[t] \subseteq Field /\ reverted[t] \subseteq own[t]
  /\ editing[t] \in BOOLEAN

TypedPages ==
  /\ DOMAIN form = Tabs /\ DOMAIN base = Tabs /\ DOMAIN known = Tabs /\ DOMAIN typed = Tabs
  /\ DOMAIN behind = Tabs /\ DOMAIN own = Tabs /\ DOMAIN reverted = Tabs /\ DOMAIN editing = Tabs
  /\ \A t \in Tabs : TypedTab(t)

TypedCheck == check.stage \in {"none", "role", "done"} /\ check.answer \in {Blank, "allow", "deny"}

Counted == faults \in 0..MaxFaults /\ edits \in 0..MaxEdits /\ sent \in 0..MaxSaves

Types ==
  /\ TypedRows /\ TypedPages /\ TypedCheck /\ Counted
  /\ \A r \in saves : TypedSave(r)
  /\ \A l \in loads : TypedLoad(l)

(* The truth: what the forms, the saves and the loads say of the rows.      *)

\* What is submitted and was neither typed nor changed nor put back since it was
\* loaded is what is stored, up to the conversions.
Honest(r) ==
  /\ \A f \in DOMAIN r.body \ (r.typed \cup r.stale \cup r.reverted \cup {"auth_secret"}) :
       r.loaded \/ r.form \notin {"general", "seo", "grants"} =>
         stored[f] \in {r.body[f], Stores(f, r.body[f])}
  /\ "auth_secret" \in DOMAIN r.body \ (r.typed \cup r.stale \cup r.reverted) =>
       r.body["auth_secret"] = Blank /\ (r.stage = "read" => r.secret = stored["auth_secret"])
  /\ r.form = "general" /\ r.loaded =>
       r.warned \/ "login_path" \in r.stale \cup r.own \/ r.body["login_path"] = stored["login_path"]

\* What was read and did not change since is what is stored.
Fresh(l) ==
  l.stage \in {"half", "answered"} =>
    /\ \A f \in DOMAIN l.answer \ (l.missed \cup l.crossed) : l.answer[f] = stored[f]
    /\ Loading(l) = "auth" /\ "link_ids" \notin l.missed \cup l.crossed => Scoped(l.answer)

\* A field that was neither typed nor changed nor put back since it was loaded shows
\* what is stored.
FormIsTrue(t) ==
  \A f \in DOMAIN form[t] \ (typed[t] \cup behind[t] \cup reverted[t]) :
    /\ f \in Hidden => form[t][f] = Blank
    /\ f \notin Hidden /\ SectionOf(f) \in known[t] => Shows(t, f, stored[f])
    /\ f \in FieldsOf["overrides"] /\ "overrides" \notin known[t] => form[t][f] \in {Blank, stored[f]}

\* The fields of which the page keeps what was loaded, to restore or to compare them.
Restored == {"login_path"} \cup FieldsOf["link"]

\* What it keeps is what is stored, unless some tab has changed that since.
BaseIsTrue(t) ==
  \A f \in (DOMAIN form[t] \cap Restored) \ (behind[t] \cup own[t]) :
    SectionOf(f) \in known[t] => base[t][f] = stored[f]

Truth ==
  /\ \A r \in saves : Honest(r)
  /\ \A l \in loads : Fresh(l)
  /\ \A t \in Tabs : FormIsTrue(t) /\ BaseIsTrue(t)

Everything == IInv /\ Types /\ Truth

LEMMA AmongIs ==
  /\ \A f \in FieldsOf["matrix"] : Among(f) = {"allow", "deny"}
  /\ \A f \in FieldsOf["overrides"] : Among(f) = {"default", "allow", "deny"}
  /\ Among("enabled") = {"all", "off"} /\ Among("login_path") = LoginPaths
  /\ \A f \in Texts : Among(f) = Plain
  /\ \A f \in Field \ (FieldsOf["matrix"] \cup FieldsOf["overrides"] \cup {"enabled", "login_path"} \cup Texts) :
       Among(f) = Value
  /\ \A f \in Field : Among(f) \subseteq Value /\ AmongSent(f) \subseteq Value
  /\ \A f \in Field \ {"login_path"} : AmongSent(f) = Among(f)
  /\ AmongSent("login_path") = LoginPaths \cup {"Hidden"}
  /\ LoginPaths \subseteq Value \ {Blank, " ", "old ", "Hidden"}
  /\ Blank \in Value
<1>1. LoginPaths \subseteq Value \ {Blank, " ", "old ", "Hidden"} /\ Blank \in Value
  BY RecordsAssumption DEF LoginPaths, Value, Blank
<1>2. {"allow", "deny", "default", "all", "off", "Hidden"} \subseteq Value
  BY DEF Value
<1> QED
  BY <1>1, <1>2, Sections, ZenonT(40) DEF Among, AmongSent, Texts, Plain

LEMMA TextsAre ==
  ASSUME NEW f \in Texts
  PROVE  Among(f) = Plain /\ AmongSent(f) = Plain
<1>1. f \notin FieldsOf["matrix"] \cup FieldsOf["overrides"] \cup {"enabled", "login_path"}
  BY Sections DEF Texts
<1> QED
  BY <1>1 DEF Among, AmongSent

LEMMA OthersAre ==
  ASSUME NEW f, f \notin FieldsOf["matrix"] \cup FieldsOf["overrides"] \cup {"enabled", "login_path"} \cup Texts
  PROVE  Among(f) = Value /\ AmongSent(f) = Value
BY DEF Among, AmongSent

\* What the API makes of what is sent.
LEMMA StoresIs ==
  ASSUME NEW f \in Field
  PROVE  /\ \A v \in AmongSent(f) : Stores(f, v) \in Among(f)
         /\ f \in Restored => \A v \in Among(f) : Stores(f, v) = v
         /\ f \in FieldsOf["overrides"] \cup FieldsOf["auth"] => \A v : Stores(f, v) = v
<1>1. CASE f = "login_path"
  <2>1. \A v \in LoginPaths : Stores(f, v) = v
    BY <1>1, AmongIs DEF Stores, OrElse, Lowered, Trimmed
  <2>2. Stores(f, "Hidden") = "hidden" /\ "hidden" \in LoginPaths
    BY <1>1 DEF Stores, OrElse, Lowered, Trimmed, LoginPaths, Blank
  <2>3. /\ AmongSent(f) = LoginPaths \cup {"Hidden"} /\ Among(f) = LoginPaths
        /\ f \notin FieldsOf["overrides"] \cup FieldsOf["auth"]
    BY <1>1, AmongIs, Sections
  <2> QED
    BY <2>1, <2>2, <2>3
<1>2. CASE f = "site_url"
  <2>1. Stores(f, " ") = Origin /\ Stores(f, "old ") = "old" /\ Stores(f, Blank) = Origin
    BY <1>2 DEF Stores, OrElse, Trimmed, Blank
  <2>2. \A v : v \in {" ", "old ", Blank} \/ Stores(f, v) = v
    BY <1>2 DEF Stores, OrElse, Trimmed
  <2>3. Origin \in Value /\ "old" \in Value
    BY DEF Value
  <2>4. f \notin Restored \cup FieldsOf["overrides"] \cup FieldsOf["auth"]
    BY <1>2, Sections DEF Restored
  <2>5. Among(f) = Value /\ AmongSent(f) = Value
    <3>1. f \notin FieldsOf["matrix"] \cup FieldsOf["overrides"] \cup {"enabled", "login_path"} \cup Texts
      BY <1>2, Sections DEF Texts
    <3> QED
      BY <3>1, OthersAre
  <2> QED
    BY <2>1, <2>2, <2>3, <2>4, <2>5
<1>3. CASE f \in {"site_title", "cloudflare", "full_name", "destination_url"}
  <2>1. \A v : Stores(f, v) = Trimmed(v)
    BY <1>3 DEF Stores
  <2>2. \A v \in Value : Trimmed(v) \in Plain
    BY AmongIs, ZenonT(40) DEF Trimmed, Plain, Value, Blank
  <2>3. \A v \in Plain : Trimmed(v) = v
    BY DEF Plain, Trimmed
  <2>4. f \notin FieldsOf["overrides"] \cup FieldsOf["auth"] /\ f # "login_path"
    BY <1>3, Sections
  <2>5. AmongSent(f) = Among(f) /\ Among(f) \subseteq Value /\ Plain \subseteq Value
    BY <2>4, AmongIs DEF Plain
  <2>6. Among(f) \in {Plain, Value}
    <3>1. f \in Texts \/ f \in Field \ (FieldsOf["matrix"] \cup FieldsOf["overrides"] \cup {"enabled", "login_path"} \cup Texts)
      BY <1>3, Sections
    <3> QED
      BY <3>1, AmongIs
  <2>7. f \in Restored => Among(f) = Plain
    BY <1>3, AmongIs, Sections DEF Restored, Texts
  <2>8. \A v \in AmongSent(f) : Stores(f, v) \in Among(f)
    BY <2>1, <2>2, <2>5, <2>6
  <2> QED
    BY <2>1, <2>3, <2>4, <2>7, <2>8
<1>4. CASE f \notin {"login_path", "site_url", "site_title", "cloudflare", "full_name", "destination_url"}
  <2>1. \A v : Stores(f, v) = v
    BY <1>4, StoresAsSent
  <2>2. AmongSent(f) = Among(f)
    BY <1>4, AmongIs
  <2> QED
    BY <2>1, <2>2
<1> QED
  BY <1>1, <1>2, <1>3, <1>4

\* What is stored would be sent as it is.
LEMMA SentAsStored ==
  ASSUME NEW f \in Field, NEW v \in Among(f)
  PROVE  AsSent(f, v) = v
<1>1. CASE f \in Texts
  <2>1. v # " " /\ v # "old "
    BY <1>1, TextsAre DEF Plain
  <2> QED
    BY <2>1 DEF AsSent, Trimmed
<1>2. CASE f \notin Texts
  BY <1>2, SentAsShown
<1> QED
  BY <1>1, <1>2

----------------------------------------------------------------------------
(* The handlers of the API.                                                 *)

\* What a handler leaves of a save.
Same(m, r) == /\ m.tab = r.tab /\ m.form = r.form /\ m.body = r.body /\ m.typed = r.typed
              /\ m.stale = r.stale /\ m.own = r.own /\ m.reverted = r.reverted
              /\ m.warned = r.warned /\ m.loaded = r.loaded

\* What a save writes is what it was told, converted, but for the secret.
RowOf(row, r) ==
  /\ DOMAIN row \subseteq DOMAIN r.body
  /\ \A f \in DOMAIN row : row[f] = IF f = "auth_secret" THEN Secret(r) ELSE Stores(f, r.body[f])
  /\ "auth_secret" \in DOMAIN row => r.stage = "read"
  /\ r.form = "auth" => DOMAIN row = DOMAIN r.body

\* One statement of a handler: the save r becomes m, and a row may be written.
HandledAs(r, m) ==
  /\ IsSave(m) /\ Same(m, r)
  /\ r.stage \in {"sent", "read", "done"} /\ m.stage \in {"sent", "read", "done", "failed"}
  /\ m.secret \in {r.secret, stored["auth_secret"]}
  /\ m.stage = "read" => m.secret = stored["auth_secret"] /\ UNCHANGED stored
  /\ Becomes(r, m) \/ \E row : Puts(r, m, row) /\ RowOf(row, r)
  /\ UNCHANGED faults \/ Fault

LEMMA SaveHandled ==
  ASSUME IInv, NEW r \in saves, HandlesSave(r)
  PROVE  \E m : HandledAs(r, m)
<1>1. IsSave(r)
  BY DEF IInv
<1>2. CASE Update(r)
  <2> DEFINE m == [r EXCEPT !.stage = "done"]
  <2>1. r.stage = "sent" /\ Puts(r, m, Converted(r.body)) /\ UNCHANGED faults /\ r.form # "config"
    BY <1>2 DEF Update, Puts
  <2>2. IsSave(m) /\ Same(m, r) /\ m.stage = "done" /\ m.secret = r.secret
    BY <1>1, WithStage DEF Same
  <2>3. RowOf(Converted(r.body), r)
    BY <1>1, <2>1, SaveFields DEF RowOf, Converted, Secrecy
  <2> HIDE DEF m
  <2> QED
    BY <2>1, <2>2, <2>3 DEF HandledAs
<1>3. CASE UpdateKey(r)
  <2>1. PICK f \in r.left : Puts(r, [r EXCEPT !.left = @ \ {f}], Only(f, r.body[f]))
    BY <1>3 DEF UpdateKey
  <2> DEFINE m == [r EXCEPT !.left = @ \ {f}]
  <2>2. r.stage = "sent" /\ r.form \in KeyByKey /\ UNCHANGED faults /\ Puts(r, m, Only(f, r.body[f]))
    BY <1>3, <2>1 DEF UpdateKey, Puts
  <2>3. IsSave(m) /\ Same(m, r) /\ m.stage = r.stage /\ m.secret = r.secret
    BY <1>1 DEF IsSave, Same
  <2>4. f \in DOMAIN r.body /\ f # "auth_secret" /\ r.form # "auth" /\ Stores(f, r.body[f]) = r.body[f]
    BY <1>1, <2>2, SaveFields DEF IsSave, KeyByKey, Secrecy
  <2>5. RowOf(Only(f, r.body[f]), r)
    BY <2>4 DEF RowOf, Only
  <2> HIDE DEF m
  <2> QED
    BY <2>2, <2>3, <2>5 DEF HandledAs
<1>4. CASE UpsertConfig(r)
  <2> DEFINE m == [r EXCEPT !.stage = "done"]
             row == [r.body EXCEPT !["auth_secret"] = Secret(r)]
  <2>1. r.stage = "read" /\ Puts(r, m, row) /\ UNCHANGED faults /\ r.form = "config"
    BY <1>1, <1>4 DEF UpsertConfig, Puts, IsSave
  <2>2. IsSave(m) /\ Same(m, r) /\ m.stage = "done" /\ m.secret = r.secret
    BY <1>1, WithStage DEF Same
  <2>3. "auth_secret" \in DOMAIN r.body /\ \A f \in DOMAIN r.body : Stores(f, r.body[f]) = r.body[f]
    BY <1>1, <2>1, Sections, SaveFields DEF IsSave
  <2>4. RowOf(row, r)
    BY <2>1, <2>3 DEF RowOf
  <2> HIDE DEF m, row
  <2> QED
    BY <2>1, <2>2, <2>4 DEF HandledAs
<1>5. CASE UpdatedKeys(r)
  <2> DEFINE m == [r EXCEPT !.stage = "done"]
  <2>1. r.stage = "sent" /\ Becomes(r, m) /\ UNCHANGED faults
    BY <1>5 DEF UpdatedKeys
  <2>2. IsSave(m) /\ Same(m, r) /\ m.stage = "done" /\ m.secret = r.secret
    BY <1>1, WithStage DEF Same
  <2> HIDE DEF m
  <2> QED
    BY <2>1, <2>2 DEF HandledAs
<1>6. CASE LoadRow(r)
  <2> DEFINE stage == IF /\ r.body["auth_type"] # "none"
                         /\ r.body["auth_secret"] = Blank
                         /\ stored["auth_secret"] = Blank
                      THEN "failed" ELSE "read"
             m == [r EXCEPT !.secret = stored["auth_secret"], !.stage = stage]
  <2>1. r.stage = "sent" /\ r.form = "config" /\ Becomes(r, m) /\ UNCHANGED <<faults, stored>>
    BY <1>6 DEF LoadRow, Becomes
  <2>2. stage \in {"failed", "read"}
    OBVIOUS
  <2> HIDE DEF stage
  <2>3. IsSave(m) /\ Same(m, r) /\ m.stage = stage /\ m.secret = stored["auth_secret"]
    <3> DEFINE n == [r EXCEPT !.secret = stored["auth_secret"]]
    <3>1. m = [n EXCEPT !.stage = stage]
      OBVIOUS
    <3>2. IsSave(n) /\ Same(n, r) /\ n.secret = stored["auth_secret"]
      BY <1>1 DEF IsSave, Same
    <3> HIDE DEF n
    <3>3. LET k == [n EXCEPT !.stage = stage]
          IN  IsSave(k) /\ k.stage = stage /\ Same(k, n) /\ k.secret = n.secret
      BY <2>1, <3>2, WithStage DEF Same
    <3> QED
      BY <3>1, <3>2, <3>3 DEF Same
  <2> HIDE DEF m
  <2> QED
    BY <2>1, <2>2, <2>3 DEF HandledAs
<1>7. CASE SaveFails(r) \/ Refuse(r)
  <2> DEFINE m == [r EXCEPT !.stage = "failed"]
  <2>1. r.stage \in {"sent", "read", "done"} /\ Becomes(r, m) /\ (UNCHANGED faults \/ Fault)
    BY <1>7 DEF SaveFails, Refuse
  <2>2. IsSave(m) /\ Same(m, r) /\ m.stage = "failed" /\ m.secret = r.secret
    BY <1>1, WithStage DEF Same
  <2> HIDE DEF m
  <2> QED
    BY <2>1, <2>2 DEF HandledAs
<1> QED
  BY <1>2, <1>3, <1>4, <1>5, <1>6, <1>7 DEF HandlesSave


\* The fields that a step changes.
Altered == {f \in Field : stored'[f] # stored[f]}

\* Another save only learns what was changed behind its tab's back.
AsBefore(n, s) ==
  /\ n.tab = s.tab /\ n.form = s.form /\ n.body = s.body /\ n.typed = s.typed /\ n.warned = s.warned
  /\ n.own = s.own /\ n.reverted = s.reverted
  /\ n.loaded = s.loaded /\ n.stage = s.stage /\ n.secret = s.secret
  /\ n.stale = s.stale \cup Altered \/ (n.stale = s.stale /\ Altered \cap DOMAIN s.body = {})

LEMMA OtherSaves ==
  ASSUME IInv, NEW r \in saves, NEW m, HandledAs(r, m)
  PROVE  \A n \in saves' \ {m} : \E s \in saves : AsBefore(n, s)
<1>1. \A s \in saves : IsSave(s)
  BY DEF IInv
<1>2. CASE Becomes(r, m)
  <2>1. saves' = (saves \ {r}) \cup {m} /\ Altered = {}
    BY <1>2 DEF Becomes, Altered
  <2>2. \A s : s.stale = s.stale \cup {}
    OBVIOUS
  <2>3. \A s \in saves : AsBefore(s, s)
    BY <2>1, <2>2 DEF AsBefore
  <2> QED
    BY <2>1, <2>3
<1>3. ASSUME NEW row, Puts(r, m, row), RowOf(row, r)
      PROVE  \A n \in saves' \ {m} : \E s \in saves : AsBefore(n, s)
  <2> DEFINE Later(s) == IF s.tab = r.tab THEN s ELSE [s EXCEPT !.stale = @ \cup Altered]
  <2>1. saves' = {Later(s) : s \in saves \ {r}} \cup {m} /\ stored' = Written(row)
    BY <1>3 DEF Puts, Altered
  <2>2. Altered \subseteq DOMAIN r.body
    BY <1>3, <2>1 DEF Altered, Written, RowOf
  <2>3. ASSUME NEW s \in saves \ {r}
        PROVE  AsBefore(Later(s), s)
    <3>1. CASE s.tab = r.tab
      <4>1. s.form # r.form /\ IsSave(s) /\ IsSave(r)
        BY <1>1, <2>3, <3>1 DEF IInv, OneEach
      <4>2. DOMAIN s.body \cap DOMAIN r.body = {}
        BY <4>1, FormsApart DEF IsSave
      <4> QED
        BY <2>2, <3>1, <4>2 DEF AsBefore
    <3>2. CASE s.tab # r.tab
      BY <1>1, <3>2, Staler DEF AsBefore
    <3> QED
      BY <3>1, <3>2
  <2> HIDE DEF Later
  <2> QED
    BY <2>1, <2>3
<1> QED
  BY <1>2, <1>3 DEF HandledAs

\* So does a load that has read something; of its own tab's saves it learns too.
LEMMA LoadsMiss ==
  ASSUME Types, NEW r, NEW m, HandledAs(r, m), NEW n \in loads'
  PROVE  \E l \in loads :
           /\ TypedLoad(n) /\ n.stage = l.stage /\ n.answer = l.answer /\ n.todo = l.todo
           /\ l.stage # "sent" => n.missed \cup n.crossed = l.missed \cup l.crossed \cup Altered
<1>1. \A l \in loads : TypedLoad(l)
  BY DEF Types
<1>2. CASE Becomes(r, m)
  <2>1. loads' = loads /\ Altered = {}
    BY <1>2 DEF Becomes, Altered
  <2> QED
    BY <1>1, <2>1
<1>3. CASE \E row : Puts(r, m, row)
  <2> DEFINE Later(l) == CASE l.stage = "sent"                       -> l
                           [] l.stage # "sent" /\ l.tab = r.tab      -> [l EXCEPT !.crossed = @ \cup Altered]
                           [] OTHER                                  -> [l EXCEPT !.missed = @ \cup Altered]
  <2>1. loads' = {Later(l) : l \in loads}
    BY <1>3 DEF Puts, Altered
  <2>2. PICK l \in loads : n = Later(l)
    BY <2>1
  <2>3. TypedLoad(l) /\ IsLoad(l) /\ Altered \subseteq Field
    BY <1>1 DEF TypedLoad, Altered
  <2>4. CASE l.stage = "sent"
    BY <2>2, <2>3, <2>4
  <2>5. CASE l.stage # "sent" /\ l.tab = r.tab
    <3>1. n = [l EXCEPT !.crossed = @ \cup Altered]
      BY <2>2, <2>5
    <3>2. /\ IsLoad(n) /\ n.tab = l.tab /\ n.by = l.by /\ n.todo = l.todo /\ n.stage = l.stage
          /\ n.answer = l.answer /\ n.missed = l.missed /\ n.crossed = l.crossed \cup Altered
      BY <2>3, <3>1 DEF IsLoad
    <3>3. TypedLoad(n)
      BY <2>3, <3>2 DEF TypedLoad, Loading
    <3> QED
      BY <2>5, <3>2, <3>3
  <2>6. CASE l.stage # "sent" /\ l.tab # r.tab
    <3>1. n = [l EXCEPT !.missed = @ \cup Altered]
      BY <2>2, <2>6
    <3>2. /\ IsLoad(n) /\ n.tab = l.tab /\ n.by = l.by /\ n.todo = l.todo /\ n.stage = l.stage
          /\ n.answer = l.answer /\ n.missed = l.missed \cup Altered /\ n.crossed = l.crossed
      BY <2>3, <3>1 DEF IsLoad
    <3>3. TypedLoad(n)
      BY <2>3, <3>2 DEF TypedLoad, Loading
    <3> QED
      BY <2>6, <3>2, <3>3
  <2> QED
    BY <2>4, <2>5, <2>6
<1> QED
  BY <1>2, <1>3 DEF HandledAs

\* What is stored is changed by a save that was told to.
LEMMA WhatIsWritten ==
  ASSUME IInv, Types, NEW r \in saves, NEW m, HandledAs(r, m)
  PROVE  /\ TypedRows'
         /\ \A f \in Altered :
              f \in DOMAIN r.body
              /\ stored'[f] = IF f = "auth_secret" THEN Secret(r) ELSE Stores(f, r.body[f])
         /\ "auth_secret" \in Altered => r.stage = "read"
<1>1. IsSave(r) /\ TypedSave(r) /\ TypedRows /\ r.form \in Form /\ DOMAIN r.body \subseteq Field
  BY SaveFields DEF IInv, Types, IsSave
<1>2. CASE Becomes(r, m)
  BY <1>1, <1>2 DEF Becomes, Altered, TypedRows, Scoped
<1>3. ASSUME NEW row, Puts(r, m, row), RowOf(row, r)
      PROVE  /\ TypedRows'
             /\ \A f \in Altered :
                  f \in DOMAIN r.body
                  /\ stored'[f] = IF f = "auth_secret" THEN Secret(r) ELSE Stores(f, r.body[f])
             /\ "auth_secret" \in Altered => r.stage = "read"
  <2>1. stored' = [f \in Field |-> IF f \in DOMAIN row THEN row[f] ELSE stored[f]]
    BY <1>3 DEF Puts, Written
  <2>2. \A f \in Altered :
          f \in DOMAIN row /\ f \in DOMAIN r.body
          /\ stored'[f] = IF f = "auth_secret" THEN Secret(r) ELSE Stores(f, r.body[f])
    BY <1>3, <2>1 DEF RowOf, Altered
  <2>3. \A f \in DOMAIN row : row[f] \in Among(f)
    <3>1. CASE "auth_secret" \in DOMAIN row
      <4>1. r.form = "config" /\ DOMAIN r.body = {"endpoint_url", "auth_type", "auth_secret"}
        BY <1>1, <1>3, <3>1, Sections, FieldOfForm DEF RowOf, IsSave
      <4>2. Among("auth_secret") = Value /\ AmongSent("auth_secret") = Value /\ Blank \in Value
        BY AmongIs, Sections, FieldsAre, ZenonT(40) DEF Texts
      <4>3. r.body["auth_secret"] \in Value /\ r.secret \in Value
        BY <1>1, <4>1, <4>2 DEF TypedSave
      <4>4. Secret(r) \in {Blank, r.body["auth_secret"], r.secret}
        BY DEF Secret
      <4>5. Secret(r) \in Value
        BY <4>2, <4>3, <4>4
      <4>6. \A f \in DOMAIN r.body : Stores(f, r.body[f]) \in Among(f)
        BY <1>1, StoresIs DEF TypedSave
      <4> QED
        BY <1>3, <4>2, <4>5, <4>6 DEF RowOf
    <3>2. CASE "auth_secret" \notin DOMAIN row
      BY <1>1, <1>3, <3>2, StoresIs DEF RowOf, TypedSave
    <3> QED
      BY <3>1, <3>2
  <2>4. \A f \in Field : stored'[f] \in Among(f)
    BY <1>1, <2>1, <2>3 DEF TypedRows
  <2>5. stored' \in [Field -> Value]
    BY <2>1, <2>4, AmongIs
  <2>6. Scoped(stored')
    <3>1. {"enabled", "link_ids"} \subseteq Field /\ FieldsOf["auth"] = {"enabled", "link_ids"}
      BY FieldsAre, Sections
    <3>2. CASE r.form = "auth"
      <4>1. DOMAIN row = FieldsOf["auth"] /\ Scoped(r.body)
        BY <1>1, <1>3, <3>2 DEF TypedSave, RowOf
      <4>2. \A f \in FieldsOf["auth"] : Stores(f, r.body[f]) = r.body[f]
        BY <3>1, StoresIs
      <4>3. stored'["enabled"] = r.body["enabled"] /\ stored'["link_ids"] = r.body["link_ids"]
        BY <1>3, <2>1, <3>1, <4>1, <4>2 DEF RowOf
      <4> QED
        BY <4>1, <4>3 DEF Scoped
    <3>3. CASE r.form # "auth"
      <4>1. \A f \in FieldsOf["auth"] : f \notin DOMAIN row
        BY <1>1, <1>3, <3>3, FieldOfForm DEF RowOf, TypedSave
      <4>2. stored'["enabled"] = stored["enabled"] /\ stored'["link_ids"] = stored["link_ids"]
        BY <2>1, <3>1, <4>1
      <4> QED
        BY <1>1, <4>2 DEF TypedRows, Scoped
    <3> QED
      BY <3>2, <3>3
  <2> QED
    BY <1>3, <2>2, <2>4, <2>5, <2>6 DEF TypedRows, RowOf, Scoped
<1> QED
  BY <1>2, <1>3 DEF HandledAs


LEMMA SavesAfter ==
  ASSUME Everything, NEW r \in saves, NEW m, HandledAs(r, m), UNCHANGED plan
  PROVE  \A n \in saves' : TypedSave(n)' /\ Honest(n)'
<1>1. /\ IInv /\ Types /\ IsSave(r) /\ TypedSave(r) /\ Honest(r) /\ TypedRows
      /\ DOMAIN r.body \subseteq Field
  BY SaveFields DEF Everything, IInv, Types, Truth
<1>2. \A f \in Field \ Altered : stored'[f] = stored[f]
  BY DEF Altered
<1>3. TypedSave(m)'
  <2>1. m.secret \in Value
    BY <1>1, FieldsAre DEF HandledAs, TypedRows, TypedSave
  <2> QED
    BY <1>1, <2>1 DEF TypedSave, HandledAs, Same, Scoped
<1>4. Honest(m)'
  <2>1. \A f \in DOMAIN r.body \ {"auth_secret"} : stored'[f] \in {stored[f], Stores(f, r.body[f])}
    BY <1>1, <1>2, WhatIsWritten
  <2>2. m.stage = "read" => m.secret = stored'["auth_secret"]
    BY DEF HandledAs
  <2>3. ASSUME r.form = "general", r.body["login_path"] = stored["login_path"]
        PROVE  r.body["login_path"] = stored'["login_path"]
    <3>1. "login_path" \in Field /\ stored["login_path"] \in Among("login_path") /\ "login_path" \in Restored
      BY <1>1, FieldsAre DEF TypedRows, Restored
    <3>2. Stores("login_path", stored["login_path"]) = stored["login_path"]
      BY <3>1, StoresIs
    <3>3. CASE "login_path" \in Altered
      BY <1>1, <2>3, <3>2, <3>3, WhatIsWritten
    <3>4. CASE "login_path" \notin Altered
      BY <1>2, <2>3, <3>1, <3>4
    <3> QED
      BY <3>3, <3>4
  <2>4. Same(m, r)
    BY DEF HandledAs
  <2>5. \A f \in DOMAIN r.body \ (r.typed \cup r.stale \cup r.reverted \cup {"auth_secret"}) :
          r.loaded \/ r.form \notin {"general", "seo", "grants"} =>
            stored'[f] \in {r.body[f], Stores(f, r.body[f])}
    BY <1>1, <2>1 DEF Honest
  <2>6. "auth_secret" \in DOMAIN r.body \ (r.typed \cup r.stale \cup r.reverted) => r.body["auth_secret"] = Blank
    BY <1>1 DEF Honest
  <2>7. r.form = "general" /\ r.loaded =>
          r.warned \/ "login_path" \in r.stale \cup r.own \/ r.body["login_path"] = stored'["login_path"]
    BY <1>1, <2>3 DEF Honest
  <2> QED
    BY <2>2, <2>4, <2>5, <2>6, <2>7 DEF Honest, Same
<1>5. ASSUME NEW n \in saves', n # m
      PROVE  TypedSave(n)' /\ Honest(n)'
  <2>1. PICK s \in saves : AsBefore(n, s)
    BY <1>1, <1>5, OtherSaves
  <2>2. IsSave(s) /\ TypedSave(s) /\ Honest(s) /\ DOMAIN s.body \subseteq Field
    BY <1>1, SaveFields DEF Everything, IInv, Types, Truth
  <2>3. TypedSave(n)'
    BY <2>1, <2>2 DEF TypedSave, AsBefore, Altered, Scoped
  <2>4. \A f \in DOMAIN s.body \ n.stale : f \notin s.stale /\ stored'[f] = stored[f]
    BY <1>2, <2>1, <2>2 DEF AsBefore
  <2>5. s.stale \subseteq n.stale
    BY <2>1 DEF AsBefore
  <2>7. \A f \in DOMAIN n.body \ (n.typed \cup n.stale \cup n.reverted \cup {"auth_secret"}) :
          n.loaded \/ n.form \notin {"general", "seo", "grants"} =>
            stored'[f] \in {n.body[f], Stores(f, n.body[f])}
    BY <2>1, <2>2, <2>4, <2>5 DEF Honest, AsBefore
  <2>8. "auth_secret" \in DOMAIN n.body \ (n.typed \cup n.stale \cup n.reverted) =>
          n.body["auth_secret"] = Blank /\ (n.stage = "read" => n.secret = stored'["auth_secret"])
    BY <2>1, <2>2, <2>4, <2>5 DEF Honest, AsBefore
  <2>9. n.form = "general" /\ n.loaded =>
          n.warned \/ "login_path" \in n.stale \cup n.own \/ n.body["login_path"] = stored'["login_path"]
    <3>1. SUFFICES ASSUME s.form = "general", s.loaded, ~s.warned, "login_path" \notin n.stale \cup s.own
                   PROVE  s.body["login_path"] = stored'["login_path"]
      BY <2>1 DEF AsBefore
    <3>2. s.body["login_path"] = stored["login_path"]
      BY <2>2, <2>5, <3>1 DEF Honest
    <3>3. "login_path" \in DOMAIN s.body
      BY <2>2, <3>1, FormsAre DEF TypedSave
    <3> QED
      BY <2>4, <3>1, <3>2, <3>3
  <2>10. Honest(n)'
    BY <2>7, <2>8, <2>9 DEF Honest
  <2> QED
    BY <2>3, <2>10
<1> QED
  BY <1>3, <1>4, <1>5

LEMMA LoadsAfter ==
  ASSUME Everything, NEW r \in saves, NEW m, HandledAs(r, m)
  PROVE  \A n \in loads' : TypedLoad(n) /\ Fresh(n)'
<1> SUFFICES ASSUME NEW n \in loads'
             PROVE  TypedLoad(n) /\ Fresh(n)'
  OBVIOUS
<1>1. PICK l \in loads :
        /\ TypedLoad(n) /\ n.stage = l.stage /\ n.answer = l.answer /\ n.todo = l.todo
        /\ l.stage # "sent" => n.missed \cup n.crossed = l.missed \cup l.crossed \cup Altered
  BY LoadsMiss DEF Everything
<1>2. Fresh(l) /\ TypedLoad(l)
  BY DEF Everything, Truth, Types
<1>3. CASE n.stage \in {"half", "answered"}
  <2>1. DOMAIN n.answer = FieldsOf[Loading(l)] /\ Loading(n) = Loading(l) /\ Loading(l) \in Section
    BY <1>1, <1>2, <1>3 DEF TypedLoad, Loading
  <2>2. DOMAIN n.answer \subseteq Field
    BY <2>1 DEF Field
  <2>3. n.missed \cup n.crossed = l.missed \cup l.crossed \cup Altered
    BY <1>1, <1>3
  <2>4. \A f \in DOMAIN n.answer \ (n.missed \cup n.crossed) :
          f \notin l.missed \cup l.crossed /\ stored'[f] = stored[f]
    BY <2>2, <2>3 DEF Altered
  <2> QED
    BY <1>1, <1>2, <1>3, <2>1, <2>3, <2>4 DEF Fresh
<1>4. CASE n.stage \notin {"half", "answered"}
  BY <1>1, <1>4 DEF Fresh
<1> QED
  BY <1>3, <1>4

LEMMA TabsAfter ==
  ASSUME Everything, NEW r \in saves, NEW m, HandledAs(r, m), NEW t \in Tabs,
         UNCHANGED <<plan, form, base, known, editing, typed>>, Overtakes(r)
  PROVE  TypedTab(t)' /\ FormIsTrue(t)' /\ BaseIsTrue(t)'
<1>1. /\ Types /\ TypedRows /\ TypedPages /\ TypedTab(t) /\ FormIsTrue(t) /\ BaseIsTrue(t) /\ r.tab \in Tabs
  BY DEF Everything, Types, TypedPages, TypedSave, Truth
<1>2. /\ behind'[t] = IF t = r.tab THEN behind[t] ELSE behind[t] \cup Unseen(t) \cup (Changed(t) \cap typed[t])
      /\ own'[t] = IF t = r.tab THEN own[t] \cup Changed(t) ELSE own[t]
      /\ reverted'[t] = IF t = r.tab THEN reverted[t] \cup (Unseen(t) \ typed[t]) ELSE reverted[t]
  BY <1>1 DEF Overtakes, TypedPages
<1>3. /\ Unseen(t) \subseteq Changed(t) /\ Changed(t) \subseteq DOMAIN form[t]
      /\ \A f \in DOMAIN form[t] \ Changed(t) : stored'[f] = stored[f]
      /\ \A f \in Changed(t) \ Unseen(t) : Shows(t, f, stored'[f])
  BY DEF Unseen, Changed
<1>4. TypedTab(t)'
  BY <1>1, <1>2, <1>3 DEF TypedTab
<1>5. \A f : Carried(t, f)' = Carried(t, f)
  BY DEF Carried, SettingOf, AsSent
\* A field that is not excused shows what is stored now.
<1>6. \A f \in DOMAIN form[t] \ (typed[t] \cup behind'[t] \cup reverted'[t]) :
        /\ f \notin behind[t] \cup reverted[t]
        /\ stored'[f] = stored[f] \/ Shows(t, f, stored'[f])
  BY <1>2, <1>3
<1>7. FormIsTrue(t)'
  <2>1. ASSUME NEW f \in DOMAIN form[t] \ (typed[t] \cup behind'[t] \cup reverted'[t])
        PROVE  /\ f \in Hidden => form[t][f] = Blank
               /\ f \notin Hidden /\ SectionOf(f) \in known[t] => Shows(t, f, stored'[f])
               /\ f \in FieldsOf["overrides"] /\ "overrides" \notin known[t] =>
                    form[t][f] \in {Blank, stored'[f]}
    <3>1. ASSUME f \in FieldsOf["overrides"], Shows(t, f, stored'[f])
          PROVE  form[t][f] = stored'[f]
      <4>1. f \notin FieldsOf["auth"] /\ f \notin Texts /\ f \in Field
        BY <1>1, <3>1, Sections DEF Texts, TypedTab
      <4>2. Carried(t, f) = form[t][f]
        BY <4>1, SentAsShown DEF Carried
      <4> QED
        BY <3>1, <4>1, <4>2, StoresIs DEF Shows
    <3>2. /\ f \in Hidden => form[t][f] = Blank
          /\ f \notin Hidden /\ SectionOf(f) \in known[t] => Shows(t, f, stored[f])
          /\ f \in FieldsOf["overrides"] /\ "overrides" \notin known[t] => form[t][f] \in {Blank, stored[f]}
      BY <1>1, <1>6, <2>1 DEF FormIsTrue
    <3>3. CASE stored'[f] = stored[f]
      BY <3>2, <3>3
    <3>4. CASE Shows(t, f, stored'[f])
      BY <3>1, <3>2, <3>4
    <3> QED
      BY <1>6, <2>1, <3>3, <3>4
  <2> QED
    BY <1>5, <2>1 DEF FormIsTrue, Shows
<1>8. ASSUME NEW f \in (DOMAIN form[t] \cap Restored) \ (behind'[t] \cup own'[t]), SectionOf(f) \in known[t]
      PROVE  base[t][f] = stored'[f]
  <2>1. f \in Field /\ f \notin Hidden /\ f \notin behind[t] \cup own[t]
    BY <1>1, <1>2, <1>8, HiddenIs, Sections DEF TypedTab, Restored
  <2>2. base[t][f] = stored[f]
    BY <1>1, <1>8, <2>1 DEF BaseIsTrue
  <2>3. CASE f \in Changed(t)
    <3>1. t # r.tab /\ f \notin typed[t] /\ Shows(t, f, stored'[f])
      BY <1>2, <1>3, <1>8, <2>3
    <3>2. Shows(t, f, stored[f])
      BY <1>1, <1>8, <2>1, <3>1 DEF FormIsTrue, TypedTab
    <3>3. stored[f] \in Among(f) /\ stored'[f] \in Among(f)
      BY <1>1, <2>1, WhatIsWritten DEF Everything, TypedRows
    <3>4. Stores(f, stored[f]) = stored[f] /\ Stores(f, stored'[f]) = stored'[f]
      BY <1>8, <2>1, <3>3, StoresIs
    <3> QED
      BY <2>2, <3>1, <3>2, <3>4 DEF Shows
  <2>4. CASE f \notin Changed(t)
    BY <1>3, <1>8, <2>2, <2>4
  <2> QED
    BY <2>3, <2>4
<1>9. BaseIsTrue(t)'
  BY <1>8 DEF BaseIsTrue
<1> QED
  BY <1>4, <1>7, <1>9



LEMMA SaveStep ==
  ASSUME Everything, NEW r \in saves, HandlesSave(r),
         Overtakes(r), UNCHANGED <<plan, form, base, known, editing, typed, edits, sent>>
  PROVE  Types' /\ Truth'
<1>1. IInv /\ Types
  BY DEF Everything
<1>2. PICK m : HandledAs(r, m)
  BY <1>1, SaveHandled
<1>3. TypedRows'
  BY <1>1, <1>2, WhatIsWritten
<1>4. (\A n \in saves' : TypedSave(n)' /\ Honest(n)') /\ \A n \in loads' : TypedLoad(n) /\ Fresh(n)'
  BY <1>2, SavesAfter, LoadsAfter
<1>5. \A t \in Tabs : TypedTab(t)' /\ FormIsTrue(t)' /\ BaseIsTrue(t)'
  BY <1>2, TabsAfter
<1>6. TypedPages'
  BY <1>1, <1>5 DEF Types, TypedPages, Overtakes
<1>7. TypedCheck'
  <2>1. TypedCheck /\ CheckIsFair
    BY <1>1 DEF Types, IInv
  <2>2. \/ check' = check
        \/ \E touched : check' = [check EXCEPT !.touched = touched]
    BY <1>2 DEF HandledAs, Becomes, Puts
  <2>3. check'.stage = check.stage /\ check'.answer = check.answer
    BY <2>1, <2>2 DEF CheckIsFair
  <2> QED
    BY <2>1, <2>3 DEF TypedCheck
<1>8. Counted'
  <2>1. Counted /\ (faults' = faults \/ Fault) /\ UNCHANGED <<edits, sent>> /\ MaxFaults \in Nat
    BY <1>1, <1>2, RecordsAssumption DEF Types, HandledAs
  <2> QED
    BY <2>1 DEF Counted, Fault
<1>9. \A n \in loads' : TypedLoad(n)'
  BY <1>4 DEF TypedLoad, IsLoad, Loading
<1> QED
  BY <1>3, <1>4, <1>5, <1>6, <1>7, <1>8, <1>9 DEF Types, Truth

----------------------------------------------------------------------------
(* The steps that change no row.                                            *)

LEMMA RestStep ==
  ASSUME Everything, UNCHANGED <<stored, plan>>, TypedCheck', Counted', TypedPages',
         \A r \in saves' \ saves : TypedSave(r) /\ Honest(r),
         \A l \in loads' \ loads : TypedLoad(l) /\ Fresh(l),
         \A t \in Tabs : FormIsTrue(t)' /\ BaseIsTrue(t)'
  PROVE  Types' /\ Truth'
<1>1. \A r \in saves' : TypedSave(r) /\ Honest(r)
  BY DEF Everything, Types, Truth
<1>2. \A l \in loads' : TypedLoad(l) /\ Fresh(l)
  BY DEF Everything, Types, Truth
<1>3. \A r \in saves' : TypedSave(r)' /\ Honest(r)'
  BY <1>1 DEF TypedSave, Honest, Scoped
<1>4. \A l \in loads' : TypedLoad(l)' /\ Fresh(l)'
  BY <1>2 DEF TypedLoad, IsLoad, Fresh, Loading, Scoped
<1>5. TypedRows'
  BY DEF Everything, Types, TypedRows, Scoped
<1> QED
  BY <1>3, <1>4, <1>5 DEF Types, Truth

\* ... nor what a page shows.
LEMMA PagesRest ==
  ASSUME Everything, UNCHANGED <<stored, plan, form, base, known, editing, typed, history>>
  PROVE  TypedPages' /\ \A t \in Tabs : FormIsTrue(t)' /\ BaseIsTrue(t)'
<1>1. TypedPages /\ \A t \in Tabs : FormIsTrue(t) /\ BaseIsTrue(t)
  BY DEF Everything, Types, Truth
<1>2. TypedPages'
  BY <1>1 DEF TypedPages, TypedTab, history
<1>3. \A t \in Tabs : FormIsTrue(t)'
  BY <1>1 DEF FormIsTrue, Shows, Carried, SettingOf, history
<1>4. \A t \in Tabs : BaseIsTrue(t)'
  BY <1>1 DEF BaseIsTrue, history
<1> QED
  BY <1>2, <1>3, <1>4

LEMMA LoadHandled ==
  ASSUME Everything, NEW l \in loads, HandlesLoad(l)
  PROVE  \E n : Reads(l, n) /\ TypedLoad(n) /\ Fresh(n) /\ (UNCHANGED faults \/ Fault)
<1>1. TypedLoad(l) /\ Fresh(l) /\ TypedRows /\ Loading(l) \in Section
  BY DEF Everything, Types, Truth, TypedLoad, Loading
<1>2. CASE Select(l)
  <2> DEFINE stage == IF Loading(l) = "auth" THEN "half" ELSE "answered"
             n == [l EXCEPT !.answer = Row(Loading(l)), !.stage = stage]
  <2>1. Reads(l, n) /\ UNCHANGED faults
    BY <1>2 DEF Select
  <2>2. stage \in {"half", "answered"} /\ (stage = "half" => Loading(l) = "auth")
    OBVIOUS
  <2> HIDE DEF stage
  <2>3. /\ IsLoad(n)
        /\ n.tab = l.tab /\ n.by = l.by /\ n.todo = l.todo
        /\ n.missed = l.missed /\ n.crossed = l.crossed /\ n.stage = stage /\ n.answer = Row(Loading(l))
    <3>1. n = [[l EXCEPT !.answer = Row(Loading(l))] EXCEPT !.stage = stage]
      OBVIOUS
    <3> DEFINE k == [l EXCEPT !.answer = Row(Loading(l))]
    <3>2. n = [k EXCEPT !.stage = stage]
      BY <3>1
    <3>3. /\ IsLoad(k) /\ k.answer = Row(Loading(l))
          /\ k.tab = l.tab /\ k.by = l.by /\ k.todo = l.todo
          /\ k.missed = l.missed /\ k.crossed = l.crossed
      BY <1>1 DEF TypedLoad, IsLoad
    <3> HIDE DEF n, k
    <3> QED
      BY <3>2, <3>3 DEF IsLoad
  <2> HIDE DEF n
  <2>4. Loading(n) = Loading(l) /\ FieldsOf[Loading(l)] \subseteq Field
    BY <1>1, <2>3 DEF Loading, Field
  <2>5. DOMAIN n.answer = FieldsOf[Loading(l)] /\ \A f \in DOMAIN n.answer : n.answer[f] = stored[f]
    BY <2>3 DEF Row
  <2>6. TypedLoad(n)
    BY <1>1, <2>2, <2>3, <2>4, <2>5 DEF TypedLoad, TypedRows
  <2>7. Loading(l) = "auth" => Scoped(n.answer)
    BY <1>1, <2>5, Sections DEF Scoped, TypedRows
  <2>8. Fresh(n)
    BY <2>4, <2>5, <2>7 DEF Fresh
  <2> QED
    BY <2>1, <2>6, <2>8
<1>3. CASE SelectScope(l)
  <2> DEFINE answer == [l.answer EXCEPT !["link_ids"] = stored["link_ids"]]
             n == [l EXCEPT !.answer["link_ids"] = stored["link_ids"], !.stage = "answered"]
  <2>1. Reads(l, n) /\ UNCHANGED faults /\ l.stage = "half" /\ Loading(l) = "auth"
    BY <1>1, <1>3 DEF SelectScope, TypedLoad
  <2>2. /\ IsLoad(n)
        /\ n.tab = l.tab /\ n.by = l.by /\ n.todo = l.todo
        /\ n.missed = l.missed /\ n.crossed = l.crossed /\ n.stage = "answered" /\ n.answer = answer
    <3>1. n = [[l EXCEPT !.answer = answer] EXCEPT !.stage = "answered"]
      OBVIOUS
    <3> DEFINE k == [l EXCEPT !.answer = answer]
    <3>2. n = [k EXCEPT !.stage = "answered"]
      BY <3>1
    <3> HIDE DEF answer
    <3>3. /\ IsLoad(k) /\ k.answer = answer
          /\ k.tab = l.tab /\ k.by = l.by /\ k.todo = l.todo
          /\ k.missed = l.missed /\ k.crossed = l.crossed
      BY <1>1 DEF TypedLoad, IsLoad
    <3> HIDE DEF n, k
    <3> QED
      BY <3>2, <3>3 DEF IsLoad
  <2> HIDE DEF n
  <2>3. DOMAIN l.answer = {"enabled", "link_ids"} /\ {"enabled", "link_ids"} \subseteq Field
    BY <1>1, <2>1, Sections, FieldsAre DEF TypedLoad
  <2>4. /\ DOMAIN n.answer = {"enabled", "link_ids"} /\ n.answer["link_ids"] = stored["link_ids"]
        /\ n.answer["enabled"] = l.answer["enabled"]
    BY <2>2, <2>3
  <2>5. Loading(n) = "auth"
    BY <2>1, <2>2 DEF Loading
  <2>6. TypedLoad(n)
    BY <1>1, <2>1, <2>2, <2>3, <2>4, <2>5 DEF TypedLoad, TypedRows
  <2>7. "link_ids" \notin n.missed \cup n.crossed => Scoped(n.answer)
    <3>1. "link_ids" \notin l.missed \cup l.crossed => l.answer["link_ids"] = stored["link_ids"] /\ Scoped(l.answer)
      BY <1>1, <2>1, <2>3 DEF Fresh
    <3> QED
      BY <2>2, <2>4, <3>1 DEF Scoped
  <2>8. \A f \in DOMAIN n.answer \ (n.missed \cup n.crossed) : n.answer[f] = stored[f]
    BY <1>1, <2>1, <2>2, <2>3, <2>4 DEF Fresh
  <2> QED
    BY <2>1, <2>6, <2>7, <2>8 DEF Fresh
<1>4. CASE LoadFails(l)
  <2> DEFINE n == [l EXCEPT !.stage = "failed"]
  <2>1. Reads(l, n) /\ Fault
    BY <1>4 DEF LoadFails
  <2>2. /\ IsLoad(n)
        /\ n.tab = l.tab /\ n.by = l.by /\ n.todo = l.todo /\ n.missed = l.missed
        /\ n.crossed = l.crossed /\ n.stage = "failed"
    BY <1>1 DEF TypedLoad, IsLoad
  <2> HIDE DEF n
  <2>3. TypedLoad(n) /\ Fresh(n)
    BY <1>1, <2>2 DEF TypedLoad, Fresh, Loading
  <2> QED
    BY <2>1, <2>3
<1> QED
  BY <1>2, <1>3, <1>4 DEF HandlesLoad

LEMMA LoadStep ==
  ASSUME Everything, NEW l \in loads, HandlesLoad(l),
         UNCHANGED <<plan, form, base, known, editing, typed, history, edits, sent>>
  PROVE  Types' /\ Truth'
<1>1. PICK n : Reads(l, n) /\ TypedLoad(n) /\ Fresh(n) /\ (UNCHANGED faults \/ Fault)
  BY LoadHandled
<1>2. UNCHANGED <<stored, saves, check>> /\ \A k \in loads' \ loads : TypedLoad(k) /\ Fresh(k)
  BY <1>1 DEF Reads
<1>3. TypedCheck' /\ Counted'
  <2>1. TypedCheck /\ Counted /\ (UNCHANGED faults \/ Fault) /\ MaxFaults \in Nat
    BY <1>1, RecordsAssumption DEF Everything, Types
  <2> QED
    BY <1>2, <2>1 DEF TypedCheck, Counted, Fault
<1>4. TypedPages' /\ \A t \in Tabs : FormIsTrue(t)' /\ BaseIsTrue(t)'
  BY <1>2, PagesRest
<1> QED
  BY <1>2, <1>3, <1>4, RestStep

\* A handler is there when its page is.
LEMMA ReadyIs ==
  ASSUME NEW t, NEW f \in Form, Ready(t, f)
  PROVE  /\ f \in plan[t]
         /\ f \in {"matrix", "auth"} => f \in known[t]
         /\ f \in {"user", "password", "overrides", "grants"} => "user" \in known[t]
         /\ f = "link" => "link" \in known[t]
         /\ f \in {"config", "send"} => "config" \in known[t]
<1>1. CASE f \in {"matrix", "auth"}
  BY <1>1, FormsAre DEF Ready, SettingsReady
<1>2. CASE f \in {"user", "password", "overrides", "grants"}
  BY <1>2, FormsAre DEF Ready, UserReady
<1>3. CASE f = "link"
  BY <1>3, FormsAre DEF Ready, LinkReady
<1>4. CASE f \in {"config", "send"}
  BY <1>4, FormsAre DEF Ready, ConfigReady
<1>5. f \in plan[t]
  BY DEF Ready
<1> QED
  BY <1>1, <1>2, <1>3, <1>4, <1>5

LEMMA SubmittedIsHonest ==
  ASSUME Everything, NEW t \in Tabs, NEW f \in Form, NEW stage \in {"asked", "sent"}, NEW warned,
         Submits(t, f, stage, warned),
         f \in {"cloudflare", "password"} => form[t][f] # Blank,
         f = "general" => (warned <=> "settings" \in known[t] /\ form[t]["login_path"] # base[t]["login_path"])
  PROVE  TypedSave(SaveOf(t, f, stage, warned)) /\ Honest(SaveOf(t, f, stage, warned))
<1> DEFINE body == Body(f, form[t])
           m == SaveOf(t, f, stage, warned)
<1>1. Ready(t, f)
  BY DEF Submits
<1>2. /\ f \in plan[t]
      /\ f \in {"matrix", "auth"} => f \in known[t]
      /\ f \in {"user", "password", "overrides", "grants"} => "user" \in known[t]
      /\ f = "link" => "link" \in known[t]
      /\ f \in {"config", "send"} => "config" \in known[t]
  BY <1>1, ReadyIs
<1>3. TypedTab(t) /\ FormIsTrue(t) /\ BaseIsTrue(t) /\ TypedRows
  BY DEF Everything, Types, TypedPages, Truth
<1>4. /\ DOMAIN body \subseteq Forms[f].fields
      /\ \A x \in DOMAIN body : body[x] = Carried(t, x)
      /\ f # "auth" => \A x \in DOMAIN body : body[x] = AsSent(x, form[t][x])
      /\ f = "overrides" => \A x \in DOMAIN body : form[t][x] # Blank
      /\ f # "overrides" => DOMAIN body = Forms[f].fields
  BY BodyIs
<1>5. DOMAIN body \subseteq DOMAIN form[t] /\ DOMAIN body \subseteq Field
  BY <1>2, <1>3, <1>4 DEF TypedTab
<1>6. f = "auth" => body = SettingOf(form[t])
  BY DEF Body
<1> HIDE DEF body
<1>7. /\ m.tab = t /\ m.form = f /\ m.body = body /\ m.stage = stage /\ m.secret = Blank
      /\ m.warned = warned /\ m.typed = typed[t] \cap Forms[f].fields /\ m.stale = behind[t]
      /\ m.own = own[t] /\ m.reverted = reverted[t] /\ m.loaded = (Forms[f].section \in known[t])
  BY DEF SaveOf, body
<1> HIDE DEF m
<1>8. \A x \in DOMAIN body : body[x] \in AmongSent(x)
  <2>1. CASE f = "auth"
    <3>1. body["enabled"] \in {"all", "off"} /\ body["link_ids"] \in {Blank, form[t]["link_ids"]}
      BY <1>6, <2>1, SettingIs
    <3>2. DOMAIN body = {"enabled", "link_ids"}
      BY <1>4, <2>1, FormsAre, Sections
    <3>3. "link_ids" \notin FieldsOf["matrix"] \cup FieldsOf["overrides"] \cup {"enabled", "login_path"} \cup Texts
      BY Sections DEF Texts
    <3>4. AmongSent("link_ids") = Value /\ AmongSent("enabled") = {"all", "off"} /\ Blank \in Value
      BY <3>3, AmongIs, FieldsAre
    <3>5. form[t]["link_ids"] \in Value
      BY <1>3, <1>5, <3>2 DEF TypedTab
    <3> QED
      BY <3>1, <3>2, <3>4, <3>5
  <2>2. CASE f # "auth"
    <3>1. ASSUME NEW x \in DOMAIN body
          PROVE  body[x] \in AmongSent(x)
      <4>1. /\ body[x] = AsSent(x, form[t][x]) /\ x \in DOMAIN form[t] /\ x \in Forms[f].fields
            /\ x \in Field /\ form[t][x] \in Value
        BY <1>3, <1>4, <1>5, <2>2, <3>1 DEF TypedTab
      <4>2. x # "enabled"
        BY <2>2, <4>1, FieldOfForm, Sections
      <4>3. CASE x \in Texts
        <5>1. body[x] = Trimmed(form[t][x])
          BY <4>1, <4>3 DEF AsSent, Texts
        <5>2. Trimmed(form[t][x]) \in Plain
          BY <4>1, AmongIs DEF Trimmed, Plain, Value, Blank
        <5> QED
          BY <4>3, <5>1, <5>2, TextsAre
      <4>4. CASE x \notin Texts
        <5>1. body[x] = form[t][x]
          BY <4>1, <4>4, SentAsShown
        <5>2. CASE x \in FieldsOf["matrix"]
          <6>1. form[t][x] \in Among(x) /\ x # "login_path"
            BY <1>2, <1>3, <4>1, <5>2, FieldOfForm, Sections DEF TypedTab
          <6> QED
            BY <4>1, <5>1, <6>1, AmongIs
        <5>3. CASE x \in FieldsOf["overrides"]
          <6>1. f = "overrides" /\ x # "login_path"
            BY <4>1, <5>3, FieldOfForm, Sections
          <6>2. form[t][x] \in Among(x)
            BY <1>3, <1>4, <4>1, <5>3, <6>1 DEF TypedTab
          <6> QED
            BY <4>1, <5>1, <6>1, <6>2, AmongIs
        <5>4. CASE x = "login_path"
          BY <1>3, <4>1, <5>1, <5>4 DEF TypedTab
        <5>5. CASE x \notin FieldsOf["matrix"] \cup FieldsOf["overrides"] \cup {"login_path"}
          <6>1. AmongSent(x) = Value
            BY <4>1, <4>2, <4>4, <5>5, AmongIs
          <6> QED
            BY <4>1, <5>1, <6>1
        <5> QED
          BY <5>2, <5>3, <5>4, <5>5
      <4> QED
        BY <4>3, <4>4
    <3> QED
      BY <3>1
  <2> QED
    BY <2>1, <2>2
<1>9. f = "auth" => DOMAIN body = FieldsOf["auth"] /\ Scoped(body)
  BY <1>4, <1>6, SettingIs, FormsAre DEF Scoped
<1>10. TypedSave(m)
  <2>1. /\ typed[t] \subseteq Field /\ behind[t] \subseteq Field /\ own[t] \subseteq Field
        /\ reverted[t] \subseteq Field /\ Blank \in Value
    BY <1>3, AmongIs DEF TypedTab
  <2> QED
    BY <1>2, <1>4, <1>7, <1>8, <1>9, <2>1 DEF TypedSave
<1>11. ASSUME NEW x \in DOMAIN body, x \notin typed[t] \cup behind[t] \cup reverted[t], x # "auth_secret",
              Forms[f].section \in known[t] \/ f \notin {"general", "seo", "grants"}
       PROVE  stored[x] \in {body[x], Stores(x, body[x])}
  <2>1. x \in Forms[f].fields /\ x \in DOMAIN form[t] /\ body[x] = Carried(t, x)
    BY <1>4, <1>5
  <2>2. x \notin Hidden
    <3>1. SUFFICES ASSUME x \in Hidden
                   PROVE  FALSE
      OBVIOUS
    <3>2. f \in {"cloudflare", "password", "config"} /\ x \in Forms[f].hidden
      BY <2>1, <3>1, FieldOfForm
    <3>3. f \in {"cloudflare", "password"} /\ x = f
      BY <1>11, <3>2, FormsAre
    <3> QED
      BY <1>3, <1>11, <2>1, <3>1, <3>3 DEF FormIsTrue
  <2>3. SectionOf(x) = Forms[f].section
    BY <2>1, <2>2, FieldOfForm, SectionIs
  <2>4. CASE Forms[f].section \in known[t]
    <3>1. Shows(t, x, stored[x])
      BY <1>3, <1>11, <2>1, <2>2, <2>3, <2>4 DEF FormIsTrue
    <3> QED
      BY <2>1, <3>1 DEF Shows
  <2>5. CASE Forms[f].section \notin known[t]
    <3>1. f \in {"logo", "cloudflare", "password", "overrides", "send"}
      BY <1>2, <1>11, <2>5, FormsAre
    <3>2. f = "overrides"
      BY <2>1, <2>2, <3>1, FormsAre, HiddenIs
    <3>3. x \in FieldsOf["overrides"] /\ "overrides" \notin known[t] /\ x \notin Texts
      BY <2>1, <2>5, <3>2, FormsAre, Sections DEF Texts
    <3>4. form[t][x] # Blank /\ body[x] = form[t][x]
      BY <1>4, <3>2, <3>3, SentAsShown
    <3> QED
      BY <1>3, <1>11, <2>1, <3>3, <3>4 DEF FormIsTrue
  <2> QED
    BY <2>4, <2>5
<1>12. ASSUME "auth_secret" \in DOMAIN body, "auth_secret" \notin typed[t] \cup behind[t] \cup reverted[t]
       PROVE  body["auth_secret"] = Blank
  <2>1. f # "auth" /\ "auth_secret" \in Hidden /\ "auth_secret" \notin Texts
    BY <1>4, <1>12, FormsAre, Sections, HiddenIs DEF Texts
  <2>2. body["auth_secret"] = form[t]["auth_secret"]
    BY <1>4, <1>12, <2>1, SentAsShown
  <2> QED
    BY <1>3, <1>5, <1>12, <2>1, <2>2 DEF FormIsTrue
\* The dialog compares with what was loaded.
<1>13. ASSUME f = "general", "settings" \in known[t], ~warned, "login_path" \notin behind[t] \cup own[t]
       PROVE  body["login_path"] = stored["login_path"]
  <2>1. "login_path" \in Forms[f].fields /\ "login_path" \in FieldsOf["settings"] /\ "settings" \in Section
        /\ "login_path" \notin Texts
    BY <1>13, FormsAre, Sections DEF Texts
  <2>2. "login_path" \in DOMAIN form[t] /\ body["login_path"] = form[t]["login_path"]
    BY <1>4, <1>5, <1>13, <2>1, SentAsShown
  <2>3. SectionOf("login_path") = "settings"
    BY <2>1, SectionIs
  <2>4. base[t]["login_path"] = stored["login_path"]
    BY <1>3, <1>13, <2>2, <2>3 DEF BaseIsTrue, Restored
  <2> QED
    BY <1>13, <2>2, <2>4
<1>14. Honest(m)
  <2>1. DOMAIN body \subseteq Forms[f].fields
    BY <1>4
  <2>2. f = "general" => Forms[f].section = "settings"
    BY FormsAre
  <2>3. \A x \in DOMAIN m.body \ (m.typed \cup m.stale \cup m.reverted \cup {"auth_secret"}) :
          m.loaded \/ m.form \notin {"general", "seo", "grants"} =>
            stored[x] \in {m.body[x], Stores(x, m.body[x])}
    BY <1>7, <1>11, <2>1
  <2>4. "auth_secret" \in DOMAIN m.body \ (m.typed \cup m.stale \cup m.reverted) =>
          m.body["auth_secret"] = Blank /\ m.stage # "read"
    BY <1>7, <1>12, <2>1
  <2>5. m.form = "general" /\ m.loaded =>
          m.warned \/ "login_path" \in m.stale \cup m.own \/ m.body["login_path"] = stored["login_path"]
    BY <1>7, <1>13, <2>2
  <2> QED
    BY <2>3, <2>4, <2>5 DEF Honest
<1> QED
  BY <1>10, <1>14 DEF m

LEMMA SubmitStep ==
  ASSUME Everything, NEW t \in Tabs, Handles(t)
  PROVE  Types' /\ Truth'
<1>1. \A f \in {"general", "logo", "seo", "matrix", "auth", "cloudflare", "user", "password",
                "overrides", "grants", "link", "config", "send"} : f \in Form
  BY FormsAre
<1>2. PICK f \in Form, stage \in {"asked", "sent"}, warned \in BOOLEAN :
        /\ Submits(t, f, stage, warned)
        /\ f \in {"cloudflare", "password"} => form[t][f] # Blank
        /\ f = "general" =>
             (warned <=> "settings" \in known[t] /\ form[t]["login_path"] # base[t]["login_path"])
  <2>1. CASE SaveGeneral(t)
    BY <1>1, <2>1 DEF SaveGeneral
  <2>2. CASE SaveCloudflare(t)
    BY <1>1, <2>2 DEF SaveCloudflare, Asks
  <2>3. CASE ResetPassword(t)
    BY <1>1, <2>3 DEF ResetPassword, Asks
  <2>4. CASE \/ UploadFile(t) \/ SaveSeo(t) \/ SavePermissions(t) \/ SaveAuthentication(t) \/ SaveUser(t)
             \/ SaveOverrides(t) \/ SaveGrants(t) \/ SaveLink(t) \/ SaveConfig(t) \/ SendNow(t)
    BY <1>1, <2>4 DEF UploadFile, SaveSeo, SavePermissions, SaveAuthentication, SaveUser, SaveOverrides,
       SaveGrants, SaveLink, SaveConfig, SendNow, Asks
  <2> QED
    BY <2>1, <2>2, <2>3, <2>4 DEF Handles
<1> DEFINE m == SaveOf(t, f, stage, warned)
<1>3. TypedSave(m) /\ Honest(m)
  BY <1>2, SubmittedIsHonest
<1>4. /\ saves' = saves \cup {m} /\ sent < MaxSaves /\ sent' = sent + 1
      /\ UNCHANGED <<stored, loads, check, faults, plan, form, base, known, editing, typed, history, edits>>
  BY <1>2 DEF Submits
<1> HIDE DEF m
<1>5. TypedPages' /\ \A x \in Tabs : FormIsTrue(x)' /\ BaseIsTrue(x)'
  BY <1>4, PagesRest
<1>6. TypedCheck' /\ Counted'
  BY <1>4, FormsAssumption DEF Everything, Types, TypedCheck, Counted
<1> QED
  BY <1>3, <1>4, <1>5, <1>6, RestStep

\* A step of one tab leaves the others alone.
LEMMA OtherTab ==
  ASSUME Everything, NEW x \in Tabs, UNCHANGED <<stored, plan>>,
         form'[x] = form[x], base'[x] = base[x], known'[x] = known[x], typed'[x] = typed[x],
         behind'[x] = behind[x], own'[x] = own[x], reverted'[x] = reverted[x], editing'[x] = editing[x]
  PROVE  TypedTab(x)' /\ FormIsTrue(x)' /\ BaseIsTrue(x)'
<1>1. TypedTab(x) /\ FormIsTrue(x) /\ BaseIsTrue(x)
  BY DEF Everything, Types, TypedPages, Truth
<1>2. TypedTab(x)'
  BY <1>1 DEF TypedTab
<1>3. FormIsTrue(x)'
  BY <1>1 DEF FormIsTrue, Shows, Carried, SettingOf
<1>4. BaseIsTrue(x)'
  BY <1>1 DEF BaseIsTrue
<1> QED
  BY <1>2, <1>3, <1>4

LEMMA TypeStep ==
  ASSUME Everything, NEW t \in Tabs, NEW f \in plan[t], NEW x \in Forms[f].fields, NEW v \in Choices(t, x),
         Type(t, f, x, v)
  PROVE  Types' /\ Truth'
<1>1. /\ UNCHANGED <<stored, saves, loads, check, faults, plan, base, known, editing, history, sent>>
      /\ form' = [form EXCEPT ![t][x] = v] /\ typed' = [typed EXCEPT ![t] = @ \cup Decided(x)]
      /\ edits < MaxEdits /\ edits' = edits + 1
  BY DEF Type, server
<1>2. TypedPages /\ TypedTab(t) /\ FormIsTrue(t) /\ BaseIsTrue(t)
  BY DEF Everything, Types, TypedPages, Truth
<1>3. f \in Form /\ x \in DOMAIN form[t] /\ x \in Field
  BY <1>2 DEF TypedTab
<1>4. /\ DOMAIN form'[t] = DOMAIN form[t] /\ form'[t][x] = v
      /\ \A y \in DOMAIN form[t] \ {x} : form'[t][y] = form[t][y]
      /\ typed'[t] = typed[t] \cup Decided(x)
      /\ \A y \in Tabs \ {t} : form'[y] = form[y] /\ typed'[y] = typed[y]
      /\ DOMAIN form' = Tabs /\ DOMAIN typed' = Tabs
  BY <1>1, <1>2, <1>3 DEF TypedPages
<1>5. Decided(x) \subseteq Field
  BY <1>3, Sections, FieldsAre DEF Decided
<1>6. /\ v \in Value
      /\ x = "login_path" => v \in AmongSent(x)
      /\ x \in FieldsOf["overrides"] => v \in Among(x)
      /\ x \in FieldsOf["matrix"] => v \in Among(x)
  <2>1. CASE x = "login_path"
    <3>1. v \in {t, "hidden", "Hidden"}
      BY <2>1, Sections DEF Choices
    <3> QED
      BY <2>1, <3>1, Sections, AmongIs, ZenonT(40) DEF Value, LoginPaths
  <2>2. CASE x \in FieldsOf["overrides"]
    BY <2>2, Sections, AmongIs DEF Choices, Value
  <2>3. CASE x \in FieldsOf["matrix"]
    BY <2>3, Sections, AmongIs DEF Choices, Value
  <2>4. CASE x \notin FieldsOf["overrides"] \cup FieldsOf["matrix"] \cup {"login_path"}
    BY <2>4 DEF Choices, Value
  <2> QED
    BY <2>1, <2>2, <2>3, <2>4
<1>7. TypedTab(t)'
  BY <1>1, <1>2, <1>4, <1>5, <1>6 DEF TypedTab, history
<1>8. FormIsTrue(t)'
  <2>1. \A y \in DOMAIN form[t] \ Decided(x) : Carried(t, y)' = Carried(t, y) /\ form'[t][y] = form[t][y]
    <3>1. ASSUME NEW y \in DOMAIN form[t] \ Decided(x)
          PROVE  Carried(t, y)' = Carried(t, y) /\ form'[t][y] = form[t][y]
      <4>1. y # x
        BY DEF Decided
      <4>2. CASE y \notin FieldsOf["auth"]
        BY <1>4, <4>1, <4>2 DEF Carried
      <4>3. CASE y \in FieldsOf["auth"]
        <5>1. x \notin FieldsOf["auth"] /\ x # "enabled" /\ x # "link_ids"
          BY <4>3, Sections DEF Decided
        <5>2. form'[t]["enabled"] = form[t]["enabled"] /\ form'[t]["link_ids"] = form[t]["link_ids"]
          BY <1>1, <1>2, <5>1 DEF TypedPages
        <5> QED
          BY <1>4, <4>1, <5>2 DEF Carried, SettingOf
      <4> QED
        BY <4>2, <4>3
    <3> QED
      BY <3>1
  <2> QED
    BY <1>1, <1>2, <1>4, <2>1 DEF FormIsTrue, Shows, Decided, history
<1>9. BaseIsTrue(t)'
  BY <1>1, <1>2, <1>4 DEF BaseIsTrue, history
<1>10. \A y \in Tabs \ {t} : TypedTab(y)' /\ FormIsTrue(y)' /\ BaseIsTrue(y)'
  BY <1>1, <1>4, OtherTab DEF history
<1>11. TypedPages'
  BY <1>1, <1>2, <1>4, <1>7, <1>10 DEF TypedPages, history
<1>12. TypedCheck' /\ Counted'
  BY <1>1, FormsAssumption DEF Everything, Types, TypedCheck, Counted
<1> QED
  BY <1>1, <1>8, <1>9, <1>10, <1>11, <1>12, RestStep

LEMMA EditStep ==
  ASSUME Everything, NEW t \in Tabs, Edit(t)
  PROVE  Types' /\ Truth'
<1>1. /\ UNCHANGED <<stored, saves, loads, check, faults, plan, form, base, known, typed, history, edits, sent>>
      /\ editing' = [editing EXCEPT ![t] = TRUE]
  BY DEF Edit, server
<1>2. TypedPages /\ \A x \in Tabs : TypedTab(x) /\ FormIsTrue(x) /\ BaseIsTrue(x)
  BY DEF Everything, Types, TypedPages, Truth
<1>3. TypedPages'
  BY <1>1, <1>2 DEF TypedPages, TypedTab, history
<1>4. \A x \in Tabs : FormIsTrue(x)' /\ BaseIsTrue(x)'
  <2>0. /\ form' = form /\ stored' = stored /\ known' = known /\ typed' = typed /\ behind' = behind
        /\ reverted' = reverted
    BY <1>1 DEF history
  <2>1. ASSUME NEW x \in Tabs  PROVE  FormIsTrue(x)'
    <3>1. FormIsTrue(x)
      BY <1>2
    <3>2. \A f, v : Shows(x, f, v)' <=> Shows(x, f, v)
      BY <2>0 DEF Shows, Carried, SettingOf
    <3> QED
      BY <2>0, <3>1, <3>2 DEF FormIsTrue
  <2>2. \A x \in Tabs : BaseIsTrue(x)'
    BY <1>1, <1>2 DEF BaseIsTrue, history
  <2> QED
    BY <2>1, <2>2
<1>5. TypedCheck' /\ Counted'
  BY <1>1 DEF Everything, Types, TypedCheck, Counted
<1> QED
  BY <1>1, <1>3, <1>4, <1>5, RestStep

\* Cancel brings back what the last load brought.
LEMMA CancelStep ==
  ASSUME Everything, NEW t \in Tabs, CancelEdit(t)
  PROVE  Types' /\ Truth'
<1>1. /\ UNCHANGED <<stored, saves, loads, check, faults, plan, base, known, behind, own, edits, sent>>
      /\ form' = [form EXCEPT ![t] = base[t]] /\ typed' = [typed EXCEPT ![t] = {}]
      /\ editing' = [editing EXCEPT ![t] = FALSE] /\ reverted' = [reverted EXCEPT ![t] = own[t]]
      /\ Ready(t, "link")
  BY DEF CancelEdit, server
<1>2. TypedPages /\ TypedTab(t) /\ BaseIsTrue(t) /\ TypedRows
  BY DEF Everything, Types, TypedPages, Truth
<1>3. "link" \in plan[t] /\ "link" \in known[t]
  BY <1>1, FormsAre, ReadyIs
<1>4. DOMAIN form[t] = FieldsOf["link"] /\ DOMAIN base[t] = FieldsOf["link"]
  BY <1>2, <1>3 DEF TypedTab
<1>5. /\ form'[t] = base[t] /\ typed'[t] = {} /\ editing'[t] = FALSE /\ reverted'[t] = own[t]
      /\ \A y \in Tabs \ {t} : /\ form'[y] = form[y] /\ typed'[y] = typed[y]
                               /\ editing'[y] = editing[y] /\ reverted'[y] = reverted[y]
      /\ DOMAIN form' = Tabs /\ DOMAIN typed' = Tabs /\ DOMAIN editing' = Tabs /\ DOMAIN reverted' = Tabs
  BY <1>1, <1>2 DEF TypedPages
<1>6. \A f \in FieldsOf["link"] :
        /\ f # "login_path" /\ f \notin FieldsOf["overrides"] \cup FieldsOf["matrix"] \cup FieldsOf["auth"]
        /\ f \notin Hidden /\ SectionOf(f) = "link" /\ f \in Field
  BY Sections, HiddenIs, SectionIs, FieldsAre
<1>7. TypedTab(t)'
  BY <1>1, <1>2, <1>4, <1>5, <1>6 DEF TypedTab
<1>8. ASSUME NEW f \in FieldsOf["link"] \ (behind[t] \cup own[t])
      PROVE  Carried(t, f)' = stored[f]
  <2>1. base[t][f] = stored[f]
    BY <1>2, <1>3, <1>4, <1>6 DEF BaseIsTrue, Restored
  <2>2. AsSent(f, stored[f]) = stored[f]
    BY <1>2, <1>6, SentAsStored DEF TypedRows
  <2> QED
    BY <1>5, <1>6, <2>1, <2>2 DEF Carried
<1>9. FormIsTrue(t)'
  BY <1>1, <1>4, <1>5, <1>6, <1>8 DEF FormIsTrue, Shows
<1>10. BaseIsTrue(t)'
  BY <1>1, <1>2, <1>4, <1>5 DEF BaseIsTrue
<1>11. \A y \in Tabs \ {t} : TypedTab(y)' /\ FormIsTrue(y)' /\ BaseIsTrue(y)'
  BY <1>1, <1>5, OtherTab
<1>12. TypedPages'
  BY <1>1, <1>2, <1>5, <1>7, <1>11 DEF TypedPages
<1>13. TypedCheck' /\ Counted'
  BY <1>1 DEF Everything, Types, TypedCheck, Counted
<1> QED
  BY <1>1, <1>9, <1>10, <1>11, <1>12, <1>13, RestStep

LEMMA ConfirmStep ==
  ASSUME Everything, NEW r \in saves, Confirm(r) \/ Dismiss(r)
  PROVE  Types' /\ Truth'
<1>1. /\ r.stage = "asked"
      /\ UNCHANGED <<stored, loads, check, faults, plan, form, base, known, editing, typed, history, edits, sent>>
  BY DEF Confirm, Dismiss, browser
<1>2. IsSave(r) /\ TypedSave(r) /\ Honest(r)
  BY DEF Everything, IInv, Types, Truth
<1>3. \A n \in saves' \ saves : TypedSave(n) /\ Honest(n)
  <2>1. CASE Confirm(r)
    <3> DEFINE m == [r EXCEPT !.stage = "sent"]
    <3>1. saves' = (saves \ {r}) \cup {m}
      BY <2>1 DEF Confirm
    <3>2. Same(m, r) /\ m.stage = "sent" /\ m.secret = r.secret
      BY <1>2, WithStage DEF Same
    <3> HIDE DEF m
    <3>3. TypedSave(m) /\ Honest(m)
      BY <1>2, <3>2 DEF TypedSave, Honest, Same
    <3> QED
      BY <3>1, <3>3
  <2>2. CASE Dismiss(r)
    BY <2>2 DEF Dismiss
  <2> QED
    BY <2>1, <2>2
<1>4. TypedPages' /\ \A t \in Tabs : FormIsTrue(t)' /\ BaseIsTrue(t)'
  BY <1>1, PagesRest
<1>5. TypedCheck' /\ Counted'
  BY <1>1 DEF Everything, Types, TypedCheck, Counted
<1> QED
  BY <1>1, <1>3, <1>4, <1>5, RestStep

LEMMA NewLoad ==
  ASSUME NEW t \in Tabs, NEW by, NEW todo \in Seq(Section), todo # <<>>
  PROVE  TypedLoad(LoadOf(t, by, todo)) /\ Fresh(LoadOf(t, by, todo))
BY DEF LoadOf, TypedLoad, IsLoad, Fresh, Loading

LEMMA AgainIs ==
  ASSUME NEW f \in Form, Forms[f].again # "no"
  PROVE  Forms[f].again \in Section
BY FormsAre, Sections

LEMMA SucceedStep ==
  ASSUME Everything, NEW r \in saves, Succeed(r)
  PROVE  Types' /\ Truth'
<1> DEFINE t == r.tab
           kind == Forms[r.form]
           now == Body(r.form, form[t])
           told == {f \in DOMAIN r.body \ r.stale : f \in DOMAIN now /\ now[f] = r.body[f]}
<1>1. IsSave(r) /\ TypedSave(r) /\ Honest(r) /\ Kept(r) /\ t \in Tabs /\ r.form \in Form
  BY DEF Everything, IInv, Types, Truth, IsSave, TypedSave
<1>2. TypedPages /\ TypedTab(t) /\ FormIsTrue(t) /\ BaseIsTrue(t)
  BY <1>1 DEF Everything, Types, TypedPages, Truth
<1>3. /\ r.stage = "done"
      /\ UNCHANGED <<stored, check, faults, plan, base, known, editing, history, edits, sent>>
      /\ form' = [form EXCEPT ![t] = [f \in DOMAIN @ |-> IF f \in kind.hidden THEN Blank ELSE @[f]]]
      /\ typed' = [typed EXCEPT ![t] = @ \ (kind.hidden \cup told)]
  BY DEF Succeed
<1>4. \A f \in told : f \in DOMAIN r.body /\ f \notin r.stale /\ f \in DOMAIN now /\ now[f] = r.body[f]
  OBVIOUS
<1>5. /\ DOMAIN now \subseteq kind.fields /\ \A x \in DOMAIN now : now[x] = Carried(t, x)
  BY <1>1, BodyIs
<1> HIDE DEF told, now
<1>6. /\ form'[t] = [f \in DOMAIN form[t] |-> IF f \in kind.hidden THEN Blank ELSE form[t][f]]
      /\ typed'[t] = typed[t] \ (kind.hidden \cup told)
      /\ \A y \in Tabs \ {t} : form'[y] = form[y] /\ typed'[y] = typed[y]
      /\ DOMAIN form' = Tabs /\ DOMAIN typed' = Tabs
  BY <1>1, <1>2, <1>3 DEF TypedPages
<1>7. \A f \in kind.hidden : /\ f \in Hidden
                             /\ f \notin FieldsOf["auth"] /\ f \notin FieldsOf["overrides"]
                             /\ f \notin FieldsOf["matrix"] /\ f # "login_path" /\ f # "enabled" /\ f # "link_ids"
  BY <1>1, FormsAre, HiddenIs, Sections
<1>8. TypedTab(t)'
  <2>1. DOMAIN form'[t] = DOMAIN form[t] /\ typed'[t] \subseteq typed[t]
    BY <1>6
  <2>2. ASSUME NEW f \in DOMAIN form[t]
        PROVE  /\ form'[t][f] \in Value
               /\ f = "login_path" => form'[t][f] \in AmongSent(f)
               /\ f \in FieldsOf["overrides"] => form'[t][f] \in Among(f) \cup {Blank}
               /\ f \in FieldsOf["matrix"] /\ "matrix" \in known[t] => form'[t][f] \in Among(f)
    <3>1. CASE f \in kind.hidden
      BY <1>6, <1>7, <3>1, AmongIs
    <3>2. CASE f \notin kind.hidden
      BY <1>2, <1>6, <3>2 DEF TypedTab
    <3> QED
      BY <3>1, <3>2
  <2> QED
    BY <1>2, <1>3, <2>1, <2>2 DEF TypedTab, history
<1>9. FormIsTrue(t)'
  <2>1. ASSUME NEW f \in DOMAIN form[t] \ kind.hidden
        PROVE  form'[t][f] = form[t][f] /\ Carried(t, f)' = Carried(t, f)
    <3>1. form'[t][f] = form[t][f]
      BY <1>6
    <3>2. CASE f \in FieldsOf["auth"]
      <4>1. "enabled" \in DOMAIN form[t] /\ "link_ids" \in DOMAIN form[t]
        BY <1>2, <3>2, Sections DEF TypedTab
      <4>2. form'[t]["enabled"] = form[t]["enabled"] /\ form'[t]["link_ids"] = form[t]["link_ids"]
        BY <1>6, <1>7, <4>1
      <4> QED
        BY <3>1, <4>2 DEF Carried, SettingOf
    <3>3. CASE f \notin FieldsOf["auth"]
      BY <3>1, <3>3 DEF Carried
    <3> QED
      BY <3>1, <3>2, <3>3
  <2>2. ASSUME NEW f \in told, f \notin kind.hidden
        PROVE  f \notin Hidden /\ Shows(t, f, stored[f])
               /\ (f \in FieldsOf["overrides"] => form[t][f] = stored[f])
    <3>1. f \in kind.fields /\ f \notin Hidden /\ f # "auth_secret" /\ f \in Field
      BY <1>1, <1>4, <1>5, <2>2, FieldOfForm
    <3>2. stored[f] = Stores(f, r.body[f]) /\ r.body[f] = Carried(t, f)
      BY <1>1, <1>3, <1>4, <1>5, <3>1 DEF Kept
    <3>3. f \in FieldsOf["overrides"] => f \notin FieldsOf["auth"] /\ f \notin Texts
      BY Sections DEF Texts
    <3>4. f \in FieldsOf["overrides"] => Carried(t, f) = form[t][f]
      BY <3>3, SentAsShown DEF Carried
    <3> QED
      BY <3>1, <3>2, <3>4, StoresIs DEF Shows
  <2>3. ASSUME NEW f \in DOMAIN form[t] \ (typed'[t] \cup behind[t] \cup reverted[t])
        PROVE  /\ f \in Hidden => form'[t][f] = Blank
               /\ f \notin Hidden /\ SectionOf(f) \in known[t] => Shows(t, f, stored[f])'
               /\ f \in FieldsOf["overrides"] /\ "overrides" \notin known[t] =>
                    form'[t][f] \in {Blank, stored[f]}
    <3>1. CASE f \in kind.hidden
      BY <1>6, <1>7, <3>1
    <3>2. CASE f \in told /\ f \notin kind.hidden
      BY <1>3, <2>1, <2>2, <2>3, <3>2 DEF Shows
    <3>3. CASE f \notin told /\ f \notin kind.hidden
      BY <1>2, <1>3, <1>6, <2>1, <2>3, <3>3 DEF FormIsTrue, Shows
    <3> QED
      BY <3>1, <3>2, <3>3
  <2> QED
    BY <1>3, <1>6, <2>3 DEF FormIsTrue, Shows, history
<1>10. BaseIsTrue(t)'
  BY <1>2, <1>3, <1>6 DEF BaseIsTrue, history
<1>11. \A y \in Tabs \ {t} : TypedTab(y)' /\ FormIsTrue(y)' /\ BaseIsTrue(y)'
  BY <1>3, <1>6, OtherTab DEF history
<1>12. TypedPages'
  BY <1>2, <1>3, <1>6, <1>8, <1>11 DEF TypedPages, history
<1>13. TypedCheck' /\ Counted'
  BY <1>3 DEF Everything, Types, TypedCheck, Counted
<1>14. CASE kind.again = "no"
  <2>1. saves' = saves \ {r} /\ loads' = loads
    BY <1>14 DEF Succeed
  <2> QED
    BY <1>1, <1>3, <1>9, <1>10, <1>11, <1>12, <1>13, <2>1, RestStep
<1>15. CASE kind.again # "no"
  <2> DEFINE m == [r EXCEPT !.stage = "again"]
             l == LoadOf(t, r.form, <<kind.again>>)
  <2>1. saves' = (saves \ {r}) \cup {m} /\ loads' = loads \cup {l}
    BY <1>15 DEF Succeed
  <2>2. Same(m, r) /\ m.stage = "again" /\ m.secret = r.secret
    BY <1>1, WithStage DEF Same
  <2> HIDE DEF m
  <2>3. TypedSave(m) /\ Honest(m)
    BY <1>1, <2>2 DEF TypedSave, Honest, Same
  <2>4. TypedLoad(l) /\ Fresh(l)
    <3>1. kind.again \in Section
      BY <1>1, <1>15, AgainIs
    <3>2. <<kind.again>> \in Seq(Section) /\ <<kind.again>> # <<>>
      BY <3>1
    <3> QED
      BY <1>1, <3>2, NewLoad
  <2> HIDE DEF l
  <2> QED
    BY <1>1, <1>3, <1>9, <1>10, <1>11, <1>12, <1>13, <2>1, <2>3, <2>4, RestStep
<1> QED
  BY <1>14, <1>15

LEMMA FailStep ==
  ASSUME Everything, NEW r \in saves, Fail(r)
  PROVE  Types' /\ Truth'
<1>1. /\ saves' = saves \ {r}
      /\ UNCHANGED <<stored, loads, check, faults, plan, form, base, known, editing, typed, history, edits, sent>>
  BY DEF Fail
<1>2. TypedPages' /\ \A t \in Tabs : FormIsTrue(t)' /\ BaseIsTrue(t)'
  BY <1>1, PagesRest
<1>3. TypedCheck' /\ Counted'
  BY <1>1 DEF Everything, Types, TypedCheck, Counted
<1> QED
  BY <1>1, <1>2, <1>3, RestStep

----------------------------------------------------------------------------
(* The answers of the loads.                                                *)

LEMMA ShownIs ==
  ASSUME NEW s \in Section, NEW answer, DOMAIN answer = FieldsOf[s],
         \A f \in DOMAIN answer : answer[f] \in Among(f)
  PROVE  LET row == Shown(s, answer)
         IN  /\ DOMAIN row = FieldsOf[s]
             /\ \A f \in DOMAIN row : /\ row[f] \in Value
                                      /\ f \in Hidden => row[f] = Blank
                                      /\ f \notin Hidden /\ s # "auth" => row[f] = answer[f]
             /\ s = "auth" => /\ SettingOf(row)["enabled"] = answer["enabled"]
                              /\ Scoped(answer) => SettingOf(row)["link_ids"] = answer["link_ids"]
<1> DEFINE row == Shown(s, answer)
<1>1. \A f \in DOMAIN answer : answer[f] \in Value
  <2>1. \A f \in DOMAIN answer : f \in Field
    BY DEF Field
  <2> QED
    BY <2>1, AmongIs
<1>2. Blank \in Value /\ {"all", "specific", "off"} \subseteq Value
  BY AmongIs DEF Value
<1>3. CASE s = "auth"
  <2>1. row = ScopeOf(answer)
    BY <1>3 DEF Shown
  <2>2. DOMAIN answer = {"enabled", "link_ids"} /\ answer["enabled"] \in {"all", "off"}
    BY <1>3, Sections, AmongIs
  <2>3. \A f \in {"enabled", "link_ids"} : f \notin Hidden
    BY HiddenIs
  <2>4. /\ SettingOf(row)["enabled"] = answer["enabled"]
        /\ Scoped(answer) => SettingOf(row)["link_ids"] = answer["link_ids"]
        /\ DOMAIN row = {"enabled", "link_ids"}
        /\ row["enabled"] \in {"all", "specific", "off"} /\ row["link_ids"] \in {Blank, answer["link_ids"]}
    BY <2>1, <2>2, SettingOfScope DEF Scoped
  <2> HIDE DEF row
  <2>5. \A f \in DOMAIN row : row[f] \in Value /\ f \notin Hidden
    BY <1>1, <1>2, <2>2, <2>3, <2>4
  <2> QED
    BY <1>3, <2>2, <2>4, <2>5 DEF row
<1>4. CASE s # "auth"
  BY <1>1, <1>2, <1>4 DEF Shown
<1> QED
  BY <1>3, <1>4

\* The page after the load l has brought a section.
LEMMA BroughtStep ==
  ASSUME Everything, NEW l \in loads, l.stage = "answered", Brought(l), UNCHANGED <<stored, plan>>,
         DOMAIN editing' = Tabs, editing'[l.tab] \in BOOLEAN,
         \A x \in Tabs \ {l.tab} : editing'[x] = editing[x]
  PROVE  TypedPages' /\ \A x \in Tabs : FormIsTrue(x)' /\ BaseIsTrue(x)'
<1> DEFINE t == l.tab
           section == Loading(l)
           row == Shown(section, l.answer)
<1>1. TypedLoad(l) /\ Fresh(l) /\ TypedPages /\ t \in Tabs /\ section \in Section
  BY DEF Everything, Types, Truth, TypedLoad, Loading
<1>2. TypedTab(t) /\ FormIsTrue(t) /\ BaseIsTrue(t) /\ TypedRows
  BY <1>1 DEF Everything, Types, TypedPages, Truth
<1>3. /\ form' = [form EXCEPT ![t] = [f \in DOMAIN @ |-> IF f \in DOMAIN row THEN row[f] ELSE @[f]]]
      /\ base' = [base EXCEPT ![t] = [f \in DOMAIN @ |-> IF f \in DOMAIN row THEN row[f] ELSE @[f]]]
      /\ known' = [known EXCEPT ![t] = @ \cup {section}]
      /\ typed' = [typed EXCEPT ![t] = @ \ DOMAIN row]
      /\ behind' = [behind EXCEPT ![t] = (@ \ DOMAIN row) \cup (l.missed \cap DOMAIN row)]
      /\ own' = [own EXCEPT ![t] = (@ \ DOMAIN row) \cup (l.crossed \cap DOMAIN row)]
      /\ reverted' = [reverted EXCEPT ![t] = (@ \ DOMAIN row) \cup (l.crossed \cap DOMAIN row)]
  BY DEF Brought
<1>4. DOMAIN l.answer = FieldsOf[section] /\ \A f \in DOMAIN l.answer : l.answer[f] \in Among(f)
  BY <1>1 DEF TypedLoad
<1>5. /\ DOMAIN row = FieldsOf[section]
      /\ \A f \in DOMAIN row : /\ row[f] \in Value
                               /\ f \in Hidden => row[f] = Blank
                               /\ f \notin Hidden /\ section # "auth" => row[f] = l.answer[f]
      /\ section = "auth" => /\ SettingOf(row)["enabled"] = l.answer["enabled"]
                             /\ Scoped(l.answer) => SettingOf(row)["link_ids"] = l.answer["link_ids"]
  BY <1>1, <1>4, ShownIs
<1>6. /\ \A f \in DOMAIN l.answer \ (l.missed \cup l.crossed) : l.answer[f] = stored[f]
      /\ section = "auth" /\ "link_ids" \notin l.missed \cup l.crossed => Scoped(l.answer)
      /\ l.missed \subseteq Field /\ l.crossed \subseteq Field
  BY <1>1 DEF Fresh, TypedLoad
<1> HIDE DEF row, section
<1>7. /\ form'[t] = [f \in DOMAIN form[t] |-> IF f \in DOMAIN row THEN row[f] ELSE form[t][f]]
      /\ base'[t] = [f \in DOMAIN base[t] |-> IF f \in DOMAIN row THEN row[f] ELSE base[t][f]]
      /\ known'[t] = known[t] \cup {section} /\ typed'[t] = typed[t] \ DOMAIN row
      /\ behind'[t] = (behind[t] \ DOMAIN row) \cup (l.missed \cap DOMAIN row)
      /\ own'[t] = (own[t] \ DOMAIN row) \cup (l.crossed \cap DOMAIN row)
      /\ reverted'[t] = (reverted[t] \ DOMAIN row) \cup (l.crossed \cap DOMAIN row)
      /\ \A y \in Tabs \ {t} : /\ form'[y] = form[y] /\ base'[y] = base[y] /\ known'[y] = known[y]
                               /\ typed'[y] = typed[y] /\ behind'[y] = behind[y]
                               /\ own'[y] = own[y] /\ reverted'[y] = reverted[y]
      /\ DOMAIN form' = Tabs /\ DOMAIN base' = Tabs /\ DOMAIN known' = Tabs /\ DOMAIN typed' = Tabs
      /\ DOMAIN behind' = Tabs /\ DOMAIN own' = Tabs /\ DOMAIN reverted' = Tabs
  BY <1>1, <1>3 DEF TypedPages
\* A field is brought by the load of its section, and by no other.
<1>8. \A f \in DOMAIN row : SectionOf(f) = section
  BY <1>1, <1>5, SectionIs
<1>9. ASSUME NEW f \in DOMAIN form[t] \ DOMAIN row
      PROVE  /\ f \notin Hidden /\ SectionOf(f) \in known'[t] => SectionOf(f) \in known[t]
             /\ Carried(t, f)' = Carried(t, f) /\ form'[t][f] = form[t][f]
  <2>1. f \notin Hidden => SectionOf(f) # section
    <3>1. SUFFICES ASSUME f \notin Hidden
                   PROVE  SectionOf(f) # section
      OBVIOUS
    <3>2. PICK s \in Section : f \in FieldsOf[s]
      BY <1>2, <3>1, HiddenIs DEF TypedTab, Field
    <3>3. SectionOf(f) = s
      BY <3>2, SectionIs
    <3> QED
      BY <1>5, <1>9, <3>2, <3>3
  <2>2. form'[t][f] = form[t][f]
    BY <1>7, <1>9
  <2>3. CASE f \in FieldsOf["auth"]
    <3>1. section # "auth"
      BY <1>5, <1>9, <2>3
    <3>2. "enabled" \in DOMAIN form[t] /\ "link_ids" \in DOMAIN form[t]
      BY <1>2, <2>3, Sections DEF TypedTab
    <3>3. "enabled" \notin DOMAIN row /\ "link_ids" \notin DOMAIN row
      BY <1>1, <1>5, <3>1, Sections
    <3>4. form'[t]["enabled"] = form[t]["enabled"] /\ form'[t]["link_ids"] = form[t]["link_ids"]
      BY <1>7, <3>2, <3>3
    <3> QED
      BY <1>7, <2>1, <2>2, <3>4 DEF Carried, SettingOf
  <2>4. CASE f \notin FieldsOf["auth"]
    BY <1>7, <2>1, <2>2, <2>4 DEF Carried
  <2> QED
    BY <2>3, <2>4
<1>10. TypedTab(t)'
  <2>1. \A f \in DOMAIN form[t] \cap DOMAIN row :
          /\ f = "login_path" => row[f] \in AmongSent(f)
          /\ f \in FieldsOf["overrides"] \cup FieldsOf["matrix"] => row[f] \in Among(f)
    <3>1. ASSUME NEW f \in DOMAIN row,
                 f = "login_path" \/ f \in FieldsOf["overrides"] \/ f \in FieldsOf["matrix"]
          PROVE  row[f] \in Among(f)
      <4>1. f \notin Hidden /\ section # "auth"
        BY <1>5, <3>1, Sections, HiddenIs
      <4> QED
        BY <1>4, <1>5, <4>1
    <3>2. \A f \in DOMAIN row : f \in Field
      BY <1>1, <1>5 DEF Field
    <3>3. "login_path" \in DOMAIN row => row["login_path"] \in AmongSent("login_path")
      BY <3>1, AmongIs
    <3> QED
      BY <3>1, <3>3
  <2>2. \A f \in DOMAIN form[t] :
          f \in FieldsOf["matrix"] /\ "matrix" \in known'[t] => form'[t][f] \in Among(f)
    BY <1>2, <1>5, <1>7, <2>1 DEF TypedTab
  <2>3. \A f \in DOMAIN form[t] :
          /\ form'[t][f] \in Value /\ base'[t][f] \in Value
          /\ f = "login_path" => form'[t][f] \in AmongSent(f)
          /\ f \in FieldsOf["overrides"] => form'[t][f] \in Among(f) \cup {Blank}
    BY <1>2, <1>5, <1>7, <2>1 DEF TypedTab
  <2>4. /\ known'[t] \subseteq Section /\ typed'[t] \subseteq Field /\ behind'[t] \subseteq Field
        /\ own'[t] \subseteq Field /\ reverted'[t] \subseteq own'[t]
    BY <1>1, <1>2, <1>6, <1>7 DEF TypedTab
  <2>5. DOMAIN form'[t] = DOMAIN form[t] /\ DOMAIN base'[t] = DOMAIN base[t]
    BY <1>7
  <2> QED
    BY <1>2, <2>2, <2>3, <2>4, <2>5 DEF TypedTab
<1>11. ASSUME NEW f \in DOMAIN form[t] \cap DOMAIN row, f \notin behind'[t] \cup reverted'[t], f \notin Hidden
       PROVE  Carried(t, f)' = stored[f] /\ l.answer[f] = stored[f]
  <2>1. f \notin l.missed \cup l.crossed /\ l.answer[f] = stored[f] /\ form'[t][f] = row[f] /\ f \in Field
    BY <1>2, <1>4, <1>5, <1>6, <1>7, <1>11 DEF TypedTab
  <2>2. CASE section # "auth"
    <3>1. f \notin FieldsOf["auth"]
      BY <1>1, <1>5, <1>11, <2>2, Sections
    <3>2. row[f] = stored[f] /\ AsSent(f, stored[f]) = stored[f]
      BY <1>2, <1>5, <1>11, <2>1, <2>2, SentAsStored DEF TypedRows
    <3> QED
      BY <2>1, <3>1, <3>2 DEF Carried
  <2>3. CASE section = "auth"
    <3>1. f \in {"enabled", "link_ids"} /\ DOMAIN row = {"enabled", "link_ids"} /\ f \in FieldsOf["auth"]
      BY <1>5, <1>11, <2>3, Sections
    <3>2. form'[t]["enabled"] = row["enabled"] /\ form'[t]["link_ids"] = row["link_ids"]
      BY <1>2, <1>7, <1>11, <3>1 DEF TypedTab
    <3>3. Carried(t, f)' = SettingOf(row)[f]
      BY <3>1, <3>2 DEF Carried, SettingOf
    <3> QED
      BY <1>5, <1>6, <2>1, <2>3, <3>1, <3>3
  <2> QED
    BY <2>2, <2>3
<1>12. FormIsTrue(t)'
  <2>1. SUFFICES ASSUME NEW f \in DOMAIN form[t] \ (typed'[t] \cup behind'[t] \cup reverted'[t])
                 PROVE  /\ f \in Hidden => form'[t][f] = Blank
                        /\ f \notin Hidden /\ SectionOf(f) \in known'[t] => Shows(t, f, stored[f])'
                        /\ f \in FieldsOf["overrides"] /\ "overrides" \notin known'[t] =>
                             form'[t][f] \in {Blank, stored[f]}
    BY <1>7 DEF FormIsTrue
  <2>2. CASE f \in DOMAIN row
    <3>1. f \in FieldsOf["overrides"] => section = "overrides"
      BY <1>1, <1>5, <2>2, Sections
    <3>2. f \notin Hidden => Shows(t, f, stored[f])'
      BY <1>11, <2>1, <2>2 DEF Shows
    <3> QED
      BY <1>5, <1>7, <2>1, <2>2, <3>1, <3>2
  <2>3. CASE f \notin DOMAIN row
    <3>1. f \notin typed[t] \cup behind[t] \cup reverted[t]
      BY <1>7, <2>1, <2>3
    <3>2. Shows(t, f, stored[f])' <=> Shows(t, f, stored[f])
      BY <1>9, <2>1, <2>3 DEF Shows
    <3> QED
      BY <1>2, <1>7, <1>9, <2>1, <2>3, <3>1, <3>2 DEF FormIsTrue
  <2> QED
    BY <2>2, <2>3
<1>13. BaseIsTrue(t)'
  <2>1. SUFFICES ASSUME NEW f \in (DOMAIN form[t] \cap Restored) \ (behind'[t] \cup own'[t]),
                        SectionOf(f) \in known'[t]
                 PROVE  base'[t][f] = stored[f]
    BY <1>7 DEF BaseIsTrue
  <2>2. f \notin Hidden /\ f \notin FieldsOf["auth"] /\ f \in DOMAIN base[t]
    BY <1>2, HiddenIs, Sections DEF Restored, TypedTab
  <2>3. CASE f \in DOMAIN row
    <3>1. f \notin behind'[t] \cup reverted'[t] /\ section # "auth"
      BY <1>5, <1>7, <2>1, <2>2, <2>3
    <3>2. base'[t][f] = row[f] /\ row[f] = l.answer[f]
      BY <1>5, <1>7, <2>2, <2>3, <3>1
    <3> QED
      BY <1>11, <2>1, <2>2, <2>3, <3>1, <3>2
  <2>4. CASE f \notin DOMAIN row
    <3>1. SectionOf(f) \in known[t] /\ f \notin behind[t] \cup own[t] /\ base'[t][f] = base[t][f]
      BY <1>7, <1>9, <2>1, <2>2, <2>4
    <3> QED
      BY <1>2, <2>1, <3>1 DEF BaseIsTrue
  <2> QED
    BY <2>3, <2>4
<1>14. \A y \in Tabs \ {t} : TypedTab(y)' /\ FormIsTrue(y)' /\ BaseIsTrue(y)'
  BY <1>7, OtherTab
<1> QED
  BY <1>7, <1>10, <1>12, <1>13, <1>14 DEF TypedPages

LEMMA TailIs ==
  ASSUME NEW S, NEW q \in Seq(S), Len(q) > 1
  PROVE  Tail(q) \in Seq(S) /\ Tail(q) # <<>>
<1>1. Len(q) \in Nat /\ q # <<>>
  BY LenProperties, EmptySeq
<1>2. Tail(q) \in Seq(S) /\ Len(Tail(q)) = Len(q) - 1
  BY <1>1, HeadTailProperties
<1>3. ASSUME Tail(q) = <<>>
      PROVE  FALSE
  <2>1. Len(Tail(q)) = 0
    BY <1>3, EmptySeq, Zenon
  <2>2. ASSUME NEW n \in Nat, n > 1, n - 1 = 0
        PROVE  FALSE
    BY <2>2
  <2>3. Len(q) > 1 /\ Len(q) - 1 = 0
    BY <1>2, <2>1, Zenon
  <2> QED
    BY <1>1, <2>2, <2>3, Zenon
<1> QED
  BY <1>2, <1>3

LEMMA NextLoads ==
  ASSUME NEW l, TypedLoad(l), NEW n \in Next_(l)
  PROVE  TypedLoad(n) /\ Fresh(n)
<1>1. Len(l.todo) > 1 /\ n = LoadOf(l.tab, "mount", Tail(l.todo))
  BY DEF Next_
<1>2. l.todo \in Seq(Section) /\ l.tab \in Tabs
  BY DEF TypedLoad
<1>3. Tail(l.todo) \in Seq(Section) /\ Tail(l.todo) # <<>>
  BY <1>1, <1>2, TailIs
<1> QED
  BY <1>1, <1>2, <1>3, NewLoad

LEMMA ReceiveStep ==
  ASSUME Everything, NEW l \in loads, ReceiveMounted(l) \/ ReceiveAgain(l)
  PROVE  Types' /\ Truth'
<1>1. TypedLoad(l) /\ TypedPages
  BY DEF Everything, Types
<1>2. /\ UNCHANGED <<stored, check, faults, plan, edits, sent>>
      /\ l.stage = "answered" /\ Brought(l) /\ saves' \subseteq saves
  BY DEF ReceiveMounted, ReceiveAgain, Without
<1>3. /\ DOMAIN editing' = Tabs /\ editing'[l.tab] \in BOOLEAN
      /\ \A x \in Tabs \ {l.tab} : editing'[x] = editing[x]
  <2>1. l.tab \in Tabs /\ editing[l.tab] \in BOOLEAN /\ DOMAIN editing = Tabs
    BY <1>1 DEF TypedLoad, TypedPages, TypedTab
  <2>2. CASE ReceiveMounted(l)
    BY <2>1, <2>2 DEF ReceiveMounted
  <2>3. CASE ReceiveAgain(l)
    BY <2>1, <2>3 DEF ReceiveAgain
  <2> QED
    BY <2>2, <2>3
<1>4. TypedPages' /\ \A x \in Tabs : FormIsTrue(x)' /\ BaseIsTrue(x)'
  BY <1>2, <1>3, BroughtStep
<1>5. \A n \in loads' \ loads : TypedLoad(n) /\ Fresh(n)
  BY <1>1, NextLoads DEF ReceiveMounted, ReceiveAgain
<1>6. TypedCheck' /\ Counted'
  BY <1>2 DEF Everything, Types, TypedCheck, Counted
<1> QED
  BY <1>2, <1>4, <1>5, <1>6, RestStep

LEMMA ErrorStep ==
  ASSUME Everything, NEW l \in loads, ReceiveError(l)
  PROVE  Types' /\ Truth'
<1>1. TypedLoad(l)
  BY DEF Everything, Types
<1>2. /\ UNCHANGED <<stored, check, faults, plan, form, base, known, editing, typed, history, edits, sent>>
      /\ saves' \subseteq saves
  BY DEF ReceiveError, Without
<1>3. TypedPages' /\ \A t \in Tabs : FormIsTrue(t)' /\ BaseIsTrue(t)'
  BY <1>2, PagesRest
<1>4. TypedCheck' /\ Counted'
  BY <1>2 DEF Everything, Types, TypedCheck, Counted
<1>5. \A n \in loads' \ loads : TypedLoad(n) /\ Fresh(n)
  BY <1>1, NextLoads DEF ReceiveError
<1> QED
  BY <1>2, <1>3, <1>4, <1>5, RestStep

----------------------------------------------------------------------------
(* The checks, the doors, and the first state.                              *)

LEMMA CheckStep ==
  ASSUME Everything, Checks, UNCHANGED browser
  PROVE  Types' /\ Truth'
<1>1. UNCHANGED <<stored, saves, loads, plan, form, base, known, editing, typed, history, edits, sent>>
  BY DEF Checks, ReadOverride, ReadOverrideFails, ReadRole, ReadRoleFails, browser
<1>2. UNCHANGED faults \/ Fault
  BY DEF Checks, ReadOverride, ReadOverrideFails, ReadRole, ReadRoleFails
<1>3. \A k \in Keys : /\ stored[RoleRow[k]] \in {"allow", "deny"}
                      /\ stored[OwnRow[k]] \in {"default", "allow", "deny"}
  <2>1. TypedRows
    BY DEF Everything, Types
  <2> QED
    BY <2>1, AmongIs, PermissionFields DEF TypedRows
<1>4. TypedCheck'
  <2>1. TypedCheck /\ check.key \in Keys
    BY DEF Everything, Types, IInv, CheckIsFair
  <2>2. CASE \E k \in Checked : ReadOverride(k) \/ ReadOverrideFails(k)
    <3>1. \A k, a : /\ Answers(k, a).stage = "done" /\ Answers(k, a).answer = a
                    /\ AsksRole(k).stage = "role" /\ AsksRole(k).answer = Blank
                    /\ [AsksRole(k) EXCEPT !.failed = TRUE].stage = "role"
                    /\ [AsksRole(k) EXCEPT !.failed = TRUE].answer = Blank
      BY DEF Answers, AsksRole, NoCheck
    <3>2. PICK k \in Keys : ReadOverride(k) \/ ReadOverrideFails(k)
      BY <2>2, RecordsAssumption
    <3>3. CASE ReadOverrideFails(k)
      BY <3>1, <3>3 DEF ReadOverrideFails, TypedCheck
    <3>4. CASE ReadOverride(k)
      BY <1>3, <3>1, <3>4 DEF ReadOverride, TypedCheck
    <3> QED
      BY <3>2, <3>3, <3>4
  <2>3. CASE ReadRole \/ ReadRoleFails
    BY <1>3, <2>1, <2>3 DEF ReadRole, ReadRoleFails, Answers, NoCheck, TypedCheck
  <2> QED
    BY <2>2, <2>3 DEF Checks
<1>5. Counted'
  <2>1. Counted /\ MaxFaults \in Nat
    BY RecordsAssumption DEF Everything, Types
  <2> QED
    BY <1>1, <1>2, <2>1 DEF Counted, Fault
<1>6. TypedPages' /\ \A t \in Tabs : FormIsTrue(t)' /\ BaseIsTrue(t)'
  BY <1>1, PagesRest
<1> QED
  BY <1>1, <1>4, <1>5, <1>6, RestStep

LEMMA PagesStep ==
  ASSUME Everything, NextForms
  PROVE  Types' /\ Truth'
<1>1. CASE \E t \in Tabs : Handles(t)
  BY <1>1, SubmitStep
<1>2. CASE \E t \in Tabs : Edit(t) \/ CancelEdit(t)
  BY <1>2, EditStep, CancelStep
<1>3. CASE \E t \in Tabs : \E f \in plan[t] : \E x \in Forms[f].fields :
             \E v \in Choices(t, x) : Type(t, f, x, v)
  BY <1>3, TypeStep
<1>4. CASE \E r \in saves : Confirm(r) \/ Dismiss(r) \/ Succeed(r) \/ Fail(r)
  BY <1>4, ConfirmStep, SucceedStep, FailStep
<1>5. CASE \E l \in loads : ReceiveMounted(l) \/ ReceiveAgain(l) \/ ReceiveError(l)
  BY <1>5, ReceiveStep, ErrorStep
<1>6. CASE Serves
  <2>1. CASE \E r \in saves : HandlesSave(r) /\ Overtakes(r)
    BY <1>6, <2>1, SaveStep DEF Serves
  <2>2. CASE (\E l \in loads : HandlesLoad(l)) /\ UNCHANGED history
    BY <1>6, <2>2, LoadStep DEF Serves
  <2> QED
    BY <1>6, <2>1, <2>2 DEF Serves
<1>7. CASE Checks /\ UNCHANGED browser
  BY <1>7, CheckStep
<1> QED
  BY <1>1, <1>2, <1>3, <1>4, <1>5, <1>6, <1>7 DEF NextForms

LEMMA EntersFaults ==
  ASSUME Enters
  PROVE  UNCHANGED faults \/ Fault
BY DEF Enters, Visit, Arrive, ArriveUnsure, Redirect, BrandingAnswers, SetupAnswers, MeAnswers, LogIn,
   LogOut, LogOutFails, Acknowledge, SessionEnds, Finish, FinishFails, FinishAnswers, SetUpElsewhere,
   Refreshes, Knows, Misses, server

LEMMA EverythingStep == Everything /\ [Next]_vars => Everything'
<1> SUFFICES ASSUME Everything, [Next]_vars
             PROVE  Types' /\ Truth'
  BY NextIInv DEF Everything
<1>1. CASE FormsStep
  BY <1>1, PagesStep DEF FormsStep
<1>2. CASE DoorsStep \/ UNCHANGED vars
  <2>1. /\ UNCHANGED <<stored, saves, loads, check>> /\ (UNCHANGED faults \/ Fault)
        /\ UNCHANGED <<plan, form, base, known, editing, typed, history, edits, sent>>
    BY <1>2, EntersRests, EntersFaults DEF DoorsStep, vars, server, browser
  <2>2. TypedCheck' /\ Counted'
    <3>1. TypedCheck /\ Counted /\ MaxFaults \in Nat
      BY RecordsAssumption DEF Everything, Types
    <3> QED
      BY <2>1, <3>1 DEF TypedCheck, Counted, Fault
  <2>3. TypedPages' /\ \A t \in Tabs : FormIsTrue(t)' /\ BaseIsTrue(t)'
    BY <2>1, PagesRest
  <2> QED
    BY <2>1, <2>2, <2>3, RestStep
<1> QED
  BY <1>1, <1>2 DEF Next

\* What a page shows before its loads.
LEMMA DefaultIs ==
  ASSUME NEW page
  PROVE  LET row == Default(page)
         IN  /\ DOMAIN row = PageFields(page)
             /\ \A f \in DOMAIN row : /\ row[f] \in Value
                                      /\ f \notin {"login_path", "discourage_indexing"} => row[f] = Blank
                                      /\ f = "login_path" => row[f] = "login"
<1> DEFINE row == Default(page)
<1>1. Blank \in Value /\ {"login", "on"} \subseteq Value
  BY AmongIs DEF Value
<1>2. CASE page = "settings"
  BY <1>1, <1>2 DEF Default, SettingsDefault
<1>3. CASE page # "settings"
  <2>1. row = [f \in PageFields(page) |-> Blank]
    BY <1>3 DEF Default
  <2>2. "login_path" \notin PageFields(page)
    <3>1. SUFFICES ASSUME NEW g \in Form, Forms[g].page = page, "login_path" \in Forms[g].fields
                   PROVE  FALSE
      BY DEF PageFields
    <3> QED
      BY <1>3, <3>1, FieldOfForm, FormsAre
  <2> HIDE DEF row
  <2>3. \A f \in DOMAIN row : row[f] = Blank /\ f # "login_path"
    BY <2>1, <2>2
  <2> QED
    BY <1>1, <2>1, <2>3 DEF row
<1> QED
  BY <1>2, <1>3

LEMMA PageFieldsAre ==
  ASSUME NEW g \in Form
  PROVE  LET fields == PageFields(Forms[g].page)
         IN  /\ Forms[g].fields \subseteq fields /\ fields \subseteq Field
             /\ g = "link" => fields = FieldsOf["link"]
             /\ "enabled" \in fields <=> "link_ids" \in fields
<1> DEFINE fields == PageFields(Forms[g].page)
<1>1. \A f : f \in fields <=> \E x \in Form : Forms[x].page = Forms[g].page /\ f \in Forms[x].fields
  BY DEF PageFields
<1> HIDE DEF fields
<1>2. \A x \in Form : Forms[x].fields \subseteq Field
  BY FieldOfForm
<1>3. g = "link" => \A x \in Form : Forms[x].page = Forms[g].page <=> x = "link"
  BY FormsAre
<1>4. g = "link" => fields = FieldsOf["link"]
  <2>1. SUFFICES ASSUME g = "link"
                 PROVE  \A f : f \in fields <=> f \in FieldsOf["link"]
    OBVIOUS
  <2>2. Forms["link"].fields = FieldsOf["link"] /\ "link" \in Form
    BY FormsAre
  <2> QED
    BY <1>1, <1>3, <2>1, <2>2
<1>5. \A x \in Form : "enabled" \in Forms[x].fields <=> "link_ids" \in Forms[x].fields
  BY FieldOfForm, FormsAre, Sections
<1> QED
  BY <1>1, <1>2, <1>4, <1>5 DEF fields

LEMMA InitEverything == Init => Everything
<1> SUFFICES ASSUME Init
             PROVE  Types /\ Truth
  BY InitIInv DEF Everything
<1>1. PICK path \in {"login", "hidden"}, url \in {Blank, Origin} : InitForms(Plans, path, url)
  BY DEF Init
<1>2. /\ plan \in Plans /\ saves = {} /\ loads = Mounted /\ check = NoCheck /\ faults = 0
      /\ form = [t \in Tabs |-> IF plan[t] = {} THEN <<>> ELSE Default(PageOf(t))]
      /\ base = form
      /\ known = [t \in Tabs |-> {}] /\ typed = [t \in Tabs |-> {}] /\ behind = [t \in Tabs |-> {}]
      /\ own = [t \in Tabs |-> {}] /\ reverted = [t \in Tabs |-> {}]
      /\ editing = [t \in Tabs |-> FALSE]
      /\ edits = 0 /\ sent = 0
  BY <1>1 DEF InitForms
<1>3. plan \in [Tabs -> SUBSET Form] /\ \A t \in Tabs : \A f, g \in plan[t] : Forms[f].page = Forms[g].page
  BY <1>2, DashboardAssumption
<1>4. TypedRows
  <2>1. stored = [f \in Field |->
          CASE f = "login_path" -> path                 [] f = "discourage_indexing" -> "off"
            [] f \in FieldsOf["matrix"] -> "deny"        [] f \in FieldsOf["overrides"] -> "default"
            [] f = "enabled" -> "off"                    [] f = "auth_type" -> "bearer"
            [] f = "site_url" -> url                     [] f = "cloudflare" -> Blank
            [] OTHER -> "old"]
    BY <1>1 DEF InitForms
  <2>2. /\ stored["login_path"] = path /\ stored["enabled"] = "off"
        /\ \A f \in FieldsOf["matrix"] : stored[f] = "deny"
        /\ \A f \in FieldsOf["overrides"] : stored[f] = "default"
        /\ \A f \in Texts : stored[f] = "old"
        /\ \A f \in Field \ (FieldsOf["matrix"] \cup FieldsOf["overrides"] \cup {"enabled", "login_path"}) :
             stored[f] \in {"off", "bearer", Blank, Origin, "old"}
    BY <2>1, FieldsAre, Sections DEF Texts
  <2>3. {"off", "bearer", Blank, Origin, "old"} \subseteq Value /\ path \in LoginPaths /\ "old" \in Plain
    BY DEF Value, LoginPaths, Plain
  <2>4. ASSUME NEW f \in Field
        PROVE  stored[f] \in Among(f)
    <3>1. CASE f \in FieldsOf["matrix"] \cup FieldsOf["overrides"] \cup {"enabled", "login_path"}
      BY <2>2, <2>3, <3>1, AmongIs, ZenonT(40)
    <3>2. CASE f \in Texts
      BY <2>2, <2>3, <3>2, TextsAre
    <3>3. CASE f \notin FieldsOf["matrix"] \cup FieldsOf["overrides"] \cup {"enabled", "login_path"} \cup Texts
      BY <2>2, <2>3, <3>3, OthersAre
    <3> QED
      BY <3>1, <3>2, <3>3
  <2>5. stored \in [Field -> Value]
    BY <2>1, <2>4, AmongIs
  <2> QED
    BY <2>2, <2>4, <2>5 DEF TypedRows, Scoped
<1>5. ASSUME NEW t \in Tabs
      PROVE  TypedTab(t) /\ FormIsTrue(t) /\ BaseIsTrue(t)
  <2>1. /\ known[t] = {} /\ typed[t] = {} /\ behind[t] = {} /\ own[t] = {} /\ reverted[t] = {}
        /\ editing[t] = FALSE /\ base[t] = form[t]
        /\ plan[t] \subseteq Form
    BY <1>2, <1>3
  <2>2. CASE plan[t] = {}
    <3>1. DOMAIN form[t] = {}
      BY <1>2, <2>2
    <3> QED
      BY <2>1, <2>2, <3>1 DEF TypedTab, FormIsTrue, BaseIsTrue
  <2>3. CASE plan[t] # {}
    <3>1. PICK g \in plan[t] : TRUE
      BY <2>3
    <3>2. g \in Form /\ \A f \in plan[t] : Forms[f].page = Forms[g].page
      BY <1>3, <3>1
    <3>3. (CHOOSE f \in plan[t] : TRUE) \in plan[t]
      BY <3>1
    <3>4. PageOf(t) = Forms[g].page
      BY <3>2, <3>3 DEF PageOf
    <3>5. form[t] = Default(Forms[g].page)
      BY <1>2, <2>3, <3>4
    <3>6. /\ DOMAIN form[t] = PageFields(Forms[g].page)
          /\ \A f \in DOMAIN form[t] : /\ form[t][f] \in Value
                                       /\ f \notin {"login_path", "discourage_indexing"} => form[t][f] = Blank
                                       /\ f = "login_path" => form[t][f] = "login"
      BY <3>5, DefaultIs
    <3>7. \A f \in plan[t] : Forms[f].fields \subseteq DOMAIN form[t]
      BY <2>1, <3>2, <3>6, PageFieldsAre
    <3>8. "link" \in plan[t] => DOMAIN form[t] = FieldsOf["link"]
      BY <2>1, <3>2, <3>6, PageFieldsAre
    <3>9. DOMAIN form[t] \subseteq Field /\ ("enabled" \in DOMAIN form[t] <=> "link_ids" \in DOMAIN form[t])
      BY <3>2, <3>6, PageFieldsAre
    <3>10. "login" \in AmongSent("login_path") /\ "login_path" \notin FieldsOf["overrides"] \cup FieldsOf["matrix"]
      BY AmongIs, Sections DEF LoginPaths
    <3>11. \A f \in FieldsOf["overrides"] \cup Hidden : f \notin {"login_path", "discourage_indexing"}
      BY Sections, HiddenIs
    <3>12. TypedTab(t)
      BY <2>1, <3>6, <3>7, <3>8, <3>9, <3>10, <3>11 DEF TypedTab
    <3> QED
      BY <2>1, <3>6, <3>11, <3>12 DEF FormIsTrue, BaseIsTrue
  <2> QED
    BY <2>2, <2>3
<1>6. TypedPages
  <2>1. /\ DOMAIN form = Tabs /\ DOMAIN base = Tabs /\ DOMAIN known = Tabs /\ DOMAIN typed = Tabs
        /\ DOMAIN behind = Tabs /\ DOMAIN own = Tabs /\ DOMAIN reverted = Tabs /\ DOMAIN editing = Tabs
    BY <1>2
  <2> QED
    BY <1>5, <2>1 DEF TypedPages
<1>7. TypedCheck /\ Counted
  <2>1. check = NoCheck /\ faults = 0 /\ edits = 0 /\ sent = 0
    BY <1>2
  <2>2. TypedCheck
    BY <2>1 DEF TypedCheck, NoCheck
  <2>3. Counted
    <3>1. MaxFaults \in Nat /\ MaxEdits \in Nat /\ MaxSaves \in Nat
      BY RecordsAssumption, FormsAssumption
    <3>2. \A n \in Nat : 0 \in 0..n
      OBVIOUS
    <3> QED
      BY <2>1, <3>1, <3>2, Zenon DEF Counted
  <2> QED
    BY <2>2, <2>3
<1>8. ASSUME NEW l \in loads
      PROVE  TypedLoad(l) /\ Fresh(l)
  <2>1. PICK t \in Open : l = LoadOf(t, "mount", LoadsOf[PageOf(t)])
    BY <1>2, <1>8 DEF Mounted
  <2>2. (CHOOSE f \in plan[t] : TRUE) \in plan[t] /\ t \in Tabs
    BY <2>1 DEF Open
  <2>3. PageOf(t) \in {"settings", "user", "link", "forwarding"}
    BY <1>3, <2>2, FormsAre DEF PageOf
  <2>4. LoadsOf[PageOf(t)] \in Seq(Section) /\ LoadsOf[PageOf(t)] # <<>>
    <3>1. /\ SettingsLoads \in Seq(Section) /\ UserLoads \in Seq(Section) /\ LinkLoads \in Seq(Section)
          /\ ConfigLoads \in Seq(Section)
      BY Sections DEF SettingsLoads, UserLoads, LinkLoads, ConfigLoads
    <3>2. SettingsLoads # <<>> /\ UserLoads # <<>> /\ LinkLoads # <<>> /\ ConfigLoads # <<>>
      BY DEF SettingsLoads, UserLoads, LinkLoads, ConfigLoads
    <3> QED
      BY <2>3, <3>1, <3>2 DEF LoadsOf
  <2> QED
    BY <2>1, <2>2, <2>4, NewLoad
<1> QED
  BY <1>2, <1>4, <1>5, <1>6, <1>7, <1>8 DEF Types, Truth

LEMMA EverythingAlways == Spec => []Everything
BY InitEverything, EverythingStep, PTL DEF Spec

----------------------------------------------------------------------------
(* The visitor.                                                             *)

IsDoor(d) ==
  d = [at |-> d.at, going |-> d.going, loginPath |-> d.loginPath, branding |-> d.branding,
       needsSetup |-> d.needsSetup, status |-> d.status, wizard |-> d.wizard, moves |-> d.moves,
       mistaken |-> d.mistaken, early |-> d.early, moved |-> d.moved, overtaken |-> d.overtaken,
       ended |-> d.ended, failed |-> d.failed]

Failures == {"path", "branding", "setup", "me", "logout", "finish"}

TypedDoor ==
  /\ IsDoor(door)
  /\ door.at \in {"away", "opening", "dashboard", "setup", "LoginView", "notFound"}
  /\ door.going \in Paths \cup {Blank} /\ door.loginPath \in LoginPaths
  /\ door.branding \in {"pending", "done"} /\ door.needsSetup \in {"loading", "yes", "no"}
  /\ door.status \in {"loading", "authenticated", "unauthenticated", "session_expired"}
  /\ door.wizard \in {"filling", "refreshing"} /\ door.moves \in 0..MaxMoves
  /\ door.mistaken \in BOOLEAN /\ door.early \in BOOLEAN /\ door.moved \in BOOLEAN
  /\ door.overtaken \in BOOLEAN /\ door.ended \in BOOLEAN /\ door.failed \subseteq Failures
  /\ accounts \in BOOLEAN /\ cookie \in {"none", "live", "dead"}

\* Where the visitor is bound for is where the login page is, unless excused.
Bound ==
  ~door.mistaken /\ ~door.early /\ ~door.moved /\ {"path", "branding"} \cap door.failed = {} =>
    /\ door.going \in {Blank, "dashboard", "setup", stored["login_path"]}
    /\ door.at # "notFound"

\* What the tab believes of the login path and of the accounts is so, unless an
\* answer failed or it has changed ...
Believed ==
  /\ door.branding = "done" /\ "branding" \notin door.failed /\ ~door.moved =>
       door.loginPath = stored["login_path"]
  /\ door.needsSetup = "yes" /\ accounts =>
       door.overtaken \/ "finish" \in door.failed \/ door.wizard = "refreshing"
  /\ door.needsSetup = "no" /\ "setup" \notin door.failed => accounts
  /\ door.wizard = "refreshing" => accounts

\* ... and so is what it believes of the session.
SignedIn ==
  /\ door.status = "authenticated" => cookie = "live" \/ door.ended
  /\ door.status = "session_expired" /\ door.wizard = "filling" => cookie # "live"
  /\ door.status = "unauthenticated" /\ door.wizard = "filling" /\ {"me", "logout"} \cap door.failed = {} =>
       cookie # "live"

TrueDoor == (door.at = "away" => door = Away) /\ Bound /\ Believed /\ SignedIn

DoorInv == TypedDoor /\ TrueDoor

\* The fields of the tab that a step leaves alone.
Rests(fields) == \A f \in fields : door'[f] = door[f]

\* Where the guards send the visitor.
LEMMA SentOnIs ==
  ASSUME TypedDoor
  PROVE  /\ SentOn \in {Blank, "dashboard", "setup", door.loginPath} /\ SentOn \in Paths \cup {Blank}
         /\ door.loginPath # Blank /\ LoginPaths \subseteq Paths
         /\ SentOn # Blank => Loaded
         /\ SentOn = Blank =>
              /\ door.at = "dashboard" => door.status # "unauthenticated"
              /\ door.at = "LoginView" =>
                   door.needsSetup # "yes" /\ (door.needsSetup = "no" => door.status # "authenticated")
              /\ door.at = "setup" => door.needsSetup # "no"
<1>1. door.loginPath \in LoginPaths /\ door.loginPath # Blank
  BY AmongIs DEF TypedDoor
<1>2. LoginPaths \subseteq Paths /\ {"dashboard", "setup"} \subseteq Paths /\ {"dashboard", "setup"} \cap {Blank} = {}
  BY DEF LoginPaths, Paths, Blank
<1>3. CASE door.at = "dashboard"
  BY <1>1, <1>2, <1>3 DEF SentOn, RequireAuth, Loaded
<1>4. CASE door.at = "LoginView"
  <2>1. SentOn = GuestOnly
    BY <1>4 DEF SentOn
  <2>2. /\ GuestOnly \in {Blank, "dashboard", "setup"}
        /\ GuestOnly = Blank =>
             door.needsSetup # "yes" /\ (door.needsSetup = "no" => door.status # "authenticated")
    BY <1>2 DEF GuestOnly
  <2> QED
    BY <1>1, <1>2, <1>4, <2>1, <2>2 DEF Loaded
<1>5. CASE door.at = "setup"
  BY <1>1, <1>2, <1>5 DEF SentOn, SetupOnly, Loaded
<1>6. CASE door.at \notin {"dashboard", "LoginView", "setup"}
  BY <1>1, <1>2, <1>6 DEF SentOn
<1> QED
  BY <1>3, <1>4, <1>5, <1>6

LEMMA PageAtIs ==
  ASSUME NEW p, NEW path
  PROVE  /\ PageAt(p, path) \in {"dashboard", "setup", "LoginView", "notFound"}
         /\ PageAt(p, path) = "notFound" => p \notin {"dashboard", "setup", path}
BY DEF PageAt

LEMMA OpensStep ==
  ASSUME DoorInv, stored["login_path"] \in LoginPaths, UNCHANGED stored,
         \/ \E p \in {"dashboard", "setup", "login", "hidden"} : Visit(p)
         \/ Arrive \/ ArriveUnsure \/ Redirect
  PROVE  DoorInv'
<1>1. TypedDoor /\ TrueDoor /\ UNCHANGED <<accounts, cookie>>
  BY DEF DoorInv, Visit, Arrive, ArriveUnsure, Redirect
<1>2. CASE \E p \in {"dashboard", "setup", "login", "hidden"} : Visit(p)
  <2>1. PICK p \in {"dashboard", "setup", "login", "hidden"} : Visit(p)
    BY <1>2
  <2>2. PICK mistaken \in BOOLEAN : /\ door' = [Away EXCEPT !.going = p, !.at = "opening", !.mistaken = mistaken]
                                    /\ ~mistaken => p \in {"dashboard", "setup", stored["login_path"]}
    BY <2>1 DEF Visit
  <2>3. door' = [at |-> "opening", going |-> p, loginPath |-> "login", branding |-> "pending",
                 needsSetup |-> "loading", status |-> "loading", wizard |-> "filling", moves |-> 0,
                 mistaken |-> mistaken, early |-> FALSE, moved |-> FALSE, overtaken |-> FALSE,
                 ended |-> FALSE, failed |-> {}]
    BY <2>2 DEF Away
  <2>4. /\ IsDoor(door') /\ door'.at = "opening" /\ door'.going = p /\ door'.mistaken = mistaken
        /\ door'.loginPath = "login" /\ door'.branding = "pending" /\ door'.needsSetup = "loading"
        /\ door'.status = "loading" /\ door'.wizard = "filling" /\ door'.moves = 0
        /\ door'.failed = {}
        /\ door'.early = FALSE /\ door'.moved = FALSE /\ door'.overtaken = FALSE /\ door'.ended = FALSE
    BY <2>3 DEF IsDoor
  <2>5. TypedDoor'
    <3>1. p \in Paths /\ "login" \in LoginPaths /\ 0 \in 0..MaxMoves
      BY DoorsAssumption DEF Paths, LoginPaths
    <3>2. FALSE \in BOOLEAN /\ {} \subseteq Failures /\ mistaken \in BOOLEAN
      OBVIOUS
    <3> QED
      BY <1>1, <2>4, <3>1, <3>2 DEF TypedDoor
  <2>6. TrueDoor'
    BY <2>2, <2>4 DEF TrueDoor, Bound, Believed, SignedIn
  <2> QED
    BY <2>5, <2>6 DEF DoorInv
<1>3. CASE Arrive
  <2> DEFINE page == PageAt(door.going, stored["login_path"])
  <2>1. door.going # Blank /\ door' = [door EXCEPT !.at = page, !.going = Blank]
    BY <1>3 DEF Arrive
  <2>2. /\ page \in {"dashboard", "setup", "LoginView", "notFound"}
        /\ page = "notFound" => door.going \notin {"dashboard", "setup", stored["login_path"]}
    BY PageAtIs
  <2> HIDE DEF page
  <2>3. /\ IsDoor(door') /\ door'.at = page /\ door'.going = Blank
        /\ Rests({"loginPath", "branding", "needsSetup", "status", "wizard", "moves", "mistaken", "early",
                  "moved", "overtaken", "ended", "failed"})
    BY <1>1, <2>1 DEF TypedDoor, IsDoor, Rests
  <2>4. TypedDoor'
    BY <1>1, <2>2, <2>3 DEF TypedDoor, Rests
  <2>5. TrueDoor'
    BY <1>1, <2>1, <2>2, <2>3 DEF TrueDoor, Bound, Believed, SignedIn, Rests
  <2> QED
    BY <2>4, <2>5 DEF DoorInv
<1>4. CASE ArriveUnsure
  <2> DEFINE page == PageAt(door.going, "login")
  <2>1. door' = [door EXCEPT !.at = page, !.going = Blank, !.failed = @ \cup {"path"}]
    BY <1>4 DEF ArriveUnsure
  <2>2. page \in {"dashboard", "setup", "LoginView", "notFound"}
    BY PageAtIs
  <2> HIDE DEF page
  <2>3. /\ IsDoor(door') /\ door'.at = page /\ door'.going = Blank /\ door'.failed = door.failed \cup {"path"}
        /\ Rests({"loginPath", "branding", "needsSetup", "status", "wizard", "moves", "mistaken", "early",
                  "moved", "overtaken", "ended"})
    BY <1>1, <2>1 DEF TypedDoor, IsDoor, Rests
  <2>4. TypedDoor'
    BY <1>1, <2>2, <2>3 DEF TypedDoor, Rests, Failures
  <2>5. TrueDoor'
    BY <1>1, <2>2, <2>3 DEF TrueDoor, Bound, Believed, SignedIn, Rests
  <2> QED
    BY <2>4, <2>5 DEF DoorInv
<1>5. CASE Redirect
  <2> DEFINE to == SentOn
             early == door.early \/ (door.branding = "pending" /\ to = door.loginPath)
  <2>1. door' = [door EXCEPT !.going = to, !.early = early]
    BY <1>5 DEF Redirect
  <2>2. to \in {Blank, "dashboard", "setup", door.loginPath} /\ to \in Paths /\ Loaded
    BY <1>1, <1>5, SentOnIs DEF Redirect
  <2>3. early \in BOOLEAN /\ (~early => ~door.early /\ (door.branding = "done" \/ to # door.loginPath))
    BY <1>1 DEF TypedDoor
  <2> HIDE DEF to, early
  <2>4. /\ IsDoor(door') /\ door'.going = to /\ door'.early = early
        /\ Rests({"at", "loginPath", "branding", "needsSetup", "status", "wizard", "moves", "mistaken",
                  "moved", "overtaken", "ended", "failed"})
    BY <1>1, <2>1 DEF TypedDoor, IsDoor, Rests
  <2>5. TypedDoor'
    BY <1>1, <2>2, <2>3, <2>4 DEF TypedDoor, Rests
  <2>6. TrueDoor'
    BY <1>1, <2>2, <2>3, <2>4 DEF TypedDoor, TrueDoor, Bound, Believed, SignedIn, Loaded, Rests
  <2> QED
    BY <2>5, <2>6 DEF DoorInv
<1> QED
  BY <1>2, <1>3, <1>4, <1>5

\* refresh, of the door d.
Asked_(d) ==
  \/ door'.status = Me /\ door'.ended = FALSE /\ door'.failed = d.failed
  \/ door'.status = "unauthenticated" /\ door'.ended = d.ended /\ door'.failed = d.failed \cup {"me"}

LEMMA AnswersDoorStep ==
  ASSUME DoorInv, stored["login_path"] \in LoginPaths, UNCHANGED stored,
         BrandingAnswers \/ SetupAnswers \/ MeAnswers \/ FinishAnswers
  PROVE  DoorInv'
<1>1. TypedDoor /\ TrueDoor /\ UNCHANGED <<accounts, cookie>>
  BY DEF DoorInv, BrandingAnswers, SetupAnswers, MeAnswers, FinishAnswers, Refreshes, Knows, Misses
<1>6. /\ Me \in {"authenticated", "unauthenticated", "session_expired"}
      /\ Me = "authenticated" <=> cookie = "live"
  BY <1>1 DEF Me, TypedDoor
<1>2. CASE BrandingAnswers
  <2>1. /\ Loaded /\ IsDoor(door') /\ door'.branding = "done" /\ UNCHANGED <<accounts, cookie>>
        /\ \/ door'.loginPath = stored["login_path"] /\ door'.failed = door.failed
           \/ door'.loginPath = door.loginPath /\ door'.failed = door.failed \cup {"branding"}
        /\ Rests({"at", "going", "needsSetup", "status", "wizard", "moves", "mistaken", "early", "moved",
                  "overtaken", "ended"})
    BY <1>1, <1>2, ZenonT(40) DEF BrandingAnswers, Knows, Misses, TypedDoor, IsDoor, Rests
  <2>2. TypedDoor'
    BY <1>1, <2>1 DEF TypedDoor, Rests, Failures
  <2>3. TrueDoor'
    BY <1>1, <2>1 DEF TrueDoor, Bound, Believed, SignedIn, Loaded, Rests
  <2> QED
    BY <2>2, <2>3 DEF DoorInv
<1>3. CASE SetupAnswers
  <2>1. /\ Loaded /\ IsDoor(door') /\ UNCHANGED <<accounts, cookie>>
        /\ \/ door'.needsSetup = (IF accounts THEN "no" ELSE "yes") /\ door'.failed = door.failed
           \/ door'.needsSetup = "no" /\ door'.failed = door.failed \cup {"setup"}
        /\ Rests({"at", "going", "loginPath", "branding", "status", "wizard", "moves", "mistaken", "early",
                  "moved", "overtaken", "ended"})
    BY <1>1, <1>3, ZenonT(40) DEF SetupAnswers, Knows, Misses, TypedDoor, IsDoor, Rests
  <2>2. TypedDoor'
    BY <1>1, <2>1 DEF TypedDoor, Rests, Failures
  <2>3. TrueDoor'
    BY <1>1, <2>1 DEF TrueDoor, Bound, Believed, SignedIn, Loaded, Rests
  <2> QED
    BY <2>2, <2>3 DEF DoorInv
<1>4. CASE MeAnswers
  <2>1. /\ Loaded /\ IsDoor(door') /\ Asked_(door)
        /\ Rests({"at", "going", "loginPath", "branding", "needsSetup", "wizard", "moves", "mistaken",
                  "early", "moved", "overtaken"})
    BY <1>1, <1>4, ZenonT(40) DEF MeAnswers, Refreshes, Knows, Misses, TypedDoor, IsDoor, Rests, Asked_
  <2>2. TypedDoor'
    BY <1>1, <1>6, <2>1 DEF TypedDoor, Rests, Failures, Asked_
  <2>3. TrueDoor'
    BY <1>1, <1>6, <2>1 DEF TypedDoor, TrueDoor, Bound, Believed, SignedIn, Loaded, Rests, Asked_
  <2> QED
    BY <2>2, <2>3 DEF DoorInv
<1>5. CASE FinishAnswers
  <2>1. "dashboard" \in Paths /\ (door.at = "away" => door.wizard = "filling")
    BY <1>1 DEF Paths, TrueDoor, Away
  <2>2. /\ IsDoor(door') /\ door.wizard = "refreshing" /\ Asked_(door)
        /\ door'.wizard = "filling" /\ door'.needsSetup = "no" /\ door'.going = "dashboard"
        /\ Rests({"at", "loginPath", "branding", "moves", "mistaken", "early", "moved", "overtaken"})
    <3>1. PICK d : d = Finished(door)
      OBVIOUS
    <3>2. /\ IsDoor(d) /\ d.wizard = "filling" /\ d.needsSetup = "no" /\ d.going = "dashboard"
          /\ \A f \in {"at", "loginPath", "branding", "moves", "mistaken", "early", "moved", "overtaken",
                       "ended", "failed"} : d[f] = door[f]
      BY <1>1, <3>1 DEF Finished, TypedDoor, IsDoor
    <3>3. /\ door.wizard = "refreshing"
          /\ \/ door' = [d EXCEPT !.status = Me, !.ended = FALSE]
             \/ door' = [d EXCEPT !.status = "unauthenticated", !.failed = d.failed \cup {"me"}]
      BY <1>5, <3>1, <3>2 DEF FinishAnswers, Refreshes, Knows, Misses, IsDoor
    <3>4. /\ IsDoor(door') /\ Asked_(door)
          /\ \A f \in {"at", "loginPath", "branding", "moves", "mistaken", "early", "moved", "overtaken",
                       "wizard", "needsSetup", "going"} : door'[f] = d[f]
      BY <3>2, <3>3, ZenonT(40) DEF IsDoor, Asked_
    <3> QED
      BY <3>2, <3>3, <3>4 DEF Rests
  <2>3. TypedDoor'
    BY <1>1, <1>6, <2>1, <2>2 DEF TypedDoor, Rests, Failures, Asked_
  <2>4. TrueDoor'
    BY <1>1, <1>6, <2>1, <2>2 DEF TypedDoor, TrueDoor, Bound, Believed, SignedIn, Rests, Asked_
  <2> QED
    BY <2>3, <2>4 DEF DoorInv
<1> QED
  BY <1>2, <1>3, <1>4, <1>5

\* What the visitor does leaves alone, beside what the step says.
Stays == Rests({"at", "loginPath", "branding", "mistaken", "moved"})

LEMMA MovesStep ==
  ASSUME DoorInv, UNCHANGED stored,
         \/ LogIn \/ LogOut \/ LogOutFails \/ Acknowledge \/ SessionEnds
         \/ Finish \/ FinishFails \/ SetUpElsewhere
  PROVE  DoorInv'
<1>1. TypedDoor /\ TrueDoor /\ IsDoor(door)
  BY DEF DoorInv, TypedDoor
<1>2. Move => door.moves + 1 \in 0..MaxMoves
  BY <1>1, DoorsAssumption DEF Move, TypedDoor
<1>3. "dashboard" \in Paths /\ LoginPaths \subseteq Paths
  BY DEF Paths, LoginPaths
<1>4. CASE LogIn
  <2>1. /\ IsDoor(door') /\ Stays /\ Rests({"needsSetup", "wizard", "early", "overtaken", "failed"})
        /\ door'.status = "authenticated" /\ door'.ended = FALSE /\ door'.going = "dashboard"
        /\ door'.moves = door.moves + 1 /\ Move /\ cookie' = "live" /\ UNCHANGED accounts
        /\ door.at = "LoginView"
    BY <1>1, <1>4 DEF LogIn, Moved, IsDoor, Rests, Stays
  <2>2. TypedDoor'
    BY <1>1, <1>2, <1>3, <2>1 DEF TypedDoor, Rests, Stays
  <2>3. TrueDoor'
    BY <1>1, <2>1 DEF TrueDoor, Bound, Believed, SignedIn, Rests, Stays
  <2> QED
    BY <2>2, <2>3 DEF DoorInv
<1>5. CASE LogOut
  <2> DEFINE early == door.early \/ door.branding = "pending"
  <2>1. door' = Moved([door EXCEPT !.status = "unauthenticated", !.going = door.loginPath, !.early = early])
    BY <1>5 DEF LogOut
  <2>2. early \in BOOLEAN /\ (~early => ~door.early /\ door.branding = "done")
    BY <1>1 DEF TypedDoor
  <2> HIDE DEF early
  <2>3. /\ IsDoor(door') /\ Stays /\ Rests({"needsSetup", "wizard", "overtaken", "ended", "failed"})
        /\ door'.status = "unauthenticated" /\ door'.going = door.loginPath /\ door'.early = early
        /\ door'.moves = door.moves + 1
    BY <1>1, <2>1 DEF Moved, IsDoor, Rests, Stays
  <2>4. Move /\ cookie' = "none" /\ UNCHANGED accounts /\ door.at = "dashboard"
    BY <1>5 DEF LogOut
  <2>5. TypedDoor'
    BY <1>1, <1>2, <1>3, <2>2, <2>3, <2>4 DEF TypedDoor, Rests, Stays
  <2>6. TrueDoor'
    BY <1>1, <2>2, <2>3, <2>4 DEF TypedDoor, TrueDoor, Bound, Believed, SignedIn, Rests, Stays
  <2> QED
    BY <2>5, <2>6 DEF DoorInv
<1>6. CASE LogOutFails
  <2>1. /\ IsDoor(door') /\ Stays
        /\ Rests({"going", "needsSetup", "wizard", "early", "overtaken", "ended"})
        /\ door'.status = "unauthenticated" /\ door'.failed = door.failed \cup {"logout"}
        /\ door'.moves = door.moves + 1 /\ Move /\ UNCHANGED accounts /\ door.at = "dashboard"
    BY <1>1, <1>6 DEF LogOutFails, Moved, IsDoor, Rests, Stays
  <2>2. cookie' \in {cookie, "dead"}
    BY <1>6 DEF LogOutFails
  <2>3. TypedDoor'
    BY <1>1, <1>2, <2>1, <2>2 DEF TypedDoor, Rests, Stays, Failures
  <2>4. TrueDoor'
    BY <1>1, <2>1, <2>2 DEF TrueDoor, Bound, Believed, SignedIn, Rests, Stays
  <2> QED
    BY <2>3, <2>4 DEF DoorInv
<1>7. CASE Acknowledge
  <2>1. /\ IsDoor(door') /\ Stays /\ door.at = "dashboard"
        /\ Rests({"going", "needsSetup", "wizard", "early", "overtaken", "ended", "failed", "moves"})
        /\ door'.status = "unauthenticated" /\ cookie' = "none" /\ UNCHANGED accounts
    BY <1>1, <1>7 DEF Acknowledge, IsDoor, Rests, Stays
  <2>2. TypedDoor'
    BY <1>1, <2>1 DEF TypedDoor, Rests, Stays
  <2>3. TrueDoor'
    BY <1>1, <2>1 DEF TrueDoor, Bound, Believed, SignedIn, Rests, Stays
  <2> QED
    BY <2>2, <2>3 DEF DoorInv
<1>8. CASE SessionEnds
  <2>1. /\ IsDoor(door') /\ Stays /\ door.at # "away"
        /\ Rests({"going", "status", "needsSetup", "wizard", "early", "overtaken", "failed"})
        /\ door'.ended = TRUE /\ door'.moves = door.moves + 1 /\ Move
        /\ cookie' \in {"dead", "none"} /\ UNCHANGED accounts
    BY <1>1, <1>8 DEF SessionEnds, Moved, IsDoor, Rests, Stays
  <2>2. TypedDoor'
    BY <1>1, <1>2, <2>1 DEF TypedDoor, Rests, Stays
  <2>3. TrueDoor'
    BY <1>1, <2>1 DEF TrueDoor, Bound, Believed, SignedIn, Rests, Stays
  <2> QED
    BY <2>2, <2>3 DEF DoorInv
<1>9. CASE Finish
  <2>1. /\ IsDoor(door') /\ Stays
        /\ Rests({"going", "status", "needsSetup", "early", "overtaken", "ended", "failed"})
        /\ door'.wizard = (IF accounts THEN "filling" ELSE "refreshing") /\ accounts' = TRUE
        /\ cookie' = (IF accounts THEN cookie ELSE "live")
        /\ door'.moves = door.moves + 1 /\ Move /\ door.at = "setup" /\ door.wizard = "filling"
        /\ door.needsSetup = "yes"
    BY <1>1, <1>9 DEF Finish, Wizard, Moved, IsDoor, Rests, Stays
  <2>2. TypedDoor'
    BY <1>1, <1>2, <2>1 DEF TypedDoor, Rests, Stays
  <2>3. TrueDoor'
    BY <1>1, <2>1 DEF TypedDoor, TrueDoor, Bound, Believed, SignedIn, Rests, Stays
  <2> QED
    BY <2>2, <2>3 DEF DoorInv
<1>10. CASE FinishFails
  <2>1. /\ IsDoor(door') /\ Stays
        /\ Rests({"going", "status", "needsSetup", "wizard", "early", "overtaken", "ended"})
        /\ door'.failed = door.failed \cup {"finish"} /\ accounts' = TRUE /\ UNCHANGED cookie
        /\ door'.moves = door.moves + 1 /\ Move /\ door.at = "setup"
    BY <1>1, <1>10 DEF FinishFails, Wizard, Moved, IsDoor, Rests, Stays
  <2>2. TypedDoor'
    BY <1>1, <1>2, <2>1 DEF TypedDoor, Rests, Stays, Failures
  <2>3. TrueDoor'
    BY <1>1, <2>1 DEF TrueDoor, Bound, Believed, SignedIn, Rests, Stays
  <2> QED
    BY <2>2, <2>3 DEF DoorInv
<1>11. CASE SetUpElsewhere
  <2>1. /\ IsDoor(door') /\ Stays /\ door.at # "away"
        /\ Rests({"going", "status", "needsSetup", "wizard", "early", "ended", "failed"})
        /\ door'.overtaken = TRUE /\ accounts' = TRUE /\ UNCHANGED cookie
        /\ door'.moves = door.moves + 1 /\ Move
    BY <1>1, <1>11 DEF SetUpElsewhere, Moved, IsDoor, Rests, Stays
  <2>2. TypedDoor'
    BY <1>1, <1>2, <2>1 DEF TypedDoor, Rests, Stays
  <2>3. TrueDoor'
    BY <1>1, <2>1 DEF TrueDoor, Bound, Believed, SignedIn, Rests, Stays
  <2> QED
    BY <2>2, <2>3 DEF DoorInv
<1> QED
  BY <1>4, <1>5, <1>6, <1>7, <1>8, <1>9, <1>10, <1>11

LEMMA DoorStep == Everything /\ DoorInv /\ [Next]_vars => DoorInv'
<1> SUFFICES ASSUME Everything, DoorInv, [Next]_vars
             PROVE  DoorInv'
  OBVIOUS
<1>1. stored["login_path"] \in LoginPaths /\ TypedDoor /\ TrueDoor
  BY AmongIs, FieldsAre DEF Everything, Types, TypedRows, DoorInv
<1>2. CASE UNCHANGED vars
  BY <1>1, <1>2 DEF vars, server, entrance, DoorInv, TypedDoor, TrueDoor, Bound, Believed, SignedIn, IsDoor
<1>3. CASE DoorsStep
  BY <1>1, <1>3, EntersRests, OpensStep, AnswersDoorStep, MovesStep DEF DoorsStep, Enters
<1>4. CASE FormsStep
  <2> DEFINE moved == door.moved \/ (door.at # "away" /\ stored'["login_path"] # stored["login_path"])
  <2>1. door' = [door EXCEPT !.moved = moved] /\ UNCHANGED <<accounts, cookie>>
    BY <1>4 DEF FormsStep
  <2>2. /\ moved \in BOOLEAN
        /\ ~moved => ~door.moved /\ (door.at = "away" \/ stored'["login_path"] = stored["login_path"])
        /\ door.at = "away" => moved = door.moved
    BY <1>1 DEF TypedDoor
  <2> HIDE DEF moved
  <2>3. /\ IsDoor(door') /\ door'.moved = moved
        /\ Rests({"at", "going", "loginPath", "branding", "needsSetup", "status", "wizard", "moves",
                  "mistaken", "early", "overtaken", "ended", "failed"})
    BY <1>1, <2>1 DEF TypedDoor, IsDoor, Rests
  <2>4. TypedDoor'
    BY <1>1, <2>1, <2>2, <2>3 DEF TypedDoor, Rests
  <2>5. door.at = "away" => door' = door
    BY <1>1, <2>1, <2>2 DEF TypedDoor, IsDoor
  <2>6. TrueDoor'
    <3>1. CASE door.at = "away"
      <4>1. door' = Away
        BY <1>1, <2>5, <3>1 DEF TrueDoor
      <4>2. /\ Away.branding = "pending" /\ Away.needsSetup = "loading" /\ Away.status = "loading"
            /\ Away.wizard = "filling" /\ Away.going = Blank /\ Away.at = "away"
        BY DEF Away
      <4> QED
        BY <4>1, <4>2 DEF TrueDoor, Bound, Believed, SignedIn
    <3>2. CASE door.at # "away"
      BY <1>1, <2>1, <2>2, <2>3, <3>2 DEF TrueDoor, Bound, Believed, SignedIn, Rests
    <3> QED
      BY <3>1, <3>2
  <2> QED
    BY <2>4, <2>6 DEF DoorInv
<1> QED
  BY <1>2, <1>3, <1>4 DEF Next

LEMMA InitDoor == Init => DoorInv
BY DoorsAssumption DEF Init, Away, DoorInv, TypedDoor, TrueDoor, Bound, Believed, SignedIn, IsDoor, Paths, LoginPaths, Failures

LEMMA DoorAlways == Spec => []DoorInv
BY EverythingAlways, InitDoor, DoorStep, PTL DEF Spec

----------------------------------------------------------------------------
(* The theorems.                                                            *)

\* Only a handler of a save changes what is stored.
LEMMA OnlySavesWrite ==
  ASSUME Next, NEW f, stored'[f] # stored[f]
  PROVE  \E r \in saves : HandlesSave(r)
<1>1. CASE DoorsStep
  BY <1>1, EntersRests DEF DoorsStep
<1>2. CASE NextForms
  <2>1. CASE \E t \in Tabs : Handles(t)
    BY <2>1 DEF Handles, SaveGeneral, UploadFile, SaveSeo, SavePermissions, SaveAuthentication,
       SaveCloudflare, SaveUser, ResetPassword, SaveOverrides, SaveGrants, SaveLink, SaveConfig, SendNow,
       Asks, Submits
  <2>2. CASE \E t \in Tabs : \/ Edit(t) \/ CancelEdit(t)
                             \/ \E x \in plan[t] : \E y \in Forms[x].fields :
                                  \E v \in Choices(t, y) : Type(t, x, y, v)
    BY <2>2 DEF Edit, CancelEdit, Type, server
  <2>3. CASE \E r \in saves : Confirm(r) \/ Dismiss(r) \/ Succeed(r) \/ Fail(r)
    BY <2>3 DEF Confirm, Dismiss, Succeed, Fail
  <2>4. CASE \E l \in loads : ReceiveMounted(l) \/ ReceiveAgain(l) \/ ReceiveError(l)
    <3>1. \A l : ReceiveMounted(l) => UNCHANGED stored
      BY DEF ReceiveMounted
    <3>2. \A l : ReceiveAgain(l) => UNCHANGED stored
      BY DEF ReceiveAgain
    <3>3. \A l : ReceiveError(l) => UNCHANGED stored
      BY Zenon DEF ReceiveError
    <3> QED
      BY <2>4, <3>1, <3>2, <3>3
  <2>5. CASE Serves
    BY <2>5 DEF Serves, HandlesLoad, Select, SelectScope, LoadFails, Reads
  <2>6. CASE Checks
    BY <2>6 DEF Checks, ReadOverride, ReadOverrideFails, ReadRole, ReadRoleFails
  <2> QED
    BY <1>2, <2>1, <2>2, <2>3, <2>4, <2>5, <2>6 DEF NextForms
<1> QED
  BY <1>1, <1>2 DEF Next, FormsStep

\* What the save r changes, its user meant to change.
Meant(r, f) ==
  \/ f \in r.typed \cup r.stale \cup r.reverted
  \/ f = "auth_secret" /\ r.form = "config" /\ r.body["auth_type"] = "none"
  \/ ~r.loaded /\ r.form \in {"general", "seo", "grants"}
  \/ stored'[f] = Stores(f, stored[f])

LEMMA WrittenIsMeant ==
  ASSUME Everything, NEW r \in saves, HandlesSave(r), NEW f \in Field, stored'[f] # stored[f]
  PROVE  Meant(r, f)
<1> SUFFICES ASSUME f \notin r.typed \cup r.stale \cup r.reverted,
                    r.loaded \/ r.form \notin {"general", "seo", "grants"}
             PROVE  \/ f = "auth_secret" /\ r.form = "config" /\ r.body["auth_type"] = "none"
                    \/ stored'[f] = Stores(f, stored[f])
  BY DEF Meant
<1>1. IInv /\ Types /\ Honest(r) /\ IsSave(r)
  BY DEF Everything, IInv, Truth
<1>2. PICK m : HandledAs(r, m)
  BY <1>1, SaveHandled
<1>3. /\ f \in DOMAIN r.body /\ stored'[f] = IF f = "auth_secret" THEN Secret(r) ELSE Stores(f, r.body[f])
      /\ f = "auth_secret" => r.stage = "read"
  BY <1>1, <1>2, WhatIsWritten DEF Altered
<1>4. CASE f # "auth_secret"
  <2>1. stored[f] \in {r.body[f], Stores(f, r.body[f])}
    BY <1>1, <1>3, <1>4 DEF Honest
  <2> QED
    BY <1>3, <1>4, <2>1
<1>5. CASE f = "auth_secret"
  <2>1. r.form = "config"
    BY <1>1, <1>3, <1>5 DEF IsSave, Secrecy
  <2>2. r.body["auth_secret"] = Blank /\ r.secret = stored["auth_secret"]
    BY <1>1, <1>3, <1>5 DEF Honest
  <2>3. r.body["auth_type"] # "none" => Secret(r) = r.secret
    BY <2>2 DEF Secret
  <2> QED
    BY <1>3, <1>5, <2>1, <2>2, <2>3
<1> QED
  BY <1>4, <1>5

\* ... and the login path moves only as its dialog said.
Told(r) == r.warned \/ "login_path" \in r.stale \cup r.own \/ ~r.loaded

LEMMA MovedIsWarned ==
  ASSUME Everything, NEW r \in saves, HandlesSave(r), stored'["login_path"] # stored["login_path"]
  PROVE  Told(r)
<1>1. IInv /\ Types /\ Honest(r) /\ IsSave(r) /\ TypedSave(r)
  BY DEF Everything, IInv, Types, Truth
<1>2. PICK m : HandledAs(r, m)
  BY <1>1, SaveHandled
<1>3. "login_path" \in DOMAIN r.body /\ stored'["login_path"] = Stores("login_path", r.body["login_path"])
  BY <1>1, <1>2, WhatIsWritten, FieldsAre DEF Altered
<1>4. r.form = "general"
  BY <1>1, <1>3, FieldOfForm DEF IsSave, TypedSave
<1>5. Stores("login_path", stored["login_path"]) = stored["login_path"]
  <2>1. stored["login_path"] \in Among("login_path") /\ "login_path" \in Field
    BY <1>1, FieldsAre DEF Types, TypedRows
  <2> QED
    BY <2>1, StoresIs DEF Restored
<1> QED
  BY <1>1, <1>3, <1>4, <1>5 DEF Honest, Told

\* Every variable of the pages and of the doors keeps its type: what was typed, what
\* was sent, what was stored and what was loaded are values, each of its field.
THEOREM TypesAreKept == Spec => []TypeOK
<1>1. Everything /\ DoorInv => TypeOK
  <2> SUFFICES ASSUME Everything, DoorInv
               PROVE  TypeOK
    OBVIOUS
  <2>1. IInv /\ TypedRows /\ TypedPages /\ TypedCheck /\ Counted
    BY DEF Everything, Types
  <2>2. ASSUME NEW r \in saves
        PROVE  /\ r.tab \in Tabs /\ r.form \in plan[r.tab]
               /\ DOMAIN r.body \subseteq Forms[r.form].fields
               /\ \A f \in DOMAIN r.body : r.body[f] \in Value
               /\ r.stage \in {"asked", "sent", "read", "done", "failed", "again"}
               /\ r.left \subseteq DOMAIN r.body
               /\ r.typed \cup r.stale \cup r.own \cup r.reverted \subseteq Field
    <3>1. IsSave(r) /\ TypedSave(r)
      BY DEF Everything, IInv, Types
    <3>2. \A f \in DOMAIN r.body : r.body[f] \in Value
      <4>1. \A f \in Field : AmongSent(f) \subseteq Value
        BY AmongIs
      <4>2. DOMAIN r.body \subseteq Field
        BY <2>1, SaveFields DEF IInv, IsSave
      <4> QED
        BY <3>1, <4>1, <4>2 DEF TypedSave
    <3> QED
      BY <3>1, <3>2 DEF IsSave, TypedSave
  <2>3. ASSUME NEW l \in loads
        PROVE  /\ l.tab \in Tabs /\ l.todo \in Seq(Section) /\ l.todo # <<>>
               /\ l.stage \in {"sent", "half", "answered", "failed"}
               /\ l.missed \cup l.crossed \subseteq Field
    BY DEF Everything, Types, TypedLoad
  <2>4. ASSUME NEW t \in Tabs
        PROVE  /\ DOMAIN form[t] = DOMAIN base[t]
               /\ \A f \in DOMAIN form[t] : {form[t][f], base[t][f]} \subseteq Value
               /\ known[t] \subseteq Section
               /\ typed[t] \cup behind[t] \cup own[t] \cup reverted[t] \subseteq Field
               /\ editing[t] \in BOOLEAN
    BY <2>1 DEF TypedPages, TypedTab
  <2>5. TypeOKForms
    BY <2>1, <2>2, <2>3, <2>4 DEF TypeOKForms, TypedRows, TypedCheck, Counted
  <2>6. LoginPaths \subseteq Value
    BY AmongIs
  <2> QED
    BY <2>5, <2>6 DEF TypeOK, DoorInv, TypedDoor, Failures
<1> QED
  BY <1>1, EverythingAlways, DoorAlways, PTL

\* A field that was loaded, that its user has not typed over, that no other tab has
\* changed and that the page did not put back to a value from before a save of its
\* own shows what is stored, up to the conversions of the API: through saves, their
\* failures and lost answers, and reloads that fail.
THEOREM FormsTellTheTruth == Spec => []FormsAreTrue
<1>1. Everything => FormsAreTrue
  BY DEF Everything, Truth, FormIsTrue, FormsAreTrue
<1> QED
  BY <1>1, EverythingAlways, PTL

\* A save changes only fields that its user typed, but for those that another tab
\* changed or the page put back, the secret of a configuration that needs none, the
\* forms that were never loaded, and what the API makes of a stored value: the
\* blank site_url becomes the Origin.
THEOREM UntouchedStays == Spec => UntouchedIsKept
<1> DEFINE Kept_ ==
      \A f \in Field : stored'[f] # stored[f] =>
        \E r \in saves :
          /\ HandlesSave(r)
          /\ \/ f \in r.typed \cup r.stale \cup r.reverted
             \/ f = "auth_secret" /\ r.form = "config" /\ r.body["auth_type"] = "none"
             \/ ~r.loaded /\ r.form \in {"general", "seo", "grants"}
             \/ stored'[f] = Stores(f, stored[f])
<1>1. Everything /\ [Next]_vars => [Kept_]_<<server, browser>>
  <2> SUFFICES ASSUME Everything, Next
               PROVE  Kept_
    BY DEF vars
  <2>1. ASSUME NEW f \in Field, stored'[f] # stored[f]
        PROVE  \E r \in saves : HandlesSave(r) /\ Meant(r, f)
    <3>1. PICK r \in saves : HandlesSave(r)
      BY <2>1, OnlySavesWrite
    <3> QED
      BY <2>1, <3>1, WrittenIsMeant
  <2> QED
    BY <2>1 DEF Meant
<1>2. Spec => [][Kept_]_<<server, browser>>
  BY <1>1, EverythingAlways, PTL DEF Spec
<1> QED
  BY <1>2 DEF UntouchedIsKept

\* The login page moves only after its dialog warned of it, unless the path that the
\* dialog compares with was changed since it was loaded, by another tab or by a save
\* of this one, or was never loaded.
THEOREM MovesAreAnnounced == Spec => MovesAreWarned
<1> DEFINE Warned ==
      stored'["login_path"] # stored["login_path"] =>
        \E r \in saves : /\ HandlesSave(r)
                         /\ r.warned \/ "login_path" \in r.stale \cup r.own \/ ~r.loaded
<1>1. Everything /\ [Next]_vars => [Warned]_<<server, browser>>
  <2> SUFFICES ASSUME Everything, Next, stored'["login_path"] # stored["login_path"]
               PROVE  \E r \in saves : HandlesSave(r) /\ Told(r)
    BY DEF vars, Told
  <2>1. PICK r \in saves : HandlesSave(r)
    BY OnlySavesWrite
  <2> QED
    BY <2>1, MovedIsWarned
<1>2. Spec => [][Warned]_<<server, browser>>
  BY <1>1, EverythingAlways, PTL DEF Spec
<1> QED
  BY <1>2 DEF MovesAreWarned

\* A visitor who waits for nothing and is sent nowhere is at the right door: at the
\* dashboard signed in, or under the modal when the session was found dead; at the
\* login page without a session; in the wizard while there is no account; at "not
\* found" only after a wrong path -- or one of the named excuses holds: a failed
\* answer, a login path that moved or was not known yet, a wizard that somebody else
\* finished, a session that ended since the API was last asked.
THEOREM DoorsAreRight == Spec => []QuietDoorIsRight
<1>1. DoorInv => QuietDoorIsRight
  <2> SUFFICES ASSUME DoorInv, AtTheDoor
               PROVE  QuietDoorIsRight
    BY DEF QuietDoorIsRight
  <2>1. TypedDoor /\ Bound /\ Believed /\ SignedIn
    BY DEF DoorInv, TrueDoor
  <2>2. /\ door.at = "dashboard" => door.status # "unauthenticated"
        /\ door.at = "LoginView" =>
             door.needsSetup # "yes" /\ (door.needsSetup = "no" => door.status # "authenticated")
        /\ door.at = "setup" => door.needsSetup # "no"
    BY <2>1, SentOnIs DEF AtTheDoor
  <2>3. door.wizard = "filling" /\ door.needsSetup # "loading" /\ door.status # "loading"
    BY DEF AtTheDoor
  <2>4. door.at = "notFound" =>
          door.mistaken \/ door.early \/ door.moved \/ {"path", "branding"} \cap door.failed # {}
    BY <2>1 DEF Bound
  <2>5. door.at = "setup" => ~accounts \/ door.overtaken \/ "finish" \in door.failed
    BY <2>1, <2>2, <2>3 DEF Believed, TypedDoor
  <2>6. door.at = "LoginView" =>
          /\ accounts \/ "setup" \in door.failed
          /\ cookie # "live" \/ {"me", "logout"} \cap door.failed # {}
    BY <2>1, <2>2, <2>3 DEF Believed, SignedIn, TypedDoor
  <2>7. door.at = "dashboard" =>
          \/ door.status = "authenticated" /\ (cookie = "live" \/ door.ended)
          \/ door.status = "session_expired" /\ cookie # "live"
    BY <2>1, <2>2, <2>3 DEF SignedIn, TypedDoor
  <2> QED
    BY <2>4, <2>5, <2>6, <2>7 DEF QuietDoorIsRight
<1> QED
  BY <1>1, DoorAlways, PTL

=============================================================================
