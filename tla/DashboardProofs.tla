-------------------------- MODULE DashboardProofs --------------------------
(***************************************************************************)
(* What TLAPS proves of Dashboard, for any number of tabs, any plans and   *)
(* bounds.                                                                 *)
(***************************************************************************)
EXTENDS Dashboard, TLAPS

----------------------------------------------------------------------------
(* Fields and forms. *)

Secrecy == {"auth_type", "auth_secret"}

LEMMA Sections ==
  /\ Section = {"settings", "matrix", "auth", "user", "sessions", "overrides", "grants", "link", "config"}
  /\ FieldsOf["settings"] = {"site_title", "site_url", "login_path", "discourage_indexing"}
  /\ FieldsOf["matrix"] = {"role_edit", "role_delete"}
  /\ FieldsOf["auth"] = {"enabled", "link_ids"}
  /\ FieldsOf["user"] = {"full_name"}
  /\ FieldsOf["sessions"] = {}
  /\ FieldsOf["overrides"] = {"own_edit", "own_delete"}
  /\ FieldsOf["grants"] = {"tenant_ids", "campaign_ids"}
  /\ FieldsOf["link"] = {"destination_url", "campaign_id"}
  /\ FieldsOf["config"] = {"endpoint_url", "auth_type", "auth_secret"}
BY DEF Section, FieldsOf, RoleRow, OwnRow, Keys

LEMMA FieldsAre ==
  Field = {"site_title", "site_url", "login_path", "discourage_indexing", "cloudflare", "role_edit",
           "role_delete", "enabled", "link_ids", "full_name", "own_edit", "own_delete", "tenant_ids",
           "campaign_ids", "destination_url", "campaign_id", "endpoint_url", "auth_type", "auth_secret",
           "password"}
<1>1. \A f : f \in Field <=> f \in {"password", "cloudflare"} \/ \E s \in Section : f \in FieldsOf[s]
  BY DEF Field
<1> QED
  BY <1>1, Sections

LEMMA FormsAre ==
  /\ Form = {"general", "logo", "seo", "matrix", "auth", "cloudflare", "user", "password", "overrides",
             "grants", "link", "config", "send"}
  /\ Forms["general"].fields = {"site_title", "site_url", "login_path"}
  /\ Forms["logo"].fields = {} /\ Forms["send"].fields = {}
  /\ Forms["seo"].fields = {"discourage_indexing"}
  /\ Forms["cloudflare"].fields = {"cloudflare"}
  /\ Forms["user"].fields = {"full_name"}
  /\ Forms["password"].fields = {"password"}
  /\ \A s \in {"matrix", "auth", "overrides", "grants", "link", "config"} : Forms[s].fields = FieldsOf[s]
  /\ Forms["cloudflare"].hidden = {"cloudflare"} /\ Forms["password"].hidden = {"password"}
  /\ Forms["config"].hidden = {"auth_secret"}
  /\ \A f \in Form \ {"cloudflare", "password", "config"} : Forms[f].hidden = {}
  /\ Forms["general"].again = "settings" /\ Forms["logo"].again = "settings"
  /\ Forms["link"].again = "link" /\ Forms["send"].again = "config"
  /\ \A f \in Form \ {"general", "logo", "link", "send"} : Forms[f].again = "no"
  /\ \A f \in {"general", "logo", "seo", "cloudflare"} : Forms[f].section = "settings"
  /\ \A s \in {"matrix", "auth", "user", "overrides", "grants", "link", "config"} : Forms[s].section = s
  /\ Forms["password"].section = "user" /\ Forms["send"].section = "config"
  /\ \A f \in {"general", "logo", "seo", "matrix", "auth", "cloudflare"} : Forms[f].page = "settings"
  /\ \A f \in {"user", "password", "overrides", "grants"} : Forms[f].page = "user"
  /\ Forms["link"].page = "link" /\ \A f \in {"config", "send"} : Forms[f].page = "forwarding"
BY DEF Form, Forms, OnSettings, OnUser, GeneralForm, LogoForm, SeoForm, MatrixForm, AuthForm, CloudflareForm,
       UserForm, PasswordForm, OverridesForm, GrantsForm, LinkForm, ConfigForm, SendNowForm

LEMMA PermissionFields ==
  \A k \in Keys : /\ RoleRow[k] \in FieldsOf["matrix"] /\ OwnRow[k] \in FieldsOf["overrides"]
                  /\ RoleRow[k] \in Field /\ OwnRow[k] \in Field /\ RoleRow[k] # OwnRow[k]
BY Sections, FieldsAre DEF Keys, RoleRow, OwnRow

\* A field is in one form.
LEMMA FormsApart ==
  ASSUME NEW f \in Form, NEW g \in Form, f # g
  PROVE  Forms[f].fields \cap Forms[g].fields = {}
<1> DEFINE FormOf(x) ==
      CASE x \in {"site_title", "site_url", "login_path"} -> "general"
        [] x = "discourage_indexing" -> "seo"
        [] x \in FieldsOf["matrix"] -> "matrix"
        [] x \in FieldsOf["auth"] -> "auth"
        [] x = "cloudflare" -> "cloudflare"
        [] x = "full_name" -> "user"
        [] x = "password" -> "password"
        [] x \in FieldsOf["overrides"] -> "overrides"
        [] x \in FieldsOf["grants"] -> "grants"
        [] x \in FieldsOf["link"] -> "link"
        [] OTHER -> "config"
<1>1. \A h \in Form : \A x \in Forms[h].fields : FormOf(x) = h
  BY FormsAre, Sections
<1> QED
  BY <1>1

LEMMA FormFields ==
  ASSUME NEW f \in Form
  PROVE  /\ Forms[f].fields \subseteq Field
         /\ f # "config" => Forms[f].fields \cap Secrecy = {}
         /\ f = "config" => Forms[f].fields = FieldsOf["config"]
         /\ f \in KeyByKey => Forms[f].fields \subseteq FieldsOf["matrix"] \cup FieldsOf["overrides"]
BY FormsAre, Sections, FieldsAre DEF Secrecy, KeyByKey

LEMMA BodyFields ==
  ASSUME NEW f \in Form, NEW values
  PROVE  /\ DOMAIN Body(f, values) \subseteq Forms[f].fields
         /\ f = "config" => DOMAIN Body(f, values) = FieldsOf["config"]
<1>1. CASE f = "auth"
  BY <1>1, FormsAre, Sections DEF Body, SettingOf
<1>2. CASE f # "auth"
  BY <1>2, FormFields DEF Body
<1> QED
  BY <1>1, <1>2

\* Most fields are stored as they are sent.
LEMMA StoresAsSent ==
  ASSUME NEW f, f \notin {"login_path", "site_url", "site_title", "cloudflare", "full_name",
                          "destination_url"}, NEW v
  PROVE  Stores(f, v) = v
BY DEF Stores

----------------------------------------------------------------------------
(* The inductive invariant. *)

IsSave(r) ==
  /\ r = [tab |-> r.tab, form |-> r.form, body |-> r.body, stage |-> r.stage, left |-> r.left,
          secret |-> r.secret, warned |-> r.warned, typed |-> r.typed, stale |-> r.stale,
          own |-> r.own, reverted |-> r.reverted, loaded |-> r.loaded]
  /\ r.form \in Form
  /\ DOMAIN r.body \subseteq Forms[r.form].fields
  /\ r.form = "config" => DOMAIN r.body = FieldsOf["config"]
  /\ r.left \subseteq DOMAIN r.body
  /\ r.stage = "read" => r.form = "config"

\* A form is not sent again before its save is over, so that the saves of a tab have
\* no field in common.
OneEach == \A r, s \in saves : r.tab = s.tab /\ r.form = s.form => r = s

\* What a save has written, and no other tab has changed since, is stored; what it is
\* about to write has a secret when it needs one.
Kept(r) ==
  /\ r.stage \in {"asked", "sent"} /\ r.form \in KeyByKey =>
       \A f \in DOMAIN r.body \ (r.left \cup r.stale) : stored[f] = Stores(f, r.body[f])
  /\ r.stage = "read" =>
       r.body["auth_type"] = "none" \/ r.body["auth_secret"] # Blank \/ r.secret # Blank
  /\ r.stage = "done" =>
       \A f \in DOMAIN r.body \ r.stale :
         stored[f] = IF f = "auth_secret" THEN Secret(r) ELSE Stores(f, r.body[f])

\* Of the two rows a check reads, those that did not change are as they were.
CheckIsFair ==
  /\ check = [key |-> check.key, stage |-> check.stage, answer |-> check.answer,
              failed |-> check.failed, first |-> check.first, touched |-> check.touched]
  /\ check.key \in Keys /\ check.failed \in BOOLEAN
  /\ check.stage = "role" /\ ~check.failed =>
       /\ OwnRow[check.key] \in check.touched \/ stored[OwnRow[check.key]] = "default"
       /\ RoleRow[check.key] \in check.touched \/ stored[RoleRow[check.key]] = check.first

IInv ==
  /\ \A r \in saves : IsSave(r) /\ Kept(r)
  /\ OneEach /\ SecretWhenNeeded /\ CheckIsFair

LEMMA SaveFields ==
  ASSUME NEW r, IsSave(r)
  PROVE  /\ DOMAIN r.body \subseteq Field
         /\ r.form # "config" => DOMAIN r.body \cap Secrecy = {}
         /\ r.form \in KeyByKey => \A f \in DOMAIN r.body : \A v : Stores(f, v) = v
         /\ r.form = "config" => \A f \in DOMAIN r.body : \A v : Stores(f, v) = v
<1>1. /\ r.form \in Form /\ DOMAIN r.body \subseteq Forms[r.form].fields
      /\ Forms[r.form].fields \subseteq Field
      /\ r.form # "config" => Forms[r.form].fields \cap Secrecy = {}
      /\ r.form \in KeyByKey => Forms[r.form].fields \subseteq FieldsOf["matrix"] \cup FieldsOf["overrides"]
      /\ r.form = "config" => DOMAIN r.body = FieldsOf["config"]
  BY FormFields DEF IsSave
<1>2. \A f \in FieldsOf["matrix"] \cup FieldsOf["overrides"] \cup FieldsOf["config"] :
        f \notin {"login_path", "site_url", "site_title", "cloudflare", "full_name", "destination_url"}
  BY Sections
<1>3. \A f \in FieldsOf["matrix"] \cup FieldsOf["overrides"] \cup FieldsOf["config"] : \A v : Stores(f, v) = v
  BY <1>2, StoresAsSent
<1> QED
  BY <1>1, <1>3

\* A step that writes no field: saves come to an end ...
LEMMA QuietStep ==
  ASSUME IInv, UNCHANGED <<stored, check>>, saves' \subseteq saves
  PROVE  IInv'
<1>1. \A r : Kept(r) <=> Kept(r)'
  BY DEF Kept, Secret
<1>2. \A r \in saves' : IsSave(r) /\ Kept(r)'
  BY <1>1 DEF IInv
<1>3. OneEach'
  BY DEF IInv, OneEach
<1> QED
  BY <1>2, <1>3 DEF IInv, SecretWhenNeeded, CheckIsFair, IsSave

\* ... or one of them goes on ...
LEMMA GoesOnStep ==
  ASSUME IInv, UNCHANGED <<stored, check>>, NEW r \in saves, NEW m, saves' = (saves \ {r}) \cup {m},
         IsSave(m), Kept(m), m.tab = r.tab, m.form = r.form
  PROVE  IInv'
<1>1. \A n : Kept(n) <=> Kept(n)'
  BY DEF Kept, Secret
<1>2. \A n \in saves' : IsSave(n) /\ Kept(n)'
  BY <1>1 DEF IInv
<1>3. OneEach'
  BY DEF IInv, OneEach
<1> QED
  BY <1>2, <1>3 DEF IInv, SecretWhenNeeded, CheckIsFair, IsSave

\* ... or a form is submitted of which no save is under way.
LEMMA StartsStep ==
  ASSUME IInv, UNCHANGED <<stored, check>>, NEW m, saves' = saves \cup {m}, IsSave(m), Kept(m),
         \A s \in saves : s.tab = m.tab => s.form # m.form
  PROVE  IInv'
<1>1. \A n : Kept(n) <=> Kept(n)'
  BY DEF Kept, Secret
<1>2. \A n \in saves' : IsSave(n) /\ Kept(n)'
  BY <1>1 DEF IInv
<1>3. OneEach'
  BY DEF IInv, OneEach
<1> QED
  BY <1>2, <1>3 DEF IInv, SecretWhenNeeded, CheckIsFair, IsSave

LEMMA WithStage ==
  ASSUME NEW r, IsSave(r), NEW x, x = "read" => r.form = "config"
  PROVE  LET m == [r EXCEPT !.stage = x]
         IN  /\ IsSave(m) /\ m.stage = x
             /\ m.body = r.body /\ m.left = r.left /\ m.stale = r.stale
             /\ m.form = r.form /\ m.secret = r.secret /\ m.tab = r.tab
             /\ m.typed = r.typed /\ m.warned = r.warned /\ m.loaded = r.loaded
             /\ m.own = r.own /\ m.reverted = r.reverted
BY DEF IsSave

LEMMA Staler ==
  ASSUME NEW r, IsSave(r), NEW changed
  PROVE  LET m == [r EXCEPT !.stale = @ \cup changed]
         IN  /\ IsSave(m) /\ m.stale = r.stale \cup changed
             /\ m.body = r.body /\ m.left = r.left /\ m.stage = r.stage
             /\ m.form = r.form /\ m.secret = r.secret /\ m.tab = r.tab
             /\ m.typed = r.typed /\ m.warned = r.warned /\ m.loaded = r.loaded
             /\ m.own = r.own /\ m.reverted = r.reverted
BY DEF IsSave

\* A statement writes some fields for the save r, which becomes r1.
LEMMA PutsStep ==
  ASSUME IInv, NEW r \in saves, NEW r1, NEW row, Puts(r, r1, row), DOMAIN row \subseteq DOMAIN r.body,
         r1.tab = r.tab, r1.form = r.form, IsSave(r1), Kept(r1)', SecretWhenNeeded'
  PROVE  IInv'
<1> DEFINE changed == {f \in Field : Written(row)[f] # stored[f]}
           Later(s) == IF s.tab = r.tab THEN s ELSE [s EXCEPT !.stale = @ \cup changed]
<1>1. /\ stored' = Written(row)
      /\ saves' = {Later(s) : s \in saves \ {r}} \cup {r1}
      /\ check' = IF check.stage = "role" THEN [check EXCEPT !.touched = @ \cup changed] ELSE check
  BY DEF Puts
<1>2. /\ \A f \in Field : f \notin changed => stored'[f] = stored[f]
      /\ changed \subseteq DOMAIN row
  BY <1>1 DEF Written
<1>3. ASSUME NEW s \in saves \ {r}, NEW m, m = Later(s)
      PROVE  IsSave(m) /\ m.tab = s.tab /\ m.form = s.form /\ Kept(m)'
  <2>1. IsSave(s) /\ Kept(s) /\ IsSave(r)
    BY DEF IInv
  <2>2. CASE s.tab = r.tab
    <3>1. s.form # r.form
      BY <1>3, <2>2 DEF IInv, OneEach
    <3>2. DOMAIN s.body \cap DOMAIN r.body = {}
      BY <2>1, <3>1, FormsApart DEF IsSave
    <3>3. \A f \in DOMAIN s.body : stored'[f] = stored[f]
      BY <1>2, <2>1, <3>2, SaveFields
    <3>4. Kept(s)'
      BY <2>1, <3>3 DEF Kept, Secret
    <3> QED
      BY <1>3, <2>1, <2>2, <3>4
  <2>3. CASE s.tab # r.tab
    <3> HIDE DEF changed
    <3>1. /\ IsSave(m) /\ m.stale = s.stale \cup changed
          /\ m.body = s.body /\ m.left = s.left /\ m.stage = s.stage
          /\ m.form = s.form /\ m.secret = s.secret /\ m.tab = s.tab
      BY <1>3, <2>1, <2>3, Staler
    <3>2. \A f \in DOMAIN m.body \ m.stale : stored'[f] = stored[f]
      BY <1>2, <2>1, <3>1, SaveFields
    <3>3. Kept(m)'
      BY <2>1, <3>1, <3>2 DEF Kept, Secret
    <3> QED
      BY <3>1, <3>3
  <2> QED
    BY <2>2, <2>3
<1> HIDE DEF changed, Later
<1>4. \A m \in saves' : IsSave(m) /\ Kept(m)'
  BY <1>1, <1>3
<1>5. OneEach'
  <2>1. SUFFICES ASSUME NEW m \in saves', NEW n \in saves', m.tab = n.tab, m.form = n.form
                 PROVE  m = n
    BY DEF OneEach
  <2>2. \A k \in saves' : \/ k = r1
                          \/ \E s \in saves \ {r} : k = Later(s) /\ k.tab = s.tab /\ k.form = s.form
    BY <1>1, <1>3
  <2> QED
    BY <2>1, <2>2 DEF IInv, OneEach
<1>6. CheckIsFair'
  <2>1. CheckIsFair /\ OwnRow[check.key] \in Field /\ RoleRow[check.key] \in Field
    BY PermissionFields DEF IInv, CheckIsFair
  <2>2. CASE check.stage # "role"
    <3>1. check' = check
      BY <1>1, <2>2
    <3> QED
      BY <2>1, <2>2, <3>1 DEF CheckIsFair
  <2>3. CASE check.stage = "role"
    <3>1. /\ check' = [key |-> check.key, stage |-> check.stage, answer |-> check.answer,
                       failed |-> check.failed, first |-> check.first,
                       touched |-> check.touched \cup changed]
      BY <1>1, <2>1, <2>3 DEF CheckIsFair
    <3> QED
      BY <1>2, <2>1, <3>1 DEF CheckIsFair
  <2> QED
    BY <2>2, <2>3
<1> QED
  BY <1>4, <1>5, <1>6 DEF IInv

----------------------------------------------------------------------------
(* The handlers of the API. *)

LEMMA UpdateStep ==
  ASSUME IInv, NEW r \in saves, Update(r)
  PROVE  IInv'
<1> DEFINE m == [r EXCEPT !.stage = "done"]
           row == Converted(r.body)
<1>1. IsSave(r) /\ r.form # "config" /\ Puts(r, m, row)
  BY DEF IInv, Update
<1>2. /\ IsSave(m) /\ m.stage = "done" /\ m.body = r.body /\ m.tab = r.tab /\ m.form = r.form
  BY <1>1, WithStage
<1>3. stored' = Written(row) /\ DOMAIN row = DOMAIN r.body
      /\ \A f \in DOMAIN r.body : row[f] = Stores(f, r.body[f])
  BY <1>1 DEF Puts, Converted
<1>4. DOMAIN r.body \subseteq Field /\ DOMAIN r.body \cap Secrecy = {}
  BY <1>1, SaveFields
<1> HIDE DEF m, row
<1>5. Kept(m)'
  BY <1>2, <1>3, <1>4 DEF Kept, Written, Secrecy
<1>6. SecretWhenNeeded'
  BY <1>3, <1>4, FieldsAre DEF IInv, SecretWhenNeeded, Written, Secrecy
<1> QED
  BY <1>1, <1>2, <1>3, <1>5, <1>6, PutsStep

LEMMA UpdateKeyStep ==
  ASSUME IInv, NEW r \in saves, UpdateKey(r)
  PROVE  IInv'
<1>1. IsSave(r) /\ Kept(r) /\ r.form \in KeyByKey /\ r.stage = "sent"
  BY DEF IInv, UpdateKey
<1>2. PICK f \in r.left : Puts(r, [r EXCEPT !.left = @ \ {f}], Only(f, r.body[f]))
  BY DEF UpdateKey
<1> DEFINE m == [r EXCEPT !.left = @ \ {f}]
<1>3. /\ m.left = r.left \ {f} /\ m.stage = r.stage
      /\ m.body = r.body /\ m.stale = r.stale /\ m.form = r.form /\ m.tab = r.tab
      /\ IsSave(m)
  BY <1>1 DEF IsSave
<1>4. stored' = Written(Only(f, r.body[f]))
  BY <1>2 DEF Puts
<1>5. \A x \in Field : stored'[x] = IF x = f THEN r.body[f] ELSE stored[x]
  BY <1>4 DEF Written, Only
<1>6. /\ f \in DOMAIN r.body /\ DOMAIN r.body \subseteq Field /\ DOMAIN r.body \cap Secrecy = {}
      /\ \A x \in DOMAIN r.body : Stores(x, r.body[x]) = r.body[x]
  BY <1>1, SaveFields DEF IsSave, KeyByKey
<1> HIDE DEF m
<1>7. Kept(m)'
  BY <1>1, <1>3, <1>5, <1>6 DEF Kept
<1>8. Secrecy \subseteq Field
  BY FieldsAre DEF Secrecy
<1>9. SecretWhenNeeded'
  BY <1>5, <1>6, <1>8 DEF IInv, SecretWhenNeeded, Secrecy
<1>10. DOMAIN Only(f, r.body[f]) \subseteq DOMAIN r.body
  BY <1>6 DEF Only
<1> QED
  BY <1>2, <1>3, <1>7, <1>9, <1>10, PutsStep DEF m

LEMMA UpsertConfigStep ==
  ASSUME IInv, NEW r \in saves, UpsertConfig(r)
  PROVE  IInv'
<1> DEFINE m == [r EXCEPT !.stage = "done"]
           row == [r.body EXCEPT !["auth_secret"] = Secret(r)]
<1>1. IsSave(r) /\ Kept(r) /\ r.stage = "read" /\ r.form = "config" /\ Puts(r, m, row)
  BY DEF IInv, UpsertConfig, IsSave
<1>2. /\ IsSave(m) /\ m.stage = "done" /\ m.body = r.body /\ m.secret = r.secret /\ m.tab = r.tab
      /\ m.form = r.form
  BY <1>1, WithStage
<1>3. /\ DOMAIN r.body = {"endpoint_url", "auth_type", "auth_secret"} /\ DOMAIN r.body \subseteq Field
      /\ \A x \in DOMAIN r.body : Stores(x, r.body[x]) = r.body[x]
  BY <1>1, Sections, SaveFields DEF IsSave
<1>4. /\ \A f \in DOMAIN r.body : stored'[f] = IF f = "auth_secret" THEN Secret(r) ELSE r.body[f]
      /\ DOMAIN row \subseteq DOMAIN r.body
  BY <1>1, <1>3 DEF Puts, Written
<1>5. Secret(m) = Secret(r)
  BY <1>2 DEF Secret
<1> HIDE DEF m
<1>6. Kept(m)'
  BY <1>2, <1>3, <1>4, <1>5 DEF Kept, Secret
<1>7. SecretWhenNeeded'
  BY <1>1, <1>3, <1>4 DEF SecretWhenNeeded, Kept, Secret
<1> HIDE DEF row
<1> QED
  BY <1>1, <1>2, <1>4, <1>6, <1>7, PutsStep

LEMMA RowStep ==
  ASSUME IInv, NEW r \in saves, UpdatedKeys(r) \/ Refuse(r) \/ LoadRow(r) \/ SaveFails(r)
  PROVE  IInv'
<1>1. IsSave(r) /\ Kept(r) /\ UNCHANGED <<stored, check>>
  BY DEF IInv, UpdatedKeys, Refuse, LoadRow, SaveFails, Becomes
<1>2. CASE UpdatedKeys(r)
  <2> DEFINE m == [r EXCEPT !.stage = "done"]
  <2>1. r.stage = "sent" /\ r.form \in KeyByKey /\ r.left = {} /\ saves' = (saves \ {r}) \cup {m}
    BY <1>2 DEF UpdatedKeys, Becomes
  <2>2. /\ IsSave(m) /\ m.stage = "done" /\ m.body = r.body /\ m.stale = r.stale
        /\ m.tab = r.tab /\ m.form = r.form
    BY <1>1, WithStage
  <2>3. "auth_secret" \notin DOMAIN r.body
    BY <1>1, <2>1, SaveFields DEF KeyByKey, Secrecy
  <2> HIDE DEF m
  <2>4. Kept(m)
    BY <1>1, <2>1, <2>2, <2>3 DEF Kept
  <2> QED
    BY <1>1, <2>1, <2>2, <2>4, GoesOnStep
<1>3. CASE LoadRow(r)
  <2> DEFINE stage == IF /\ r.body["auth_type"] # "none"
                         /\ r.body["auth_secret"] = Blank
                         /\ stored["auth_secret"] = Blank
                      THEN "failed" ELSE "read"
             m == [r EXCEPT !.secret = stored["auth_secret"], !.stage = stage]
  <2>1. r.stage = "sent" /\ r.form = "config" /\ saves' = (saves \ {r}) \cup {m}
    BY <1>3 DEF LoadRow, Becomes
  <2>2. /\ stage \in {"failed", "read"}
        /\ stage = "read" => \/ r.body["auth_type"] = "none" \/ r.body["auth_secret"] # Blank
                             \/ stored["auth_secret"] # Blank
    OBVIOUS
  <2> HIDE DEF stage
  <2>3. /\ IsSave(m) /\ m.stage = stage /\ m.body = r.body /\ m.secret = stored["auth_secret"]
        /\ m.tab = r.tab /\ m.form = r.form
    <3> DEFINE n == [r EXCEPT !.secret = stored["auth_secret"]]
    <3>1. m = [n EXCEPT !.stage = stage]
      OBVIOUS
    <3>2. /\ IsSave(n) /\ n.body = r.body /\ n.secret = stored["auth_secret"]
          /\ n.tab = r.tab /\ n.form = r.form
      BY <1>1 DEF IsSave
    <3> HIDE DEF n
    <3>3. LET k == [n EXCEPT !.stage = stage]
          IN  /\ IsSave(k) /\ k.stage = stage /\ k.body = n.body /\ k.secret = n.secret
              /\ k.tab = n.tab /\ k.form = n.form
      BY <2>1, <3>2, WithStage
    <3> QED
      BY <3>1, <3>2, <3>3
  <2> HIDE DEF m
  <2>4. Kept(m)
    BY <2>2, <2>3 DEF Kept
  <2> QED
    BY <1>1, <2>1, <2>3, <2>4, GoesOnStep
<1>4. CASE SaveFails(r) \/ Refuse(r)
  <2> DEFINE m == [r EXCEPT !.stage = "failed"]
  <2>1. saves' = (saves \ {r}) \cup {m}
    BY <1>4 DEF SaveFails, Refuse, Becomes
  <2>2. IsSave(m) /\ m.stage = "failed" /\ m.tab = r.tab /\ m.form = r.form
    BY <1>1, WithStage
  <2> HIDE DEF m
  <2>3. Kept(m)
    BY <2>2 DEF Kept
  <2> QED
    BY <1>1, <2>1, <2>2, <2>3, GoesOnStep
<1> QED
  BY <1>2, <1>3, <1>4

LEMMA HandlesStep ==
  ASSUME IInv, \/ \E r \in saves : HandlesSave(r)
               \/ \E l \in loads : HandlesLoad(l)
  PROVE  IInv'
<1>1. CASE \E l \in loads : HandlesLoad(l)
  BY <1>1, QuietStep DEF HandlesLoad, Select, SelectScope, LoadFails, Reads
<1>2. CASE \E r \in saves : HandlesSave(r)
  BY <1>2, UpdateStep, UpdateKeyStep, UpsertConfigStep, RowStep DEF HandlesSave
<1> QED
  BY <1>1, <1>2, Zenon

----------------------------------------------------------------------------
(* The pages, the checks and the doors. *)

LEMMA SubmitsStep ==
  ASSUME IInv, NEW t, NEW f \in Form, NEW stage \in {"asked", "sent"}, NEW warned,
         Submits(t, f, stage, warned)
  PROVE  IInv'
<1> DEFINE m == SaveOf(t, f, stage, warned)
           body == Body(f, form[t])
<1>1. saves' = saves \cup {m} /\ UNCHANGED <<stored, check>>
  BY DEF Submits
<1>2. DOMAIN body \subseteq Forms[f].fields /\ (f = "config" => DOMAIN body = FieldsOf["config"])
  BY BodyFields
<1> HIDE DEF body
<1>3. m = [tab |-> t, form |-> f, body |-> body, stage |-> stage, left |-> DOMAIN body,
           secret |-> Blank, warned |-> warned, typed |-> typed[t] \cap Forms[f].fields,
           stale |-> behind[t], own |-> own[t], reverted |-> reverted[t],
           loaded |-> Forms[f].section \in known[t]]
  BY DEF SaveOf, body
<1> HIDE DEF m
<1>4. IsSave(m)
  BY <1>2, <1>3 DEF IsSave
<1>5. Kept(m)
  BY <1>3 DEF Kept
\* The flag of the form is set while a save of it is under way.
<1>6. \A s \in saves : s.tab = m.tab => s.form # m.form
  BY <1>3 DEF Submits, Busy, OfTab
<1> QED
  BY <1>1, <1>4, <1>5, <1>6, StartsStep

LEMMA HandlersStep ==
  ASSUME IInv, NEW t, Handles(t)
  PROVE  IInv'
<1>1. \A f \in {"general", "logo", "seo", "matrix", "auth", "cloudflare", "user", "password",
                "overrides", "grants", "link", "config", "send"} : f \in Form
  BY DEF Form, Forms
<1>2. PICK f, stage, warned : f \in Form /\ stage \in {"asked", "sent"} /\ Submits(t, f, stage, warned)
  BY <1>1 DEF Handles, SaveGeneral, UploadFile, SaveSeo, SavePermissions, SaveAuthentication,
     SaveCloudflare, SaveUser, ResetPassword, SaveOverrides, SaveGrants, SaveLink, SaveConfig, SendNow,
     Asks
<1> QED
  BY <1>2, SubmitsStep

LEMMA AnswersStep ==
  ASSUME IInv, NEW r \in saves, Confirm(r) \/ Dismiss(r) \/ Succeed(r) \/ Fail(r)
  PROVE  IInv'
<1>1. IsSave(r) /\ Kept(r) /\ UNCHANGED <<stored, check>>
  BY DEF IInv, Confirm, Dismiss, Succeed, Fail
<1>2. CASE saves' \subseteq saves
  BY <1>1, <1>2, QuietStep
<1>3. CASE Confirm(r)
  <2> DEFINE m == [r EXCEPT !.stage = "sent"]
  <2>1. r.stage = "asked" /\ saves' = (saves \ {r}) \cup {m}
    BY <1>3 DEF Confirm
  <2>2. /\ IsSave(m) /\ m.stage = "sent" /\ m.body = r.body /\ m.left = r.left
        /\ m.stale = r.stale /\ m.form = r.form /\ m.tab = r.tab
    BY <1>1, WithStage
  <2> HIDE DEF m
  <2>3. Kept(m)
    BY <1>1, <2>1, <2>2 DEF Kept
  <2> QED
    BY <1>1, <2>1, <2>2, <2>3, GoesOnStep
<1>4. CASE Succeed(r) /\ ~(saves' \subseteq saves)
  <2> DEFINE m == [r EXCEPT !.stage = "again"]
  <2>1. saves' = (saves \ {r}) \cup {m}
    BY <1>4 DEF Succeed
  <2>2. IsSave(m) /\ m.stage = "again" /\ m.tab = r.tab /\ m.form = r.form
    BY <1>1, WithStage
  <2> HIDE DEF m
  <2>3. Kept(m)
    BY <2>2 DEF Kept
  <2> QED
    BY <1>1, <2>1, <2>2, <2>3, GoesOnStep
<1>5. Dismiss(r) \/ Fail(r) => saves' \subseteq saves
  BY DEF Dismiss, Fail
<1> QED
  BY <1>2, <1>3, <1>4, <1>5

\* AllowedForUser.
LEMMA ChecksStep ==
  ASSUME IInv, Checks
  PROVE  IInv'
<1>1. UNCHANGED <<stored, saves>>
  BY DEF Checks, ReadOverride, ReadOverrideFails, ReadRole, ReadRoleFails
<1>2. CheckIsFair'
  <2>1. CheckIsFair
    BY DEF IInv
  <2>2. CASE \E k \in Checked : ReadOverride(k) \/ ReadOverrideFails(k)
    BY <1>1, <2>2, RecordsAssumption, ZenonT(40)
       DEF ReadOverride, ReadOverrideFails, Answers, AsksRole, NoCheck, Effective, CheckIsFair
  <2>3. CASE ReadRole \/ ReadRoleFails
    BY <2>1, <2>3 DEF ReadRole, ReadRoleFails, Answers, NoCheck, CheckIsFair
  <2> QED
    BY <2>2, <2>3 DEF Checks
<1>3. \A r : Kept(r) <=> Kept(r)'
  BY <1>1 DEF Kept, Secret
<1> QED
  BY <1>1, <1>2, <1>3 DEF IInv, SecretWhenNeeded, OneEach, IsSave

LEMMA NextFormsStep ==
  ASSUME IInv, NextForms
  PROVE  IInv'
<1>1. CASE \E t \in Tabs : Handles(t)
  BY <1>1, HandlersStep
<1>2. CASE \E t \in Tabs : \/ Edit(t) \/ CancelEdit(t)
                           \/ \E f \in plan[t] : \E x \in Forms[f].fields :
                                \E v \in Choices(t, x) : Type(t, f, x, v)
  BY <1>2, QuietStep DEF Edit, CancelEdit, Type, server
<1>3. CASE \E r \in saves : Confirm(r) \/ Dismiss(r) \/ Succeed(r) \/ Fail(r)
  BY <1>3, AnswersStep
<1>4. CASE \E l \in loads : ReceiveMounted(l) \/ ReceiveAgain(l) \/ ReceiveError(l)
  <2>1. UNCHANGED <<stored, check>> /\ saves' \subseteq saves
    BY <1>4 DEF ReceiveMounted, ReceiveAgain, ReceiveError, Without
  <2> QED
    BY <2>1, QuietStep
<1>5. CASE Serves
  BY <1>5, HandlesStep DEF Serves
<1>6. CASE Checks
  BY <1>6, ChecksStep
<1> QED
  BY <1>1, <1>2, <1>3, <1>4, <1>5, <1>6 DEF NextForms

\* The visitor changes nothing of what the forms are about.
LEMMA EntersRests ==
  ASSUME Enters
  PROVE  UNCHANGED <<stored, saves, loads, check>>
BY DEF Enters, Visit, Arrive, ArriveUnsure, Redirect, BrandingAnswers, SetupAnswers, MeAnswers, LogIn,
   LogOut, LogOutFails, Acknowledge, SessionEnds, Finish, FinishFails, FinishAnswers, SetUpElsewhere,
   Refreshes, Knows, Misses, server

LEMMA NextIInv == IInv /\ [Next]_vars => IInv'
<1> SUFFICES ASSUME IInv, [Next]_vars
             PROVE  IInv'
  OBVIOUS
<1>1. CASE UNCHANGED vars
  BY <1>1, QuietStep DEF vars, server
<1>2. CASE FormsStep
  BY <1>2, NextFormsStep DEF FormsStep
<1>3. CASE DoorsStep
  BY <1>3, EntersRests, QuietStep DEF DoorsStep
<1> QED
  BY <1>1, <1>2, <1>3 DEF Next

LEMMA InitIInv == Init => IInv
<1> SUFFICES ASSUME Init
             PROVE  IInv
  OBVIOUS
<1>1. saves = {} /\ check = NoCheck
  BY DEF Init, InitForms
<1>2. "auth_secret" \in Field
  BY FieldsAre
<1>3. stored["auth_secret"] = "old"
  BY <1>2, Sections DEF Init, InitForms
<1> QED
  BY <1>1, <1>3 DEF IInv, OneEach, SecretWhenNeeded, CheckIsFair, NoCheck, Keys, Blank

LEMMA IInvAlways == Spec => []IInv
BY InitIInv, NextIInv, PTL DEF Spec

----------------------------------------------------------------------------
(* The theorems. *)

\* A configuration that needs a secret has one: UpsertConfig refuses a form without
\* one when it read none, and what it read is what it writes.
THEOREM SecretIsThere == Spec => []SecretWhenNeeded
<1>1. IInv => SecretWhenNeeded
  BY DEF IInv
<1> QED
  BY <1>1, IInvAlways, PTL

\* Every field of a save that was told to be stored is stored, as the API converts it,
\* unless another tab changed it: a key-by-key save reaches its end with every key
\* written, and no save undoes what another of its tab has done.
THEOREM ToldIsStored == Spec => []SavedIsStored
<1>1. IInv => SavedIsStored
  BY DEF IInv, Kept, SavedIsStored
<1> QED
  BY <1>1, IInvAlways, PTL

\* AllowedForUser, over two reads, answers as at one moment, unless both rows
\* changed in between or a read failed.
THEOREM ChecksAreFair == Spec => DecisionsAreRight
<1> DEFINE Right ==
      check.stage # "done" /\ check'.stage = "done" =>
        \/ check'.answer \in {check.first, Effective(check'.key)}
        \/ {RoleRow[check'.key], OwnRow[check'.key]} \subseteq check.touched
        \/ check'.failed
<1>1. IInv /\ [Next]_vars => [Right]_<<server, browser>>
  <2> SUFFICES ASSUME IInv, Next, check.stage # "done", check'.stage = "done"
               PROVE  Right
    BY DEF vars
  <2>1. CheckIsFair
    BY DEF IInv
  <2>2. CASE \E k \in Checked : ReadOverride(k) \/ ReadOverrideFails(k)
    BY <2>2 DEF ReadOverride, ReadOverrideFails, Answers, AsksRole, NoCheck, Effective
  <2>3. CASE ReadRole \/ ReadRoleFails
    BY <2>1, <2>3 DEF ReadRole, ReadRoleFails, Answers, NoCheck, Effective, CheckIsFair
  <2>4. CASE check' = check
    BY <2>4
  <2>5. CASE Serves
    <3> DEFINE Touched == check' = check \/ \E changed :
                            check.stage = "role" /\ check' = [check EXCEPT !.touched = @ \cup changed]
    <3>1. Touched
      <4>1. ASSUME NEW r, NEW r1, NEW row, Puts(r, r1, row)
            PROVE  Touched
        BY <4>1 DEF Puts
      <4>2. ASSUME NEW r, Update(r) \/ UpdateKey(r) \/ UpsertConfig(r)
            PROVE  Touched
        <5> HIDE DEF Touched
        <5> QED
          BY <4>1, <4>2 DEF Update, UpdateKey, UpsertConfig
      <4>3. ASSUME NEW r, Refuse(r) \/ UpdatedKeys(r) \/ LoadRow(r) \/ SaveFails(r)
            PROVE  Touched
        BY <4>3 DEF Refuse, UpdatedKeys, LoadRow, SaveFails, Becomes
      <4>4. ASSUME NEW l, HandlesLoad(l)
            PROVE  Touched
        BY <4>4 DEF HandlesLoad, Select, SelectScope, LoadFails, Reads
      <4> QED
        <5> HIDE DEF Touched
        <5> QED
          BY <2>5, <4>2, <4>3, <4>4, Zenon DEF Serves, HandlesSave
    <3> QED
      BY <2>1, <3>1 DEF CheckIsFair
  <2>6. CASE DoorsStep
    BY <2>4, <2>6, EntersRests DEF DoorsStep
  <2>7. CASE NextForms
    <3>1. CASE \E t \in Tabs : Handles(t)
      BY <2>4, <3>1
         DEF Handles, SaveGeneral, UploadFile, SaveSeo, SavePermissions, SaveAuthentication,
             SaveCloudflare, SaveUser, ResetPassword, SaveOverrides, SaveGrants, SaveLink, SaveConfig,
             SendNow, Asks, Submits
    <3>2. CASE \E t \in Tabs : \/ Edit(t) \/ CancelEdit(t)
                               \/ \E f \in plan[t] : \E x \in Forms[f].fields :
                                    \E v \in Choices(t, x) : Type(t, f, x, v)
      BY <2>4, <3>2 DEF Edit, CancelEdit, Type, server
    <3>3. CASE \E r \in saves : Confirm(r) \/ Dismiss(r) \/ Succeed(r) \/ Fail(r)
      BY <2>4, <3>3 DEF Confirm, Dismiss, Succeed, Fail
    <3>4. CASE \E l \in loads : ReceiveMounted(l) \/ ReceiveAgain(l) \/ ReceiveError(l)
      BY <2>4, <3>4 DEF ReceiveMounted, ReceiveAgain, ReceiveError
    <3>5. CASE Checks
      BY <2>2, <2>3, <3>5 DEF Checks
    <3> QED
      BY <2>5, <2>7, <3>1, <3>2, <3>3, <3>4, <3>5 DEF NextForms
  <2> QED
    BY <2>6, <2>7 DEF Next, FormsStep
<1>2. Spec => [][Right]_<<server, browser>>
  BY <1>1, IInvAlways, PTL DEF Spec
<1> QED
  BY <1>2 DEF DecisionsAreRight

=============================================================================
