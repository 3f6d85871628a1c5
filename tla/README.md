# Verification of postback-system

A TLA+ development of the postback system in `src/`: short links whose visits
are logged, destination sites that report conversions back, an engine that
forwards both to third parties, and the dashboard with its sessions, second
factor and users. The modules are translated from the Go, SQL and TypeScript
sources; TLC checks them on small instances and TLAPS proves the safety
properties for every value of the constants. `PROJECT.json` holds the map from
definitions to source lines, the runs, the mutants, the hazards and the
theorems.

## 1. The system

Four processes share MySQL and Redis and nothing else:

    visitor ──> redirect service ──INSERT──> link_clicks ──┐
       │ (cid, tid)                                        │
       v                                                   v
    destination site ──/v1/postback──> API ──INSERT──> postback_events
                                        ^                  │
    browser (dashboard tabs) ──REST─────┘                  v
                                        worker / Send Now ──> third party
                                                └──> link_forwarding_deliveries

No handler takes a lock, and only three of them (setup, the authentication
settings and a user's entity grants) use a transaction. Every other statement is therefore a step that any other
request may precede or follow, which is where most of the difficulty lies.

| Component | Code | State | Operations | Hard behaviour |
|---|---|---|---|---|
| Forwarding engine | `shared/forwarding`, `handler/forwarding.go`, `services/worker`, migration 0008 | configuration row and delivery log per link; the locals of each run | daily sweep, Send Now, UpsertConfig | two senders without a lock, crashes between sending and recording, timeouts, a capped oldest-first queue |
| Redirect service | `services/redirect` | `link_clicks` | lookup, log, redirect | the click must be known before the pair leaves; links change meanwhile |
| Postback receiver | `handler/postback.go` | `postback_events` | check the pair and its window, record | errors answered 404, repeated calls, the window's edge |
| Links, campaigns, tenants | `handler/links.go`, `campaigns.go`, `simple_entity.go` | `links`, `campaigns`, `tenants` | create, update, status, delete, bulk | foreign keys against logged clicks |
| Sessions | `shared/session`, `handler/auth.go`, `middleware/auth.go`, `auth-provider.tsx`, `idle-timeout-modal.tsx` | Redis keys with a TTL, the cookie, each tab's status | login, me, any page, logout | check then extend, two clocks, replies out of order across tabs |
| Two-factor authentication | `handler/twofactor.go`, `auth.go`, `shared/totp` | secret, trusted devices, pending tokens | enroll, verify, trust, remove | counts and reads that are stale when the write happens |
| Users, roles, permissions, setup | `handler/users.go`, `permissions.go`, `setup.go` | `users`, `role_permissions`, `user_permission_overrides` | CRUD, matrix, overrides, wizard | checks on rows that change before the write; roles copied into sessions |
| Lists of the dashboard | `use-list-query.ts`, `shared/listquery`, `links/page.tsx`, `campaign-manager.tsx`, `simple-entity-manager.tsx` | rows, page, filters, selection | load, select, bulk actions | responses out of order |
| Editing pages | `settings/page.tsx`, `user-edit-view.tsx`, `single-link-view.tsx`, `link-forwarding-tab.tsx` | a form per section, the values last loaded, flags, dialogs | load, type, save, cancel, upload, send now | forms sent whole from old loads, chains of loads that break off, reloads that cross |
| Settings, media | `handler/settings.go`, `media.go` | the one `settings` row, link scopes, uploads | updates | a transaction over the link scopes, the login path |
| Entrance | the guards, `branding-` and `setup-provider.tsx`, `[slug]/page.tsx`, `setup-wizard.tsx` | what the tab knows: who is signed in, is there an account, the login path | open, redirect, log in, log out, finish the wizard | guards that act on what is not known yet, a login page that moves |
| Reports | `handler/reports.go`, `reports/page.tsx` | filters, the report on the page | run, export | ten queries without a transaction, days and months across offsets |
| Profile, login history, audit log | `handler/profile.go`, `sessions.go`, `audit_logs.go`, `shared/audit` | own row, append-only logs | read, append | none beyond one statement |
| Identifiers, crypto, parsing, wiring, deployment | `shared/idgen`, `crypto`, `uaparse`, `geoip`, `cmd/api`, `deploy` | none | pure functions, routes, units | systemd restarts of the worker |

What makes each of them correct:

- *Forwarding*: nothing is marked sent that the third party did not take in; a
  record is sent again only after a fault; success is final; older records go
  first, clicks and postbacks alike; a record of a link that stays served is
  eventually sent.
- *Tracking*: a pair that was handed out for a logged visit is known to the
  receiver for good; a conversion is recorded for a logged visit, by a call that
  came in within its window; what is recorded stays.
- *Sessions*: an ended session stays ended; the role in it is bounded in age;
  every tab learns of a sign-out.
- *Two-factor*: the device cap, one session for a pending token, and an active
  secret that was proven by a code.
- *Users*: no actor changes a user that the rules keep from it; somebody can
  always administer the system; setup happens once.
- *Lists*: the rows shown are those of the filters shown, and a selection only
  holds rows that are shown.
- *Editing pages*: a form shows what is stored, as the API converts it, but for
  what its user typed, somebody else changed or the page put back; a save changes
  what its user changed; what is reported stored is stored.
- *Permissions*: a request is decided by what the tables said at some moment of
  the decision.
- *Entrance*: a visitor ends at the page that is for them.

## 2. Modules

| Module | Role |
|---|---|
| `Backlog` | the two capped queries and their merge (`FetchBacklog`) as operators on sets of records |
| `Forwarding` | the engine: every call of `RunForLink` is a process, with the worker, the dashboard and the third party around it |
| `AtLeastOnce` | what forwarding promises, without runs, batches or faults; `Forwarding` implements it |
| `Tracking` | redirects, postbacks and changes to links, statement by statement |
| `Journal` | what tracking promises: an append-only book; `Tracking` implements it |
| `Sessions` | Redis, the cookie, Me / RequireAuth / Logout, and the AuthProvider of each tab |
| `TwoFactor` | one account's enrollment, codes, pending tokens and trusted devices |
| `Access` | accounts, the roles in sessions, the users page and the setup wizard, statement by statement |
| `Catalog` | tenants, campaigns and links with their foreign keys, one step per statement |
| `ListView` | the list of merchants, campaigns or links in one tab (`useListQuery`, its page, the confirm dialog) over `Catalog` |
| `Records` | the rows that forms show, the handlers that read and write them statement by statement, the permission check of a request |
| `Forms` | the editing pages in a tab each: loads, forms, dialogs, saves, reloads, over `Records` |
| `Doors` | a visitor's tab between login page, wizard and dashboard: providers, guards, navigation, over `Records` |
| `Dashboard` | `Forms` and `Doors` over the same rows |
| `MC*` | the constants of the TLC instances |
| `ForwardingProofs`, `TrackingProofs`, `SessionProofs`, `TwoFactorProofs`, `AccessProofs`, `ListViewProofs`, `DashboardProofs`, `FormsProofs` | the theorems |

Next to a definition that some run's property depends on stands, with the
comment "A mistake ... could have", a faulty variant of it. No specification
uses these variants; they are what the properties are tested against.

### Forwarding

`configs`, `status` (the delivery log), `stamped` (`last_run_at`) and `arrived`
(rows of clicks and postbacks) are tables. `run` holds the locals of each call
of `RunForLink`, `sweep` the link ids `RunDailySweep` has left; both are lost
in a crash. `accepts` and `faults` are history: what the third party took in,
and how often something failed.

One call is `Begin` (LoadConfig, the enabled check that Send Now skips,
ValidateEndpoint) or `Skip` (an early return), `FetchLeads`, `FetchActions` (a
second query, after rows may have been added or marked, and the merge), then per
parcel one of `SendOk`, `SendRejected`, `SendUnanswered` (taken in, but no 2xx
was seen), then per record `RecordDelivery` or `RecordFails`, and `Finish` or
`FinishUnstamped`. A JSON batch is one parcel; otherwise every record is one.
`Abandon` is a failing query, or a Send Now whose client is gone, since its
request context ends with it. Links, requests and configurations change at any
moment between these steps.

Abstracted: secrets, authentication, field mapping and `attempts`, `http_status`
and `last_error`, which no step reads back. Records of equal timestamps come
in any order, since neither the queries nor `sort.Slice` break ties.

### Tracking

A link is its id, and its `tid` is as unique; a visit stands for its `cid`; a
post for one call of a destination site. `Lookup`, `Log` / `LogFails` and
`Redirect` are the three steps of `redirectHandler`, `Check` / `CheckFails` and
`Record` / `RecordFails` those of `PostbackHandler.Handle`. `Create`, `Update`,
`UpdateStatus` and `Delete` are the links page; `Delete` has the foreign key of
`link_clicks`. `visit[v].logged` says that the INSERT succeeded. A destination
site may call any number of times (up to `Posts`) and with a `tid` of another
link. `Tick` may fall between any two statements, since no request has a deadline:
the window of a click is worked out at some moment between `Lookup` and `Log`, and
`Check` looks at the clock once, so that a conversion may be recorded after
`valid_until`. The journal says as much: a call is let in (`Admit`) within the
window of its visit, and entered (`EnterPost`) at any time after that.

### Sessions

`expires` is the TTL of the Redis key, `jar` the cookie with its own, `since`
the moment of the login and so the age of the role in the session. A call is
sent with the cookie of that moment, served in one or two steps (`Check` is
Store.Get, `Touch` is Store.Touch) and its reply is received later, in any
order. `SendPage` is any request of a page; RequireAuth does to the store what
Me does. `Reload` remounts the AuthProvider. A lost reply or an error answer
shows the tab as signed out, as `refresh` and `logout` do. `RedisFails` is the
error of EXPIRE or DEL that both handlers ignore; `RedisLoses` is a Redis
restarted without its data. The clock stands still while calls are under way.

A consequence seen while modelling: only the key is extended, so the cookie runs
out no later than the key, unless that is deleted or lost. The status `session_expired` is
therefore reached through Redis losing a key, or a logout in another tab, and
not through inactivity.

### TwoFactor

One account, several browsers. `secret` and `enrolled` are the row of
`two_factor_secrets`, `devices` the account's `trusted_devices`, `pending` the
Redis keys of logins that wait for a code, `cookie` the `pb_device` of each
browser. A code is the secret it was computed from, so a right code is one of
the stored secret. Each request walks through its stages, one per statement:
`Login`, `CheckEnrolled`, `CheckDevice`, `CreatePending`; `Verify2FA`,
`GetPending`, `CheckCode`, `DeletePending`, `CountDevices`, `TrustDevice`,
`CompleteLogin`; `VerifyEnrollment`, `CheckCode`, `Confirm`, `CountDevices`,
`TrustDevice`; and `Answer`, the reply with its cookies. The parameter `ok` of
a step is FALSE when its statement fails and the code passes over that. `shown`,
`proven` and `exchanged` are history. `Sessions` has what happens after
`signedIn`; here a sign-out is one step.

### Access

`row` is the table of users with role, status and `created_by`; `issued` its
AUTO_INCREMENT. `sessions` holds which user has a session with which role: the
role is copied at login and never read again, and a session may outlive its
account. That a session ends is that it is not used again, and several of one
user with one role are one. Only Super Admins and Admins reach the users page,
so marketers' sessions are left out.

A request starts with what the session says (`Create`, `Update`,
`UpdateStatus`, `Delete`; bulk requests differ from single ones in the number of
ids and in passing over what single ones refuse), looks at one account after
another (`TargetRole`, one query each) and then writes by id (`Insert`,
`SetRole`, `SetStatus`, `Remove`). Between two of these anything may happen to
the accounts, that of the actor included. `Remove` has what the foreign key does
to `created_by`. `Fail` ends a request at any point. `NeedsSetup` and `Complete`
are the check and the transaction of the wizard. A login is one step: `Login`,
with the status checked, or `Verify2FA`, the second half of a login whose
password was accepted earlier, where the status is not read again.
`setups` and `emptied` are history.

`LastAccountStays` says how far the rule "not your own account" goes: it keeps
one account that can log in unless two requests overlap or an actor is
inactive or gone by then. In those cases two Super Admins can switch each other
off; the comment at `src/services/api/internal/handler/setup.go:17` takes the existence of a row for
the question whether somebody can log in, and the wizard stays closed while
inactive rows are left. `SetupsBounded` is the exact price of checking
`needsSetup` outside the transaction.

### Lists (`Catalog`, `ListView`)

`Catalog` holds the rows of the three tables as functions of the ids that exist:
status, and what they refer to. Every handler changes them in one statement, so
every operator is one step, and `Hosting`, `Linked` and `Visited` are the foreign
keys that refuse a deletion as a whole.

`ListView` is one tab over it, with one of three pages (`kind`): merchants
(`SimpleEntityManager`), campaigns (`CampaignManager`) or links (`LinksPage`).
What they share is `Controls` and `Handlers`; they differ in their tables, in the
JOINs of COUNT and SELECT (`Joined`, `Counted`), in the foreign keys that refuse
their requests (`Held`, `Refused`), and in that links are neither created nor
edited on their page. `query` is what the controls say; `QueryBecomes`
is the state change together with the effect that sends a load for it. A load
goes through its two SELECTs and is then received at any time, before or after
others (`Receive`), or fails (`ReceiveError`). A handler asks for confirmation
with the ids it saw (`dialog`), then sends its request, which is served at some
moment by an operator of `Catalog` or refused. `Reply` carries on in the handler:
its `list.refetch` is the load of the render the handler was made in, so it uses
that render's query (`change.query`), not the current one.

Search text, filters, sort order and rows per page are one value, since all of
them only select and return to page 1; the order is by id, as if by distinct
names. `OtherUser` is any statement of `Catalog` by anyone else.

What holds is less than one would like, and stated as it is. Once no load is
under way, the rows are those of the query shown (`QuietPageIsRight`) only if the
load sent last was answered last and was sent by the effect: an answer that
overtakes another, and a refetch that follows a change of the filter, both leave
the wrong rows for good. `ReadsOwnDeletes` needs the first condition only.
`CountedIsListed` says why COUNT may leave out the JOIN that the SELECT has.

### Forms, doors and the rows between them (`Records`, `Forms`, `Doors`, `Dashboard`)

`stored` gives each field its value. A field stands for all fields that are
loaded, sent and written with it in the same way: `site_title` for title, region
and language, `full_name` for a user's own fields, `destination_url` for the link's,
`cloudflare` for token and zone. `FieldsOf` says what one load brings. Texts are typed with
spaces and capitals where a handler does something about them: `Stores` is what it
makes of a field (`Trimmed`, `Lowered`, the default path, and the Origin of the
request for a blank `site_url`, which is not typed here: it is a text like
`site_title`, and the handler changes it all the same), and `Refuse` the answer to a required field of
nothing but spaces. At first `site_url` is blank where accounts were put into the
tables, and the Origin where the wizard is still going to store it. The formats of
a login path and of an endpoint are not checked, since only right ones are typed;
`expires_at`, which the page cuts to minutes, was entered in minutes. A save is
a record in `saves` that walks through its handler: one `Update`; or, for the
matrix and the overrides, `UpdateKey` per key, in the order of a Go map, which
stops at the first failure; or, for the forwarding configuration, `LoadRow` and
`UpsertConfig`. A read is one `Select`, and for the authentication settings a
second one, `SelectScope`. `check` is one permission check of a request, with
its two reads.

`Forms` has a page in each tab. `plan` says which of its forms the user is going
to use, so that an instance can leave the others at rest. `form` is what the
page shows and `base` what its loads brought (`data`, `link`); `Ready` says when
a form can be used: its chain of loads is over, no dialog is open, and it is
there at all. That differs by page: settings shows its row with defaults when the
load failed, matrix and authentication are missing then, a user or link page
stays at "Loading", and the Forwarding tab is away during a reload. A handler
fixes what it sends before its dialog is answered (`SaveOf`), so that what is
typed meanwhile is not part of it. `Succeed`, `ReceiveAgain` and `ReceiveError`
are what follows `await`. The fields for Cloudflare are part of no load: a reload
of the settings leaves what was typed there. Four variables are history: `typed`
is what the user typed since the last load or save, `behind` what other tabs
changed since the form was loaded, `own` what saves of the same tab changed since
then, and `reverted` the part of `own` that the page put back to a value from
before: by `CancelEdit` when the reload after the save did not arrive, or by a
reload that was read before the save was written (`missed` and `crossed` of a load
say what was written after it was read). What a save of the tab writes is
in `own`, but that it or its reload fails adds to none of them. A save keeps a copy of each (`stale` is `behind`).

The pages promise less than they seem to, and the properties say exactly how much
is left. A form that was loaded before somebody else's save writes old values
back, so `UntouchedIsKept` and `SavedIsStored` exempt fields that another tab
changed since the load (`stale`). `UntouchedIsKept` has three exemptions more: what
the page had put back (`reverted`); the settings row and a user's grants, which can
be saved without ever having been loaded (`~r.loaded`); and what the API makes of
the stored value, which is how a save of the title turns a blank `site_url` into
the Origin. The warning that the login page moves is about what the page
loaded, so `MovesAreWarned` exempts a path that was changed since, by another tab or
by a save whose reload did not arrive (`own`), or that was never loaded.
`SavedIsStored` compares with what `Stores` makes of what was sent.
`FormsAreTrue` exempts `typed`, `behind` and `reverted`, and lets a form show what
its user sent where the API stored its conversion, which the forms that are not
loaded again do. It has no exemption for the form's own failed saves and reloads: a
save that failed halfway, or whose answer was lost, leaves typed values on the page
and nothing else that is not stored, and after a reload that failed the page shows
what was saved until Cancel puts the old values back. Nor is there one for a
neighbour's reload, a section that is loaded twice, or the time a request is under
way: it holds at every moment, so a page that is rendered between two answers is
right too. `DecisionsAreRight` allows what two reads
without a transaction cannot avoid (both rows change in between) and what the code
chose (an unreadable override is no override), and nothing else.

`Doors` is one tab of a visitor, whose cookie is missing, or presents a session
that is live or dead. Opening a path starts three providers, whose
answers arrive in any order or not at all. `MeAnswers` is the first answer and those
of the poll: a dead session is `session_expired`, under which the dashboard stays
where it is, behind the modal, until `Acknowledge`. `SessionEnds` is an expiry, a
Redis that lost its keys or a logout elsewhere; `LogOutFails` is the request whose
error leaves the tab signed out and the session perhaps alive. Other tabs that log
in, and answers that cross between tabs, are in `Sessions`. `Arrive` is the server's decision what
a path shows. The guards (`RequireAuth`, `GuestOnly`, `SetupOnly`) are functions
of what the tab knows, and `Redirect` is their effect, which runs again whenever
that changes and overtakes a navigation under way. `QuietDoorIsRight` says where
a visitor may end: "not found" only for a wrong path, for a guard that ran before
the branding was there (`early`), when the path moved meanwhile (`moved`), or when
it could not be asked for; the dashboard with a session, or one that ended since the
last poll (`ended`), or under the modal without one; the login page with a
session only after a failure to ask about it or to end it. A poll that says
`session_expired` to a tab whose session is live, or a guard that leaves who has no
session at the dashboard without the modal, would violate it.
That a guard runs too early is a consequence seen while modelling: with a
hidden login path, whoever opens the dashboard signed out is sent to `/login` if
`/v1/auth/me` is answered before `/v1/settings/public`, and again to the right
path once the branding is there only if the tab still shows the dashboard then.

## 3. Runs

| Run | Instance | Question |
|---|---|---|
| `forwarding_sweep` | 1 link, 2 clicks, 1 postback with a timestamp tie, caps 1 and 2, 2 faults, sweep only | is a single sender right, whatever fails? |
| `forwarding_resend` | as the sweep with one Send Now, no fault | does a sender dispatch unsent records only? (no) |
| `forwarding_live` | one refused and one good record, caps 1 and 2, sweep and one Send Now, 1 fault | what do two senders that meet still promise (`AtLeastOnce`), and is a record eventually sent? |
| `tracking` | 2 links that may share a slug, 2 visits, 2 posts, window 1, clock to 2, 1 fault | is a logged visit known, and is the data a journal, however long a request takes? |
| `sessions` | 2 tabs, 2 calls, 2 logins, TTL 2, clock to 2, 1 fault | do ended sessions stay ended, and is staleness bounded? |
| `sessions_live` | the same with one login | do all tabs learn of a sign-out? |
| `sessions_sliding` | the same as `sessions`, no fault | does only inactivity end a session? (no) |
| `two_factor` | 2 browsers, 2 requests, 1 secret, 3 devices, 2 pending tokens, cap 1, 1 fault | how far can counts and deletions be overrun? |
| `two_factor_secret` | 1 browser, 1 request, 2 secrets | is the active secret a proven one? (no) |
| `access` | 3 accounts, 2 requests, 2 sessions, 1 id a request, changes to the role Admin | do checks made before the write protect accounts, and the wizard? |
| `lists` | each of the three pages over 3 tenants, 3 campaigns and 3 links, two of each at first, on pages of two (links: of one), 2 loads, 1 change of the page's own, 1 event from outside | do rows, selection and reports of a list stay in step with the tables? |
| `dashboard` | two tabs on the same page, on the two that decide about permissions, or one with a visitor; 2 values typed, 2 saves, 3 moves of the visitor or, after a new path is typed and submitted, 2, 1 fault | are forms, saves, decisions and doors right? |

The passing runs check with deadlock detection, except `lists` and `dashboard`,
whose users may simply stop. All modules are kept finite by
sets of ids that are used once (records, visits, posts, sessions, tokens), by
`MaxFaults`, and by `Horizon` where there is a clock. Symmetry is used for
safety only.

Why these bounds are enough to be of use:

- Two clicks and a postback with caps 1 and 2 are the smallest queue that is cut
  in either query, in the merge, and at a tie; two faults let a crash follow a
  lost answer. The overlap needs one record per kind and one request.
- Two links with one slug let a slug move from a deleted link to a new one; two
  posts let a call be repeated; window 1 and clock 2 have a moment inside the
  window, one at its end and one past it.
- Two tabs and two calls are the smallest setting in which replies overtake each
  other; TTL 2 and clock 2 let a session end with and without being touched.
- The code's cap of trusted devices is 2; the instance has 1, and three device
  tokens, so that the cap is reached, exceeded by a request and by a fault. The
  theorem covers every cap. `TokensLeft` bounds the logins that need a token.
- Three accounts let an Admin, what it created and a Super Admin meet, and two
  requests are the least that overlap. `MaxSessions` counts different pairs of
  user and role; `MaxBulk` is 1, so a bulk request is a single one there, and
  `Given` has one role accounts are changed to. The theorems cover every value
  of the three.
- Two loads are the least that cross, or that bring an older query back; three
  rows fill a page and begin another, one of two is held by a row that refers to
  it. Links have pages of one, so that there is a next page and a way back. The one
  event is a statement of another user, a failing one or a lost reply, so each of
  them meets every interleaving of loads and request, but no two of them meet.
- Two saves are the least that interleave, and two typed values let a user change
  what is being saved, or two users change one row. `MCPlans` pairs each form with
  itself in the other tab, since forms of different rows have nothing in common,
  and puts those of one page that share a row or a flag into one tab. Where the visitor comes, the login path may be typed and its form submitted
  once, before that; it is confirmed, written, answered and loaded again at any time
  while the visitor is under way. `MaxDone` counts edit, submission and moves together:
  four let the path move while the visitor logs in and loses the session or signs out,
  and alone the visitor has three. Where permissions are decided, the users wait until
  both pages are loaded, and type the checked permission only; what typing during
  the loads does is seen where both tabs have the matrix. All these are bounds on the
  interleavings, not on what a statement may do. The two tabs are symmetric, since `MCPlans` has the mirror
  image of every plan. One fault lets each answer fail, and each save stop halfway;
  a crossing reload needs none.

Fairness. *Forwarding*: weak fairness of the worker's loop and its sweep,
because the loop does nothing else and systemd restarts it; strong fairness of
`Begin` per link, because a name that keeps being looked up resolves again; and
strong fairness of a good answer per record that the endpoint does not refuse
outright. Nothing is asked of Send Now. `Served` names what the code needs: the
link stays on, and the refused records do not fill the cap (or, in a JSON
batch, there are none), since the oldest records hold their places in the
queue for ever. That refused records can fill the cap, and that a sweep can miss a
midnight, is thus assumed away in `EventuallyForwarded`, not checked; and that a
Send Now that meets the sweep reopens a sent record is permitted by `AtLeastOnce`,
not caught. *Sessions*: weak fairness of serving and answering calls and
strong fairness of each tab's interval. The safety modules have none.

## 4. Findings

Three runs show the code doing other than what its own text says:

- `forwarding_resend`: Send Now overlapping the sweep (or another Send Now)
  dispatches a record that has a `sent` row, with no fault at all, and a late
  failure overwrites that row. `AtLeastOnce` allows the reopening exactly when
  senders overlap.
- `sessions_sliding`: Touch slides the key in Redis and the cookie stays as it
  was, so an active user is signed out two hours after the login.
- `two_factor_secret`: an Enroll between the check of a code and the
  confirmation makes active a secret that no code was entered for.

In the same family, and stated as what *does* hold: `DevicesBounded` gives the
exact amount by which trusted devices can exceed the limit that
`src/migrations/0004_campaign_tenant_2fa_permissions.up.sql` speaks of (one less
than the number of requests at a time, plus failed counts), and
`ExchangesBounded` how many sessions one pending token can yield.

## 5. Proofs

All theorems are proved from the modules' named assumptions on constants:
disjoint kinds of ids, finite sets where something is counted, positive caps,
natural bounds. In each case a strengthening is shown to hold initially and to
be preserved by every action, one lemma or step for each.

- **Forwarding, any number of senders.** `SentWasAccepted` is not inductive: it
  must be known of a call that is about to record a success that its records
  were taken in. `InFlight` says so, and that a call holds arrived records only.
  TypeOK, InFlight and SentWasAccepted together are inductive
  (`ForwardingProofs`, `NoFalseSent`).
- **Forwarding, the sweep alone** (`Requests = {}`). `SoleSender` relates the
  worker's locals to the log: nothing it holds has a `sent` row, nothing is
  both pending and due, and a record still open was taken in at most as often as
  a fault hid it. From it follow `RepeatsAreFaults`, `SentStays` and
  `OnlyUnsentLeaves` (`ForwardingProofs`).
- **The queue.** `QueueIsShared` rests on lemmas about `OldestFirst` and `Merge`:
  the merge of two cut-off lists, cut off again, overtakes nothing either query
  saw (`ForwardingProofs`).
- **Refinement.** `ForwardingProofs!Refinement` maps every action of `Forwarding` to a
  step of `AtLeastOnce` or a stutter, with `Overlapping` true exactly when there
  are requests. `TrackingProofs!Refinement` does it for `Journal`.
- **Tracking.** `PairsStay` (a logged visit has its row, and its link remains)
  and `CallsFollow` (calls come after redirects; a checked call is within its
  window) are inductive with TypeOK. `LossNeedsFault` counts: posts lost to a
  404 form a finite set that grows by one only with a fault.
- **Sessions.** `CookieLifetime` (the browser presents a session for at most TTL
  after the login, and so do calls under way) is inductive with TypeOK and gives
  `StalenessIsBounded`. `EndedStaysEnded` is an action property: every action
  leaves `expires` as it is, zeroes it, or extends a session that is alive.
- **Two-factor.** `Shape` says which stages a request with a token can be in.
  `Tally` counts, for each token, the sessions it has yielded and the requests
  that hold it: while it is still stored, only failed deletions have passed it.
  With `DevicesBounded`, which counts requests between the count and the insert
  as devices already, and TypeOK it is inductive (`CapIsNearlyKept`,
  `ExchangesAreBounded`).

- **Access.** `Shape` says why an id that passed the check stands for the same
  account later: ids are issued once, and `created_by` changes only to NULL and
  only with the creator's deletion. `Tally` counts the requests that found the
  wizard open as if they had made their Super Admin already. With TypeOK they
  are inductive (`WizardIsBounded`), and the two action properties follow from
  them, one case for each write (`SomebodyStays`, `OwnAccountsOnly`).

- **Lists.** All properties of `ListView` are proved, for each of the three pages.
  `References` (no campaign or link refers to a row that is gone) is the invariant
  of `Catalog`, one lemma for each statement; `OnlyFresh` says that an id that
  disappeared does not come back. `SelectionIsOnPage` is inductive with TypeOK. For
  the pages at rest the induction needs what each load in flight stands for: the
  load sent last carries the query of the controls if the effect sent it (`Latest`),
  numbers of loads are used once, and what a load under way has read holds no row
  that was reported deleted before it was sent (`Deleted`), which is
  why `DeletedIsUnseen` needs no condition on the query. `TotalsAreRight`
  compares two cardinalities that no step keeps: a row's rank among the matching
  rows is a bijection onto an interval of numbers, a page of the list is the part
  of it between two ranks, and `References` makes COUNT and SELECT see the same rows.
- **Forms.** `IsSave` says what a save on its way looks like (which fields it sends,
  what a failed or refused one leaves out) and `Kept` that what a finished one was
  told is stored, as the API converts it, unless it changed since; `OneEach` that a
  tab has at most one save of each form, so that no field is written by two saves of
  one tab at a time; with `SecretWhenNeeded` and `CheckIsFair`
  (what the check has read is what the row said then, and whatever changed since is
  noted) they are inductive for any number of tabs, plans and saves. From it follow
  `SecretIsThere`, `ToldIsStored` and `ChecksAreFair`. The secret is
  there because `UpsertConfig` writes the secret it has read together with the type
  that needs it, and does not count on the one that is still in the row.

- **What the forms show** (`FormsProofs`). `FormsAreTrue` is about one moment, and what
  makes it true is what the requests under way will do to it. `Everything` says so, and
  is inductive for any number of tabs and saves and for every plan that keeps a tab to
  one page:
  - `Types`: every field of every row, form, save and answer has one of *its* values
    (`Among`: a cell of the matrix is allowed or denied, never default; a stored login
    path is in lower case; a trimmed text has no spaces around it; what is sent may),
    and a save sends fields of its form.
  - `Honest`: what a save sends, and its user did not type, is what is stored, up to
    the conversions, unless another tab changed it since or the page had put it back. The secret field is the exception the page makes: it is
    sent blank, and the handler puts in the secret it has read.
  - `Fresh`: what an answer under way has read is what is stored, unless the field is
    noted as changed since (`missed`, `crossed`); an authentication answer whose second read is still to come
    says so of the first row only.
  - `FormIsTrue` and `BaseIsTrue`: of the forms, and of what the page keeps of the last
    load: the link that Cancel puts back without asking the server, and the login path
    that the form is compared with before it warns. The latter is what is stored but
    for what some tab changed since (`behind`, `own`), which is why Cancel marks the
    fields of `own` as `reverted`.

  Without `BaseIsTrue` the step of `CancelEdit` fails, without `Honest` that of
  `Succeed` (a form that keeps what it sent shows it as stored from then on), without
  `Fresh` those of `ReceiveMounted` and `ReceiveAgain`. `StoresIs` says that what
  is stored of a link and of the login path is not converted again, so that a form
  that shows it sends it back as it is. `UntouchedStays` and `MovesAreAnnounced`
  follow from `Honest` at the one step that writes; a write by an `Update` of several
  fields, by a key at a time and by an upsert are three cases of it.
- **Where a visitor ends** (`FormsProofs`). `DoorInv` says in what sense each thing
  the tab knows is right: where it is bound for (`Bound`), unless the path was mistyped,
  moved or not known; the login path and the need for a setup (`Believed`), unless an
  answer failed or they changed since; the session (`SignedIn`), where signed in means
  live or ended since the last answer, expired means no longer live, and signed out
  means the same unless a call failed.
  It is inductive with the types of the tab, and the pages that `SentOn`
  cannot leave are the ones `QuietDoorIsRight` allows.

The proofs about `Dashboard` assume of `Plans` what the code fixes by its routes: a
tab is at one page (`DashboardAssumption`).

Two things came out of these proofs. `Succeed` cleared a field from `typed` even when
the save had been overtaken, and `behind` missed an answer that was read before
another tab's write and received after it; with the logo form's reload during a save
of the SEO form, the history then said of a stale form that it should be right.
The bounds of the run do not reach that, and the induction step of `Succeed` did. Now
history keeps such a field, and `FormsAreTrue` could be stated for every moment
instead of for forms at rest. And some CASE arms overlapped, where TLC takes the first
but the logic leaves open which one: a lemma about `ScopeOf` could not be proved. They
are disjoint now.

The safety invariants and action properties of all passing runs have theorems. Only
model-checked are the two liveness properties, `EventuallyForwarded` and
`SignedOutSpreads`, because the prover has no account of fairness and ENABLED. No module
uses recursion.

## 6. Not modelled

- *Reports* (`reports.go` and its page): a report changes no row. Each of its
  queries repeats the same conditions over the rows of clicks and events, whose
  growth is in `Tracking`, without a transaction around them; its presets are date
  arithmetic of the library. Read in the source, not checked: Export leaves out the
  filter on names of events that the report on the screen has
  (`reports.go` lines 201 and 433), a region that cannot be read counts as GMT+8,
  and no loop over rows asks `rows.Err`.
- *The list of users* on its page: the same hook and dialogs as the lists in
  `ListView`, but for rows that cannot be selected. Its requests are in `Access`.
- *Audit log and login history*: written after each change with the error ignored,
  and read back by nothing but the page that shows them.
- *Profile*: statements on the caller's own row, one for each request. Its
  two-factor panel calls what `TwoFactor` has.
- *Media files and ClearCache*: a file written next to the row that names it, and a
  call to Cloudflare. The row of the logo is in `Records`.
- *Identifiers, hashing, encryption, TOTP arithmetic, user agents, GeoIP*: library
  code over strings and bytes. The models take ids that are issued once and a code
  that matches its secret.
- *Wiring*: routes, connections, environment, systemd units, and migrations beyond
  the constraints used above.
- *Other pages and widgets*: they read, or are parts that the lists and forms have.

A bulk request of several ids against a second one is in `Access` in principle
(`MaxBulk`), but checked with one id only, for its size; the theorems cover any.

## 7. Running it

    tlc -workers 2 -config MCForwardingSweep.cfg MCForwarding
    tlapm ForwardingProofs.tla

Each configuration names its module by its prefix (`MCForwardingLive.cfg` is for
`MCForwarding`). The three runs of section 4 end with a counterexample.
