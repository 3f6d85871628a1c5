-------------------------- MODULE ListViewProofs --------------------------
(***************************************************************************)
(* What TLAPS proves of Catalog and ListView, for all sets of ids, rows    *)
(* per page and bounds.                                                    *)
(***************************************************************************)
EXTENDS ListView, FiniteSetTheorems, TLAPS

----------------------------------------------------------------------------
(* The tables. *)

\* No row refers to a missing one.
References ==
  /\ \A c \in DOMAIN campaigns : campaigns[c].tenant \in DOMAIN tenants
  /\ \A l \in DOMAIN links : links[l].campaign \in DOMAIN campaigns

Sound == TablesOK /\ References

\* New rows have new ids.
OnlyFresh ==
  /\ issued \subseteq issued'
  /\ DOMAIN tenants' \cap issued \subseteq DOMAIN tenants
  /\ DOMAIN campaigns' \cap issued \subseteq DOMAIN campaigns
  /\ DOMAIN links' \cap issued \subseteq DOMAIN links

LEMMA TablesKept ==
  ASSUME Sound, UNCHANGED tables
  PROVE  Sound' /\ OnlyFresh
BY DEF Sound, TablesOK, References, OnlyFresh, tables

LEMMA CreateTenantKeeps ==
  ASSUME Sound, NEW t, CreateTenant(t)
  PROVE  Sound' /\ OnlyFresh /\ DOMAIN tenants \subseteq DOMAIN tenants'
<1>1. t \in Tenants /\ DOMAIN tenants' = DOMAIN tenants \cup {t}
      /\ \A d \in DOMAIN tenants' : tenants'[d] = IF d = t THEN [status |-> "active"] ELSE tenants[d]
  BY DEF CreateTenant, WithRow
<1>2. UNCHANGED <<campaigns, links, visited>> /\ t \notin issued /\ issued' = issued \cup {t}
  BY DEF CreateTenant, Fresh
<1> QED
  BY <1>1, <1>2 DEF Sound, TablesOK, References, OnlyFresh, Tenant, Status, Ids

LEMMA CreateCampaignKeeps ==
  ASSUME Sound, NEW c, NEW t, CreateCampaign(c, t)
  PROVE  Sound' /\ OnlyFresh /\ DOMAIN campaigns \subseteq DOMAIN campaigns'
<1>1. /\ c \in Campaigns /\ t \in DOMAIN tenants
      /\ DOMAIN campaigns' = DOMAIN campaigns \cup {c}
      /\ \A d \in DOMAIN campaigns' :
           campaigns'[d] = IF d = c THEN [tenant |-> t, status |-> "active"] ELSE campaigns[d]
  BY DEF CreateCampaign, WithRow
<1>2. UNCHANGED <<tenants, links, visited>> /\ c \notin issued /\ issued' = issued \cup {c}
  BY DEF CreateCampaign, Fresh
<1> QED
  BY <1>1, <1>2 DEF Sound, TablesOK, References, OnlyFresh, Campaign, Status, Ids

LEMMA CreateLinkKeeps ==
  ASSUME Sound, NEW l, NEW c, CreateLink(l, c)
  PROVE  Sound' /\ OnlyFresh
<1>1. /\ l \in Links /\ c \in DOMAIN campaigns
      /\ DOMAIN links' = DOMAIN links \cup {l}
      /\ \A d \in DOMAIN links' :
           links'[d] = IF d = l THEN [campaign |-> c, status |-> "active"] ELSE links[d]
  BY DEF CreateLink, WithRow
<1>2. UNCHANGED <<tenants, campaigns, visited>> /\ l \notin issued /\ issued' = issued \cup {l}
  BY DEF CreateLink, Fresh
<1> QED
  BY <1>1, <1>2 DEF Sound, TablesOK, References, OnlyFresh, Link, Status, Ids

\* Updates keep the ids of every table.
SameRows ==
  /\ DOMAIN tenants' = DOMAIN tenants
  /\ DOMAIN campaigns' = DOMAIN campaigns
  /\ DOMAIN links' = DOMAIN links

LEMMA UpdateKeeps ==
  ASSUME Sound,
         \/ \E c, t : UpdateCampaign(c, t)
         \/ \E l, c : UpdateLink(l, c)
  PROVE  Sound' /\ OnlyFresh /\ SameRows
<1>1. CASE \E c, t : UpdateCampaign(c, t)
  <2>1. PICK c, t : UpdateCampaign(c, t)
    BY <1>1
  <2>2. /\ DOMAIN campaigns' = DOMAIN campaigns
        /\ c \in DOMAIN campaigns => t \in DOMAIN tenants
        /\ \A d \in DOMAIN campaigns :
             campaigns'[d] = IF d = c THEN [campaigns[d] EXCEPT !.tenant = t] ELSE campaigns[d]
        /\ UNCHANGED <<tenants, links, visited, issued>>
    BY <2>1 DEF UpdateCampaign
  <2>3. \A d \in DOMAIN campaigns :
          campaigns'[d] \in Campaign /\ campaigns'[d].tenant \in DOMAIN tenants
    BY <2>2 DEF Sound, TablesOK, References, Campaign
  <2> QED
    BY <2>2, <2>3 DEF Sound, TablesOK, References, OnlyFresh, SameRows
<1>2. CASE \E l, c : UpdateLink(l, c)
  <2>1. PICK l, c : UpdateLink(l, c)
    BY <1>2
  <2>2. /\ DOMAIN links' = DOMAIN links /\ c \in DOMAIN campaigns
        /\ \A d \in DOMAIN links :
             links'[d] = IF d = l THEN [links[d] EXCEPT !.campaign = c] ELSE links[d]
        /\ UNCHANGED <<tenants, campaigns, visited, issued>>
    BY <2>1 DEF UpdateLink
  <2>3. \A d \in DOMAIN links :
          links'[d] \in Link /\ links'[d].campaign \in DOMAIN campaigns
    BY <2>2 DEF Sound, TablesOK, References, Link
  <2> QED
    BY <2>2, <2>3 DEF Sound, TablesOK, References, OnlyFresh, SameRows
<1> QED
  BY <1>1, <1>2

LEMMA SetStatusKeeps ==
  ASSUME Sound, NEW ids, NEW s \in Status,
         SetTenantStatus(ids, s) \/ SetCampaignStatus(ids, s) \/ SetLinkStatus(ids, s)
  PROVE  Sound' /\ OnlyFresh /\ SameRows
<1>1. CASE SetTenantStatus(ids, s)
  <2>1. /\ DOMAIN tenants' = DOMAIN tenants
        /\ \A d \in DOMAIN tenants : tenants'[d] \in Tenant
        /\ UNCHANGED <<campaigns, links, visited, issued>>
    BY <1>1 DEF SetTenantStatus, WithStatus, Sound, TablesOK, Tenant
  <2> QED
    BY <2>1 DEF Sound, TablesOK, References, OnlyFresh, SameRows
<1>2. CASE SetCampaignStatus(ids, s)
  <2>1. /\ DOMAIN campaigns' = DOMAIN campaigns
        /\ \A d \in DOMAIN campaigns :
             campaigns'[d] \in Campaign /\ campaigns'[d].tenant = campaigns[d].tenant
        /\ UNCHANGED <<tenants, links, visited, issued>>
    BY <1>2 DEF SetCampaignStatus, WithStatus, Sound, TablesOK, Campaign
  <2> QED
    BY <2>1 DEF Sound, TablesOK, References, OnlyFresh, SameRows
<1>3. CASE SetLinkStatus(ids, s)
  <2>1. /\ DOMAIN links' = DOMAIN links
        /\ \A d \in DOMAIN links :
             links'[d] \in Link /\ links'[d].campaign = links[d].campaign
        /\ UNCHANGED <<tenants, campaigns, visited, issued>>
    BY <1>3 DEF SetLinkStatus, WithStatus, Sound, TablesOK, Link
  <2> QED
    BY <2>1 DEF Sound, TablesOK, References, OnlyFresh, SameRows
<1> QED
  BY <1>1, <1>2, <1>3

\* The foreign keys refuse what would leave a reference behind.
LEMMA DropKeeps ==
  ASSUME Sound, NEW ids, DropTenants(ids) \/ DropCampaigns(ids) \/ DropLinks(ids)
  PROVE  Sound' /\ OnlyFresh
<1>1. CASE DropTenants(ids)
  BY <1>1 DEF DropTenants, Hosting, Without, Restrict, Sound, TablesOK, References, OnlyFresh
<1>2. CASE DropCampaigns(ids)
  BY <1>2 DEF DropCampaigns, Linked, Without, Restrict, Sound, TablesOK, References, OnlyFresh
<1>3. CASE DropLinks(ids)
  BY <1>3 DEF DropLinks, Visited, Without, Restrict, Sound, TablesOK, References, OnlyFresh
<1> QED
  BY <1>1, <1>2, <1>3

LEMMA ClickKeeps ==
  ASSUME Sound, NEW l, Click(l)
  PROVE  Sound' /\ OnlyFresh
BY DEF Click, Sound, TablesOK, References, OnlyFresh

----------------------------------------------------------------------------
(* The inductive invariant. *)

\* What the tab holds are ids that were issued: a new row is none of them.
Known ==
  /\ IdsIn(rows) \cup gone \subseteq issued
  /\ \A l \in loads : IdsIn(l.rows) \subseteq issued
  /\ dialog # Nothing => dialog.ids \subseteq issued
  /\ request # Nothing => request.change.ids \subseteq issued

\* A deletion that was done, or reported, has left no row, and no answer of the
\* last load shows one.
Deleted ==
  /\ gone \cap DOMAIN Rows = {}
  /\ request # Nothing /\ request.stage = "done" /\ request.change.kind = "delete"
       => request.change.ids \cap DOMAIN Rows = {}
  /\ \A l \in loads : l.n = sent /\ l.stage = "answered" => IdsIn(l.rows) \cap gone = {}
  /\ shown.n = sent => IdsIn(rows) \cap gone = {}

\* The last load that an effect sent is of the page's own query.
Latest ==
  /\ \A l \in loads : l.n <= sent /\ (l.n = sent /\ l.by = "effect" => l.query = query)
  /\ shown.n <= sent /\ (shown.n = sent /\ shown.by = "effect" => shown.query = query)

Answer == [n : Nat, query : Query, by : {"effect", "refetch"}]

IInv ==
  /\ TypeOK /\ References /\ shown \in Answer
  /\ SelectionIsOnPage /\ SpinnerHasLoad
  /\ Known /\ Deleted /\ Latest

LEMMA RowsKnown ==
  ASSUME TypeOK
  PROVE  /\ DOMAIN Rows \subseteq issued /\ DOMAIN Rows \subseteq Ids
         /\ \A id \in DOMAIN Rows : Rows[id].status \in Status
BY ListAssumption DEF TypeOK, TablesOK, Rows, Tenant, Campaign, Link, Ids

LEMMA PageOfRows ==
  ASSUME TypeOK, NEW q
  PROVE  PageOf(q) \subseteq Shown /\ IdsIn(PageOf(q)) \subseteq DOMAIN Rows
<1>1. PICK P \in SUBSET DOMAIN Rows :
        PageOf(q) = {[id |-> c, status |-> Rows[c].status] : c \in P}
  BY DEF PageOf, Listed
<1>2. \A c \in P : [id |-> c, status |-> Rows[c].status] \in Shown
  BY RowsKnown DEF Shown
<1>3. \A r \in PageOf(q) : r.id \in P
  BY <1>1
<1> QED
  BY <1>1, <1>2, <1>3 DEF IdsIn

LEMMA CountedIsFinite ==
  ASSUME TypeOK, NEW f
  PROVE  IsFiniteSet(Counted(f)) /\ Cardinality(Counted(f)) \in Nat
<1>1. Counted(f) \subseteq Ids
  BY RowsKnown DEF Counted, Listed
<1> QED
  BY <1>1, FS_Subset, FS_CardinalityType, CatalogAssumption

\* The page, while the tables stay as they are.
LEMMA TablesRest ==
  ASSUME IInv, UNCHANGED tables, kind' = kind
  PROVE  TablesOK' /\ References' /\ issued' = issued /\ Rows' = Rows /\ kind' \in Kinds
<1>1. Sound' /\ issued' = issued
  BY TablesKept DEF IInv, TypeOK, Sound, tables
<1> QED
  BY <1>1 DEF Sound, tables, Rows, IInv, TypeOK

\* The tables change, and at most a request is done.
LEMMA PageRests ==
  ASSUME IInv, Sound', OnlyFresh,
         UNCHANGED <<kind, query, rows, total, selected, loading, loads, dialog, sent, shown, gone>>,
         \/ request' = request
         \/ /\ request # Nothing /\ request' = [request EXCEPT !.stage = "done"]
            /\ request.change.kind = "delete" => request.change.ids \cap DOMAIN Rows' = {}
  PROVE  IInv'
<1>1. DOMAIN Rows' \cap issued \subseteq DOMAIN Rows /\ issued \subseteq issued'
  BY ListAssumption DEF OnlyFresh, Rows, IInv, TypeOK
<1>2. /\ request' \in Request \cup {Nothing}
      /\ request' # Nothing => request # Nothing /\ request'.change = request.change
  BY DEF IInv, TypeOK, Request
<1>3. TypeOK' /\ References' /\ (shown \in Answer)'
  BY <1>2 DEF IInv, TypeOK, Sound
<1>4. SelectionIsOnPage' /\ SpinnerHasLoad' /\ Latest'
  BY DEF IInv, SelectionIsOnPage, SpinnerHasLoad, Latest
<1>5. Known'
  BY <1>1, <1>2 DEF IInv, Known
<1>6. Deleted'
  BY <1>1, <1>2 DEF IInv, Known, Deleted
<1> QED
  BY <1>3, <1>4, <1>5, <1>6 DEF IInv

\* The user's own state changes: what is selected, to be confirmed or under way.
LEMMA LocalStep ==
  ASSUME IInv,
         UNCHANGED <<tables, kind, query, rows, total, loading, loads, sent, shown, gone>>,
         selected' \subseteq IdsIn(rows),
         dialog' \in Change \cup {Nothing}, dialog' # Nothing => dialog'.ids \subseteq issued,
         request' \in Request \cup {Nothing},
         request' # Nothing => request'.change.ids \subseteq issued,
         request' # Nothing /\ request'.stage = "done"
           => request # Nothing /\ request.stage = "done" /\ request'.change = request.change
  PROVE  IInv'
<1>1. TablesOK' /\ References' /\ issued' = issued /\ Rows' = Rows /\ kind' \in Kinds
  BY TablesRest
<1>2. IdsIn(rows) \subseteq Ids
  BY DEF IInv, TypeOK, IdsIn, Shown
<1>3. TypeOK' /\ (shown \in Answer)'
  BY <1>1, <1>2 DEF IInv, TypeOK
<1>4. SelectionIsOnPage' /\ SpinnerHasLoad' /\ Latest'
  BY DEF IInv, SelectionIsOnPage, SpinnerHasLoad, Latest
<1>5. Known'
  BY <1>1 DEF IInv, Known
<1>6. Deleted'
  BY <1>1 DEF IInv, Deleted
<1> QED
  BY <1>1, <1>3, <1>4, <1>5, <1>6 DEF IInv

----------------------------------------------------------------------------
(* Loads. *)

LEMMA SelectCountStep ==
  ASSUME IInv, NEW l \in loads, SelectCount(l)
  PROVE  IInv'
<1> DEFINE m == [l EXCEPT !.stage = "counted", !.total = Cardinality(Counted(l.query.filter))]
<1>1. UNCHANGED <<tables, kind, query, rows, total, selected, loading, dialog, request, sent, shown, gone>>
      /\ loads' = (loads \ {l}) \cup {m}
  BY DEF SelectCount, Goes
<1>2. TablesOK' /\ References' /\ issued' = issued /\ Rows' = Rows /\ kind' \in Kinds
  BY <1>1, TablesRest
<1>3. m \in Load /\ m.stage = "counted" /\ m.n = l.n /\ m.by = l.by /\ m.query = l.query /\ m.rows = l.rows
  BY CountedIsFinite DEF IInv, TypeOK, Load
<1> HIDE DEF m
<1>4. TypeOK' /\ (shown \in Answer)'
  BY <1>1, <1>2, <1>3 DEF IInv, TypeOK
<1> QED
  BY <1>1, <1>2, <1>3, <1>4
     DEF IInv, SelectionIsOnPage, SpinnerHasLoad, Known, Deleted, Latest

LEMMA SelectRowsStep ==
  ASSUME IInv, NEW l \in loads, SelectRows(l)
  PROVE  IInv'
<1> DEFINE m == [l EXCEPT !.stage = "answered", !.rows = PageOf(l.query)]
<1>1. UNCHANGED <<tables, kind, query, rows, total, selected, loading, dialog, request, sent, shown, gone>>
      /\ loads' = (loads \ {l}) \cup {m}
  BY DEF SelectRows, Goes
<1>2. TablesOK' /\ References' /\ issued' = issued /\ Rows' = Rows /\ kind' \in Kinds
  BY <1>1, TablesRest
<1>3. m \in Load /\ m.n = l.n /\ m.by = l.by /\ m.query = l.query
      /\ IdsIn(m.rows) \subseteq DOMAIN Rows
  BY PageOfRows DEF IInv, TypeOK, Load
<1> HIDE DEF m
<1>4. TypeOK' /\ (shown \in Answer)'
  BY <1>1, <1>2, <1>3 DEF IInv, TypeOK
<1>5. DOMAIN Rows \subseteq issued
  BY RowsKnown DEF IInv
<1>6. Known' /\ Deleted'
  BY <1>1, <1>2, <1>3, <1>5 DEF IInv, Known, Deleted
<1> QED
  BY <1>1, <1>2, <1>3, <1>4, <1>6
     DEF IInv, SelectionIsOnPage, SpinnerHasLoad, Latest

LEMMA ReceiveStep ==
  ASSUME IInv, NEW l \in loads, Receive(l) \/ ReceiveError(l)
  PROVE  IInv'
<1>1. /\ UNCHANGED <<tables, kind, query, dialog, request, sent, gone>>
      /\ loads' = loads \ {l} /\ loading' = FALSE
      /\ \/ /\ l.stage = "answered" /\ rows' = l.rows /\ total' = l.total /\ selected' = {}
            /\ shown' = [n |-> l.n, query |-> l.query, by |-> l.by]
         \/ UNCHANGED <<rows, total, selected, shown>>
  BY DEF Receive, ReceiveError
<1>2. TablesOK' /\ References' /\ issued' = issued /\ Rows' = Rows /\ kind' \in Kinds
  BY <1>1, TablesRest
<1>3. l.rows \subseteq Shown /\ l.total \in Nat
      /\ [n |-> l.n, query |-> l.query, by |-> l.by] \in Answer
  BY DEF IInv, TypeOK, Load, Answer
<1>4. TypeOK' /\ (shown \in Answer)'
  BY <1>1, <1>2, <1>3 DEF IInv, TypeOK
<1>5. SelectionIsOnPage' /\ SpinnerHasLoad' /\ Known'
  BY <1>1, <1>2 DEF IInv, SelectionIsOnPage, SpinnerHasLoad, Known
<1>6. Deleted' /\ Latest'
  BY <1>1, <1>2 DEF IInv, Deleted, Latest
<1> QED
  BY <1>2, <1>4, <1>5, <1>6 DEF IInv

\* What Reload does, with what it leaves to its callers.
LEMMA ReloadStep ==
  ASSUME IInv, UNCHANGED <<tables, kind, rows, total, selected, dialog, shown>>,
         NEW q \in Query, NEW by \in {"effect", "refetch"}, Reload(q, by),
         query' \in Query, q = query' \/ by = "refetch",
         request' \in {request, Nothing}, Nothing = request => request' = Nothing,
         gone' \subseteq Ids,
         gone' = gone \/ (request # Nothing /\ request.stage = "done"
                            /\ request.change.kind = "delete" /\ gone' = gone \cup request.change.ids)
  PROVE  IInv'
<1> DEFINE m == LoadOf(sent', q, by)
<1>1. /\ sent \in Nat /\ sent' = sent + 1 /\ sent' \in 0 .. MaxLoads /\ loading' = TRUE
      /\ loads' = loads \cup {m}
  BY ListAssumption DEF Reload, IInv, TypeOK
<1>2. TablesOK' /\ References' /\ issued' = issued /\ Rows' = Rows /\ kind' \in Kinds
  BY TablesRest
<1>3. m \in Load /\ m.n = sent' /\ m.by = by /\ m.query = q /\ m.rows = {} /\ m.stage = "sent"
  BY <1>1 DEF LoadOf, Load
<1> HIDE DEF m
<1>4. TypeOK' /\ (shown \in Answer)'
  BY <1>1, <1>2, <1>3 DEF IInv, TypeOK
<1>5. SelectionIsOnPage' /\ SpinnerHasLoad'
  BY <1>1 DEF IInv, SelectionIsOnPage, SpinnerHasLoad
<1>6. gone' \subseteq issued /\ gone' \cap DOMAIN Rows = {}
  BY DEF IInv, Known, Deleted
<1>7. Known'
  BY <1>1, <1>2, <1>3, <1>6 DEF IInv, Known, IdsIn
<1>8. (\A l \in loads : l.n <= sent /\ l.n \in Nat) /\ shown.n <= sent /\ shown.n \in Nat
  BY DEF IInv, Latest, TypeOK, Load, Answer
<1>9. Deleted' /\ Latest'
  BY <1>1, <1>2, <1>3, <1>6, <1>8 DEF IInv, Deleted, Latest
<1> QED
  BY <1>2, <1>4, <1>5, <1>7, <1>9 DEF IInv

LEMMA QueryStep ==
  ASSUME IInv, NEW q \in Query, QueryBecomes(q)
  PROVE  IInv'
<1>1. /\ query' = q /\ Reload(q, "effect")
      /\ UNCHANGED <<tables, kind, rows, total, selected, dialog, request, shown, gone>>
  BY DEF QueryBecomes
<1>2. gone' \subseteq Ids
  BY <1>1 DEF IInv, TypeOK
<1> QED
  BY <1>1, <1>2, ReloadStep

LEMMA SelectsStep ==
  ASSUME IInv, NEW ids \in SUBSET IdsIn(rows), Selects(ids)
  PROVE  IInv'
<1>1. /\ selected' = ids
      /\ UNCHANGED <<tables, kind, query, rows, total, loading, loads, dialog, request, sent, shown, gone>>
  BY DEF Selects
<1> QED
  BY <1>1, LocalStep DEF IInv, TypeOK, Known

LEMMA ControlsStep ==
  ASSUME IInv, Controls
  PROVE  IInv'
<1>1. CASE \E filter \in Filter : ChangeFilter(filter)
  BY <1>1, QueryStep DEF ChangeFilter, Query
<1>2. CASE ChangePage
  <2>1. query.page \in Nat \ {0} /\ query \in Query
    BY DEF IInv, TypeOK, Query
  <2>2. PICK d \in {-1, 1} : QueryBecomes([query EXCEPT !.page = @ + d])
                             /\ (d = -1 => query.page > 1)
    BY <1>2, <2>1 DEF ChangePage
  <2>3. [query EXCEPT !.page = @ + d] \in Query
    BY <2>1, <2>2 DEF Query
  <2> QED
    BY <2>2, <2>3, QueryStep
<1>3. CASE \E id \in Ids : ToggleSelect(id)
  <2>1. PICK id \in Ids : ToggleSelect(id)
    BY <1>3
  <2>2. (selected \ {id}) \in SUBSET IdsIn(rows) /\ (selected \cup {id}) \in SUBSET IdsIn(rows)
    BY <2>1 DEF ToggleSelect, IInv, SelectionIsOnPage
  <2> QED
    BY <2>1, <2>2, SelectsStep DEF ToggleSelect
<1>4. CASE ToggleSelectAll
  BY <1>4, SelectsStep DEF ToggleSelectAll
<1> QED
  BY <1>1, <1>2, <1>3, <1>4 DEF Controls

----------------------------------------------------------------------------
(* Changes. *)

LEMMA ChangeOfType ==
  ASSUME IInv, NEW what \in {"create", "update", "status", "delete"},
         NEW ids \in SUBSET IdsIn(rows), NEW s \in Status, NEW t \in FirstTenants
  PROVE  LET change == ChangeOf(what, ids, s, t)
         IN  change \in Change /\ change.ids \subseteq issued /\ change.kind = what
<1>1. ids \subseteq Ids /\ t \in Tenants /\ query \in Query /\ ids \subseteq issued
  BY ListAssumption DEF IInv, TypeOK, Known, IdsIn, Shown
<1> QED
  BY <1>1 DEF ChangeOf, Change

LEMMA AsksStep ==
  ASSUME IInv, NEW change \in Change, change.ids \subseteq issued, Asks(change)
  PROVE  IInv'
<1>1. /\ dialog' = change
      /\ UNCHANGED <<tables, kind, query, rows, total, selected, loading, loads, request, sent, shown, gone>>
  BY DEF Asks
<1> QED
  BY <1>1, LocalStep DEF IInv, TypeOK, Known, SelectionIsOnPage

LEMMA HandlersStep ==
  ASSUME IInv, Handlers
  PROVE  IInv'
<1>1. AnyTenant \in FirstTenants
  BY ListAssumption DEF AnyTenant
<1>2. \A row \in rows : {row.id} \in SUBSET IdsIn(rows) /\ Other(row.status) \in Status
  BY DEF IInv, TypeOK, Shown, IdsIn, Other, Status
<1>3. selected \in SUBSET IdsIn(rows) /\ "active" \in Status
  BY DEF IInv, SelectionIsOnPage, Status
<1>4. \A ids \in SUBSET IdsIn(rows), s \in Status, what \in {"status", "delete"} :
        Asks(ChangeOf(what, ids, s, AnyTenant)) => IInv'
  BY <1>1, ChangeOfType, AsksStep
<1>5. CASE \E row \in rows : HandleToggleStatus(row) \/ HandleDelete(row)
  BY <1>2, <1>3, <1>4, <1>5 DEF HandleToggleStatus, HandleDelete
<1>6. CASE \E status \in Status : HandleBulkStatus(status)
  BY <1>3, <1>4, <1>6 DEF HandleBulkStatus
<1>7. CASE HandleBulkDelete
  BY <1>3, <1>4, <1>7 DEF HandleBulkDelete
<1> QED
  BY <1>5, <1>6, <1>7 DEF Handlers

LEMMA SendsStep ==
  ASSUME IInv, NEW change \in Change, change.ids \subseteq issued, Sends(change),
         dialog' = dialog \/ dialog' = Nothing
  PROVE  IInv'
<1>1. /\ request' = [change |-> change, stage |-> "sent"]
      /\ UNCHANGED <<tables, kind, query, rows, total, selected, loading, loads, sent, shown, gone>>
  BY DEF Sends
<1>2. request' \in Request /\ request'.change = change /\ request'.stage # "done"
  BY <1>1 DEF Request
<1> QED
  BY <1>1, <1>2, LocalStep DEF IInv, TypeOK, Known, SelectionIsOnPage

LEMMA PagesStep ==
  ASSUME IInv, LinksPage \/ CampaignManager \/ SimpleEntityManager
  PROVE  IInv'
<1>1. AnyTenant \in FirstTenants /\ "active" \in Status
  BY ListAssumption DEF AnyTenant, Status
<1>2. ASSUME NEW t \in FirstTenants, HandleCreate(t)
      PROVE  IInv'
  BY <1>1, <1>2, ChangeOfType, SendsStep DEF HandleCreate
<1>3. ASSUME NEW row \in rows, NEW t \in FirstTenants, SaveEdit(row, t)
      PROVE  IInv'
  <2>1. {row.id} \in SUBSET IdsIn(rows)
    BY DEF IdsIn
  <2> QED
    BY <1>1, <1>3, <2>1, ChangeOfType, SendsStep DEF SaveEdit
<1> QED
  BY <1>1, <1>2, <1>3, HandlersStep DEF LinksPage, CampaignManager, SimpleEntityManager

LEMMA DialogStep ==
  ASSUME IInv, Confirm \/ Cancel
  PROVE  IInv'
<1>1. CASE Confirm
  <2>1. dialog \in Change /\ dialog.ids \subseteq issued /\ dialog' = Nothing /\ Sends(dialog)
    BY <1>1 DEF Confirm, Free, IInv, TypeOK, Known
  <2> QED
    BY <2>1, SendsStep
<1>2. CASE Cancel
  <2>1. /\ dialog' = Nothing
        /\ UNCHANGED <<tables, kind, query, rows, total, selected, loading, loads, request, sent, shown, gone>>
    BY <1>2 DEF Cancel
  <2> QED
    BY <2>1, LocalStep DEF IInv, TypeOK, Known, SelectionIsOnPage
<1> QED
  BY <1>1, <1>2

\* The statement of a request, and what it may not do by halves.
LEMMA ExecuteKeeps ==
  ASSUME Sound, kind \in Kinds, kind' = kind, NEW change \in Change, Execute(change)
  PROVE  /\ Sound' /\ OnlyFresh
         /\ change.kind # "delete" => DOMAIN Rows \subseteq DOMAIN Rows'
         /\ change.kind = "delete" => ~Held(change.ids) /\ change.ids \cap DOMAIN Rows' = {}
<1>1. kind \in {"tenants", "campaigns", "links"} /\ change.status \in Status
  BY ListAssumption DEF Change
<1>2. CASE change.kind = "create" /\ Create(change.tenant)
  BY <1>1, <1>2, CreateTenantKeeps, CreateCampaignKeeps DEF Create, Rows
<1>3. CASE change.kind = "update" /\ Update(change.ids, change.tenant)
  BY <1>1, <1>3, UpdateKeeps, TablesKept DEF Update, Rows, SameRows, tables
<1>4. CASE change.kind = "status" /\ SetStatus(change.ids, change.status)
  BY <1>1, <1>4, SetStatusKeeps DEF SetStatus, Rows, SameRows
<1>5. CASE change.kind = "delete" /\ Drop(change.ids)
  <2>1. Sound' /\ OnlyFresh
    BY <1>5, DropKeeps DEF Drop
  <2>2. ~Held(change.ids) /\ change.ids \cap DOMAIN Rows' = {}
    BY <1>1, <1>5
       DEF Drop, Held, Rows, DropTenants, DropCampaigns, DropLinks, Without, Restrict
  <2> QED
    BY <1>5, <2>1, <2>2
<1> QED
  BY <1>2, <1>3, <1>4, <1>5 DEF Execute

LEMMA ServeStep ==
  ASSUME IInv, Serve
  PROVE  IInv'
<1>1. /\ request # Nothing /\ Execute(request.change)
      /\ request' = [request EXCEPT !.stage = "done"]
      /\ UNCHANGED <<kind, query, rows, total, selected, loading, loads, dialog, sent, shown, gone>>
  BY DEF Serve
<1>2. request.change \in Change /\ Sound /\ kind \in Kinds
  BY <1>1 DEF IInv, TypeOK, Request, Sound
<1> QED
  BY <1>1, <1>2, ExecuteKeeps, PageRests

LEMMA RefusalStep ==
  ASSUME IInv, ServeError \/ ReplyError
  PROVE  IInv'
<1>1. /\ request # Nothing
      /\ request' = [request EXCEPT !.stage = "refused"] \/ request' = Nothing
      /\ UNCHANGED <<tables, kind, query, rows, total, selected, loading, loads, dialog, sent, shown, gone>>
  BY DEF ServeError, ReplyError
<1>2. /\ request' \in Request \cup {Nothing}
      /\ request' # Nothing => request'.change = request.change /\ request'.stage = "refused"
  BY <1>1 DEF IInv, TypeOK, Request
<1> QED
  BY <1>1, <1>2, LocalStep DEF IInv, TypeOK, Known, SelectionIsOnPage

LEMMA ReplyStep ==
  ASSUME IInv, Reply
  PROVE  IInv'
<1>1. /\ request # Nothing /\ request.stage = "done" /\ request' = Nothing
      /\ gone' = IF request.change.kind = "delete" THEN gone \cup request.change.ids ELSE gone
      /\ Reload(request.change.query, "refetch")
      /\ UNCHANGED <<tables, kind, query, rows, total, selected, dialog, shown>>
  BY DEF Reply
<1>2. request.change.query \in Query /\ gone' \subseteq Ids /\ query' \in Query
  BY <1>1 DEF IInv, TypeOK, Request, Change
<1> QED
  BY <1>1, <1>2, ReloadStep

LEMMA OtherUserStep ==
  ASSUME IInv, OtherUser
  PROVE  IInv'
<1>1. Sound /\ UNCHANGED page
  BY DEF IInv, TypeOK, Sound, OtherUser
<1>2. Sound' /\ OnlyFresh
  BY <1>1, CreateTenantKeeps, CreateCampaignKeeps, CreateLinkKeeps, UpdateKeeps,
     SetStatusKeeps, DropKeeps, ClickKeeps DEF OtherUser
<1> QED
  BY <1>1, <1>2, PageRests DEF page

----------------------------------------------------------------------------
(* The theorems. *)

LEMMA InitIInv == Init => IInv
<1> SUFFICES ASSUME Init
             PROVE  IInv
  OBVIOUS
<1>1. AnyTenant \in FirstTenants /\ AnyCampaign \in FirstCampaigns
      /\ kind \in {"tenants", "campaigns", "links"} /\ kind \in Kinds
  BY ListAssumption DEF AnyTenant, AnyCampaign, Init
<1>2. TablesOK /\ References
  BY <1>1, ListAssumption
     DEF Init, TablesOK, References, Tenant, Campaign, Link, Status, Ids
<1>3. DOMAIN Rows \subseteq issued /\ DOMAIN Rows \subseteq Ids
  BY <1>1, <1>2 DEF Rows, TablesOK
<1>4. Cardinality(DOMAIN Rows) \in Nat
  BY <1>3, FS_Subset, FS_CardinalityType, CatalogAssumption
<1>5. \A id \in DOMAIN Rows : Rows[id].status \in Status
  BY <1>1, <1>2 DEF Rows, TablesOK, Tenant, Campaign, Link
<1>6. PICK P \in SUBSET DOMAIN Rows :
        PageOf(query) = {[id |-> c, status |-> Rows[c].status] : c \in P}
  BY DEF PageOf, Listed
<1>7. \A c \in P : [id |-> c, status |-> Rows[c].status] \in Shown
  BY <1>3, <1>5 DEF Shown
<1>8. rows \subseteq Shown /\ \A r \in rows : r.id \in DOMAIN Rows
  BY <1>6, <1>7 DEF Init
<1>9. query \in Query /\ shown \in Answer /\ sent \in 0 .. MaxLoads
  BY ListAssumption DEF Init, Query, Filter, Answer
<1>10. TypeOK
  BY <1>1, <1>2, <1>4, <1>8, <1>9 DEF Init, TypeOK
<1>11. SelectionIsOnPage /\ SpinnerHasLoad /\ Latest
  BY DEF Init, SelectionIsOnPage, SpinnerHasLoad, Latest
<1>12. Known /\ Deleted
  BY <1>3, <1>8 DEF Init, Known, Deleted, IdsIn
<1> QED
  BY <1>2, <1>9, <1>10, <1>11, <1>12 DEF IInv

LEMMA NextIInv == IInv /\ [Next]_vars => IInv'
<1> SUFFICES ASSUME IInv, [Next]_vars
             PROVE  IInv'
  OBVIOUS
<1>1. CASE UNCHANGED vars
  BY <1>1, TablesKept, PageRests DEF vars, page, tables, IInv, TypeOK, Sound
<1>2. CASE Next
  BY <1>2, SelectCountStep, SelectRowsStep, ReceiveStep, ControlsStep, PagesStep, DialogStep,
     ServeStep, RefusalStep, ReplyStep, OtherUserStep DEF Next
<1> QED
  BY <1>1, <1>2

LEMMA IInvAlways == Spec => []IInv
BY InitIInv, NextIInv, PTL DEF Spec

\* Type correctness of the page and of the tables under it.
THEOREM TypeCorrect == Spec => []TypeOK
<1>1. IInv => TypeOK
  BY DEF IInv
<1> QED
  BY <1>1, IInvAlways, PTL

\* The foreign keys keep every campaign's tenant and every link's campaign,
\* whatever is dropped or moved in the meantime.
THEOREM NothingDangles == Spec => []References
<1>1. IInv => References
  BY DEF IInv
<1> QED
  BY <1>1, IInvAlways, PTL

\* The bulk actions name rows of the page only: load empties the selection
\* whenever it replaces the rows.
THEOREM BulkNamesThePage == Spec => []SelectionIsOnPage
<1>1. IInv => SelectionIsOnPage
  BY DEF IInv
<1> QED
  BY <1>1, IInvAlways, PTL

\* No spinner is left without a load, however loads fail or cross.
THEOREM SpinnerIsJustified == Spec => []SpinnerHasLoad
<1>1. IInv => SpinnerHasLoad
  BY DEF IInv
<1> QED
  BY <1>1, IInvAlways, PTL

\* When it is quiet, the answer of the effect's last load is that to the page's
\* query.
THEOREM QuietIsRight == Spec => []QuietPageIsRight
<1>1. IInv => QuietPageIsRight
  BY DEF IInv, Latest, QuietPageIsRight
<1> QED
  BY <1>1, IInvAlways, PTL

\* The last load does not show what the page has reported deleted.
THEOREM DeletedIsUnseen == Spec => []ReadsOwnDeletes
<1>1. IInv => ReadsOwnDeletes
  BY DEF IInv, Deleted, ReadsOwnDeletes
<1> QED
  BY <1>1, IInvAlways, PTL

\* A request changes, when it is served, all the rows it names or none.
THEOREM BulkIsAllOrNothing == Spec => BulkIsWhole
<1> DEFINE Whole ==
      request # Nothing /\ request.stage = "sent" /\ request' # request
        => \/ DOMAIN Rows \cap request.change.ids \subseteq DOMAIN Rows'
           \/ request.change.kind = "delete" /\ ~Held(request.change.ids)
              /\ DOMAIN Rows' \cap request.change.ids = {}
<1>1. IInv /\ [Next]_vars => [Whole]_vars
  <2> SUFFICES ASSUME IInv, Next, request # Nothing, request.stage = "sent", request' # request
               PROVE  Whole
    BY DEF vars
  <2>1. CASE Serve
    <3>1. Execute(request.change) /\ kind' = kind
      BY <2>1 DEF Serve
    <3>2. request.change \in Change /\ Sound /\ kind \in Kinds
      BY DEF IInv, TypeOK, Request, Sound
    <3> QED
      BY <3>1, <3>2, ExecuteKeeps
  <2>2. CASE ServeError
    BY <2>2, TablesRest DEF ServeError
  <2>3. CASE Reply \/ ReplyError
    BY <2>3, TablesRest DEF Reply, ReplyError
  <2>4. CASE (\E l \in loads : SelectCount(l) \/ SelectRows(l) \/ Receive(l) \/ ReceiveError(l))
             \/ OtherUser \/ Cancel
    BY <2>4 DEF SelectCount, SelectRows, Receive, ReceiveError, OtherUser, Cancel, page
  <2>5. CASE Controls
    BY <2>5 DEF Controls, ChangeFilter, ChangePage, QueryBecomes, ToggleSelect, ToggleSelectAll, Selects
  <2>6. CASE Confirm
    BY <2>6 DEF Confirm, Sends
  <2>7. Handlers => request' = request
    BY DEF Handlers, HandleToggleStatus, HandleDelete, HandleBulkStatus, HandleBulkDelete, Asks
  <2>8. CASE LinksPage \/ CampaignManager \/ SimpleEntityManager
    BY <2>7, <2>8
       DEF LinksPage, CampaignManager, SimpleEntityManager, HandleCreate, SaveEdit, Sends
  <2> QED
    BY <2>1, <2>2, <2>3, <2>4, <2>5, <2>6, <2>8 DEF Next
<1>2. Spec => [][Whole]_vars
  BY <1>1, IInvAlways, PTL DEF Spec
<1> QED
  BY <1>2 DEF BulkIsWhole

----------------------------------------------------------------------------
(* Pages. *)

Rank(S, c) == Cardinality({d \in S : d < c})
Slice(S, a, k) == {c \in S : a <= Rank(S, c) /\ Rank(S, c) < a + k}

LEMMA RankBounds ==
  ASSUME NEW S \in SUBSET Nat, IsFiniteSet(S), NEW c \in S
  PROVE  Rank(S, c) \in 0 .. Cardinality(S) - 1
<1>1. {d \in S : d < c} \in SUBSET S /\ {d \in S : d < c} # S
  OBVIOUS
<1>2. IsFiniteSet({d \in S : d < c})
  BY <1>1, FS_Subset
<1>3. /\ Cardinality({d \in S : d < c}) <= Cardinality(S)
      /\ Cardinality({d \in S : d < c}) # Cardinality(S)
  BY <1>1, FS_Subset
<1> QED
  BY <1>2, <1>3, FS_CardinalityType DEF Rank

LEMMA RankGrows ==
  ASSUME NEW S \in SUBSET Nat, IsFiniteSet(S), NEW c \in S, NEW e \in S, c < e
  PROVE  Rank(S, c) < Rank(S, e)
<1> DEFINE B == {d \in S : d < c}
           E == {d \in S : d < e}
<1>1. B \in SUBSET E /\ c \in E /\ c \notin B
  <2>1. S \subseteq Nat
    OBVIOUS
  <2>2. \A d \in S : d < c => d < e
    BY <2>1
  <2>3. c < e /\ ~(c < c)
    BY <2>1
  <2> QED
    BY <2>2, <2>3
<1>2. E \in SUBSET S
  OBVIOUS
<1>3. IsFiniteSet(E)
  BY <1>2, FS_Subset
<1> HIDE DEF B, E
<1>4. IsFiniteSet(B) /\ Cardinality(B) <= Cardinality(E) /\ Cardinality(B) # Cardinality(E)
  BY <1>1, <1>3, FS_Subset
<1>5. Cardinality(B) \in Nat /\ Cardinality(E) \in Nat
  BY <1>3, <1>4, FS_CardinalityType
<1> QED
  BY <1>4, <1>5 DEF Rank, B, E

\* Every rank below the number of rows is that of a row, and of one only.
LEMMA RanksOneToOne ==
  ASSUME NEW S \in SUBSET Nat, IsFiniteSet(S)
  PROVE  [c \in S |-> Rank(S, c)] \in Bijection(S, 0 .. Cardinality(S) - 1)
<1> DEFINE rank == [c \in S |-> Rank(S, c)]
           n == Cardinality(S)
           ranks == 0 .. n - 1
<1>1. n \in Nat
  BY FS_CardinalityType
<1>2. \A c \in S : Rank(S, c) \in ranks
  BY RankBounds
<1>3. \A c, e \in S : c < e => Rank(S, c) < Rank(S, e)
  BY RankGrows
<1> HIDE DEF n
<1>4. \A c, e \in S : Rank(S, c) = Rank(S, e) => c = e
  BY <1>1, <1>2, <1>3
<1>5. rank \in Injection(S, ranks)
  BY <1>2, <1>4 DEF Injection, IsInjective
<1>6. n - 1 \in Int /\ (0 > n - 1 => n = 0)
  BY <1>1
<1>7. IsFiniteSet(ranks) /\ Cardinality(ranks) = n
  BY <1>1, <1>6, FS_Interval
<1>8. rank \in Surjection(S, ranks)
  BY <1>5, <1>7, FS_Injection DEF n
<1> QED
  BY <1>5, <1>8 DEF Bijection, n

\* A page of k rows from rank a on has k of them, or as many as there are from
\* there on.
LEMMA SliceSize ==
  ASSUME NEW S \in SUBSET Nat, IsFiniteSet(S), NEW a \in Nat, NEW k \in Nat
  PROVE  Cardinality(Slice(S, a, k)) = Max({0, Min({k, Cardinality(S) - a})})
<1> DEFINE n == Cardinality(S)
           P == Slice(S, a, k)
           last == IF n <= a + k THEN n - 1 ELSE a + k - 1
           place == [c \in P |-> Rank(S, c)]
<1>1. n \in Nat /\ last \in Int
  BY FS_CardinalityType
<1>2. \A c \in S : Rank(S, c) \in 0 .. n - 1
  BY RankBounds
<1>3. /\ \A c, e \in S : Rank(S, c) = Rank(S, e) => c = e
      /\ \A i \in 0 .. n - 1 : \E c \in S : Rank(S, c) = i
  <2> DEFINE rank == [c \in S |-> Rank(S, c)]
  <2>1. rank \in Bijection(S, 0 .. n - 1)
    BY RanksOneToOne
  <2>2. /\ \A c, e \in DOMAIN rank : rank[c] = rank[e] => c = e
        /\ \A i \in 0 .. n - 1 : \E c \in S : rank[c] = i
    BY <2>1 DEF Bijection, Injection, Surjection, IsInjective
  <2> QED
    BY <2>2
<1> HIDE DEF n
<1>4. P \in SUBSET S /\ \A c \in S : c \in P <=> Rank(S, c) \in a .. last
  BY <1>1, <1>2 DEF Slice
<1> HIDE DEF P, last
<1>5. place \in Injection(P, a .. last)
  BY <1>3, <1>4 DEF Injection, IsInjective
<1>6. a .. last \subseteq 0 .. n - 1
  BY <1>1 DEF last
<1>7. place \in Surjection(P, a .. last)
  BY <1>3, <1>4, <1>6 DEF Surjection
<1>8. Cardinality(a .. last) = Cardinality(P)
  BY <1>4, <1>5, <1>7, FS_Subset, FS_Bijection DEF ExistsBijection, Bijection
<1>9. Cardinality(a .. last) = IF a > last THEN 0 ELSE last - a + 1
  BY <1>1, FS_Interval
<1> DEFINE least == IF k <= n - a THEN k ELSE n - a
<1>10. Min({k, n - a}) = least
  BY <1>1 DEF Min
<1>11. \A x \in Int : Max({0, x}) = IF x <= 0 THEN 0 ELSE x
  BY DEF Max
<1>12. least \in Int
  BY <1>1
<1>13. Cardinality(P) = IF least <= 0 THEN 0 ELSE least
  BY <1>1, <1>8, <1>9 DEF last
<1> HIDE DEF least
<1>14. Cardinality(P) = Max({0, least})
  BY <1>11, <1>12, <1>13
<1> QED
  BY <1>10, <1>14 DEF P, n

\* The JOINs of the SELECT lose no row, as no reference dangles.
LEMMA JoinsLoseNothing ==
  ASSUME TypeOK, References, NEW f
  PROVE  Counted(f) = Listed(f)
<1>1. \A id \in DOMAIN Rows : Joined(id)
  BY ListAssumption DEF TypeOK, References, Rows, Joined, Hosted
<1> QED
  BY <1>1 DEF Counted, Listed

\* Every page, of any number of rows, is as full as its total says.
THEOREM TotalsAreRight == Spec => []CountedIsListed
<1>1. IInv => CountedIsListed
  <2> SUFFICES ASSUME IInv, NEW f \in Filter, NEW p \in 1 .. Cardinality(DOMAIN Rows) + 1
               PROVE  LET q == [filter |-> f, page |-> p]
                      IN  Cardinality(PageOf(q)) =
                            Max({0, Min({PerPage[kind], Cardinality(Counted(f)) - Offset(q)})})
    BY DEF CountedIsListed
  <2> DEFINE q == [filter |-> f, page |-> p]
             S == Listed(f)
             P == Slice(S, Offset(q), PerPage[kind])
             row == [c \in P |-> [id |-> c, status |-> Rows[c].status]]
  <2>1. TypeOK /\ Counted(f) = S
    BY JoinsLoseNothing DEF IInv
  <2>2. S \in SUBSET Nat /\ IsFiniteSet(S)
    BY <2>1, RowsKnown, CountedIsFinite, CatalogAssumption DEF Listed
  <2>3. PerPage[kind] \in Nat /\ Offset(q) \in Nat
    <3>1. PerPage[kind] \in Nat /\ p - 1 \in Nat
      BY <2>1, ListAssumption DEF TypeOK
    <3> QED
      BY <3>1 DEF Offset
  <2>4. PageOf(q) = {[id |-> c, status |-> Rows[c].status] : c \in P}
    BY DEF PageOf, Slice, Rank
  <2>5. Cardinality(P) = Max({0, Min({PerPage[kind], Cardinality(S) - Offset(q)})})
    BY <2>2, <2>3, SliceSize
  <2>6. P \in SUBSET S
    BY DEF Slice
  <2> HIDE DEF P, q, S
  <2>7. row \in Bijection(P, PageOf(q))
    BY <2>4 DEF Bijection, Injection, Surjection, IsInjective
  <2>8. Cardinality(PageOf(q)) = Cardinality(P)
    BY <2>2, <2>6, <2>7, FS_Subset, FS_Bijection DEF ExistsBijection
  <2> QED
    BY <2>1, <2>5, <2>8 DEF q
<1> QED
  BY <1>1, IInvAlways, PTL

=============================================================================
