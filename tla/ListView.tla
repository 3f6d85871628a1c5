------------------------------ MODULE ListView ------------------------------
(***************************************************************************)
(* The list of merchants (tenants), of campaigns or of links in one        *)
(* browser tab: useListQuery, the handlers of the page around it, the      *)
(* confirm dialog and the requests they send, over a Catalog that other    *)
(* users change.                                                           *)
(*                                                                         *)
(* A load is answered by two statements, COUNT and SELECT, and responses   *)
(* arrive in any order.  The search text, the filters, the sort order and  *)
(* the number of rows per page are one choice, "filter": whatever changes  *)
(* it returns to page 1.  Rows are ordered by their ids, as if by distinct *)
(* names.                                                                  *)
(***************************************************************************)
EXTENDS Catalog, FiniteSetsExt

CONSTANTS
  Kinds,        \* pages that may be opened
  FirstTenants, \* rows when the page is opened; these are the options of its forms
  FirstCampaigns,
  FirstLinks,   \* all of one campaign
  PerPage,      \* of each page, rows shown at a time
  Nothing,      \* no dialog, no request
  MaxLoads,     \* bound on the loads sent
  MaxRequests,  \* bound on the changes requested on the page
  MaxEvents     \* bound on what comes from outside: a statement of another user,
                \* a statement that fails, a reply that is lost

ASSUME ListAssumption ==
  /\ Kinds \subseteq {"tenants", "campaigns", "links"}
  /\ FirstTenants \subseteq Tenants /\ FirstTenants # {}
  /\ FirstCampaigns \subseteq Campaigns /\ FirstCampaigns # {} /\ FirstLinks \subseteq Links
  /\ PerPage \in [Kinds -> Nat \ {0}]
  /\ {MaxLoads, MaxRequests, MaxEvents} \subseteq Nat

VARIABLES
  kind,       \* the page
  query,      \* number of the page of rows, and filter
  rows,       \* items
  total,
  selected,
  loading,
  loads,      \* loads under way
  dialog,     \* the change to be confirmed
  request,    \* the change under way
  sent,       \* loads sent so far
  shown,      \* history: the load whose answer is on the page
  gone,       \* history: ids the page has reported deleted
  requests, events

page == <<kind, query, rows, total, selected, loading, loads, dialog, request, sent, shown, gone>>
vars == <<tables, page, requests, events>>

Filter == {"all", "active"}
Query == [filter : Filter, page : Nat \ {0}]
Shown == [id : Ids, status : Status]

\* by: the effect that follows a change of the query, or a refetch after a change.
Load == [n : Nat, query : Query, by : {"effect", "refetch"},
         stage : {"sent", "counted", "answered"},
         total : Nat, rows : SUBSET Shown]

\* query: that of the render whose handler it is.
Change == [kind : {"create", "update", "status", "delete"}, ids : SUBSET Ids,
           status : Status, tenant : Tenants, query : Query]
Request == [change : Change, stage : {"sent", "done", "refused"}]

IdsIn(items) == {r.id : r \in items}

----------------------------------------------------------------------------
(* GET /v1/tenants, /v1/campaigns, /v1/links. *)

Rows == CASE kind = "tenants" -> tenants [] kind = "campaigns" -> campaigns [] kind = "links" -> links

Hosted(c) == campaigns[c].tenant \in DOMAIN tenants

\* What the JOINs of the SELECT find.
Joined(id) ==
  CASE kind = "tenants"   -> TRUE
    [] kind = "campaigns" -> Hosted(id)
    [] kind = "links"     -> links[id].campaign \in DOMAIN campaigns /\ Hosted(links[id].campaign)

Matches(filter, id) == filter = "active" => Rows[id].status = "active"
Listed(filter) == {id \in DOMAIN Rows : Matches(filter, id) /\ Joined(id)}

\* The COUNT of the links has the JOINs of their SELECT, that of campaigns has not.
Counted(filter) ==
  IF kind = "links" THEN Listed(filter) ELSE {id \in DOMAIN Rows : Matches(filter, id)}

Offset(q) == (q.page - 1) * PerPage[kind]

\* ORDER BY ... LIMIT per_page OFFSET offset.
PageOf(q) ==
  LET listed == Listed(q.filter)
      before(c) == Cardinality({d \in listed : d < c})
  IN  {[id |-> c, status |-> Rows[c].status] :
         c \in {d \in listed : Offset(q) <= before(d) /\ before(d) < Offset(q) + PerPage[kind]}}

Goes(l, m) == loads' = (loads \ {l}) \cup {m}

SelectCount(l) ==
  /\ l.stage = "sent"
  /\ Goes(l, [l EXCEPT !.stage = "counted", !.total = Cardinality(Counted(l.query.filter))])
  /\ UNCHANGED <<tables, kind, query, rows, total, selected, loading, dialog, request, sent, shown, gone,
                 requests, events>>

SelectRows(l) ==
  /\ l.stage = "counted"
  /\ Goes(l, [l EXCEPT !.stage = "answered", !.rows = PageOf(l.query)])
  /\ UNCHANGED <<tables, kind, query, rows, total, selected, loading, dialog, request, sent, shown, gone,
                 requests, events>>

----------------------------------------------------------------------------
(* useListQuery. *)

LoadOf(n, q, by) == [n |-> n, query |-> q, by |-> by, stage |-> "sent", total |-> 0, rows |-> {}]

\* load, as built by a render with the query q.
Reload(q, by) ==
  /\ sent < MaxLoads
  /\ sent' = sent + 1
  /\ loading' = TRUE
  /\ loads' = loads \cup {LoadOf(sent', q, by)}

\* A mistake load could have: no setSelected.
ReceiveKeepingSelection(l) ==
  /\ l.stage = "answered"
  /\ loads' = loads \ {l}
  /\ rows' = l.rows /\ total' = l.total
  /\ loading' = FALSE
  /\ shown' = [n |-> l.n, query |-> l.query, by |-> l.by]
  /\ UNCHANGED <<tables, kind, query, selected, dialog, request, sent, gone, requests, events>>

\* The rest of load, once its response is there.
Receive(l) ==
  /\ l.stage = "answered"
  /\ loads' = loads \ {l}
  /\ rows' = l.rows /\ total' = l.total
  /\ selected' = {}
  /\ loading' = FALSE
  /\ shown' = [n |-> l.n, query |-> l.query, by |-> l.by]
  /\ UNCHANGED <<tables, kind, query, dialog, request, sent, gone, requests, events>>

Event == /\ events < MaxEvents
         /\ events' = events + 1

\* A mistake load could have: setLoading(false) after a success only.
ReceiveErrorLoading(l) ==
  /\ l.stage = "sent" /\ Event
  /\ loads' = loads \ {l}
  /\ UNCHANGED <<tables, kind, query, rows, total, selected, loading, dialog, request, sent, shown, gone,
                 requests>>

\* The response is an error, as when a statement failed, or does not arrive.
\* The catch branch keeps rows and selection.  Its SELECTs left no trace, so the
\* load may as well have run none.
ReceiveError(l) ==
  /\ l.stage = "sent" /\ Event
  /\ loads' = loads \ {l}
  /\ loading' = FALSE
  /\ UNCHANGED <<tables, kind, query, rows, total, selected, dialog, request, sent, shown, gone,
                 requests>>

\* A mistake the hook could have: the handler calls the load it was rendered with.
QueryBecomesLate(q) ==
  /\ q # query
  /\ query' = q
  /\ Reload(query, "effect")
  /\ UNCHANGED <<tables, kind, rows, total, selected, dialog, request, shown, gone, requests, events>>

\* The effect runs load again because the query it was built from changed.
QueryBecomes(q) ==
  /\ q # query
  /\ query' = q
  /\ Reload(q, "effect")
  /\ UNCHANGED <<tables, kind, rows, total, selected, dialog, request, shown, gone,
                 requests, events>>

\* The backdrop of the dialog keeps the user's pointer from the page.
Free == dialog = Nothing

\* setFilter, setSearch, clearFilters, toggleSort, setPerPage.
ChangeFilter(filter) == Free /\ QueryBecomes([filter |-> filter, page |-> 1])

TotalPages == LET pages == (total + PerPage[kind] - 1) \div PerPage[kind] IN IF pages = 0 THEN 1 ELSE pages

\* A mistake the footer could have: buttons that are never disabled.
ChangePageAnywhere ==
  /\ Free
  /\ \/ QueryBecomes([query EXCEPT !.page = @ - 1])
     \/ QueryBecomes([query EXCEPT !.page = @ + 1])

\* The footer's buttons.
ChangePage ==
  /\ Free
  /\ \/ query.page > 1 /\ QueryBecomes([query EXCEPT !.page = @ - 1])
     \/ query.page < TotalPages /\ QueryBecomes([query EXCEPT !.page = @ + 1])

Selects(ids) ==
  /\ Free
  /\ selected' = ids
  /\ UNCHANGED <<tables, kind, query, rows, total, loading, loads, dialog, request, sent, shown, gone,
                 requests, events>>

ToggleSelect(id) ==
  /\ id \in IdsIn(rows)
  /\ Selects(IF id \in selected THEN selected \ {id} ELSE selected \cup {id})

ToggleSelectAll ==
  Selects(IF Cardinality(selected) = Cardinality(rows) THEN {} ELSE IdsIn(rows))

----------------------------------------------------------------------------
(* The page's handlers. *)

ChangeOf(what, ids, status, tenant) ==
  [kind |-> what, ids |-> ids, status |-> status, tenant |-> tenant,
   query |-> query]

\* (One more than MaxRequests could only be cancelled.)
Asks(change) ==
  /\ Free /\ requests < MaxRequests
  /\ dialog' = change
  /\ UNCHANGED <<tables, kind, query, rows, total, selected, loading, loads, request, sent, shown, gone,
                 requests, events>>

AnyTenant == CHOOSE t \in FirstTenants : TRUE
AnyCampaign == CHOOSE c \in FirstCampaigns : TRUE
Other(status) == IF status = "active" THEN "inactive" ELSE "active"

HandleToggleStatus(row) == Asks(ChangeOf("status", {row.id}, Other(row.status), AnyTenant))
HandleDelete(row) == Asks(ChangeOf("delete", {row.id}, "active", AnyTenant))

\* BulkToolbar is there when something is selected.
HandleBulkStatus(status) ==
  selected # {} /\ Asks(ChangeOf("status", selected, status, AnyTenant))
HandleBulkDelete ==
  selected # {} /\ Asks(ChangeOf("delete", selected, "active", AnyTenant))

Sends(change) ==
  /\ request = Nothing /\ requests < MaxRequests
  /\ requests' = requests + 1
  /\ request' = [change |-> change, stage |-> "sent"]
  /\ UNCHANGED <<tables, kind, query, rows, total, selected, loading, loads, sent, shown, gone,
                 events>>

Confirm == /\ ~Free
           /\ dialog' = Nothing
           /\ Sends(dialog)

Cancel ==
  /\ ~Free
  /\ dialog' = Nothing
  /\ UNCHANGED <<tables, kind, query, rows, total, selected, loading, loads, request, sent, shown, gone,
                 requests, events>>

\* handleCreate and saveEdit ask nothing.
HandleCreate(t) == /\ Free /\ UNCHANGED dialog
                   /\ Sends(ChangeOf("create", {}, "active", t))
SaveEdit(row, t) == /\ Free /\ UNCHANGED dialog
                    /\ Sends(ChangeOf("update", {row.id}, "active", t))

Create(t) ==
  \E id \in Ids : \/ kind = "tenants" /\ CreateTenant(id)
                  \/ kind = "campaigns" /\ CreateCampaign(id, t)
Update(ids, t) ==
  \/ kind = "tenants" /\ UNCHANGED tables
  \/ kind = "campaigns" /\ \E c \in ids : UpdateCampaign(c, t)
SetStatus(ids, status) ==
  \/ kind = "tenants" /\ SetTenantStatus(ids, status)
  \/ kind = "campaigns" /\ SetCampaignStatus(ids, status)
  \/ kind = "links" /\ SetLinkStatus(ids, status)
Drop(ids) ==
  \/ kind = "tenants" /\ DropTenants(ids)
  \/ kind = "campaigns" /\ DropCampaigns(ids)
  \/ kind = "links" /\ DropLinks(ids)

\* The handler of the request runs its statement.
Execute(change) ==
  \/ change.kind = "create" /\ Create(change.tenant)
  \/ change.kind = "update" /\ Update(change.ids, change.tenant)
  \/ change.kind = "status" /\ SetStatus(change.ids, change.status)
  \/ change.kind = "delete" /\ Drop(change.ids)

Serve ==
  /\ request # Nothing /\ request.stage = "sent"
  /\ Execute(request.change)
  /\ request' = [request EXCEPT !.stage = "done"]
  /\ UNCHANGED <<kind, query, rows, total, selected, loading, loads, dialog, sent, shown, gone,
                 requests, events>>

\* Something refers to one of the ids.
Held(ids) ==
  CASE kind = "tenants"   -> Hosting(ids)
    [] kind = "campaigns" -> Linked(ids)
    [] kind = "links"     -> Visited(ids)

\* A foreign key is in the way.  (Any other failure, and a permission that was
\* withdrawn since the page was opened, is an Event.)
Refused(change) ==
  \/ /\ kind = "campaigns" /\ change.tenant \notin DOMAIN tenants
     /\ change.kind = "create" \/ (change.kind = "update" /\ change.ids \subseteq DOMAIN campaigns)
  \/ change.kind = "delete" /\ Held(change.ids)

ServeError ==
  /\ request # Nothing /\ request.stage = "sent"
  /\ \/ Refused(request.change) /\ UNCHANGED events
     \/ Event
  /\ request' = [request EXCEPT !.stage = "refused"]
  /\ UNCHANGED <<tables, kind, query, rows, total, selected, loading, loads, dialog, sent, shown, gone,
                 requests>>

\* A mistake the page could have: no list.refetch.
ReplyQuietly ==
  /\ request # Nothing /\ request.stage = "done"
  /\ request' = Nothing
  /\ gone' = IF request.change.kind = "delete" THEN gone \cup request.change.ids ELSE gone
  /\ UNCHANGED <<tables, kind, query, rows, total, selected, loading, loads, dialog, sent, shown,
                 requests, events>>

\* The handler goes on: a toast, and list.refetch, which is load of the render
\* the handler belongs to.
Reply ==
  /\ request # Nothing /\ request.stage = "done"
  /\ request' = Nothing
  /\ gone' = IF request.change.kind = "delete" THEN gone \cup request.change.ids ELSE gone
  /\ Reload(request.change.query, "refetch")
  /\ UNCHANGED <<tables, kind, query, rows, total, selected, dialog, shown, requests, events>>

\* An error, or a response that was lost: a toast.
ReplyError ==
  /\ request # Nothing
  /\ \/ request.stage = "refused" /\ UNCHANGED events
     \/ request.stage = "done" /\ Event
  /\ request' = Nothing
  /\ UNCHANGED <<tables, kind, query, rows, total, selected, loading, loads, dialog, sent, shown, gone,
                 requests>>

----------------------------------------------------------------------------
(* Other users. *)

OtherUser ==
  /\ Event
  /\ \/ \E t \in Tenants : CreateTenant(t)
     \/ \E c \in Campaigns, t \in Tenants : CreateCampaign(c, t)
     \/ \E c \in DOMAIN campaigns, t \in Tenants : UpdateCampaign(c, t)
     \/ \E l \in Links, c \in DOMAIN campaigns : CreateLink(l, c) \/ UpdateLink(l, c)
     \/ \E ids \in (SUBSET DOMAIN tenants) \ {{}} :
          DropTenants(ids) \/ \E s \in Status : SetTenantStatus(ids, s)
     \/ \E ids \in (SUBSET DOMAIN campaigns) \ {{}} :
          DropCampaigns(ids) \/ \E s \in Status : SetCampaignStatus(ids, s)
     \/ \E ids \in (SUBSET DOMAIN links) \ {{}} :
          DropLinks(ids) \/ \E s \in Status : SetLinkStatus(ids, s)
     \/ \E l \in Links : Click(l)
  /\ UNCHANGED <<page, requests>>

\* The page has been opened and its first load answered.
Init ==
  /\ kind \in Kinds
  /\ tenants = [t \in FirstTenants |-> [status |-> "active"]]
  /\ campaigns = [c \in FirstCampaigns |-> [tenant |-> AnyTenant, status |-> "active"]]
  /\ links = [l \in FirstLinks |-> [campaign |-> AnyCampaign, status |-> "active"]]
  /\ visited = {}
  /\ issued = FirstTenants \cup FirstCampaigns \cup FirstLinks
  /\ query = [filter |-> "all", page |-> 1]
  /\ rows = PageOf(query) /\ total = Cardinality(DOMAIN Rows) /\ selected = {}
  /\ loading = FALSE /\ sent = 0 /\ loads = {}
  /\ shown = [n |-> 0, query |-> query, by |-> "effect"]
  /\ dialog = Nothing /\ request = Nothing /\ gone = {}
  /\ requests = 0 /\ events = 0

\* What the pages have in common, and what each of them offers besides.
Controls ==
  \/ \E filter \in Filter : ChangeFilter(filter)
  \/ ChangePage
  \/ \E id \in Ids : ToggleSelect(id)
  \/ ToggleSelectAll
Handlers ==
  \/ \E row \in rows : HandleToggleStatus(row) \/ HandleDelete(row)
  \/ \E status \in Status : HandleBulkStatus(status)
  \/ HandleBulkDelete

LinksPage == kind = "links" /\ Handlers
CampaignManager ==
  /\ kind = "campaigns"
  /\ Handlers \/ \E t \in FirstTenants : HandleCreate(t) \/ \E row \in rows : SaveEdit(row, t)
SimpleEntityManager ==
  /\ kind = "tenants"
  /\ Handlers \/ HandleCreate(AnyTenant) \/ \E row \in rows : SaveEdit(row, AnyTenant)

Next ==
  \/ \E l \in loads : SelectCount(l) \/ SelectRows(l) \/ Receive(l) \/ ReceiveError(l)
  \/ Controls
  \/ LinksPage \/ CampaignManager \/ SimpleEntityManager
  \/ Confirm \/ Cancel
  \/ Serve \/ ServeError \/ Reply \/ ReplyError
  \/ OtherUser

Spec == Init /\ [][Next]_vars

----------------------------------------------------------------------------
(* Properties. *)

TypeOK ==
  /\ TablesOK /\ kind \in Kinds
  /\ query \in Query /\ total \in Nat /\ loading \in BOOLEAN
  /\ rows \subseteq Shown /\ selected \subseteq Ids
  /\ loads \subseteq Load
  /\ dialog \in Change \cup {Nothing}
  /\ request \in Request \cup {Nothing}
  /\ sent \in 0 .. MaxLoads /\ gone \subseteq Ids

\* What the bulk actions are about to name is on the page, however late the
\* response that replaced the rows arrived; so "as many selected as there are
\* rows", which is all toggleSelectAll looks at, means that all rows are.
SelectionIsOnPage == selected \subseteq IdsIn(rows)

\* With no load under way, and the answer of the last one sent on the page, the
\* rows are those of the page's own query, if that load was the effect's.  (A
\* refetch may be of an older query, and an older load may arrive last.)
QuietPageIsRight ==
  loads = {} /\ shown.n = sent /\ shown.by = "effect" => shown.query = query

\* Ids that were reported deleted are never seen again in the answer of a later
\* load: the deletion was done, as a whole, before list.refetch was called.
ReadsOwnDeletes ==
  loads = {} /\ shown.n = sent => IdsIn(rows) \cap gone = {}

\* A page holds as many rows as the total, counted without the JOIN of the
\* SELECT, says it should: the foreign keys keep the JOIN from losing any.
CountedIsListed ==
  \A f \in Filter, p \in 1 .. Cardinality(DOMAIN Rows) + 1 :
    LET q == [filter |-> f, page |-> p]
    IN  Cardinality(PageOf(q)) =
          Max({0, Min({PerPage[kind], Cardinality(Counted(f)) - Offset(q)})})

\* A spinner has a load to wait for, failures and crossing responses included
\* (the finally branch of load).
SpinnerHasLoad == loading => loads # {}

\* A bulk deletion that is served deletes all the rows it names or, when a row of
\* another table refers to one of them, none.
BulkIsWhole ==
  [][request # Nothing /\ request.stage = "sent" /\ request' # request
       => \/ DOMAIN Rows \cap request.change.ids \subseteq DOMAIN Rows'
          \/ request.change.kind = "delete" /\ ~Held(request.change.ids)
             /\ DOMAIN Rows' \cap request.change.ids = {}]_vars
=============================================================================
