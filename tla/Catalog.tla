------------------------------ MODULE Catalog ------------------------------
(***************************************************************************)
(* Tenants, campaigns and links: the tables behind three pages of the      *)
(* dashboard and the foreign keys between them.  Each handler of           *)
(* simple_entity.go, campaigns.go and links.go changes them in one         *)
(* statement, so each is one step, refused as a whole by a foreign key.    *)
(*                                                                         *)
(* Ids are issued once.  Names, slugs and destinations are left out; what  *)
(* the redirect service makes of a link's status is in Tracking.           *)
(***************************************************************************)
EXTENDS Integers, FiniteSets, Functions

CONSTANTS Tenants, Campaigns, Links   \* ids, those not issued yet included

Ids == Tenants \cup Campaigns \cup Links

ASSUME CatalogAssumption ==
  /\ IsFiniteSet(Ids) /\ Ids \subseteq Nat
  /\ Tenants \cap Campaigns = {} /\ Links \cap (Tenants \cup Campaigns) = {}

VARIABLES
  tenants,     \* id -> status, for each row
  campaigns,   \* id -> tenant_id and status
  links,       \* id -> campaign_id and status
  visited,     \* ids in link_clicks
  issued       \* ids the three AUTO_INCREMENTs have handed out

tables == <<tenants, campaigns, links, visited, issued>>

Status == {"active", "inactive"}
Tenant == [status : Status]
Campaign == [tenant : Tenants, status : Status]
Link == [campaign : Campaigns, status : Status]

TablesOK ==
  /\ DOMAIN tenants \subseteq Tenants /\ \A t \in DOMAIN tenants : tenants[t] \in Tenant
  /\ DOMAIN campaigns \subseteq Campaigns /\ \A c \in DOMAIN campaigns : campaigns[c] \in Campaign
  /\ DOMAIN links \subseteq Links /\ \A l \in DOMAIN links : links[l] \in Link
  /\ visited \subseteq DOMAIN links
  /\ DOMAIN tenants \cup DOMAIN campaigns \cup DOMAIN links \subseteq issued /\ issued \subseteq Ids

\* The next id of a table.
Fresh(id) == /\ id \notin issued
             /\ issued' = issued \cup {id}

WithRow(rows, id, row) == [d \in DOMAIN rows \cup {id} |-> IF d = id THEN row ELSE rows[d]]

\* An UPDATE or DELETE of an id without a row changes nothing and succeeds.
Without(rows, ids) == Restrict(rows, DOMAIN rows \ ids)
WithStatus(rows, ids, status) ==
  [d \in DOMAIN rows |-> IF d \in ids THEN [rows[d] EXCEPT !.status = status] ELSE rows[d]]

----------------------------------------------------------------------------
(* Tenants.  An Update changes the name only. *)

CreateTenant(t) ==
  /\ t \in Tenants /\ Fresh(t)
  /\ tenants' = WithRow(tenants, t, [status |-> "active"])
  /\ UNCHANGED <<campaigns, links, visited>>

SetTenantStatus(ids, status) ==
  /\ tenants' = WithStatus(tenants, ids, status)
  /\ UNCHANGED <<campaigns, links, visited, issued>>

\* fk_campaigns_tenant.
Hosting(ids) == \E c \in DOMAIN campaigns : campaigns[c].tenant \in ids

\* A mistake the schema could have: no foreign key.
DropTenantsAnyway(ids) ==
  /\ tenants' = Without(tenants, ids)
  /\ UNCHANGED <<campaigns, links, visited, issued>>

DropTenants(ids) ==
  /\ ~Hosting(ids)
  /\ tenants' = Without(tenants, ids)
  /\ UNCHANGED <<campaigns, links, visited, issued>>

----------------------------------------------------------------------------
(* Campaigns. *)

CreateCampaign(c, t) ==
  /\ c \in Campaigns /\ t \in DOMAIN tenants
  /\ Fresh(c)
  /\ campaigns' = WithRow(campaigns, c, [tenant |-> t, status |-> "active"])
  /\ UNCHANGED <<tenants, links, visited>>

UpdateCampaign(c, t) ==
  /\ c \in DOMAIN campaigns => t \in DOMAIN tenants
  /\ campaigns' = [d \in DOMAIN campaigns |->
                     IF d = c THEN [campaigns[d] EXCEPT !.tenant = t] ELSE campaigns[d]]
  /\ UNCHANGED <<tenants, links, visited, issued>>

SetCampaignStatus(ids, status) ==
  /\ campaigns' = WithStatus(campaigns, ids, status)
  /\ UNCHANGED <<tenants, links, visited, issued>>

\* fk_links_campaign.
Linked(ids) == \E l \in DOMAIN links : links[l].campaign \in ids

\* A mistake the handler could have: row by row, passing over those that are refused.
DropUnlinkedCampaigns(ids) ==
  /\ campaigns' = Without(campaigns, {c \in ids : ~Linked({c})})
  /\ UNCHANGED <<tenants, links, visited, issued>>

DropCampaigns(ids) ==
  /\ ~Linked(ids)
  /\ campaigns' = Without(campaigns, ids)
  /\ UNCHANGED <<tenants, links, visited, issued>>

----------------------------------------------------------------------------
(* Links. *)

CreateLink(l, c) ==
  /\ l \in Links /\ c \in DOMAIN campaigns
  /\ Fresh(l)
  /\ links' = WithRow(links, l, [campaign |-> c, status |-> "active"])
  /\ UNCHANGED <<tenants, campaigns, visited>>

UpdateLink(l, c) ==
  /\ l \in DOMAIN links /\ c \in DOMAIN campaigns
  /\ links' = [links EXCEPT ![l].campaign = c]
  /\ UNCHANGED <<tenants, campaigns, visited, issued>>

SetLinkStatus(ids, status) ==
  /\ links' = WithStatus(links, ids, status)
  /\ UNCHANGED <<tenants, campaigns, visited, issued>>

\* The redirect service logs a click.
Click(l) ==
  /\ l \in DOMAIN links
  /\ visited' = visited \cup {l}
  /\ UNCHANGED <<tenants, campaigns, links, issued>>

\* fk_clicks_link.
Visited(ids) == ids \cap visited # {}

DropLinks(ids) ==
  /\ ~Visited(ids)
  /\ links' = Without(links, ids)
  /\ UNCHANGED <<tenants, campaigns, visited, issued>>
=============================================================================
