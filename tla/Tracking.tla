------------------------------ MODULE Tracking ------------------------------
(***************************************************************************)
(* From a short link to a conversion: the redirect service, which logs a   *)
(* visit and hands the visitor a (cid, tid) pair for the destination site, *)
(* the postback receiver, which that site calls back with the pair, and    *)
(* the dashboard's changes to the links meanwhile.                         *)
(*                                                                         *)
(* A link is its id, which is issued once; its tid is as unique and never  *)
(* changes, so the id stands for it.  A visit stands for its cid, a post   *)
(* for one call of a destination site.                                     *)
(***************************************************************************)
EXTENDS Integers, FiniteSets

CONSTANTS
  Links,
  Slugs,
  Visits,
  Posts,
  NoLink,     \* no row: not created yet, or deleted
  NoVisit,    \* nothing logged, nothing recorded
  Window,     \* how long a click accepts postbacks: seven days, in ticks
  Horizon,    \* bound on the clock
  MaxFaults   \* bound on failing statements, crashes and lost answers

ASSUME TrackingAssumption ==
  /\ NoLink \notin Links /\ NoVisit \notin Visits
  /\ IsFiniteSet(Posts)
  /\ Window \in Nat /\ Horizon \in Nat /\ MaxFaults \in Nat

Never == Horizon + 1   \* no expiry date

Moments == 0 .. Never

Row == [slug : Slugs, status : {"active", "inactive"}, expires : Moments]

Click == [link : Links, until : 0 .. Horizon + Window]

ASSUME NoRows == NoLink \notin Row /\ NoVisit \notin Click

VARIABLES
  now,
  issued,     \* ids handed out by links' AUTO_INCREMENT
  links,
  clicks,     \* link_clicks, by cid
  events,     \* postback_events: the visit a post was recorded for
  visit,      \* the redirect service's requests
  post,       \* the API's postback requests
  faults

vars == <<now, issued, links, clicks, events, visit, post, faults>>

\* link, at: what lookupLink returned, and when.  logged: whether the click's
\* INSERT succeeded.
VisitState ==
  [stage : {"new", "found", "tried", "redirected", "refused"},
   link : Links \cup {NoLink}, at : 0 .. Horizon, logged : BOOLEAN]

\* visit, link: the cid and the tid of the call.
PostState ==
  [stage : {"new", "asked", "checked", "answered"},
   visit : Visits \cup {NoVisit}, link : Links \cup {NoLink},
   answer : {"none", "recorded", "not_found", "expired", "error"}]

TypeOK ==
  /\ now \in 0 .. Horizon
  /\ issued \in SUBSET Links
  /\ links \in [Links -> Row \cup {NoLink}]
  /\ clicks \in [Visits -> Click \cup {NoVisit}]
  /\ events \in [Posts -> Visits \cup {NoVisit}]
  /\ visit \in [Visits -> VisitState]
  /\ post \in [Posts -> PostState]
  /\ faults \in 0 .. MaxFaults

Present(l) == links[l] # NoLink

\* fk_clicks_link keeps a link with clicks.
Clicked(l) == \E v \in Visits : clicks[v] # NoVisit /\ clicks[v].link = l

Fault == faults < MaxFaults /\ faults' = faults + 1

----------------------------------------------------------------------------
(* The links page. *)

\* A slug is unique among the rows there are; an automatic one is retried.
Create(l, slug, expires) ==
  /\ l \notin issued
  /\ \A other \in Links : Present(other) => links[other].slug # slug
  /\ issued' = issued \cup {l}
  /\ links' = [links EXCEPT ![l] =
                 [slug |-> slug, status |-> "active", expires |-> expires]]
  /\ UNCHANGED <<now, clicks, events, visit, post, faults>>

\* Neither slug nor tid can be edited.
Update(l, expires) ==
  /\ Present(l)
  /\ links' = [links EXCEPT ![l].expires = expires]
  /\ UNCHANGED <<now, issued, clicks, events, visit, post, faults>>

\* UpdateStatus, BulkStatus: one statement.
UpdateStatus(chosen, status) ==
  /\ links' = [l \in Links |-> IF l \in chosen /\ Present(l)
                                 THEN [links[l] EXCEPT !.status = status]
                                 ELSE links[l]]
  /\ UNCHANGED <<now, issued, clicks, events, visit, post, faults>>

\* A mistake the schema could have: ON DELETE CASCADE on the clicks.
DeleteCascading(chosen) ==
  /\ links' = [l \in Links |-> IF l \in chosen THEN NoLink ELSE links[l]]
  /\ clicks' = [v \in Visits |->
       IF clicks[v] # NoVisit /\ clicks[v].link \in chosen THEN NoVisit ELSE clicks[v]]
  /\ events' = [p \in Posts |->
       IF events[p] # NoVisit /\ clicks'[events[p]] = NoVisit THEN NoVisit ELSE events[p]]
  /\ UNCHANGED <<now, issued, visit, post, faults>>

\* Delete, BulkDelete: one statement, refused if a single link has a click.
Delete(chosen) ==
  /\ \A l \in chosen : ~ Clicked(l)
  /\ links' = [l \in Links |-> IF l \in chosen THEN NoLink ELSE links[l]]
  /\ UNCHANGED <<now, issued, clicks, events, visit, post, faults>>

----------------------------------------------------------------------------
(* The redirect service. *)

Visiting(v, s) == visit' = [visit EXCEPT ![v] = s]

\* Where slug leads at present, and whether it is served.
Served(l, slug) ==
  /\ Present(l)
  /\ links[l].slug = slug /\ links[l].status = "active" /\ ~ links[l].expires < now

Lookup(v, slug) ==
  /\ visit[v].stage = "new"
  /\ \/ \E l \in Links :
          /\ Served(l, slug)
          /\ Visiting(v, [visit[v] EXCEPT !.stage = "found", !.link = l, !.at = now])
     \/ /\ \A l \in Links : ~ Served(l, slug)
        /\ Visiting(v, [visit[v] EXCEPT !.stage = "refused"])
  /\ UNCHANGED <<now, issued, links, clicks, events, post, faults>>

\* The INSERT into link_clicks, with a window that was worked out at some moment
\* between the lookup and now.
Log(v, at) ==
  /\ visit[v].stage = "found" /\ Present(visit[v].link)
  /\ at \in visit[v].at .. now
  /\ clicks' = [clicks EXCEPT ![v] = [link |-> visit[v].link, until |-> at + Window]]
  /\ Visiting(v, [visit[v] EXCEPT !.stage = "tried", !.logged = TRUE])
  /\ UNCHANGED <<now, issued, links, events, post, faults>>

\* It fails, on a link deleted meanwhile or otherwise; the visitor is sent on.
LogFails(v) ==
  /\ visit[v].stage = "found"
  /\ IF Present(visit[v].link) THEN Fault ELSE UNCHANGED faults
  /\ Visiting(v, [visit[v] EXCEPT !.stage = "tried"])
  /\ UNCHANGED <<now, issued, links, clicks, events, post>>

\* The pair leaves with the visitor.
Redirect(v) ==
  /\ visit[v].stage = "tried"
  /\ Visiting(v, [visit[v] EXCEPT !.stage = "redirected"])
  /\ UNCHANGED <<now, issued, links, clicks, events, post, faults>>

\* A failing lookup, a crash or a visitor that went away.
Turned(v) ==
  /\ visit[v].stage \in {"new", "found", "tried"}
  /\ Fault
  /\ Visiting(v, [visit[v] EXCEPT !.stage = "refused"])
  /\ UNCHANGED <<now, issued, links, clicks, events, post>>

----------------------------------------------------------------------------
(* The postback receiver. *)

Posting(p, s) == post' = [post EXCEPT ![p] = s]

Answer(p, answer) ==
  Posting(p, [post[p] EXCEPT !.stage = "answered", !.answer = answer])

\* A destination site calls, once or again, with the cid of a visitor it got and
\* a tid, seldom that of another link.
Ask(p, v, l) ==
  /\ post[p].stage = "new" /\ visit[v].stage = "redirected"
  /\ Posting(p, [post[p] EXCEPT !.stage = "asked", !.visit = v, !.link = l])
  /\ UNCHANGED <<now, issued, links, clicks, events, visit, faults>>

\* The row the join of clicks and links finds for the pair.
Matches(p) ==
  LET click == clicks[post[p].visit]
  IN  click # NoVisit /\ click.link = post[p].link /\ Present(post[p].link)

\* A mistake Handle could have: a tick of grace, as comparing dates would give.
CheckWithGrace(p) ==
  /\ post[p].stage = "asked"
  /\ IF ~ Matches(p) THEN Answer(p, "not_found")
     ELSE IF now > clicks[post[p].visit].until + 1 THEN Answer(p, "expired")
     ELSE Posting(p, [post[p] EXCEPT !.stage = "checked"])
  /\ UNCHANGED <<now, issued, links, clicks, events, visit, faults>>

\* The only look at the clock: the INSERT that follows may be any time later.
Check(p) ==
  /\ post[p].stage = "asked"
  /\ IF ~ Matches(p) THEN Answer(p, "not_found")
     ELSE IF now > clicks[post[p].visit].until THEN Answer(p, "expired")
     ELSE Posting(p, [post[p] EXCEPT !.stage = "checked"])
  /\ UNCHANGED <<now, issued, links, clicks, events, visit, faults>>

\* Any error of the query is answered as if there were no such click.
CheckFails(p) ==
  /\ post[p].stage = "asked"
  /\ Fault
  /\ Answer(p, "not_found")
  /\ UNCHANGED <<now, issued, links, clicks, events, visit>>

\* A mistake Handle could have: the event refers to the link, not to the click.
RecordFromLink(p) ==
  /\ post[p].stage = "checked"
  /\ events' = [events EXCEPT ![p] = post[p].link]
  /\ Answer(p, "recorded")
  /\ UNCHANGED <<now, issued, links, clicks, visit, faults>>

Record(p) ==
  /\ post[p].stage = "checked"
  /\ events' = [events EXCEPT ![p] = post[p].visit]
  /\ Answer(p, "recorded")
  /\ UNCHANGED <<now, issued, links, clicks, visit, faults>>

RecordFails(p) ==
  /\ post[p].stage = "checked"
  /\ Fault
  /\ Answer(p, "error")
  /\ UNCHANGED <<now, issued, links, clicks, events, visit>>

----------------------------------------------------------------------------

\* Time passes between any two steps; no request has a deadline.
Tick ==
  /\ now < Horizon
  /\ now' = now + 1
  /\ UNCHANGED <<issued, links, clicks, events, visit, post, faults>>

Init ==
  /\ now = 0
  /\ issued = {}
  /\ links = [l \in Links |-> NoLink]
  /\ clicks = [v \in Visits |-> NoVisit]
  /\ events = [p \in Posts |-> NoVisit]
  /\ visit = [v \in Visits |-> [stage |-> "new", link |-> NoLink, at |-> 0,
                                 logged |-> FALSE]]
  /\ post = [p \in Posts |-> [stage |-> "new", visit |-> NoVisit, link |-> NoLink,
                              answer |-> "none"]]
  /\ faults = 0

Manage ==
  \/ \E l \in Links, slug \in Slugs, e \in Moments : Create(l, slug, e)
  \/ \E l \in Links, e \in Moments : Update(l, e)
  \/ \E chosen \in (SUBSET Links) \ {{}}, s \in {"active", "inactive"} :
       UpdateStatus(chosen, s)
  \/ \E chosen \in (SUBSET Links) \ {{}} : Delete(chosen)

Visit(v) ==
  \/ \E slug \in Slugs : Lookup(v, slug)
  \/ \E at \in 0 .. Horizon : Log(v, at)
  \/ LogFails(v) \/ Redirect(v) \/ Turned(v)

Post(p) ==
  \/ \E v \in Visits, l \in Links : Ask(p, v, l)
  \/ Check(p) \/ CheckFails(p) \/ Record(p) \/ RecordFails(p)

Next ==
  \/ Manage
  \/ \E v \in Visits : Visit(v)
  \/ \E p \in Posts : Post(p)
  \/ Tick

Spec == Init /\ [][Next]_vars

----------------------------------------------------------------------------
(* Properties. *)

\* Posts that named the pair a redirect handed out, of a visit that was logged,
\* and were told that there is no such click.
Lost == { p \in Posts :
            /\ post[p].answer = "not_found"
            /\ visit[post[p].visit].logged
            /\ visit[post[p].visit].link = post[p].link }

\* A logged visit is known from the moment its pair is handed out and for good,
\* whatever is done to its link: only a failing query can lose a conversion to
\* a 404 (redirectHandler's INSERT before the redirect, fk_clicks_link).
LoggedIsKnown == Cardinality(Lost) <= faults

\* Why: the rows the receiver's join needs stay, and calls come after redirects.
PairsStay ==
  \A v \in Visits :
    /\ visit[v].logged <=> clicks[v] # NoVisit
    /\ visit[v].stage \in {"new", "found"} => ~ visit[v].logged
    /\ visit[v].stage = "found" => visit[v].link \in Links
    /\ visit[v].logged => clicks[v].link = visit[v].link /\ Present(visit[v].link)

CallsFollow ==
  \A p \in Posts :
    /\ post[p].stage # "new" =>
         post[p].visit \in Visits /\ visit[post[p].visit].stage = "redirected"
    /\ post[p].stage # "answered" => post[p].answer = "none"
    /\ post[p].stage \in {"new", "asked", "checked"} => events[p] = NoVisit

\* The calls let in, and for which visit; those whose INSERT fails among them.
Admitted(p) ==
  IF post[p].stage = "checked" \/ post[p].answer \in {"recorded", "error"}
    THEN post[p].visit ELSE NoVisit

\* Nothing entered changes or goes away, and a conversion is entered for a logged
\* visit by a call that came in while its window was open, however much later.
Book == INSTANCE Journal
  WITH clock <- now, visits <- clicks, posts <- events, None <- NoVisit,
       open <- { l \in Links : Present(l) },
       admitted <- [p \in Posts |-> Admitted(p)]

ImplementsJournal == Book!Spec
=============================================================================
