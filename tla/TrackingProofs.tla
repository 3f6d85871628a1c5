--------------------------- MODULE TrackingProofs ---------------------------
(***************************************************************************)
(* What TLAPS proves of Tracking, for every set of links, slugs, visits    *)
(* and posts, every window and every bound on the clock and the faults.    *)
(***************************************************************************)
EXTENDS Tracking, FiniteSetTheorems, TLAPS

Grounds == TypeOK /\ PairsStay /\ CallsFollow

\* A new state of one visit.
LEMMA VisitingType ==
  ASSUME TypeOK, NEW v \in Visits, NEW s \in VisitState, Visiting(v, s)
  PROVE  /\ visit' \in [Visits -> VisitState]
         /\ visit'[v] = s
         /\ \A w \in Visits : w # v => visit'[w] = visit[w]
BY DEF TypeOK, Visiting

\* A new state of one post.
LEMMA PostingType ==
  ASSUME TypeOK, NEW p \in Posts, NEW s \in PostState, Posting(p, s)
  PROVE  /\ post' \in [Posts -> PostState]
         /\ post'[p] = s
         /\ \A q \in Posts : q # p => post'[q] = post[q]
BY DEF TypeOK, Posting

LEMMA AnswerType ==
  ASSUME TypeOK, NEW p \in Posts,
         NEW a \in {"recorded", "not_found", "expired", "error"}, Answer(p, a)
  PROVE  /\ post' \in [Posts -> PostState]
         /\ post'[p].stage = "answered" /\ post'[p].answer = a
         /\ post'[p].visit = post[p].visit /\ post'[p].link = post[p].link
         /\ \A q \in Posts : q # p => post'[q] = post[q]
<1> DEFINE s == [post[p] EXCEPT !.stage = "answered", !.answer = a]
<1>1. /\ s \in PostState /\ s.stage = "answered" /\ s.answer = a
      /\ s.visit = post[p].visit /\ s.link = post[p].link
  BY DEF TypeOK, PostState
<1>2. Posting(p, s)
  BY DEF Answer
<1> QED
  BY <1>1, <1>2, PostingType

\* A rearranged catalogue: rows stay rows, and clicked links stay present.
Keeps == /\ links' \in [Links -> Row \cup {NoLink}]
         /\ \A l \in Links : Present(l) /\ Clicked(l) => Present(l)'

LEMMA ManageKeeps ==
  ASSUME Grounds, Manage
  PROVE  /\ Keeps /\ issued' \in SUBSET Links
         /\ UNCHANGED <<now, clicks, events, visit, post, faults>>
<1> USE DEF Grounds
<1>1. links \in [Links -> Row \cup {NoLink}] /\ issued \in SUBSET Links
  BY DEF TypeOK
<1>2. ASSUME NEW l \in Links, NEW slug \in Slugs, NEW e \in Moments, Create(l, slug, e)
      PROVE  /\ Keeps /\ issued' \in SUBSET Links
             /\ UNCHANGED <<now, clicks, events, visit, post, faults>>
  <2> DEFINE row == [slug |-> slug, status |-> "active", expires |-> e]
  <2>1. row \in Row
    BY DEF Row
  <2> QED
    BY <1>1, <1>2, <2>1, NoRows DEF Create, Keeps, Present
<1>3. ASSUME NEW l \in Links, NEW e \in Moments, Update(l, e)
      PROVE  /\ Keeps /\ issued' \in SUBSET Links
             /\ UNCHANGED <<now, clicks, events, visit, post, faults>>
  <2> DEFINE row == [links[l] EXCEPT !.expires = e]
  <2>1. row \in Row
    BY <1>1, <1>3 DEF Update, Present, Row
  <2>2. links' = [links EXCEPT ![l] = row]
    BY <1>3 DEF Update
  <2> QED
    BY <1>1, <1>3, <2>1, <2>2, NoRows DEF Update, Keeps, Present
<1>4. ASSUME NEW chosen \in SUBSET Links, NEW s \in {"active", "inactive"},
             UpdateStatus(chosen, s)
      PROVE  /\ Keeps /\ issued' \in SUBSET Links
             /\ UNCHANGED <<now, clicks, events, visit, post, faults>>
  <2>1. ASSUME NEW l \in Links, Present(l)
        PROVE  [links[l] EXCEPT !.status = s] \in Row
    BY <1>1, <2>1 DEF Present, Row
  <2> QED
    BY <1>1, <1>4, <2>1, NoRows DEF UpdateStatus, Keeps, Present
<1>5. ASSUME NEW chosen \in SUBSET Links, Delete(chosen)
      PROVE  /\ Keeps /\ issued' \in SUBSET Links
             /\ UNCHANGED <<now, clicks, events, visit, post, faults>>
  BY <1>1, <1>5 DEF Delete, Keeps, Present
<1> QED
  BY <1>2, <1>3, <1>4, <1>5 DEF Manage

----------------------------------------------------------------------------
(* The invariant. *)

LEMMA InitGrounds == Init => Grounds
<1> SUFFICES ASSUME Init PROVE Grounds
  OBVIOUS
<1>1. TypeOK
  BY TrackingAssumption DEF Init, TypeOK, VisitState, PostState
<1> QED
  BY <1>1 DEF Init, Grounds, PairsStay, CallsFollow

LEMMA ManageGrounds ==
  ASSUME Grounds, Manage
  PROVE  Grounds'
<1>1. /\ Keeps /\ issued' \in SUBSET Links
      /\ UNCHANGED <<now, clicks, events, visit, post, faults>>
  BY ManageKeeps
<1>2. TypeOK'
  BY <1>1 DEF Grounds, TypeOK, Keeps
<1>3. PairsStay'
  <2>1. ASSUME NEW v \in Visits, visit[v].logged
        PROVE  Present(visit[v].link)'
    <3>1. /\ clicks[v] # NoVisit /\ clicks[v].link = visit[v].link
          /\ Present(visit[v].link)
      BY <2>1 DEF Grounds, PairsStay
    <3>2. visit[v].link \in Links
      BY <3>1 DEF Grounds, TypeOK, Click
    <3>3. Clicked(visit[v].link)
      BY <3>1 DEF Clicked
    <3>4. Present(visit[v].link)' <=> links'[visit[v].link] # NoLink
      BY <1>1 DEF Present
    <3> QED
      BY <1>1, <3>1, <3>2, <3>3, <3>4 DEF Keeps, Present
  <2> QED
    BY <1>1, <2>1 DEF Grounds, PairsStay, Present
<1>4. CallsFollow'
  BY <1>1 DEF Grounds, CallsFollow
<1> QED
  BY <1>2, <1>3, <1>4 DEF Grounds

\* A step of a visit that has not been redirected, which logs nothing.
LEMMA UnloggedGrounds ==
  ASSUME Grounds, NEW v \in Visits, NEW s \in VisitState, Visiting(v, s),
         visit[v].stage # "redirected",
         s.logged = visit[v].logged,
         s.logged => s.link = visit[v].link,
         s.stage \in {"new", "found"} => ~ s.logged,
         s.stage = "found" => s.link \in Links,
         faults' \in 0 .. MaxFaults,
         UNCHANGED <<now, issued, links, clicks, events, post>>
  PROVE  Grounds'
<1>1. /\ visit' \in [Visits -> VisitState] /\ visit'[v] = s
      /\ \A w \in Visits : w # v => visit'[w] = visit[w]
  BY VisitingType DEF Grounds
<1>2. TypeOK'
  BY <1>1 DEF Grounds, TypeOK
<1>3. PairsStay'
  BY <1>1 DEF Grounds, PairsStay, Present
<1>4. CallsFollow'
  BY <1>1 DEF Grounds, CallsFollow
<1> QED
  BY <1>2, <1>3, <1>4 DEF Grounds

LEMMA LogGrounds ==
  ASSUME Grounds, NEW v \in Visits, NEW at \in 0 .. Horizon, Log(v, at)
  PROVE  Grounds'
<1> DEFINE s == [visit[v] EXCEPT !.stage = "tried", !.logged = TRUE]
           click == [link |-> visit[v].link, until |-> at + Window]
<1>1. visit[v].stage = "found" /\ visit[v].link \in Links /\ Present(visit[v].link)
  BY DEF Log, Grounds, PairsStay
<1>2. /\ s \in VisitState /\ s.stage = "tried" /\ s.link = visit[v].link /\ s.logged
  BY DEF Grounds, TypeOK, VisitState
<1>3. /\ visit' \in [Visits -> VisitState] /\ visit'[v] = s
      /\ \A w \in Visits : w # v => visit'[w] = visit[w]
  BY <1>2, VisitingType DEF Log, Grounds
<1>4. click \in Click /\ click.link = visit[v].link
  BY <1>1, TrackingAssumption DEF Grounds, TypeOK, Click
<1>5. click # NoVisit
  BY <1>4, NoRows
<1>6. clicks' = [clicks EXCEPT ![v] = click] /\ UNCHANGED <<now, issued, links, events, post, faults>>
  BY DEF Log
<1>7. /\ clicks' \in [Visits -> Click \cup {NoVisit}] /\ clicks'[v] = click
      /\ \A w \in Visits : w # v => clicks'[w] = clicks[w]
  BY <1>4, <1>6 DEF Grounds, TypeOK
<1>8. TypeOK'
  BY <1>3, <1>6, <1>7 DEF Grounds, TypeOK
<1>9. PairsStay'
  <2> SUFFICES ASSUME NEW w \in Visits
               PROVE  /\ visit'[w].logged <=> clicks'[w] # NoVisit
                      /\ visit'[w].stage \in {"new", "found"} => ~ visit'[w].logged
                      /\ visit'[w].stage = "found" => visit'[w].link \in Links
                      /\ visit'[w].logged =>
                           clicks'[w].link = visit'[w].link /\ links'[visit'[w].link] # NoLink
    BY DEF PairsStay, Present
  <2>1. CASE w = v
    BY <1>1, <1>2, <1>3, <1>4, <1>5, <1>6, <1>7, <2>1 DEF Present
  <2>2. CASE w # v
    BY <1>3, <1>6, <1>7, <2>2 DEF Grounds, PairsStay, Present
  <2> QED
    BY <2>1, <2>2
<1>10. CallsFollow'
  BY <1>1, <1>3, <1>6, <1>7 DEF Grounds, CallsFollow
<1> QED
  BY <1>8, <1>9, <1>10 DEF Grounds

LEMMA FaultType ==
  ASSUME TypeOK, Fault
  PROVE  faults' \in 0 .. MaxFaults /\ faults' = faults + 1
BY TrackingAssumption DEF TypeOK, Fault

LEMMA VisitGrounds ==
  ASSUME Grounds, NEW v \in Visits, Visit(v)
  PROVE  Grounds'
<1>1. visit[v] \in VisitState /\ faults \in 0 .. MaxFaults
  BY DEF Grounds, TypeOK
<1>2. ASSUME NEW slug \in Slugs, Lookup(v, slug) PROVE Grounds'
  <2>1. ~ visit[v].logged /\ visit[v].stage = "new"
    BY <1>2 DEF Lookup, Grounds, PairsStay
  <2>2. ASSUME NEW l \in Links,
               Visiting(v, [visit[v] EXCEPT !.stage = "found", !.link = l, !.at = now])
        PROVE  Grounds'
    <3> DEFINE s == [visit[v] EXCEPT !.stage = "found", !.link = l, !.at = now]
    <3>1. s \in VisitState /\ s.stage = "found" /\ s.link = l /\ s.logged = visit[v].logged
      BY <1>1 DEF VisitState, Grounds, TypeOK
    <3> QED
      BY <1>1, <1>2, <2>1, <2>2, <3>1, UnloggedGrounds DEF Lookup
  <2>3. CASE Visiting(v, [visit[v] EXCEPT !.stage = "refused"])
    <3> DEFINE s == [visit[v] EXCEPT !.stage = "refused"]
    <3>1. s \in VisitState /\ s.stage = "refused" /\ s.logged = visit[v].logged
      BY <1>1 DEF VisitState
    <3> QED
      BY <1>1, <1>2, <2>1, <2>3, <3>1, UnloggedGrounds DEF Lookup
  <2> QED
    BY <1>2, <2>2, <2>3 DEF Lookup
<1>3. ASSUME NEW stage \in {"tried", "redirected", "refused"},
             Visiting(v, [visit[v] EXCEPT !.stage = stage]),
             visit[v].stage # "redirected", faults' \in 0 .. MaxFaults,
             UNCHANGED <<now, issued, links, clicks, events, post>>
      PROVE  Grounds'
  <2> DEFINE s == [visit[v] EXCEPT !.stage = stage]
  <2>1. /\ s \in VisitState /\ s.stage = stage /\ s.logged = visit[v].logged
        /\ s.link = visit[v].link
    BY <1>1 DEF VisitState
  <2> QED
    BY <1>3, <2>1, UnloggedGrounds
<1>4. CASE LogFails(v)
  <2>1. faults' \in 0 .. MaxFaults
    BY <1>1, <1>4, FaultType DEF LogFails, Grounds
  <2> QED
    BY <1>3, <1>4, <2>1 DEF LogFails
<1>5. CASE Redirect(v)
  BY <1>1, <1>3, <1>5 DEF Redirect
<1>6. CASE Turned(v)
  BY <1>3, <1>6, FaultType DEF Turned, Grounds
<1> QED
  BY <1>2, <1>4, <1>5, <1>6, LogGrounds DEF Visit

\* A post that goes on without being answered.
LEMMA GoesOn ==
  ASSUME CallsFollow, NEW p \in Posts, NEW s,
         post'[p] = s, \A q \in Posts : q # p => post'[q] = post[q],
         UNCHANGED <<now, clicks, events, visit>>,
         s.stage \in {"asked", "checked"}, s.answer = "none", events[p] = NoVisit,
         s.visit \in Visits, visit[s.visit].stage = "redirected"
  PROVE  CallsFollow'
BY DEF CallsFollow

LEMMA AskGrounds ==
  ASSUME Grounds, NEW p \in Posts, NEW v \in Visits, NEW l \in Links, Ask(p, v, l)
  PROVE  Grounds'
<1> DEFINE s == [post[p] EXCEPT !.stage = "asked", !.visit = v, !.link = l]
<1>1. /\ s \in PostState /\ s.stage = "asked" /\ s.visit = v
      /\ s.answer = post[p].answer /\ post[p].stage = "new"
      /\ visit[v].stage = "redirected"
  BY DEF Ask, Grounds, TypeOK, PostState
<1>2. /\ post' \in [Posts -> PostState] /\ post'[p] = s
      /\ \A q \in Posts : q # p => post'[q] = post[q]
  BY <1>1, PostingType DEF Ask, Grounds
<1>3. TypeOK'
  BY <1>2 DEF Ask, Grounds, TypeOK
<1>4. PairsStay'
  BY DEF Ask, Grounds, PairsStay, Present
<1>5. CallsFollow'
  <2>1. /\ events[p] = NoVisit
        /\ post[p].answer = "none" /\ UNCHANGED <<visit, clicks, events, now>>
    BY <1>1 DEF Ask, Grounds, CallsFollow
  <2>2. CallsFollow
    BY DEF Grounds
  <2> HIDE DEF s
  <2> QED
    BY <1>1, <1>2, <2>1, <2>2, GoesOn
<1> QED
  BY <1>3, <1>4, <1>5 DEF Grounds

\* A post is answered, and recorded at most by that.
LEMMA AnswerGrounds ==
  ASSUME Grounds, NEW p \in Posts,
         NEW a \in {"recorded", "not_found", "expired", "error"}, Answer(p, a),
         post[p].stage \in {"asked", "checked"},
         events' \in [Posts -> Visits \cup {NoVisit}],
         \A q \in Posts : q # p => events'[q] = events[q],
         faults' \in 0 .. MaxFaults,
         UNCHANGED <<now, issued, links, clicks, visit>>
  PROVE  Grounds'
<1>1. /\ post' \in [Posts -> PostState]
      /\ post'[p].stage = "answered" /\ post'[p].visit = post[p].visit
      /\ \A q \in Posts : q # p => post'[q] = post[q]
  BY AnswerType DEF Grounds
<1>2. TypeOK'
  BY <1>1 DEF Grounds, TypeOK
<1>3. PairsStay'
  BY DEF Grounds, PairsStay, Present
<1>4. CallsFollow'
  BY <1>1 DEF Grounds, CallsFollow
<1> QED
  BY <1>2, <1>3, <1>4 DEF Grounds

LEMMA CheckGrounds ==
  ASSUME Grounds, NEW p \in Posts, Check(p)
  PROVE  Grounds'
<1>1. /\ post[p] \in PostState /\ faults \in 0 .. MaxFaults
      /\ events \in [Posts -> Visits \cup {NoVisit}] /\ post[p].stage = "asked"
  BY DEF Check, Grounds, TypeOK
<1>2. CASE Answer(p, "not_found") \/ Answer(p, "expired")
  BY <1>1, <1>2, AnswerGrounds DEF Check
<1>3. CASE /\ Matches(p) /\ ~ now > clicks[post[p].visit].until
           /\ Posting(p, [post[p] EXCEPT !.stage = "checked"])
  <2> DEFINE s == [post[p] EXCEPT !.stage = "checked"]
  <2>1. /\ s \in PostState /\ s.stage = "checked" /\ s.visit = post[p].visit
        /\ s.answer = post[p].answer
    BY <1>1 DEF PostState
  <2>2. /\ post' \in [Posts -> PostState] /\ post'[p] = s
        /\ \A q \in Posts : q # p => post'[q] = post[q]
    BY <1>3, <2>1, PostingType DEF Grounds
  <2>3. post[p].visit \in Visits
    BY <1>1 DEF Grounds, CallsFollow
  <2>4. TypeOK'
    BY <2>2 DEF Check, Grounds, TypeOK
  <2>5. PairsStay'
    BY DEF Check, Grounds, PairsStay, Present
  <2>6. CallsFollow'
    <3>1. /\ post[p].answer = "none" /\ events[p] = NoVisit
          /\ visit[post[p].visit].stage = "redirected"
          /\ UNCHANGED <<visit, clicks, events, now>>
      BY <1>1 DEF Check, Grounds, CallsFollow
    <3> QED
      BY <2>1, <2>2, <2>3, <3>1, GoesOn DEF Grounds
  <2> QED
    BY <2>4, <2>5, <2>6 DEF Grounds
<1> QED
  BY <1>2, <1>3 DEF Check

LEMMA PostGrounds ==
  ASSUME Grounds, NEW p \in Posts, Post(p)
  PROVE  Grounds'
<1>1. /\ post[p] \in PostState /\ faults \in 0 .. MaxFaults
      /\ events \in [Posts -> Visits \cup {NoVisit}]
  BY DEF Grounds, TypeOK
<1>2. CASE CheckFails(p)
  BY <1>1, <1>2, AnswerGrounds, FaultType DEF CheckFails, Grounds
<1>3. CASE Record(p)
  <2>1. post[p].visit \in Visits
    BY <1>3 DEF Record, Grounds, CallsFollow
  <2>2. /\ events' \in [Posts -> Visits \cup {NoVisit}]
        /\ \A q \in Posts : q # p => events'[q] = events[q]
    BY <1>1, <1>3, <2>1 DEF Record
  <2> QED
    BY <1>1, <1>3, <2>2, AnswerGrounds DEF Record
<1>4. CASE RecordFails(p)
  BY <1>1, <1>4, AnswerGrounds, FaultType DEF RecordFails, Grounds
<1> QED
  BY <1>2, <1>3, <1>4, AskGrounds, CheckGrounds DEF Post

LEMMA TickGrounds ==
  ASSUME Grounds, Tick
  PROVE  Grounds'
<1>1. TypeOK'
  BY TrackingAssumption DEF Tick, Grounds, TypeOK
<1>2. PairsStay'
  BY DEF Tick, Grounds, PairsStay, Present
<1>3. CallsFollow'
  BY DEF Tick, Grounds, CallsFollow
<1> QED
  BY <1>1, <1>2, <1>3 DEF Grounds

LEMMA StepGrounds == Grounds /\ [Next]_vars => Grounds'
<1> SUFFICES ASSUME Grounds, [Next]_vars PROVE Grounds'
  OBVIOUS
<1>1. CASE UNCHANGED vars
  BY <1>1 DEF vars, Grounds, TypeOK, PairsStay, CallsFollow, Present
<1> QED
  BY <1>1, ManageGrounds, VisitGrounds, PostGrounds, TickGrounds DEF Next

LEMMA AlwaysGrounds == Spec => []Grounds
BY InitGrounds, StepGrounds, PTL DEF Spec

----------------------------------------------------------------------------
(* The theorems. *)

\* The tables and the requests only ever hold what the code can put there.
THEOREM TypeCorrect == Spec => []TypeOK
<1>1. Grounds => TypeOK
  BY DEF Grounds
<1> QED
  BY <1>1, AlwaysGrounds, PTL


\* Who has lost a conversion depends on the posts answered and on the visits
\* they were about, which had been redirected by then.
LEMMA LostSame ==
  ASSUME Grounds, NEW q \in Posts,
         UNCHANGED post[q],
         \A v \in Visits : visit[v].stage = "redirected" => visit'[v] = visit[v]
  PROVE  q \in Lost' => q \in Lost
<1> SUFFICES ASSUME q \in Lost' PROVE q \in Lost
  OBVIOUS
<1>1. /\ post[q].answer = "not_found" /\ visit'[post[q].visit].logged
      /\ visit'[post[q].visit].link = post[q].link
  BY DEF Lost
<1>2. post[q].stage = "answered"
  BY <1>1 DEF Grounds, CallsFollow
<1>3. post[q].visit \in Visits /\ visit[post[q].visit].stage = "redirected"
  BY <1>2 DEF Grounds, CallsFollow
<1> QED
  BY <1>1, <1>3 DEF Lost

\* A step that leaves the posts alone loses none.
LEMMA OthersLoseNone ==
  ASSUME Grounds, Manage \/ Tick \/ (\E v \in Visits : Visit(v)) \/ UNCHANGED vars
  PROVE  Lost' \subseteq Lost /\ faults' \in Int /\ faults' >= faults
<1>1. UNCHANGED post
  BY ManageKeeps DEF Tick, Visit, Lookup, Log, LogFails, Redirect, Turned, vars
<1>2. \A v \in Visits : visit[v].stage = "redirected" => visit'[v] = visit[v]
  <2>1. ASSUME NEW v \in Visits, Visit(v), NEW w \in Visits,
               visit[w].stage = "redirected"
        PROVE  visit'[w] = visit[w]
    <3>1. \E s : Visiting(v, s)
      BY <2>1 DEF Visit, Lookup, Log, LogFails, Redirect, Turned
    <3>2. visit[v].stage # "redirected"
      BY <2>1 DEF Visit, Lookup, Log, LogFails, Redirect, Turned
    <3> QED
      BY <2>1, <3>1, <3>2 DEF Visiting, Grounds, TypeOK
  <2> QED
    BY <2>1, ManageKeeps DEF Tick, vars
<1>3. faults' = faults \/ faults' = faults + 1
  BY ManageKeeps DEF Tick, Visit, Lookup, Log, LogFails, Redirect, Turned, vars, Fault
<1>4. faults \in Int
  BY TrackingAssumption DEF Grounds, TypeOK
<1>5. \A q \in Posts : q \in Lost' => q \in Lost
  BY <1>1, <1>2, LostSame
<1>6. Lost' \subseteq Posts
  BY DEF Lost
<1> QED
  BY <1>3, <1>4, <1>5, <1>6

\* A post in hand is lost at most itself, and only to a fault.
LEMMA PostLoses ==
  ASSUME Grounds, NEW p \in Posts, Post(p)
  PROVE  \/ Lost' \subseteq Lost /\ faults' = faults
         \/ Lost' \subseteq Lost \cup {p} /\ faults' = faults + 1
<1>1. /\ \A q \in Posts : q # p => post'[q] = post[q]
      /\ UNCHANGED visit
  BY DEF Post, Ask, Check, CheckFails, Record, RecordFails, Answer, Posting, Grounds, TypeOK
<1>2. \A q \in Posts : q # p /\ q \in Lost' => q \in Lost
  BY <1>1, LostSame
<1>3. Lost' \subseteq Lost \cup {p}
  BY <1>2 DEF Lost
<1>4. CASE CheckFails(p) \/ RecordFails(p)
  BY <1>3, <1>4 DEF CheckFails, RecordFails, Fault
<1>5. CASE \E v \in Visits, l \in Links : Ask(p, v, l)
  <2>1. PICK v \in Visits, l \in Links : Ask(p, v, l)
    BY <1>5
  <2>2. post'[p].answer = "none" /\ UNCHANGED faults
    BY <2>1 DEF Ask, Posting, Grounds, TypeOK, PostState, CallsFollow
  <2> QED
    BY <1>3, <2>2 DEF Lost
<1>6. CASE Check(p)
  <2>1. UNCHANGED faults /\ post[p].stage = "asked" /\ post[p].answer = "none"
    BY <1>6 DEF Check, Grounds, CallsFollow
  <2>2. CASE Answer(p, "not_found") /\ ~ Matches(p)
    <3>1. post'[p].visit = post[p].visit /\ post'[p].link = post[p].link
      BY <2>2, AnswerType DEF Grounds
    <3>2. post[p].visit \in Visits
      BY <2>1 DEF Grounds, CallsFollow
    <3>3. ~ (visit[post[p].visit].logged /\ visit[post[p].visit].link = post[p].link)
      BY <2>2, <3>2 DEF Matches, Grounds, PairsStay
    <3>4. p \notin Lost'
      BY <1>1, <3>1, <3>3 DEF Lost
    <3> QED
      BY <1>3, <2>1, <3>4
  <2>3. CASE Answer(p, "expired")
    <3>1. post'[p].answer = "expired"
      BY <2>3, AnswerType DEF Grounds
    <3> QED
      BY <1>3, <2>1, <3>1 DEF Lost
  <2>4. CASE Posting(p, [post[p] EXCEPT !.stage = "checked"])
    <3>1. post'[p].answer = "none"
      BY <2>1, <2>4 DEF Posting, Grounds, TypeOK, PostState
    <3> QED
      BY <1>3, <2>1, <3>1 DEF Lost
  <2> QED
    BY <1>6, <2>2, <2>3, <2>4 DEF Check
<1>7. CASE Record(p)
  <2>1. post'[p].answer = "recorded" /\ UNCHANGED faults
    BY <1>7, AnswerType DEF Record, Grounds
  <2> QED
    BY <1>3, <2>1 DEF Lost
<1> QED
  BY <1>4, <1>5, <1>6, <1>7 DEF Post

\* However the links are changed, a logged visit's conversions are answered
\* 'not_found' at most as often as a statement or a process failed.
THEOREM LossNeedsFault == Spec => []LoggedIsKnown
<1> DEFINE Inv == Grounds /\ LoggedIsKnown
<1>1. Init => Inv
  <2> SUFFICES ASSUME Init PROVE LoggedIsKnown
    BY InitGrounds
  <2>1. Lost = {}
    BY DEF Init, Lost
  <2> QED
    BY <2>1, FS_EmptySet DEF Init, LoggedIsKnown
<1>2. Inv /\ [Next]_vars => Inv'
  <2> SUFFICES ASSUME Inv, [Next]_vars PROVE LoggedIsKnown'
    BY StepGrounds
  <2>1. IsFiniteSet(Lost) /\ IsFiniteSet(Lost') /\ Cardinality(Lost) \in Nat
        /\ Cardinality(Lost') \in Nat
    <3>1. Lost \in SUBSET Posts /\ Lost' \in SUBSET Posts
      BY DEF Lost
    <3> QED
      BY <3>1, FS_Subset, FS_CardinalityType, TrackingAssumption
  <2>2. faults \in Int /\ Cardinality(Lost) <= faults
    BY TrackingAssumption DEF Grounds, TypeOK, LoggedIsKnown
  <2>3. ASSUME Lost' \subseteq Lost, faults' \in Int, faults' >= faults
        PROVE  LoggedIsKnown'
    <3>1. Cardinality(Lost') <= Cardinality(Lost)
      BY <2>1, <2>3, FS_Subset
    <3> QED
      BY <2>1, <2>2, <2>3, <3>1 DEF LoggedIsKnown
  <2>4. ASSUME NEW p \in Posts, Lost' \subseteq Lost \cup {p}, faults' = faults + 1
        PROVE  LoggedIsKnown'
    <3>1. IsFiniteSet(Lost \cup {p}) /\ Cardinality(Lost \cup {p}) \in Nat
          /\ Cardinality(Lost \cup {p}) <= Cardinality(Lost) + 1
      <4>1. IsFiniteSet(Lost \cup {p})
        BY <2>1, FS_AddElement
      <4>2. Cardinality(Lost \cup {p}) = IF p \in Lost THEN Cardinality(Lost)
                                                        ELSE Cardinality(Lost) + 1
        BY <2>1, FS_AddElement
      <4> QED
        BY <2>1, <4>1, <4>2
    <3>2. Cardinality(Lost') <= Cardinality(Lost \cup {p})
      BY <2>4, <3>1, FS_Subset
    <3> QED
      BY <2>1, <2>2, <2>4, <3>1, <3>2 DEF LoggedIsKnown
  <2>5. CASE Manage \/ Tick \/ (\E v \in Visits : Visit(v)) \/ UNCHANGED vars
    BY <2>3, <2>5, OthersLoseNone
  <2>6. ASSUME NEW p \in Posts, Post(p) PROVE LoggedIsKnown'
    BY <2>2, <2>3, <2>4, <2>6, PostLoses
  <2> QED
    BY <2>5, <2>6 DEF Next
<1>3. Inv => LoggedIsKnown
  OBVIOUS
<1> QED
  BY <1>1, <1>2, <1>3, PTL DEF Spec

----------------------------------------------------------------------------
(* The journal. *)

Open == { l \in Links : Present(l) }

Taken == [p \in Posts |-> Admitted(p)]

\* A post that is not answered is let in exactly if it has been checked.
LEMMA TakenBefore ==
  ASSUME Grounds, NEW p \in Posts, post[p].stage # "answered"
  PROVE  Admitted(p) = IF post[p].stage = "checked" THEN post[p].visit ELSE NoVisit
BY DEF Grounds, CallsFollow, Admitted

LEMMA ManageRearranges ==
  ASSUME Grounds, Manage
  PROVE  Book!Rearrange
<1>1. /\ Grounds' /\ UNCHANGED <<now, clicks, events, post>>
  BY ManageGrounds, ManageKeeps
<1>2. ASSUME NEW l \in Links, NEW v \in Visits, clicks[v] # NoVisit, clicks[v].link = l
      PROVE  Present(l)'
  <2>1. clicks'[v] # NoVisit /\ clicks'[v].link = l
    BY <1>1, <1>2
  <2> QED
    BY <1>1, <2>1 DEF Grounds, PairsStay, Present
<1>3. UNCHANGED Taken
  BY <1>1 DEF Taken, Admitted
<1> QED
  BY <1>1, <1>2, <1>3 DEF Book!Rearrange, Book!Referred, Taken

LEMMA VisitEnters ==
  ASSUME Grounds, NEW v \in Visits, Visit(v)
  PROVE  \/ \E l \in Links, at \in 0 .. now : Book!EnterVisit(v, l, at)
         \/ UNCHANGED <<now, Open, clicks, Taken, events>>
<1>1. UNCHANGED Taken
  BY DEF Visit, Lookup, Log, LogFails, Redirect, Turned, Taken, Admitted
<1>2. ASSUME NEW at \in 0 .. Horizon, Log(v, at)
      PROVE  \E l \in Links, t \in 0 .. now : Book!EnterVisit(v, l, t)
  <2>1. /\ visit[v].link \in Links /\ Present(visit[v].link)
        /\ clicks[v] = NoVisit
    BY <1>2 DEF Log, Grounds, PairsStay
  <2>2. at \in 0 .. now
    BY <1>2, TrackingAssumption DEF Log, Grounds, TypeOK, VisitState
  <2>3. Book!EnterVisit(v, visit[v].link, at)
    BY <1>1, <1>2, <2>1 DEF Log, Book!EnterVisit, Present, Taken
  <2> QED
    BY <2>1, <2>2, <2>3
<1>3. CASE LogFails(v) \/ Redirect(v) \/ Turned(v) \/ \E slug \in Slugs : Lookup(v, slug)
  BY <1>1, <1>3 DEF Lookup, LogFails, Redirect, Turned, Open, Present
<1> QED
  BY <1>2, <1>3 DEF Visit

LEMMA PostEnters ==
  ASSUME Grounds, NEW p \in Posts, Post(p)
  PROVE  \/ \E v \in Visits : Book!Admit(p, v)
         \/ Book!EnterPost(p)
         \/ UNCHANGED <<now, Open, clicks, Taken, events>>
<1>1. /\ \A q \in Posts : q # p => post'[q] = post[q]
      /\ UNCHANGED <<now, links, clicks>>
  BY DEF Post, Ask, Check, CheckFails, Record, RecordFails, Answer, Posting, Grounds, TypeOK
<1>2. \A q \in Posts : q # p => Admitted(q)' = Admitted(q)
  BY <1>1 DEF Admitted
<1>3. post[p] \in PostState /\ post[p].stage # "answered"
  BY DEF Grounds, TypeOK, Post, Ask, Check, CheckFails, Record, RecordFails
<1>4. ASSUME Admitted(p)' = Admitted(p)
      PROVE  UNCHANGED Taken
  BY <1>2, <1>4 DEF Taken
<1>5. CASE \E v \in Visits, l \in Links : Ask(p, v, l)
  <2>1. PICK v \in Visits, l \in Links : Ask(p, v, l)
    BY <1>5
  <2>2. post'[p].stage = "asked" /\ post'[p].answer = "none"
    BY <1>3, <2>1 DEF Ask, Posting, Grounds, TypeOK, PostState, CallsFollow
  <2>3. Admitted(p) = NoVisit /\ Admitted(p)' = NoVisit
    BY <2>1, <2>2, TakenBefore DEF Ask, Admitted
  <2> QED
    BY <1>1, <1>4, <2>1, <2>3 DEF Ask, Open, Present
<1>6. CASE /\ Check(p) \/ CheckFails(p)
           /\ Answer(p, "not_found") \/ Answer(p, "expired")
  <2>1. post[p].stage = "asked" /\ UNCHANGED events
    BY <1>6 DEF Check, CheckFails
  <2>2. post'[p].stage = "answered" /\ post'[p].answer \in {"not_found", "expired"}
    BY <1>6, AnswerType DEF Grounds
  <2>3. Admitted(p) = NoVisit /\ Admitted(p)' = NoVisit
    BY <2>1, <2>2, TakenBefore DEF Admitted
  <2> QED
    BY <1>1, <1>4, <2>1, <2>3 DEF Open, Present
<1>7. CASE /\ Check(p) /\ Matches(p) /\ ~ now > clicks[post[p].visit].until
           /\ Posting(p, [post[p] EXCEPT !.stage = "checked"])
  <2> DEFINE v == post[p].visit
  <2>1. v \in Visits /\ clicks[v] # NoVisit
    BY <1>7 DEF Check, Matches, Grounds, CallsFollow
  <2>2. now <= clicks[v].until
    <3>1. clicks[v] \in Click
      BY <2>1 DEF Grounds, TypeOK
    <3>2. clicks[v].until \in Int /\ now \in Int
      BY <3>1, TrackingAssumption DEF Click, Grounds, TypeOK
    <3> QED
      BY <1>7, <3>2
  <2>3. Admitted(p) = NoVisit /\ Admitted(p)' = v
    <3>1. post'[p].stage = "checked" /\ post'[p].visit = v
      BY <1>3, <1>7 DEF Posting, Grounds, TypeOK, PostState
    <3> QED
      BY <1>7, <3>1, TakenBefore DEF Check, Admitted
  <2>4. Taken' = [Taken EXCEPT ![p] = v]
    BY <1>2, <2>3 DEF Taken
  <2>5. Book!Admit(p, v)
    BY <1>7, <2>1, <2>2, <2>3, <2>4 DEF Check, Book!Admit, Taken, Present
  <2> QED
    BY <2>1, <2>5
<1>8. CASE Record(p)
  <2>1. /\ post[p].visit \in Visits /\ events[p] = NoVisit /\ post[p].stage = "checked"
    BY <1>8 DEF Record, Grounds, CallsFollow
  <2>2. Admitted(p) = post[p].visit /\ post[p].visit # NoVisit
    BY <2>1, TrackingAssumption, TakenBefore
  <2>3. Admitted(p)' = post[p].visit
    <3>1. post'[p].answer = "recorded" /\ post'[p].visit = post[p].visit
      BY <1>8, AnswerType DEF Record, Grounds
    <3> QED
      BY <3>1 DEF Admitted
  <2>4. UNCHANGED Taken
    BY <1>4, <2>2, <2>3
  <2>5. Book!EnterPost(p)
    BY <1>8, <2>1, <2>2, <2>4 DEF Record, Book!EnterPost, Taken, Present
  <2> QED
    BY <2>5
<1>9. CASE RecordFails(p)
  <2>1. post'[p].answer = "error" /\ post'[p].visit = post[p].visit
    BY <1>9, AnswerType DEF RecordFails, Grounds
  <2>2. Admitted(p) = post[p].visit /\ Admitted(p)' = post[p].visit
    BY <1>9, <2>1, TakenBefore DEF RecordFails, Admitted
  <2> QED
    BY <1>1, <1>4, <1>9, <2>2 DEF RecordFails, Open, Present
<1> QED
  BY <1>5, <1>6, <1>7, <1>8, <1>9 DEF Post, Check, CheckFails

\* The tables of clicks and postbacks are a journal: append-only, conversions
\* only by calls that came in for a logged visit within its window, and never
\* without their link.
THEOREM Refinement == Spec => ImplementsJournal
<1>1. Init => Book!Init
  BY DEF Init, Book!Init, Present, Admitted
<1>2. Grounds /\ [Next]_vars => [Book!Next]_(Book!vars)
  <2> SUFFICES ASSUME Grounds, [Next]_vars
               PROVE  Book!Next \/ UNCHANGED <<now, Open, clicks, Taken, events>>
    BY DEF Book!vars, Open, Taken
  <2>1. CASE Manage
    BY <2>1, ManageRearranges DEF Book!Next
  <2>2. ASSUME NEW v \in Visits, Visit(v)
        PROVE  Book!Next \/ UNCHANGED <<now, Open, clicks, Taken, events>>
    BY <2>2, VisitEnters DEF Book!Next
  <2>3. ASSUME NEW p \in Posts, Post(p)
        PROVE  Book!Next \/ UNCHANGED <<now, Open, clicks, Taken, events>>
    BY <2>3, PostEnters DEF Book!Next
  <2>4. CASE Tick
    BY <2>4 DEF Tick, Book!Next, Book!Pass, Present, Admitted
  <2>5. CASE UNCHANGED vars
    BY <2>5 DEF vars, Open, Present, Taken, Admitted
  <2> QED
    BY <2>1, <2>2, <2>3, <2>4, <2>5 DEF Next
<1> QED
  BY <1>1, <1>2, AlwaysGrounds, PTL DEF Spec, ImplementsJournal, Book!Spec
=============================================================================
