------------------------- MODULE ForwardingProofs -------------------------
(***************************************************************************)
(* What TLAPS proves of Forwarding, for every set of links, records, caps  *)
(* and requests and every bound on the faults.                             *)
(***************************************************************************)
EXTENDS Forwarding, FiniteSetTheorems, TLAPS

----------------------------------------------------------------------------
(* The operators the steps are built from. *)

\* A query returns some of the rows it is run over.
LEMMA OldestFirstSubset ==
  ASSUME NEW rows, NEW limit, NEW batch \in OldestFirst(rows, limit)
  PROVE  batch \subseteq rows
BY DEF OldestFirst

\* A fetched row is a record that has arrived and has no 'sent' row.
LEMMA UnsentArrived ==
  ASSUME TypeOK, NEW l, NEW kind
  PROVE  /\ Unsent(l, kind) \subseteq arrived
         /\ Unsent(l, kind) \subseteq Records
         /\ \A r \in Unsent(l, kind) : status[r] # "sent"
BY DEF Unsent, TypeOK

\* A parcel is part of what its call has still to send.
LEMMA ParcelPending ==
  ASSUME NEW p, NEW parcel \in Parcels(p)
  PROVE  parcel \subseteq run[p].pending
BY DEF Parcels, Front

\* Between calls a process is in a well-formed state, holding nothing.
LEMMA OverType ==
  ASSUME NEW p
  PROVE  /\ Over(p) \in RunState /\ Over(p).stage \in {"idle", "done"}
         /\ Over(p).leads = {} /\ Over(p).pending = {} /\ Over(p).due = {}
<1>1. (CHOOSE l \in Links : TRUE) \in Links
  BY ForwardingAssumption
<1>2. (CHOOSE c \in Caps : TRUE) \in Caps
  BY ForwardingAssumption
<1> QED
  BY <1>1, <1>2 DEF Over, After, NoRun, RunState, Stage

\* The same before its first call.
LEMMA NoRunType ==
  /\ NoRun \in RunState /\ NoRun.stage = "idle"
  /\ NoRun.leads = {} /\ NoRun.pending = {} /\ NoRun.due = {}
<1>1. (CHOOSE l \in Links : TRUE) \in Links
  BY ForwardingAssumption
<1>2. (CHOOSE c \in Caps : TRUE) \in Caps
  BY ForwardingAssumption
<1> QED
  BY <1>1, <1>2 DEF NoRun, RunState, Stage

\* A begun call is well-formed and holds nothing it did not hold before.
LEMMA BegunType ==
  ASSUME TypeOK, NEW p \in Procs, NEW l \in Links, configs[l] # NoConfig
  PROVE  /\ Begun(p, l) \in RunState /\ Begun(p, l).stage = "leads"
         /\ Begun(p, l).leads = run[p].leads /\ Begun(p, l).ok = run[p].ok
         /\ Begun(p, l).pending = run[p].pending
         /\ Begun(p, l).due = run[p].due
<1>1. configs[l] \in Config
  BY DEF TypeOK
<1>2. configs[l].cap \in Caps /\ configs[l].batched \in BOOLEAN
  BY <1>1 DEF Config
<1>3. run[p] \in RunState
  BY DEF TypeOK
<1> QED
  BY <1>2, <1>3 DEF Begun, RunState, Stage

\* The first query changes the stage and the leads.
LEMMA WithLeadsType ==
  ASSUME TypeOK, NEW p \in Procs, NEW rows \in SUBSET Records
  PROVE  LET s == WithLeads(p, rows)
         IN  /\ s \in RunState /\ s.stage = "actions" /\ s.leads = rows
             /\ s.pending = run[p].pending /\ s.due = run[p].due
             /\ s.ok = run[p].ok
BY DEF WithLeads, TypeOK, RunState, Stage

\* The second query and the merge change the stage and the batch.
LEMMA WithBatchType ==
  ASSUME TypeOK, NEW p \in Procs, NEW batch \in SUBSET Records
  PROVE  LET s == WithBatch(p, batch)
         IN  /\ s \in RunState /\ s.stage = "send" /\ s.leads = {}
             /\ s.pending = batch /\ s.due = run[p].due /\ s.ok = run[p].ok
BY DEF WithBatch, TypeOK, RunState, Stage

\* An HTTP call moves its parcel from pending to due and keeps the outcome.
LEMMA DispatchedType ==
  ASSUME TypeOK, NEW p \in Procs, NEW parcel \in SUBSET run[p].pending,
         NEW ok \in BOOLEAN
  PROVE  LET s == Dispatched(p, parcel, ok)
         IN  /\ s \in RunState /\ s.stage = "record"
             /\ s.leads = run[p].leads
             /\ s.pending = run[p].pending \ parcel
             /\ s.due = parcel /\ s.ok = ok
BY DEF Dispatched, TypeOK, RunState, Stage

\* Recording takes one record out of due; the call goes back to sending when
\* none is left.
LEMMA RecordedType ==
  ASSUME TypeOK, NEW p \in Procs, NEW r \in run[p].due
  PROVE  LET s == Recorded(p, r)
         IN  /\ s \in RunState
             /\ s.stage = IF run[p].due = {r} THEN "send" ELSE "record"
             /\ s.leads = run[p].leads /\ s.pending = run[p].pending
             /\ s.due = run[p].due \ {r} /\ s.ok = run[p].ok
BY DEF Recorded, TypeOK, RunState, Stage

\* Becoming a well-formed state keeps the processes well-formed, and is seen
\* at that process only.
LEMMA BecomesType ==
  ASSUME TypeOK, NEW p \in Procs, NEW s \in RunState, Becomes(p, s)
  PROVE  /\ run' \in [Procs -> RunState] /\ run'[p] = s
         /\ \A q \in Procs \ {p} : run'[q] = run[q]
BY DEF Becomes, TypeOK

\* What the two queries can put into a call.
LEMMA FetchLeadsStep ==
  ASSUME NEW p, FetchLeads(p)
  PROVE  \E rows \in SUBSET Unsent(run[p].link, Leads) :
           Becomes(p, WithLeads(p, rows))
BY OldestFirstSubset DEF FetchLeads

LEMMA FetchActionsStep ==
  ASSUME NEW p, FetchActions(p)
  PROVE  \E batch \in SUBSET (run[p].leads \cup Unsent(run[p].link, Actions)) :
           Becomes(p, WithBatch(p, batch))
<1>1. PICK rows \in OldestFirst(Unsent(run[p].link, Actions), run[p].cap) :
        \E batch \in Merge(run[p].leads, rows, run[p].cap) :
          Becomes(p, WithBatch(p, batch))
  BY DEF FetchActions
<1>2. PICK batch \in Merge(run[p].leads, rows, run[p].cap) :
        Becomes(p, WithBatch(p, batch))
  BY <1>1
<1>3. rows \subseteq Unsent(run[p].link, Actions)
  BY OldestFirstSubset
<1>4. batch \subseteq run[p].leads \cup rows
  BY OldestFirstSubset DEF Merge
<1> QED
  BY <1>2, <1>3, <1>4

----------------------------------------------------------------------------
(* Type correctness. *)

LEMMA InitType == Init => TypeOK
BY NoRunType, ForwardingAssumption DEF Init, TypeOK

LEMMA SendType ==
  ASSUME TypeOK, NEW p \in Procs, NEW parcel \in SUBSET run[p].pending,
         SendOk(p, parcel) \/ SendRejected(p, parcel) \/ SendUnanswered(p, parcel)
  PROVE  TypeOK'
<1>1. PICK ok \in BOOLEAN : Becomes(p, Dispatched(p, parcel, ok))
  BY DEF SendOk, SendRejected, SendUnanswered
<1>2. run' \in [Procs -> RunState]
  BY <1>1, DispatchedType, BecomesType
<1>3. accepts' \in [Records -> Nat]
  <2>1. CASE TakeIn(parcel)
    BY <2>1 DEF TakeIn, TypeOK
  <2>2. CASE UNCHANGED accepts
    BY <2>2 DEF TypeOK
  <2> QED
    BY <2>1, <2>2 DEF SendOk, SendRejected, SendUnanswered
<1>4. faults' \in 0 .. MaxFaults
  <2>1. faults' = faults \/ (faults < MaxFaults /\ faults' = faults + 1)
    BY DEF SendOk, SendRejected, SendUnanswered
  <2> QED
    BY <2>1, ForwardingAssumption DEF TypeOK
<1>5. UNCHANGED <<configs, status, stamped, arrived, sweep>>
  BY DEF SendOk, SendRejected, SendUnanswered
<1> QED
  BY <1>2, <1>3, <1>4, <1>5 DEF TypeOK

LEMMA RecordType ==
  ASSUME TypeOK, NEW p \in Procs, NEW r \in run[p].due,
         RecordDelivery(p, r) \/ RecordFails(p, r)
  PROVE  TypeOK'
<1>1. run' \in [Procs -> RunState]
  BY RecordedType, BecomesType DEF RecordDelivery, RecordFails
<1>2. status' \in [Records -> {"none", "failed", "sent"}]
  BY DEF RecordDelivery, RecordFails, TypeOK
<1>3. faults' \in 0 .. MaxFaults
  BY ForwardingAssumption DEF RecordDelivery, RecordFails, TypeOK
<1>4. UNCHANGED <<configs, stamped, arrived, sweep, accepts>>
  BY DEF RecordDelivery, RecordFails
<1> QED
  BY <1>1, <1>2, <1>3, <1>4 DEF TypeOK

LEMMA OverTypeOK ==
  ASSUME TypeOK, NEW p \in Procs,
         Finish(p) \/ FinishUnstamped(p) \/ Abandon(p)
  PROVE  TypeOK'
<1>1. run' \in [Procs -> RunState]
  BY OverType, BecomesType DEF Finish, FinishUnstamped, Abandon
<1>2. stamped' \in [Links -> BOOLEAN]
  BY DEF Finish, FinishUnstamped, Abandon, TypeOK
<1>3. faults' \in 0 .. MaxFaults
  BY ForwardingAssumption DEF Finish, FinishUnstamped, Abandon, TypeOK
<1>4. UNCHANGED <<configs, status, arrived, sweep, accepts>>
  BY DEF Finish, FinishUnstamped, Abandon
<1> QED
  BY <1>1, <1>2, <1>3, <1>4 DEF TypeOK

LEMMA NextType == TypeOK /\ [Next]_vars => TypeOK'
<1> SUFFICES ASSUME TypeOK, [Next]_vars PROVE TypeOK'
  OBVIOUS
<1>1. ASSUME NEW p \in Procs, NEW l \in Links, Begin(p, l)
      PROVE  TypeOK'
  <2>1. run' \in [Procs -> RunState]
    BY <1>1, BegunType, BecomesType DEF Begin
  <2>2. sweep' \in SUBSET Links
    BY <1>1 DEF Begin, TakeUp, TypeOK
  <2> QED
    BY <1>1, <2>1, <2>2 DEF Begin, TypeOK
<1>2. ASSUME NEW p \in Procs, NEW l \in Links, Skip(p, l)
      PROVE  TypeOK'
  <2>1. run' \in [Procs -> RunState]
    BY <1>2, OverType, BecomesType DEF Skip
  <2>2. sweep' \in SUBSET Links
    BY <1>2 DEF Skip, TakeUp, TypeOK
  <2> QED
    BY <1>2, <2>1, <2>2 DEF Skip, TypeOK
<1>3. ASSUME NEW p \in Procs, FetchLeads(p)
      PROVE  TypeOK'
  <2>1. run' \in [Procs -> RunState]
    BY <1>3, FetchLeadsStep, UnsentArrived, WithLeadsType, BecomesType
  <2>2. UNCHANGED <<configs, status, stamped, arrived, sweep, accepts, faults>>
    BY <1>3 DEF FetchLeads
  <2> QED
    BY <2>1, <2>2 DEF TypeOK
<1>4. ASSUME NEW p \in Procs, FetchActions(p)
      PROVE  TypeOK'
  <2>1. PICK batch \in SUBSET (run[p].leads \cup Unsent(run[p].link, Actions)) :
          Becomes(p, WithBatch(p, batch))
    BY <1>4, FetchActionsStep
  <2>2. batch \in SUBSET Records
    BY UnsentArrived DEF TypeOK, RunState
  <2>3. run' \in [Procs -> RunState]
    BY <2>1, <2>2, WithBatchType, BecomesType
  <2>4. UNCHANGED <<configs, status, stamped, arrived, sweep, accepts, faults>>
    BY <1>4 DEF FetchActions
  <2> QED
    BY <2>3, <2>4 DEF TypeOK
<1>5. ASSUME NEW p \in Procs, Send(p)
      PROVE  TypeOK'
  BY <1>5, SendType DEF Send
<1>6. ASSUME NEW p \in Procs, Record(p)
      PROVE  TypeOK'
  BY <1>6, RecordType DEF Record
<1>7. ASSUME NEW p \in Procs,
             Finish(p) \/ FinishUnstamped(p) \/ Abandon(p)
      PROVE  TypeOK'
  BY <1>7, OverTypeOK
<1>8. CASE BeginSweep
  BY <1>8 DEF BeginSweep, TypeOK
<1>9. CASE WorkerCrash
  <2>1. run' \in [Procs -> RunState]
    BY <1>9, OverType, BecomesType DEF WorkerCrash, Procs
  <2> QED
    BY <1>9, <2>1, ForwardingAssumption DEF WorkerCrash, TypeOK
<1>10. ASSUME NEW l \in Links, NEW c \in Config, UpsertConfig(l, c)
       PROVE  TypeOK'
  BY <1>10 DEF UpsertConfig, TypeOK
<1>11. ASSUME NEW r \in Records, Arrive(r)
       PROVE  TypeOK'
  BY <1>11 DEF Arrive, TypeOK
<1>12. CASE UNCHANGED vars
  BY <1>12 DEF vars, TypeOK
<1> QED
  BY <1>1, <1>2, <1>3, <1>4, <1>5, <1>6, <1>7, <1>8, <1>9, <1>10, <1>11,
     <1>12 DEF Next, RunForLink, Visit

\* Every state of the engine is well-formed: TypeOK of Forwarding.
THEOREM TypeCorrect == Spec => []TypeOK
BY InitType, NextType, PTL DEF Spec

----------------------------------------------------------------------------
(* No false 'sent', by the inductive invariant                             *)
(* TypeOK /\ InFlight /\ SentWasAccepted.                                  *)

Safe == TypeOK /\ InFlight /\ SentWasAccepted

\* What a step must say of the one call it changes.
Sound(s) ==
  /\ s.leads \cup s.pending \cup s.due \subseteq arrived
  /\ s.stage # "record" => s.due = {}
  /\ s.ok => \A r \in s.due : accepts'[r] > 0

\* A step that leaves its call sound and forgets neither an arrival nor a
\* delivery keeps every call sound.
LEMMA InFlightStep ==
  ASSUME TypeOK, InFlight, NEW p \in Procs, NEW s \in RunState, Becomes(p, s),
         Sound(s), arrived' = arrived,
         \A r \in Records : accepts[r] > 0 => accepts'[r] > 0
  PROVE  InFlight'
<1>1. run'[p] = s /\ \A q \in Procs \ {p} : run'[q] = run[q]
  BY BecomesType
<1>2. ASSUME NEW q \in Procs \ {p}
      PROVE  Sound(run[q])
  <2>1. \A r \in run[q].due : r \in Records
    BY DEF TypeOK, RunState
  <2> QED
    BY <2>1 DEF InFlight, Sound
<1> QED
  BY <1>1, <1>2 DEF InFlight, Sound

LEMMA SendSafe ==
  ASSUME Safe, NEW p \in Procs, NEW parcel \in SUBSET run[p].pending,
         SendOk(p, parcel) \/ SendRejected(p, parcel) \/ SendUnanswered(p, parcel)
  PROVE  InFlight' /\ SentWasAccepted'
<1> USE DEF Safe
<1>1. PICK ok \in BOOLEAN :
        /\ Becomes(p, Dispatched(p, parcel, ok))
        /\ ok => TakeIn(parcel)
  BY DEF SendOk, SendRejected, SendUnanswered
<1>2. TakeIn(parcel) \/ UNCHANGED accepts
  BY DEF SendOk, SendRejected, SendUnanswered
<1>3. \A r \in Records : accepts[r] > 0 => accepts'[r] > 0
  BY <1>2 DEF TakeIn, TypeOK
<1>4. parcel \subseteq Records
  BY DEF TypeOK, RunState
<1>5. ok => \A r \in parcel : accepts'[r] > 0
  BY <1>1, <1>4 DEF TakeIn, TypeOK
<1>6. Sound(Dispatched(p, parcel, ok))
  <2>1. run[p].leads \cup run[p].pending \subseteq arrived
    BY DEF InFlight
  <2> QED
    BY <1>5, <2>1, DispatchedType DEF Sound
<1>7. UNCHANGED <<status, arrived>>
  BY DEF SendOk, SendRejected, SendUnanswered
<1>8. InFlight'
  BY <1>1, <1>3, <1>6, <1>7, DispatchedType, InFlightStep
<1>9. SentWasAccepted'
  BY <1>3, <1>7 DEF SentWasAccepted, TypeOK
<1> QED
  BY <1>8, <1>9

LEMMA RecordSafe ==
  ASSUME Safe, NEW p \in Procs, NEW r \in run[p].due,
         RecordDelivery(p, r) \/ RecordFails(p, r)
  PROVE  InFlight' /\ SentWasAccepted'
<1> USE DEF Safe
<1>1. Becomes(p, Recorded(p, r)) /\ UNCHANGED <<arrived, accepts>>
  BY DEF RecordDelivery, RecordFails
<1>2. Sound(Recorded(p, r))
  BY <1>1, RecordedType DEF Sound, InFlight
<1>3. InFlight'
  BY <1>1, <1>2, RecordedType, InFlightStep DEF TypeOK
<1>4. r \in Records
  BY DEF TypeOK, RunState
<1>5. SentWasAccepted'
  <2>1. CASE RecordDelivery(p, r)
    <3>1. status' = [status EXCEPT ![r] = IF run[p].ok THEN "sent" ELSE "failed"]
      BY <2>1 DEF RecordDelivery
    <3>2. run[p].ok => accepts[r] > 0
      BY DEF InFlight
    <3> QED
      BY <1>1, <1>4, <3>1, <3>2 DEF SentWasAccepted, TypeOK
  <2>2. CASE RecordFails(p, r)
    BY <1>1, <2>2 DEF RecordFails, SentWasAccepted
  <2> QED
    BY <2>1, <2>2
<1> QED
  BY <1>3, <1>5

\* The steps that touch neither the delivery log nor the third party.
LEMMA QuietSafe ==
  ASSUME Safe, NEW p \in Procs, NEW s \in RunState, Becomes(p, s), Sound(s),
         UNCHANGED <<status, arrived, accepts>>
  PROVE  InFlight' /\ SentWasAccepted'
<1>1. InFlight'
  BY InFlightStep DEF Safe, TypeOK
<1>2. SentWasAccepted'
  BY DEF Safe, SentWasAccepted
<1> QED
  BY <1>1, <1>2

LEMMA OverSound == ASSUME NEW p PROVE Sound(Over(p))
BY OverType DEF Sound

LEMMA NextSafe == Safe /\ [Next]_vars => Safe'
<1> SUFFICES ASSUME Safe, [Next]_vars PROVE InFlight' /\ SentWasAccepted'
  BY NextType DEF Safe
<1> USE DEF Safe
<1>1. ASSUME NEW p \in Procs, NEW l \in Links, Begin(p, l)
      PROVE  InFlight' /\ SentWasAccepted'
  <2>1. Sound(Begun(p, l))
    BY <1>1, BegunType DEF Begin, Sound, InFlight
  <2> QED
    BY <1>1, <2>1, BegunType, QuietSafe DEF Begin
<1>2. ASSUME NEW p \in Procs, NEW l \in Links, Skip(p, l)
      PROVE  InFlight' /\ SentWasAccepted'
  BY <1>2, OverSound, OverType, QuietSafe DEF Skip
<1>3. ASSUME NEW p \in Procs, FetchLeads(p)
      PROVE  InFlight' /\ SentWasAccepted'
  <2>1. PICK rows \in SUBSET Unsent(run[p].link, Leads) :
          Becomes(p, WithLeads(p, rows))
    BY <1>3, FetchLeadsStep
  <2>2. rows \subseteq arrived /\ rows \in SUBSET Records
    BY UnsentArrived
  <2>3. run[p].stage = "leads" /\ UNCHANGED <<status, arrived, accepts>>
    BY <1>3 DEF FetchLeads
  <2>4. Sound(WithLeads(p, rows))
    BY <2>2, <2>3, WithLeadsType DEF Sound, InFlight
  <2> QED
    BY <2>1, <2>2, <2>3, <2>4, WithLeadsType, QuietSafe
<1>4. ASSUME NEW p \in Procs, FetchActions(p)
      PROVE  InFlight' /\ SentWasAccepted'
  <2>1. PICK batch \in SUBSET (run[p].leads \cup Unsent(run[p].link, Actions)) :
          Becomes(p, WithBatch(p, batch))
    BY <1>4, FetchActionsStep
  <2>2. batch \subseteq arrived /\ batch \in SUBSET Records
    BY UnsentArrived DEF InFlight, TypeOK
  <2>3. run[p].stage = "actions" /\ UNCHANGED <<status, arrived, accepts>>
    BY <1>4 DEF FetchActions
  <2>4. Sound(WithBatch(p, batch))
    BY <2>2, <2>3, WithBatchType DEF Sound, InFlight
  <2> QED
    BY <2>1, <2>2, <2>3, <2>4, WithBatchType, QuietSafe
<1>5. ASSUME NEW p \in Procs, Send(p)
      PROVE  InFlight' /\ SentWasAccepted'
  BY <1>5, SendSafe DEF Send
<1>6. ASSUME NEW p \in Procs, Record(p)
      PROVE  InFlight' /\ SentWasAccepted'
  BY <1>6, RecordSafe DEF Record
<1>7. ASSUME NEW p \in Procs,
             Finish(p) \/ FinishUnstamped(p) \/ Abandon(p)
      PROVE  InFlight' /\ SentWasAccepted'
  <2>1. Becomes(p, Over(p)) /\ UNCHANGED <<status, arrived, accepts>>
    BY <1>7 DEF Finish, FinishUnstamped, Abandon
  <2> QED
    BY <2>1, OverSound, OverType, QuietSafe
<1>8. CASE WorkerCrash
  BY <1>8, OverSound, OverType, QuietSafe DEF WorkerCrash, Procs
<1>9. CASE \/ BeginSweep
           \/ \E l \in Links, c \in Config : UpsertConfig(l, c)
           \/ UNCHANGED vars
  <2>1. UNCHANGED <<status, arrived, run, accepts>>
    BY <1>9 DEF BeginSweep, UpsertConfig, vars
  <2> QED
    BY <2>1 DEF InFlight, SentWasAccepted
<1>10. ASSUME NEW r \in Records, Arrive(r)
       PROVE  InFlight' /\ SentWasAccepted'
  BY <1>10 DEF Arrive, InFlight, SentWasAccepted
<1> QED
  BY <1>1, <1>2, <1>3, <1>4, <1>5, <1>6, <1>7, <1>8, <1>9, <1>10
     DEF Next, RunForLink, Visit

LEMMA SafeAlways == Spec => []Safe
<1>1. Init => Safe
  <2> SUFFICES ASSUME Init PROVE InFlight /\ SentWasAccepted
    BY InitType DEF Safe
  <2> QED
    BY NoRunType DEF Init, InFlight, SentWasAccepted
<1> QED
  BY <1>1, NextSafe, PTL DEF Spec

\* For every number of links, records and overlapping calls, and every
\* sequence of faults: a record the log calls 'sent' was taken in by the third
\* party (Send, recordDelivery).
THEOREM NoFalseSent == Spec => []SentWasAccepted
<1>1. Safe => SentWasAccepted
  BY DEF Safe
<1> QED
  BY <1>1, SafeAlways, PTL

----------------------------------------------------------------------------
(* The oldest-first queue: merging two capped queries overtakes nothing     *)
(* that either query could see, so a run always serves its link in         *)
(* timestamp order.                                                        *)

\* A capped query that leaves a row out is full, and longer than no row set.
LEMMA FullWhenCut ==
  ASSUME NEW rows, IsFiniteSet(rows), NEW limit \in Nat,
         NEW batch \in OldestFirst(rows, limit)
  PROVE  /\ Cardinality(batch) <= limit
         /\ batch # rows => Cardinality(batch) = limit
<1>1. batch \in SUBSET rows
      /\ Cardinality(batch) = Smaller(limit, Cardinality(rows))
  BY DEF OldestFirst
<1>2. Cardinality(rows) \in Nat
  BY FS_CardinalityType
<1>3. Cardinality(rows) = Cardinality(batch) => batch = rows
  BY <1>1, FS_Subset
<1> QED
  BY <1>1, <1>2, <1>3 DEF Smaller

\* The merge of FetchBacklog: every record of the batch is as old as every row
\* left out, be it left out by the merge or by the second query already.
LEMMA MergeOvertakesNothing ==
  ASSUME NEW leads \in SUBSET Records, NEW rows \in SUBSET Records,
         NEW limit \in Nat,
         NEW actions \in OldestFirst(rows, limit),
         NEW batch \in Merge(leads, actions, limit),
         NEW r \in batch, NEW x \in (leads \cup rows) \ batch
  PROVE  Stamp[r] <= Stamp[x]
<1>1. IsFiniteSet(rows) /\ IsFiniteSet(leads \cup actions)
  BY FS_Subset, ForwardingAssumption DEF OldestFirst
<1>2. batch \subseteq leads \cup actions /\ actions \subseteq rows
      /\ IsFiniteSet(batch) /\ IsFiniteSet(actions)
  BY <1>1, FS_Subset DEF OldestFirst, Merge
<1>3. CASE x \in leads \cup actions
  BY <1>3 DEF Merge, OldestFirst
<1>4. CASE x \notin leads \cup actions
  <2>1. Cardinality(actions) = limit
    BY <1>1, <1>2, <1>4, FullWhenCut
  <2>2. Cardinality(batch) <= limit
    BY <1>1, FullWhenCut DEF Merge
  <2>3. \A y \in actions : Stamp[y] <= Stamp[x]
    BY <1>4 DEF OldestFirst
  <2>4. CASE actions \subseteq batch
    <3>1. Cardinality(actions) <= Cardinality(batch)
          /\ (Cardinality(batch) = Cardinality(actions) => batch = actions)
      BY <1>2, <2>4, FS_Subset
    <3>2. Cardinality(batch) \in Nat
      BY <1>2, FS_CardinalityType
    <3>3. batch = actions
      BY <2>1, <2>2, <3>1, <3>2
    <3> QED
      BY <2>3, <3>3
  <2>5. CASE ~ (actions \subseteq batch)
    <3>1. PICK y \in actions : y \notin batch
      BY <2>5
    <3>2. Stamp[r] <= Stamp[y]
      BY <3>1 DEF Merge, OldestFirst
    <3>3. Stamp[y] <= Stamp[x]
      BY <2>3, <3>1
    <3>4. {r, y, x} \subseteq Records
      BY <1>2, <3>1
    <3>5. Stamp[r] \in Nat /\ Stamp[y] \in Nat /\ Stamp[x] \in Nat
      BY <3>4, StampAssumption
    <3> QED
      BY <3>2, <3>3, <3>5
  <2> QED
    BY <2>4, <2>5
<1> QED
  BY <1>3, <1>4

\* Only the second query takes a call from "actions" to "send".
LEMMA OnlyTheMergeLeadsToSend ==
  ASSUME TypeOK, Next, NEW p \in Procs,
         run[p].stage = "actions", run'[p].stage = "send"
  PROVE  FetchActions(p)
<1>1. \A q \in Procs : \A s : Becomes(q, s) => run'[q] = s
  BY DEF TypeOK, Becomes
<1>2. \A q \in Procs : \A s : q # p /\ Becomes(q, s) => run'[p] = run[p]
  BY DEF TypeOK, Becomes
<1>3. run'[p] # run[p]
  OBVIOUS
<1>4. \A q \in Procs : \A s : Becomes(q, s) => q = p
  BY <1>2, <1>3
<1>5. Over(p).stage # "send"
  BY OverType
<1>6. Abandon(p) \/ Finish(p) \/ FinishUnstamped(p) \/ WorkerCrash => Becomes(p, Over(p))
  BY <1>4 DEF Abandon, Finish, FinishUnstamped, WorkerCrash, Procs
<1>7. \A q \in Procs : RunForLink(q) \/ Abandon(q) => q = p
  BY <1>4 DEF RunForLink, Visit, Begin, Skip, FetchLeads, FetchActions, Send,
     SendOk, SendRejected, SendUnanswered, Record, RecordDelivery, RecordFails,
     Finish, FinishUnstamped, Abandon
<1>8. RunForLink(p) \/ Abandon(p) \/ WorkerCrash
  BY <1>3, <1>7 DEF Next, BeginSweep, UpsertConfig, Arrive
<1>9. RunForLink(p)
  BY <1>1, <1>5, <1>6, <1>8
<1> QED
  BY <1>9 DEF RunForLink, Visit, Begin, Skip, FetchLeads, Send, SendOk,
     SendRejected, SendUnanswered, Record, RecordDelivery, RecordFails, Finish,
     FinishUnstamped

\* Leads and actions of a link share one oldest-first queue and one cap, for
\* any number of records and any timestamps, ties included (FetchBacklog).
THEOREM QueueIsShared == Spec => SharedQueue
<1> DEFINE Shared(p) ==
      run[p].stage = "actions" /\ run'[p].stage = "send" =>
        LET shown == run[p].leads \cup Unsent(run[p].link, Actions)
            batch == run'[p].pending
        IN /\ Cardinality(batch) <= run[p].cap
           /\ \A r \in batch, x \in shown \ batch : Stamp[r] <= Stamp[x]
<1>1. TypeOK /\ [Next]_vars => [\A p \in Procs : Shared(p)]_vars
  <2> SUFFICES ASSUME TypeOK, Next, NEW p \in Procs,
                      run[p].stage = "actions", run'[p].stage = "send"
               PROVE  LET shown == run[p].leads \cup Unsent(run[p].link, Actions)
                          batch == run'[p].pending
                      IN /\ Cardinality(batch) <= run[p].cap
                         /\ \A r \in batch, x \in shown \ batch : Stamp[r] <= Stamp[x]
    OBVIOUS
  <2>1. FetchActions(p)
    BY OnlyTheMergeLeadsToSend
  <2>2. PICK rows \in OldestFirst(Unsent(run[p].link, Actions), run[p].cap) :
          \E batch \in Merge(run[p].leads, rows, run[p].cap) :
            Becomes(p, WithBatch(p, batch))
    BY <2>1 DEF FetchActions
  <2>3. PICK batch \in Merge(run[p].leads, rows, run[p].cap) :
          Becomes(p, WithBatch(p, batch))
    BY <2>2
  <2>4. run'[p].pending = batch
    BY <2>3 DEF Becomes, WithBatch, TypeOK, RunState
  <2>5. run[p].leads \in SUBSET Records /\ run[p].cap \in Nat
    BY ForwardingAssumption DEF TypeOK, RunState
  <2>6. Unsent(run[p].link, Actions) \in SUBSET Records
    BY UnsentArrived
  <2>7. IsFiniteSet(run[p].leads \cup rows)
    BY <2>5, <2>6, FS_Subset, ForwardingAssumption, OldestFirstSubset
  <2>8. Cardinality(batch) <= run[p].cap
    BY <2>5, <2>7, FullWhenCut DEF Merge
  <2>9. \A r \in batch, x \in (run[p].leads \cup Unsent(run[p].link, Actions)) \ batch :
          Stamp[r] <= Stamp[x]
    BY <2>5, <2>6, MergeOvertakesNothing
  <2> QED
    BY <2>4, <2>8, <2>9
<1> QED
  BY <1>1, TypeCorrect, PTL DEF Spec, SharedQueue

----------------------------------------------------------------------------
(* While the daily sweep is the only sender: no record is sent again unless *)
(* a fault hid that it arrived, and 'sent' is for good.  With that, and     *)
(* with the above, the engine implements AtLeastOnce.                       *)


Sole == Safe /\ SoleSender

\* What a step must say of the sweep's call, given its new log and counts.
Lone(s) ==
  LET Settled(r) == status'[r] = "sent" \/ (s.ok /\ r \in s.due)
  IN /\ s.stage # "actions" => s.leads = {}
     /\ s.pending \cap s.due = {}
     /\ \A r \in s.leads \cup s.pending \cup s.due : status'[r] # "sent"
     /\ \A r \in Records :
          accepts'[r] <= IF Settled(r) THEN 1 + faults' ELSE faults'

LEMMA LoneStep ==
  ASSUME Safe, NEW s \in RunState, Becomes(Worker, s), Lone(s)
  PROVE  SoleSender'
<1>1. run'[Worker] = s
  BY BecomesType DEF Safe, Procs
<1> QED
  BY <1>1 DEF Lone, SoleSender

\* A step that drops what the call holds, or hands it on unchanged, at a cost
\* of no fault or of one when an outcome may be dropped.
LEMMA DropLone ==
  ASSUME Sole, UNCHANGED <<status, accepts>>,
         \/ faults' = faults + 1
         \/ faults' = faults /\ run[Worker].due = {}
  PROVE  Lone(Over(Worker))
<1>1. accepts \in [Records -> Nat] /\ faults \in Nat
  BY ForwardingAssumption DEF Sole, Safe, TypeOK
<1>2. ASSUME NEW r \in Records
      PROVE  accepts[r] <= IF status[r] = "sent" THEN 1 + faults' ELSE faults'
  BY <1>1 DEF Sole, SoleSender
<1> QED
  BY <1>2, OverType DEF Lone

\* The unchanged bound on the deliveries, for steps that keep due and ok.
LEMMA KeepLone ==
  ASSUME Sole, NEW s, UNCHANGED <<status, accepts, faults>>,
         s.due = run[Worker].due, s.ok = run[Worker].ok,
         s.stage # "actions" => s.leads = {},
         s.pending \cap s.due = {},
         \A r \in s.leads \cup s.pending : status[r] # "sent"
  PROVE  Lone(s)
BY DEF Lone, Sole, SoleSender

LEMMA SendLone ==
  ASSUME Sole, NEW parcel \in SUBSET run[Worker].pending,
         \/ SendOk(Worker, parcel)
         \/ SendRejected(Worker, parcel)
         \/ SendUnanswered(Worker, parcel)
  PROVE  SoleSender'
<1> DEFINE call == run[Worker]
<1> USE DEF Sole, Safe
<1>0. Worker \in Procs
  BY DEF Procs
<1>1. PICK ok \in BOOLEAN :
        /\ Becomes(Worker, Dispatched(Worker, parcel, ok))
        /\ \/ ok /\ TakeIn(parcel) /\ faults' = faults
           \/ ~ok /\ UNCHANGED accepts /\ faults' = faults
           \/ ~ok /\ TakeIn(parcel) /\ faults' = faults + 1
  BY DEF SendOk, SendRejected, SendUnanswered
<1>2. call.stage = "send" /\ UNCHANGED status
  BY DEF SendOk, SendRejected, SendUnanswered
<1>3. call.due = {}
  BY <1>0, <1>2 DEF InFlight
<1>4. parcel \subseteq Records /\ \A r \in parcel : status[r] # "sent"
  BY <1>0 DEF SoleSender, TypeOK, RunState
<1>5. accepts \in [Records -> Nat] /\ faults \in Nat
  BY ForwardingAssumption DEF TypeOK
<1>6. ASSUME NEW r \in Records
      PROVE  accepts'[r] <= IF status[r] = "sent" \/ (ok /\ r \in parcel)
                              THEN 1 + faults' ELSE faults'
  <2>1. accepts[r] <= IF status[r] = "sent" THEN 1 + faults ELSE faults
    BY <1>3 DEF SoleSender
  <2>2. CASE r \in parcel
    <3>1. status[r] # "sent" /\ accepts[r] <= faults
      BY <1>4, <2>1, <2>2
    <3> QED
      BY <1>1, <1>5, <2>2, <3>1 DEF TakeIn
  <2>3. CASE r \notin parcel
    <3>1. accepts'[r] = accepts[r]
      BY <1>1, <2>3 DEF TakeIn
    <3>2. faults' = faults \/ faults' = faults + 1
      BY <1>1
    <3> QED
      BY <1>5, <2>1, <2>3, <3>1, <3>2
  <2> QED
    BY <2>2, <2>3
<1>7. Lone(Dispatched(Worker, parcel, ok))
  <2>1. call.leads = {}
    BY <1>2 DEF SoleSender
  <2>2. \A r \in call.pending : status[r] # "sent"
    BY DEF SoleSender
  <2> QED
    BY <1>0, <1>2, <1>6, <2>1, <2>2, DispatchedType DEF Lone
<1> QED
  BY <1>0, <1>1, <1>7, DispatchedType, LoneStep

LEMMA RecordLone ==
  ASSUME Sole, NEW r \in run[Worker].due,
         RecordDelivery(Worker, r) \/ RecordFails(Worker, r)
  PROVE  SoleSender'
<1> DEFINE call == run[Worker]
           s == Recorded(Worker, r)
<1> USE DEF Sole, Safe
<1>0. Worker \in Procs /\ r \in Records
  BY DEF Procs, TypeOK, RunState
<1>1. Becomes(Worker, s) /\ UNCHANGED accepts /\ call.stage = "record"
  BY DEF RecordDelivery, RecordFails
<1>2. /\ s \in RunState /\ s.stage # "actions" /\ s.leads = {}
      /\ s.pending = call.pending /\ s.due = call.due \ {r} /\ s.ok = call.ok
  BY <1>0, <1>1, RecordedType DEF SoleSender
<1>3. accepts \in [Records -> Nat] /\ faults \in Nat
  BY ForwardingAssumption DEF TypeOK
<1>4. CASE RecordDelivery(Worker, r)
  <2>1. /\ status' = [status EXCEPT ![r] = IF call.ok THEN "sent" ELSE "failed"]
        /\ faults' = faults
    BY <1>4 DEF RecordDelivery
  <2>2. status'[r] = (IF call.ok THEN "sent" ELSE "failed")
    BY <1>0, <2>1 DEF TypeOK
  <2>3. \A x \in Records \ {r} : status'[x] = status[x]
    BY <2>1 DEF TypeOK
  <2>4. \A x \in s.pending \cup s.due : x \in Records \ {r} /\ status[x] # "sent"
    BY <1>0, <1>2 DEF SoleSender, TypeOK, RunState
  <2>5. ASSUME NEW x \in Records
        PROVE  accepts[x] <= IF status'[x] = "sent" \/ (s.ok /\ x \in s.due)
                               THEN 1 + faults ELSE faults
    <3>1. accepts[x] <= IF status[x] = "sent" \/ (call.ok /\ x \in call.due)
                          THEN 1 + faults ELSE faults
      BY DEF SoleSender
    <3>2. CASE x = r
      <4>1. status[r] # "sent"
        BY DEF SoleSender
      <4>2. CASE call.ok
        BY <2>2, <3>1, <3>2, <4>2
      <4>3. CASE ~call.ok
        BY <1>2, <2>2, <3>1, <3>2, <4>1, <4>3
      <4> QED
        BY <4>2, <4>3
    <3>3. CASE x # r
      BY <1>2, <2>3, <3>1, <3>3
    <3> QED
      BY <3>2, <3>3
  <2>6. Lone(s)
    BY <1>1, <1>2, <2>1, <2>3, <2>4, <2>5 DEF Lone, SoleSender
  <2> QED
    BY <1>1, <1>2, <2>6, LoneStep
<1>5. CASE RecordFails(Worker, r)
  <2>1. UNCHANGED status /\ faults' = faults + 1
    BY <1>5 DEF RecordFails
  <2>2. ASSUME NEW x \in Records
        PROVE  accepts[x] <= IF status[x] = "sent" \/ (s.ok /\ x \in s.due)
                               THEN 1 + faults' ELSE faults'
    <3>1. accepts[x] <= IF status[x] = "sent" \/ (call.ok /\ x \in call.due)
                          THEN 1 + faults ELSE faults
      BY DEF SoleSender
    <3> QED
      BY <1>2, <1>3, <2>1, <3>1
  <2>3. \A x \in s.pending \cup s.due : status[x] # "sent"
    BY <1>2 DEF SoleSender
  <2>4. Lone(s)
    BY <1>1, <1>2, <2>1, <2>2, <2>3 DEF Lone, SoleSender
  <2> QED
    BY <1>1, <1>2, <2>4, LoneStep
<1> QED
  BY <1>4, <1>5

LEMMA NextSole ==
  ASSUME Requests = {}
  PROVE  Sole /\ [Next]_vars => Sole'
<1> SUFFICES ASSUME Sole, [Next]_vars PROVE SoleSender'
  BY NextSafe DEF Sole
<1> DEFINE call == run[Worker]
<1>0. Procs = {Worker}
  BY DEF Procs
<1> USE DEF Sole, Safe
<1>1. ASSUME NEW l \in Links, Begin(Worker, l)
      PROVE  SoleSender'
  <2>1. Lone(Begun(Worker, l))
    BY <1>0, <1>1, BegunType, KeepLone DEF Begin, SoleSender
  <2> QED
    BY <1>0, <1>1, <2>1, BegunType, LoneStep DEF Begin
<1>2. ASSUME NEW l \in Links, Skip(Worker, l)
      PROVE  SoleSender'
  <2>1. call.due = {}
    BY <1>0, <1>2 DEF Skip, InFlight
  <2> QED
    BY <1>2, <2>1, DropLone, OverType, LoneStep DEF Skip
<1>3. CASE FetchLeads(Worker)
  <2>1. PICK rows \in SUBSET Unsent(call.link, Leads) :
          Becomes(Worker, WithLeads(Worker, rows))
    BY <1>3, FetchLeadsStep
  <2>2. rows \in SUBSET Records /\ \A r \in rows : status[r] # "sent"
    BY UnsentArrived
  <2>3. UNCHANGED <<status, accepts, faults>>
    BY <1>3 DEF FetchLeads
  <2>4. Lone(WithLeads(Worker, rows))
    BY <1>0, <2>2, <2>3, WithLeadsType, KeepLone DEF SoleSender
  <2> QED
    BY <1>0, <2>1, <2>2, <2>4, WithLeadsType, LoneStep
<1>4. CASE FetchActions(Worker)
  <2>1. PICK batch \in SUBSET (call.leads \cup Unsent(call.link, Actions)) :
          Becomes(Worker, WithBatch(Worker, batch))
    BY <1>4, FetchActionsStep
  <2>2. batch \in SUBSET Records /\ \A r \in batch : status[r] # "sent"
    BY <1>0, UnsentArrived DEF SoleSender, TypeOK, RunState
  <2>3. UNCHANGED <<status, accepts, faults>> /\ call.due = {}
    BY <1>0, <1>4 DEF FetchActions, InFlight
  <2>4. Lone(WithBatch(Worker, batch))
    BY <1>0, <2>2, <2>3, WithBatchType, KeepLone
  <2> QED
    BY <1>0, <2>1, <2>2, <2>4, WithBatchType, LoneStep
<1>5. CASE Send(Worker)
  BY <1>5, SendLone DEF Send
<1>6. CASE Record(Worker)
  BY <1>6, RecordLone DEF Record
<1>7. CASE Finish(Worker) \/ FinishUnstamped(Worker)
  <2>1. call.due = {}
    BY <1>0, <1>7 DEF Finish, FinishUnstamped, InFlight
  <2>2. /\ Becomes(Worker, Over(Worker)) /\ UNCHANGED <<status, accepts>>
        /\ faults' = faults \/ faults' = faults + 1
    BY <1>7 DEF Finish, FinishUnstamped
  <2> QED
    BY <2>1, <2>2, DropLone, OverType, LoneStep
<1>8. CASE Abandon(Worker)
  BY <1>8, DropLone, OverType, LoneStep DEF Abandon
<1>9. CASE WorkerCrash
  BY <1>9, DropLone, OverType, LoneStep DEF WorkerCrash
<1>10. CASE \/ BeginSweep
            \/ \E l \in Links, c \in Config : UpsertConfig(l, c)
            \/ \E r \in Records : Arrive(r)
            \/ UNCHANGED vars
  <2>1. UNCHANGED <<status, run, accepts, faults>>
    BY <1>10 DEF BeginSweep, UpsertConfig, Arrive, vars
  <2> QED
    BY <2>1 DEF SoleSender
<1> QED
  BY <1>0, <1>1, <1>2, <1>3, <1>4, <1>5, <1>6, <1>7, <1>8, <1>9, <1>10
     DEF Next, RunForLink, Visit

LEMMA SoleAlways ==
  ASSUME Requests = {}
  PROVE  Spec => []Sole
<1>1. Init => Sole
  <2> SUFFICES ASSUME Init PROVE Safe /\ SoleSender
    BY DEF Sole
  <2>1. Safe
    BY InitType, NoRunType DEF Init, Safe, InFlight, SentWasAccepted
  <2>2. run[Worker] = NoRun /\ NoRun.ok = FALSE
    BY DEF Init, Procs, NoRun
  <2>3. SoleSender
    BY <2>2, NoRunType DEF Init, SoleSender
  <2> QED
    BY <2>1, <2>3
<1>2. Sole /\ [Next]_vars => Sole'
  BY NextSole
<1> QED
  BY <1>1, <1>2, PTL DEF Spec

\* With the sweep as the only sender, a record reaches the third party at most
\* once more than faults struck (FetchBacklog, Send, recordDelivery).
THEOREM RepeatsAreFaults ==
  ASSUME Requests = {}
  PROVE  Spec => []RepeatsNeedFaults
<1>1. Sole => RepeatsNeedFaults
  <2> SUFFICES ASSUME Sole, NEW r \in Records PROVE accepts[r] <= 1 + faults
    BY DEF RepeatsNeedFaults
  <2>1. accepts \in [Records -> Nat] /\ faults \in Nat
    BY ForwardingAssumption DEF Sole, Safe, TypeOK
  <2> QED
    BY <2>1 DEF Sole, SoleSender
<1>2. Spec => []Sole
  BY SoleAlways
<1> QED
  BY <1>1, <1>2, PTL

\* With the sweep as the only sender, a record whose row says 'sent' keeps it:
\* recordDelivery never overwrites a success.
THEOREM SentStays ==
  ASSUME Requests = {}
  PROVE  Spec => SentIsFinal
<1>1. Sole /\ [Next]_vars =>
        [\A r \in Records : status[r] = "sent" => status'[r] = "sent"]_vars
  <2> SUFFICES ASSUME Sole, Next, NEW r \in Records, status[r] = "sent"
               PROVE  status'[r] = "sent"
    OBVIOUS
  <2>1. Procs = {Worker}
    BY DEF Procs
  <2>2. CASE \E x \in run[Worker].due : RecordDelivery(Worker, x)
    <3>1. PICK x \in run[Worker].due : RecordDelivery(Worker, x)
      BY <2>2
    <3>2. x # r
      BY DEF Sole, SoleSender
    <3> QED
      BY <3>1, <3>2 DEF RecordDelivery, Sole, Safe, TypeOK
  <2>3. CASE ~ \E x \in run[Worker].due : RecordDelivery(Worker, x)
    BY <2>1, <2>3 DEF Next, RunForLink, Visit, Begin, Skip, FetchLeads, FetchActions,
       Send, SendOk, SendRejected, SendUnanswered, Record, RecordFails, Finish,
       FinishUnstamped, Abandon, BeginSweep, WorkerCrash, UpsertConfig, Arrive
  <2> QED
    BY <2>2, <2>3
<1>2. Spec => []Sole
  BY SoleAlways
<1> QED
  BY <1>1, <1>2, PTL DEF Spec, SentIsFinal

\* With the sweep as the only sender, no call carries a record whose row says
\* 'sent' (FetchBacklog's NOT IN clause is enough).
THEOREM OnlyUnsentLeaves ==
  ASSUME Requests = {}
  PROVE  Spec => OnlyUnsentDispatched
<1>1. Sole /\ [Next]_vars =>
        [\A r \in Records : accepts'[r] > accepts[r] => status[r] # "sent"]_vars
  <2> SUFFICES ASSUME Sole, Next, NEW r \in Records, accepts'[r] > accepts[r]
               PROVE  status[r] # "sent"
    OBVIOUS
  <2>1. Procs = {Worker} /\ accepts[r] \in Nat
    BY DEF Procs, Sole, Safe, TypeOK
  <2>2. accepts'[r] # accepts[r]
    BY <2>1
  <2>3. PICK parcel \in SUBSET run[Worker].pending :
          SendOk(Worker, parcel) \/ SendUnanswered(Worker, parcel)
    BY <2>1, <2>2 DEF Next, RunForLink, Visit, Begin, Skip, FetchLeads, FetchActions,
       Send, SendRejected, Record, RecordDelivery, RecordFails, Finish,
       FinishUnstamped, Abandon, BeginSweep, WorkerCrash, UpsertConfig, Arrive
  <2>4. r \in parcel
    BY <2>2, <2>3 DEF SendOk, SendUnanswered, TakeIn
  <2> QED
    BY <2>4 DEF Sole, SoleSender
<1>2. Spec => []Sole
  BY SoleAlways
<1> QED
  BY <1>1, <1>2, PTL DEF Spec, OnlyUnsentDispatched

----------------------------------------------------------------------------
(* Forwarding implements AtLeastOnce: every step of the engine is a step   *)
(* of that module, or none, seen through the mapping of Promise.           *)

\* With a sweep alone, SoleSender as well: then nothing is ever reopened.
Proper == Safe /\ (Requests = {} => SoleSender)

LEMMA ProperAlways == Spec => []Proper
<1>1. CASE Requests = {}
  <2>1. Sole => Proper
    BY DEF Sole, Proper
  <2>2. Spec => []Sole
    BY <1>1, SoleAlways
  <2> QED
    BY <2>1, <2>2, PTL
<1>2. CASE Requests # {}
  <2>1. Safe => Proper
    BY <1>2 DEF Proper
  <2> QED
    BY <2>1, SafeAlways, PTL
<1> QED
  BY <1>1, <1>2

\* The abstract state, as Promise reads it off the engine's.
Reached == { r \in Records : accepts[r] > 0 }
Settled == { r \in Records : status[r] = "sent" }

LEMMA SendDelivers ==
  ASSUME Proper, NEW p \in Procs, NEW parcel \in SUBSET run[p].pending,
         SendOk(p, parcel) \/ SendRejected(p, parcel) \/ SendUnanswered(p, parcel)
  PROVE  \/ Promise!Deliver(parcel) /\ parcel \in SUBSET Records
         \/ UNCHANGED <<arrived, Reached, Settled>>
<1>1. UNCHANGED <<arrived, Settled>>
  BY DEF SendOk, SendRejected, SendUnanswered, Settled
<1>2. parcel \subseteq arrived /\ parcel \subseteq Records
  BY DEF Proper, Safe, InFlight, TypeOK
<1>3. CASE TakeIn(parcel)
  <2>1. Reached' = Reached \cup parcel
    BY <1>2, <1>3 DEF TakeIn, Reached, Proper, Safe, TypeOK
  <2> QED
    BY <1>1, <1>2, <2>1 DEF Promise!Deliver, Reached, Settled
<1>4. CASE UNCHANGED accepts
  BY <1>1, <1>4 DEF Reached
<1> QED
  BY <1>3, <1>4 DEF SendOk, SendRejected, SendUnanswered

LEMMA RecordSettles ==
  ASSUME Proper, NEW p \in Procs, NEW r \in run[p].due, RecordDelivery(p, r)
  PROVE  \/ Promise!Settle(r) \/ Promise!Reopen(r)
         \/ UNCHANGED <<arrived, Reached, Settled>>
<1> USE DEF Proper, Safe
<1>1. UNCHANGED <<arrived, Reached>>
  BY DEF RecordDelivery, Reached
<1>2. r \in Records
  BY DEF TypeOK, RunState
<1>3. status' = [status EXCEPT ![r] = IF run[p].ok THEN "sent" ELSE "failed"]
  BY DEF RecordDelivery
<1>4. CASE run[p].ok
  <2>1. r \in Reached
    BY <1>2, <1>4 DEF InFlight, Reached
  <2>2. Settled' = Settled \cup {r}
    BY <1>2, <1>3, <1>4 DEF Settled, TypeOK
  <2> QED
    BY <1>1, <2>1, <2>2 DEF Promise!Settle, Reached, Settled
<1>5. CASE ~ run[p].ok
  <2>1. Settled' = Settled \ {r}
    BY <1>2, <1>3, <1>5 DEF Settled, TypeOK
  <2>2. CASE Requests # {}
    BY <1>1, <2>1, <2>2 DEF Promise!Reopen, Reached, Settled
  <2>3. CASE Requests = {}
    <3>1. p = Worker
      BY <2>3 DEF Procs
    <3>2. r \notin Settled
      BY <2>3, <3>1 DEF SoleSender, Settled
    <3> QED
      BY <1>1, <2>1, <3>2
  <2> QED
    BY <2>2, <2>3
<1> QED
  BY <1>4, <1>5

LEMMA NextImplements == Proper /\ [Next]_vars => [Promise!Next]_Promise!vars
<1> SUFFICES ASSUME Proper, [Next]_vars
             PROVE  Promise!Next \/ UNCHANGED <<arrived, Reached, Settled>>
  BY DEF Promise!vars, Reached, Settled
<1>1. ASSUME NEW p \in Procs, Send(p)
      PROVE  Promise!Next \/ UNCHANGED <<arrived, Reached, Settled>>
  BY <1>1, SendDelivers DEF Send, Promise!Next
<1>2. ASSUME NEW p \in Procs, NEW r \in run[p].due, RecordDelivery(p, r)
      PROVE  Promise!Next \/ UNCHANGED <<arrived, Reached, Settled>>
  <2>1. r \in Records
    BY DEF Proper, Safe, TypeOK, RunState
  <2> QED
    BY <1>2, <2>1, RecordSettles DEF Promise!Next
<1>3. ASSUME NEW r \in Records, Arrive(r)
      PROVE  Promise!Next
  BY <1>3 DEF Arrive, Promise!Next, Promise!Learn
<1>4. ASSUME UNCHANGED <<arrived, accepts, status>>
      PROVE  UNCHANGED <<arrived, Reached, Settled>>
  BY <1>4 DEF Reached, Settled
<1>5. CASE UNCHANGED <<arrived, accepts, status>>
  BY <1>4, <1>5
<1>6. CASE \/ \E p \in Procs : Send(p)
           \/ \E p \in Procs : \E r \in run[p].due : RecordDelivery(p, r)
           \/ \E r \in Records : Arrive(r)
  BY <1>1, <1>2, <1>3, <1>6
<1> QED
  BY <1>5, <1>6 DEF Next, RunForLink, Visit, Begin, Skip, FetchLeads,
     FetchActions, Record, RecordFails, Finish, FinishUnstamped, Abandon,
     BeginSweep, WorkerCrash, UpsertConfig, vars

\* The engine implements AtLeastOnce, with one sender and with several.
THEOREM Refinement == Spec => ImplementsAtLeastOnce
<1>1. Init => Promise!Init
  BY DEF Init, Promise!Init
<1> QED
  BY <1>1, NextImplements, ProperAlways, PTL
     DEF Spec, ImplementsAtLeastOnce, Promise!Spec
=============================================================================
