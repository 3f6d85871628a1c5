---------------------------- MODULE Forwarding ----------------------------
(***************************************************************************)
(* The forwarding engine: src/shared/forwarding/forwarding.go, driven by   *)
(* the once-daily sweep of src/services/worker and by the "Send Now"       *)
(* requests of src/services/api.  Every run of RunForLink is a process of  *)
(* its own; nothing locks one out of another, they meet in the delivery    *)
(* log.                                                                    *)
(*                                                                         *)
(* Durable state: the link's configuration row, the delivery log, the      *)
(* clicks and postbacks.  Volatile state, lost with its process: `run` and *)
(* `sweep`.  `accepts` and `faults` are history: what the third party      *)
(* received, and how many faults struck so far.                            *)
(***************************************************************************)
EXTENDS Backlog

CONSTANTS
  Links,
  Leads,      \* link_clicks rows
  Actions,    \* postback_events rows
  LinkOf,     \* link_clicks.link_id
  ClickOf,    \* postback_events.link_click_id
  Caps,       \* cap_per_run values on offer
  Worker,     \* the worker process
  Requests,   \* Send Now requests, each served once
  Refused,    \* records the endpoint turns down every time
  NoConfig,   \* a link without a configuration row
  MaxFaults   \* bound on crashes, lost replies and failed statements

Procs == {Worker} \cup Requests

ASSUME ForwardingAssumption ==
  /\ Records = Leads \cup Actions /\ Leads \cap Actions = {}
  /\ IsFiniteSet(Records)
  /\ LinkOf \in [Leads -> Links] /\ ClickOf \in [Actions -> Leads]
  /\ Links # {} /\ Caps # {} /\ Caps \subseteq Nat \ {0}
  /\ Worker \notin Requests
  /\ Refused \subseteq Records
  /\ MaxFaults \in Nat

\* The columns of a configuration that decide what a run does; batched is
\* method = "post" /\ body_format = "json".
Config == [enabled : BOOLEAN, batched : BOOLEAN, cap : Caps]

ASSUME NoConfigAssumption == NoConfig \notin Config

VARIABLES
  configs,   \* link_forwarding_configs
  status,    \* link_forwarding_deliveries.status, "none" without a row
  stamped,   \* last_run_at IS NOT NULL
  arrived,   \* the clicks and postbacks inserted so far
  sweep,     \* link ids the current sweep has still to visit
  run,       \* each process's RunForLink call
  accepts,   \* how often the endpoint took a record in
  faults

vars == <<configs, status, stamped, arrived, sweep, run, accepts, faults>>

Stage == {"idle", "leads", "actions", "send", "record", "done"}

\* link, cap, batched: the call's own copy of the configuration.  leads: the
\* first query's rows.  pending: fetched, not dispatched.  due: dispatched
\* with outcome ok, not yet in the delivery log.
RunState == [stage : Stage, link : Links, cap : Caps, batched : BOOLEAN,
             leads : SUBSET Records, pending : SUBSET Records,
             due : SUBSET Records, ok : BOOLEAN]

TypeOK ==
  /\ configs \in [Links -> Config \cup {NoConfig}]
  /\ status \in [Records -> {"none", "failed", "sent"}]
  /\ stamped \in [Links -> BOOLEAN]
  /\ arrived \in SUBSET Records
  /\ sweep \in SUBSET Links
  /\ run \in [Procs -> RunState]
  /\ accepts \in [Records -> Nat]
  /\ faults \in 0 .. MaxFaults

----------------------------------------------------------------------------
(* The backlog. *)

LinkOfRecord(r) == IF r \in Leads THEN LinkOf[r] ELSE LinkOf[ClickOf[r]]

\* A mistake the NOT IN clause could have: any delivery row takes the record
\* out of the backlog, so that a failed record is dropped.
WithoutDelivery(l, kind) ==
  { r \in arrived \cap kind : LinkOfRecord(r) = l /\ status[r] = "none" }

\* A mistake the NOT IN clause could have: no filter on the delivery log.
WithOrWithoutDelivery(l, kind) ==
  { r \in arrived \cap kind : LinkOfRecord(r) = l }

\* Records of the link without a 'sent' row.
Unsent(l, kind) ==
  { r \in arrived \cap kind : LinkOfRecord(r) = l /\ status[r] # "sent" }

----------------------------------------------------------------------------
(* Steps of one RunForLink call. *)

NoRun == [stage |-> "idle", link |-> CHOOSE l \in Links : TRUE,
          cap |-> CHOOSE c \in Caps : TRUE, batched |-> FALSE,
          leads |-> {}, pending |-> {}, due |-> {}, ok |-> FALSE]

Active(p) == run[p].stage \notin {"idle", "done"}

\* Where a process is once its call returns: the worker goes on with its
\* sweep, a request has been answered.
After(p) == IF p = Worker THEN "idle" ELSE "done"

\* The links p may start a run for.
Target(p) == IF p = Worker THEN sweep ELSE Links

Becomes(p, s) == run' = [run EXCEPT ![p] = s]

Begun(p, l) ==
  [run[p] EXCEPT !.stage = "leads", !.link = l, !.cap = configs[l].cap,
                 !.batched = configs[l].batched]

\* The call is over and its volatile state is gone.
Over(p) == [NoRun EXCEPT !.stage = After(p)]

TakeUp(p, l) == sweep' = IF p = Worker THEN sweep \ {l} ELSE sweep

\* LoadConfig and ValidateEndpoint succeed.  force lets a Send Now ignore
\* the toggle, which the sweep reads again here.
Begin(p, l) ==
  /\ run[p].stage = "idle" /\ l \in Target(p)
  /\ configs[l] # NoConfig
  /\ p = Worker => configs[l].enabled
  /\ Becomes(p, Begun(p, l))
  /\ TakeUp(p, l)
  /\ UNCHANGED <<configs, status, stamped, arrived, accepts, faults>>

\* The early returns before the backlog is read: no configuration, switched
\* off, secret unreadable, endpoint unresolvable or not allowed.
Skip(p, l) ==
  /\ run[p].stage = "idle" /\ l \in Target(p)
  /\ Becomes(p, Over(p))
  /\ TakeUp(p, l)
  /\ UNCHANGED <<configs, status, stamped, arrived, accepts, faults>>

WithLeads(p, rows) == [run[p] EXCEPT !.stage = "actions", !.leads = rows]

\* First query of FetchBacklog.
FetchLeads(p) ==
  /\ run[p].stage = "leads"
  /\ \E rows \in OldestFirst(Unsent(run[p].link, Leads), run[p].cap) :
       Becomes(p, WithLeads(p, rows))
  /\ UNCHANGED <<configs, status, stamped, arrived, sweep, accepts, faults>>

WithBatch(p, batch) ==
  [run[p] EXCEPT !.stage = "send", !.leads = {}, !.pending = batch]

\* Second query, made after the first has returned, and the merge.
FetchActions(p) ==
  /\ run[p].stage = "actions"
  /\ \E rows \in OldestFirst(Unsent(run[p].link, Actions), run[p].cap) :
       \E batch \in Merge(run[p].leads, rows, run[p].cap) :
         Becomes(p, WithBatch(p, batch))
  /\ UNCHANGED <<configs, status, stamped, arrived, sweep, accepts, faults>>

\* What one HTTP call carries: the whole batch as a JSON array, or the record
\* at the front.
Parcels(p) ==
  IF run[p].batched THEN {run[p].pending}
                    ELSE { {r} : r \in Front(run[p].pending) }

Dispatched(p, parcel, ok) ==
  [run[p] EXCEPT !.stage = "record", !.ok = ok, !.due = parcel,
                 !.pending = @ \ parcel]

TakeIn(parcel) ==
  accepts' = [r \in Records |->
                IF r \in parcel THEN accepts[r] + 1 ELSE accepts[r]]

\* A 2xx answer.
SendOk(p, parcel) ==
  /\ run[p].stage = "send" /\ run[p].pending # {}
  /\ parcel \in Parcels(p)
  /\ parcel \cap Refused = {}
  /\ Becomes(p, Dispatched(p, parcel, TRUE))
  /\ TakeIn(parcel)
  /\ UNCHANGED <<configs, status, stamped, arrived, sweep, faults>>

\* Any other answer, or no connection.
SendRejected(p, parcel) ==
  /\ run[p].stage = "send" /\ run[p].pending # {}
  /\ parcel \in Parcels(p)
  /\ Becomes(p, Dispatched(p, parcel, FALSE))
  /\ UNCHANGED <<configs, status, stamped, arrived, sweep, accepts, faults>>

\* The endpoint takes the records in, but no 2xx is seen: its answer is late
\* (15 s), lost, or an error status given after the fact.
SendUnanswered(p, parcel) ==
  /\ run[p].stage = "send" /\ run[p].pending # {} /\ faults < MaxFaults
  /\ parcel \in Parcels(p)
  /\ parcel \cap Refused = {}
  /\ Becomes(p, Dispatched(p, parcel, FALSE))
  /\ TakeIn(parcel)
  /\ faults' = faults + 1
  /\ UNCHANGED <<configs, status, stamped, arrived, sweep>>

\* The loop of Send: back for the next record once this call's outcomes are
\* in the log.
Recorded(p, r) ==
  [run[p] EXCEPT !.due = @ \ {r},
                 !.stage = IF run[p].due = {r} THEN "send" ELSE "record"]

\* A mistake recordDelivery could have: the column's default instead of the
\* outcome.
RecordPending(p, r) ==
  /\ run[p].stage = "record" /\ r \in Front(run[p].due)
  /\ status' = [status EXCEPT ![r] = "pending"]
  /\ Becomes(p, Recorded(p, r))
  /\ UNCHANGED <<configs, stamped, arrived, sweep, accepts, faults>>

\* A mistake recordDelivery could have: the call's outcome is forgotten.
RecordAsSent(p, r) ==
  /\ run[p].stage = "record" /\ r \in Front(run[p].due)
  /\ status' = [status EXCEPT ![r] = "sent"]
  /\ Becomes(p, Recorded(p, r))
  /\ UNCHANGED <<configs, stamped, arrived, sweep, accepts, faults>>

\* A mistake the upsert could have: an existing row keeps its status.
RecordFirstOnly(p, r) ==
  /\ run[p].stage = "record" /\ r \in Front(run[p].due)
  /\ status' = [status EXCEPT ![r] =
                  IF @ # "none" THEN @ ELSE IF run[p].ok THEN "sent" ELSE "failed"]
  /\ Becomes(p, Recorded(p, r))
  /\ UNCHANGED <<configs, stamped, arrived, sweep, accepts, faults>>

\* recordDelivery: the upsert overwrites whatever status the row had.
RecordDelivery(p, r) ==
  /\ run[p].stage = "record" /\ r \in Front(run[p].due)
  /\ status' = [status EXCEPT ![r] = IF run[p].ok THEN "sent" ELSE "failed"]
  /\ Becomes(p, Recorded(p, r))
  /\ UNCHANGED <<configs, stamped, arrived, sweep, accepts, faults>>

\* recordDelivery's statement fails: logged and passed over.
RecordFails(p, r) ==
  /\ run[p].stage = "record" /\ r \in Front(run[p].due) /\ faults < MaxFaults
  /\ Becomes(p, Recorded(p, r))
  /\ faults' = faults + 1
  /\ UNCHANGED <<configs, status, stamped, arrived, sweep, accepts>>

\* CountBacklog, which only the answer shows, and the last_run_at stamp; an
\* empty batch comes here directly, and so does one that failed throughout.
Finish(p) ==
  /\ run[p].stage = "send" /\ run[p].pending = {}
  /\ Becomes(p, Over(p))
  /\ stamped' = [stamped EXCEPT ![run[p].link] = TRUE]
  /\ UNCHANGED <<configs, status, arrived, sweep, accepts, faults>>

\* The stamp's statement fails: logged and passed over.
FinishUnstamped(p) ==
  /\ run[p].stage = "send" /\ run[p].pending = {} /\ faults < MaxFaults
  /\ Becomes(p, Over(p))
  /\ faults' = faults + 1
  /\ UNCHANGED <<configs, status, stamped, arrived, sweep, accepts>>

\* A query of FetchBacklog fails and RunForLink returns; or a Send Now client
\* hangs up, after which every call and statement under r.Context() fails.
Abandon(p) ==
  /\ Active(p) /\ faults < MaxFaults
  /\ run[p].stage \in {"leads", "actions"} \/ p \in Requests
  /\ Becomes(p, Over(p))
  /\ faults' = faults + 1
  /\ UNCHANGED <<configs, status, stamped, arrived, sweep, accepts>>

----------------------------------------------------------------------------
(* The worker, the dashboard and the outside world. *)

\* Midnight, or FORWARDING_RUN_ON_START: list the enabled links.
BeginSweep ==
  /\ run[Worker].stage = "idle" /\ sweep = {}
  /\ sweep' = { l \in Links : configs[l] # NoConfig /\ configs[l].enabled }
  /\ sweep' # {}
  /\ UNCHANGED <<configs, status, stamped, arrived, run, accepts, faults>>

\* The worker dies and systemd starts it again, which waits for midnight.
WorkerCrash ==
  /\ Active(Worker) \/ sweep # {}
  /\ faults < MaxFaults
  /\ Becomes(Worker, Over(Worker))
  /\ sweep' = {}
  /\ faults' = faults + 1
  /\ UNCHANGED <<configs, status, stamped, arrived, accepts>>

\* A configuration passes UpsertConfig's checks and is saved.
UpsertConfig(l, c) ==
  /\ configs[l] # c
  /\ configs' = [configs EXCEPT ![l] = c]
  /\ UNCHANGED <<status, stamped, arrived, sweep, run, accepts, faults>>

\* The redirect service inserts a click or the postback service an event; the
\* timestamp is taken before the row becomes visible, so rows may appear out
\* of timestamp order.
Arrive(r) ==
  /\ r \notin arrived
  /\ r \in Actions => ClickOf[r] \in arrived
  /\ arrived' = arrived \cup {r}
  /\ UNCHANGED <<configs, status, stamped, sweep, run, accepts, faults>>

Init ==
  /\ configs = [l \in Links |-> NoConfig]
  /\ status = [r \in Records |-> "none"]
  /\ stamped = [l \in Links |-> FALSE]
  /\ arrived = {}
  /\ sweep = {}
  /\ run = [p \in Procs |-> NoRun]
  /\ accepts = [r \in Records |-> 0]
  /\ faults = 0

Send(p) ==
  \E parcel \in SUBSET run[p].pending :
    \/ SendOk(p, parcel)
    \/ SendRejected(p, parcel)
    \/ SendUnanswered(p, parcel)

Record(p) ==
  \E r \in run[p].due : RecordDelivery(p, r) \/ RecordFails(p, r)

Visit(p) == \E l \in Links : Begin(p, l) \/ Skip(p, l)

RunForLink(p) ==
  \/ Visit(p)
  \/ FetchLeads(p)
  \/ FetchActions(p)
  \/ Send(p)
  \/ Record(p)
  \/ Finish(p)
  \/ FinishUnstamped(p)

Next ==
  \/ \E p \in Procs : RunForLink(p) \/ Abandon(p)
  \/ BeginSweep
  \/ WorkerCrash
  \/ \E l \in Links, c \in Config : UpsertConfig(l, c)
  \/ \E r \in Records : Arrive(r)

Spec == Init /\ [][Next]_vars

\* The worker's loop keeps running and systemd restarts it (RunForLink,
\* BeginSweep); an endpoint name that keeps being looked up resolves again and
\* again (Begin); a record the endpoint does not refuse outright, retried over
\* and over, is taken in over and over.  Nothing is asked of Send Now.
Fairness ==
  /\ WF_vars(BeginSweep)
  /\ WF_vars(RunForLink(Worker))
  /\ \A l \in Links : SF_vars(Begin(Worker, l))
  /\ \A r \in Records \ Refused :
       SF_vars(\E parcel \in SUBSET run[Worker].pending :
                 r \in parcel /\ SendOk(Worker, parcel))

FairSpec == Spec /\ Fairness

----------------------------------------------------------------------------
(* Properties. *)

\* A 'sent' row is never a false claim: whatever crashed, timed out or ran
\* beside it, the third party took the record in (Send, recordDelivery).
SentWasAccepted == \A r \in Records : status[r] = "sent" => accepts[r] > 0

\* What the calls under way hold, on which SentWasAccepted rests: records that
\* have arrived; outcomes to record only while recording; a success only for
\* records that were taken in (Send).
InFlight ==
  \A p \in Procs :
    /\ run[p].leads \cup run[p].pending \cup run[p].due \subseteq arrived
    /\ run[p].stage # "record" => run[p].due = {}
    /\ run[p].ok => \A r \in run[p].due : accepts[r] > 0

\* Forwarding is at-least-once, and every repetition has a cause: a record
\* reaches the endpoint at most once more than faults struck.  Holds while the
\* sweep is the only sender (Requests = {}).
RepeatsNeedFaults == \A r \in Records : accepts[r] <= 1 + faults

\* Why: the only sender holds no record with a 'sent' row, and a record still
\* open was taken in only as often as a fault hid it (FetchBacklog, Send).
SoleSender ==
  LET call == run[Worker]
      Settled(r) == status[r] = "sent" \/ (call.ok /\ r \in call.due)
  IN /\ call.stage # "actions" => call.leads = {}
     /\ call.pending \cap call.due = {}
     /\ \A r \in call.leads \cup call.pending \cup call.due : status[r] # "sent"
     /\ \A r \in Records : accepts[r] <= IF Settled(r) THEN 1 + faults ELSE faults

\* A record once marked 'sent' never returns to the backlog.  Holds while the
\* sweep is the only sender (recordDelivery's upsert alone does not ensure it).
SentIsFinal ==
  [][\A r \in Records : status[r] = "sent" => status'[r] = "sent"]_vars

\* The engine keeps the promise of AtLeastOnce, to a single sender and to
\* several: what the third party took in and what the log says about it only
\* change the ways that module allows (Send, recordDelivery, FetchBacklog).
Promise == INSTANCE AtLeastOnce WITH
  Overlapping <- Requests # {},
  known <- arrived,
  reached <- { r \in Records : accepts[r] > 0 },
  settled <- { r \in Records : status[r] = "sent" }

ImplementsAtLeastOnce == Promise!Spec

RefusedOn(l) == { r \in Refused : LinkOfRecord(r) = l }

\* The link is switched on, and the records its endpoint refuses do not fill
\* the cap; a JSON batch is refused as a whole.
Served(l) ==
  /\ configs[l] # NoConfig
  /\ configs[l].enabled
  /\ IF configs[l].batched THEN RefusedOn(l) = {}
                           ELSE Cardinality(RefusedOn(l)) < configs[l].cap

\* Failed attempts are retried rather than dropped, and the oldest-first queue
\* starves nobody: a record of a link that stays served ends up 'sent' for
\* good, whatever failed or crashed before (RunDailySweep, FetchBacklog).
EventuallyForwarded ==
  \A r \in Records \ Refused :
    <>[](r \in arrived /\ Served(LinkOfRecord(r))) => <>[](status[r] = "sent")

\* What leaves for the endpoint is unsent at that moment: no call carries a
\* record whose 'sent' row is already in the log.
OnlyUnsentDispatched ==
  [][\A r \in Records : accepts'[r] > accepts[r] => status[r] # "sent"]_vars

\* Leads and actions share one oldest-first queue and one cap: a merged batch
\* overtakes no record that either query of FetchBacklog saw, and is never
\* longer than cap_per_run (FetchBacklog).
SharedQueue ==
  [][\A p \in Procs :
       run[p].stage = "actions" /\ run'[p].stage = "send" =>
         LET shown == run[p].leads \cup Unsent(run[p].link, Actions)
             batch == run'[p].pending
         IN /\ Cardinality(batch) <= run[p].cap
            /\ \A r \in batch, x \in shown \ batch : Stamp[r] <= Stamp[x]]_vars
=============================================================================
