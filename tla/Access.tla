------------------------------- MODULE Access -------------------------------
(***************************************************************************)
(* Accounts: who may change whom (users.go behind RequireRole), sessions   *)
(* with the role copied into them (auth.go), and the setup wizard that     *)
(* makes the first Super Admin (setup.go).  Every statement of a request   *)
(* is a step: an account is looked at in one and changed in another.       *)
(*                                                                         *)
(* An account is its id, which is issued once.  Names, e-mail addresses    *)
(* and passwords are left out, and so are requests that fail to decode.    *)
(***************************************************************************)
EXTENDS Integers, FiniteSets

CONSTANTS
  Users,
  Calls,     \* requests that may be under way at once
  Nobody,    \* created_by IS NULL
  NoRow,     \* not created yet, or deleted
  MaxSessions,  \* bound on the different sessions
  MaxBulk,   \* bound on the accounts of a bulk request
  Given      \* bound on the roles accounts are changed to

ASSUME AccessAssumption ==
  /\ Nobody \notin Users /\ IsFiniteSet(Calls)
  /\ {MaxSessions, MaxBulk} \subseteq Nat

Role == {"super_admin", "admin", "marketer"}

ASSUME GivenAssumption == Given \subseteq Role

\* by: created_by.
Row == [role : Role, active : BOOLEAN, by : Users \cup {Nobody}]

ASSUME NoRowAssumption == NoRow \notin Row

VARIABLES
  issued,     \* ids handed out by users' AUTO_INCREMENT
  row,        \* users
  sessions,   \* created so far, each with the role of its login
  call,
  setups,     \* history: Super Admins the wizard made
  emptied     \* history: how often the last account was deleted

vars == <<issued, row, sessions, call, setups, emptied>>

\* Those that RequireRole lets through.  That a session ended is that it is not
\* used again.
Session == [user : Users, role : {"super_admin", "admin"}]

\* actor, power: the session's user and role.  todo: ids whose
\* row is still to be looked at.  allowed: those that passed.
CallState ==
  [stage : {"idle", "setup", "filter", "write"},
   op : {"none", "create", "update", "status", "delete"},
   actor : Users \cup {Nobody}, power : Role,
   todo : SUBSET Users, allowed : SUBSET Users,
   role : Role, active : BOOLEAN]

TypeOK ==
  /\ issued \in SUBSET Users
  /\ row \in [Users -> Row \cup {NoRow}]
  /\ sessions \in SUBSET Session
  /\ call \in [Calls -> CallState]
  /\ setups \in Nat /\ emptied \in Nat

Present(u) == row[u] # NoRow
Active(u) == Present(u) /\ row[u].active

At(c, stage) == call[c].stage = stage
Becomes(c, s) == call' = [call EXCEPT ![c] = s]

NoCall == [stage |-> "idle", op |-> "none", actor |-> Nobody, power |-> "marketer",
           todo |-> {}, allowed |-> {}, role |-> "marketer", active |-> TRUE]

----------------------------------------------------------------------------
(* Sessions. *)

\* completeLogin: the role is copied.
NewSession(u) ==
  /\ row[u].role # "marketer"
  /\ Cardinality(sessions) < MaxSessions
  /\ sessions' = sessions \cup {[user |-> u, role |-> row[u].role]}
  /\ UNCHANGED <<issued, row, call, setups, emptied>>

\* From a login that found the account active, or from the wizard.  What is done
\* to the account while it is under way makes the same session as what is done
\* to it after.
Login(u) == Active(u) /\ NewSession(u)

\* The code of a login that found the account active some time ago, as every
\* account once is: the role is read again, the status is not.
Verify2FA(u) == Present(u) /\ NewSession(u)

----------------------------------------------------------------------------
(* The setup wizard. *)

\* A mistake needsSetup could have: inactive accounts are not counted.
NeedsSetupActive(c) ==
  /\ At(c, "idle") /\ \A u \in Users : ~ Active(u)
  /\ Becomes(c, [NoCall EXCEPT !.stage = "setup"])
  /\ UNCHANGED <<issued, row, sessions, setups, emptied>>

NeedsSetup(c) ==
  /\ At(c, "idle") /\ \A u \in Users : ~ Present(u)
  /\ Becomes(c, [NoCall EXCEPT !.stage = "setup"])
  /\ UNCHANGED <<issued, row, sessions, setups, emptied>>

\* The transaction; the new Super Admin's session comes after it, as a login.
Complete(c, u) ==
  /\ At(c, "setup") /\ u \notin issued
  /\ issued' = issued \cup {u}
  /\ row' = [row EXCEPT ![u] = [role |-> "super_admin", active |-> TRUE, by |-> Nobody]]
  /\ setups' = setups + 1
  /\ Becomes(c, NoCall)
  /\ UNCHANGED <<sessions, emptied>>

----------------------------------------------------------------------------
(* The users page, behind RequireRole(super_admin, admin). *)

\* A mistake RequireAuth could have: the session's fields are mixed up.
AskedMixedUp(s, stage, op) ==
  [NoCall EXCEPT !.stage = stage, !.op = op, !.actor = s.role, !.power = s.user]

Asked(s, stage, op) ==
  [NoCall EXCEPT !.stage = stage, !.op = op, !.actor = s.user, !.power = s.role]

Starts(c, s, request) ==
  /\ At(c, "idle") /\ s \in sessions
  /\ Becomes(c, request)
  /\ UNCHANGED <<issued, row, sessions, setups, emptied>>

\* Admins make no Super Admins.
MayGive(s, role) == s.role = "admin" => role # "super_admin"

Create(c, s, role) ==
  MayGive(s, role) /\ Starts(c, s, [Asked(s, "write", "create") EXCEPT !.role = role])

\* Of any account, one's own included.
Update(c, s, u, role) ==
  /\ MayGive(s, role)
  /\ Starts(c, s, [Asked(s, "filter", "update") EXCEPT !.todo = {u}, !.role = role])

\* A mistake filterMutable could have: one's own id is not passed over.
OthersAndOneself(s, ids) == ids

\* One account or a bulk of them, never one's own: refused in the one case,
\* passed over in the other.
Others(s, ids) == ids \ {s.user}

UpdateStatus(c, s, ids, active) ==
  /\ Others(s, ids) # {}
  /\ Starts(c, s, [Asked(s, "filter", "status") EXCEPT
                     !.todo = Others(s, ids), !.active = active])

Delete(c, s, ids) ==
  /\ Others(s, ids) # {}
  /\ Starts(c, s, [Asked(s, "filter", "delete") EXCEPT !.todo = Others(s, ids)])

\* A mistake canActorMutateTarget could have: whose account it is is not asked.
CanMutateAnyMarketer(actor, power, target) ==
  power = "super_admin" \/ (power = "admin" /\ target.role = "marketer")

\* canActorMutateTarget.
CanMutate(actor, power, target) ==
  \/ power = "super_admin"
  \/ power = "admin" /\ target.role = "marketer" /\ target.by = actor

\* targetRole, once for each id, which is passed over if the query fails (~ ok); a
\* request that no id passes ends there.
TargetRole(c, u, ok) ==
  LET todo == call[c].todo \ {u}
      allowed == IF ok /\ Present(u) /\ CanMutate(call[c].actor, call[c].power, row[u])
                   THEN call[c].allowed \cup {u} ELSE call[c].allowed
  IN /\ At(c, "filter") /\ u \in call[c].todo
     /\ Becomes(c, IF todo = {} /\ allowed = {} THEN NoCall
                   ELSE [call[c] EXCEPT !.todo = todo, !.allowed = allowed,
                           !.stage = IF todo = {} THEN "write" ELSE "filter"])
     /\ UNCHANGED <<issued, row, sessions, setups, emptied>>

Writes(c, op) == At(c, "write") /\ call[c].op = op /\ Becomes(c, NoCall)

\* fk_users_created_by wants the creator's row.
Insert(c, u) ==
  /\ Writes(c, "create")
  /\ u \notin issued /\ Present(call[c].actor)
  /\ issued' = issued \cup {u}
  /\ row' = [row EXCEPT ![u] = [role |-> call[c].role, active |-> TRUE,
                                by |-> call[c].actor]]
  /\ UNCHANGED <<sessions, setups, emptied>>

\* UPDATE ... WHERE id IN (allowed), on the rows there still are.
SetRole(c) ==
  /\ Writes(c, "update")
  /\ row' = [u \in Users |-> IF u \in call[c].allowed /\ Present(u)
                               THEN [row[u] EXCEPT !.role = call[c].role] ELSE row[u]]
  /\ UNCHANGED <<issued, sessions, setups, emptied>>

SetStatus(c) ==
  /\ Writes(c, "status")
  /\ row' = [u \in Users |-> IF u \in call[c].allowed /\ Present(u)
                               THEN [row[u] EXCEPT !.active = call[c].active] ELSE row[u]]
  /\ UNCHANGED <<issued, sessions, setups, emptied>>

\* What a DELETE leaves: fk_users_created_by is ON DELETE SET NULL.
Without(ids) ==
  [u \in Users |-> IF u \in ids THEN NoRow
                   ELSE IF Present(u) /\ row[u].by \in ids
                     THEN [row[u] EXCEPT !.by = Nobody] ELSE row[u]]

\* Sessions of a deleted account live on.
Remove(c) ==
  /\ Writes(c, "delete")
  /\ row' = Without(call[c].allowed)
  /\ emptied' = IF (\E u \in Users : Present(u)) /\ (\A u \in Users : ~ Present(u)')
                  THEN emptied + 1 ELSE emptied
  /\ UNCHANGED <<issued, sessions, setups>>

\* An error answer, a crash of the API or a lost connection, at any point.
Fail(c) ==
  /\ ~ At(c, "idle")
  /\ Becomes(c, NoCall)
  /\ UNCHANGED <<issued, row, sessions, setups, emptied>>

----------------------------------------------------------------------------

Init ==
  /\ issued = {}
  /\ row = [u \in Users |-> NoRow]
  /\ sessions = {}
  /\ call = [c \in Calls |-> NoCall]
  /\ setups = 0 /\ emptied = 0

Setup(c) == NeedsSetup(c) \/ \E u \in Users : Complete(c, u)

Request(c, s) ==
  \/ \E role \in Role : Create(c, s, role)
  \/ \E u \in Users, role \in Given : Update(c, s, u, role)
  \/ \E ids \in { chosen \in SUBSET Users : Cardinality(chosen) <= MaxBulk } :
       Delete(c, s, ids) \/ \E active \in BOOLEAN : UpdateStatus(c, s, ids, active)

Work(c) ==
  \/ \E u \in Users : Insert(c, u) \/ \E ok \in BOOLEAN : TargetRole(c, u, ok)
  \/ SetRole(c) \/ SetStatus(c) \/ Remove(c)
  \/ Fail(c)

Next ==
  \/ \E c \in Calls : Setup(c) \/ Work(c) \/ \E s \in sessions : Request(c, s)
  \/ \E u \in Users : Login(u) \/ Verify2FA(u)

Spec == Init /\ [][Next]_vars

----------------------------------------------------------------------------
(* Properties. *)

\* The last account that can log in is never taken away, deleted or switched
\* off, by a request of somebody who still can: it takes two requests that
\* overlap, or a session that outlived its account (Delete, filterMutable).
LastAccountStays ==
  [][(\E u \in Users : Active(u)) /\ (\A u \in Users : ~ Active(u)') =>
       \E c \in Calls : At(c, "write") /\ ~ Active(call[c].actor)]_vars

\* created_by is lost with the creator.
Own(actor, u) == row[u].by = actor \/ (row[u].by = Nobody /\ ~ Present(actor))

\* An account an Admin's request changes is one that Admin created, however
\* old the check is by then and whatever happened to either since; a deletion
\* also clears created_by (canActorMutateTarget, targetRole).
OnlyOwnAccounts ==
  [][\A u \in Users : Present(u) /\ row'[u] # row[u] =>
       \/ \E c \in Calls :
            /\ At(c, "write") /\ u \in call[c].allowed
            /\ call[c].power = "super_admin" \/ Own(call[c].actor, u)
       \/ \E v \in Users : row[u].by = v /\ ~ Present(v)']_vars

\* The wizard is open while there is no account, and requests that found it
\* open together may each make a Super Admin, but no more than that each time
\* (needsSetup, Complete).
SetupsBounded == setups <= Cardinality(Calls) * (1 + emptied)

\* Why: requests that found the wizard open count as if they had made theirs.
Installing == { c \in Calls : At(c, "setup") }

Tally ==
  /\ setups + Cardinality(Installing) <= Cardinality(Calls) * (1 + emptied)
  /\ (\A u \in Users : ~ Present(u)) => setups <= Cardinality(Calls) * emptied

\* Why an id that passed the check stands for the same account later.
Sound(s) ==
  /\ s.stage \in {"filter", "write"} =>
       /\ s.actor \in issued
       /\ \A u \in s.allowed :
            /\ u \in issued
            /\ s.power = "super_admin" \/ (Present(u) => Own(s.actor, u))
  /\ s.op \in {"status", "delete"} => s.actor \notin s.todo \cup s.allowed

Shape ==
  /\ \A u \in Users : Present(u) => u \in issued
  /\ \A s \in sessions : s.user \in issued
  /\ \A c \in Calls : Sound(call[c])
=============================================================================
