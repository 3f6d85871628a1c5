---------------------------- MODULE AccessProofs ----------------------------
(***************************************************************************)
(* What TLAPS proves of Access, for every set of accounts and requests,    *)
(* every number of sessions and every size of a bulk request.              *)
(***************************************************************************)
EXTENDS Access, FiniteSetTheorems, TLAPS

IInv == TypeOK /\ Shape /\ Tally

----------------------------------------------------------------------------
(* One request. *)

LEMMA NoCallType == /\ NoCall \in CallState
                    /\ NoCall.stage = "idle" /\ NoCall.op = "none"
BY DEF NoCall, CallState, Role

LEMMA BecomesType ==
  ASSUME TypeOK, NEW c \in Calls, NEW s \in CallState, Becomes(c, s)
  PROVE  /\ call' \in [Calls -> CallState]
         /\ call'[c] = s
         /\ \A o \in Calls : o # c => call'[o] = call[o]
BY DEF TypeOK, Becomes

LEMMA IdleSound == Sound(NoCall) /\ Sound(NoCall)'
BY NoCallType DEF Sound

----------------------------------------------------------------------------
(* How the parts of the invariant are kept. *)

\* The tables change so that nothing a request found out turns wrong.
Keeps ==
  /\ issued \subseteq issued'
  /\ \A u \in Users : Present(u)' => u \in issued'
  /\ \A s \in sessions' : s.user \in issued'
  /\ \A a \in issued, u \in issued :
       (Present(u) => Own(a, u)) => (Present(u)' => Own(a, u)')

LEMMA SoundKept ==
  ASSUME Keeps, NEW s \in CallState, Sound(s)
  PROVE  Sound(s)'
BY DEF Keeps, Sound

LEMMA ShapeStep ==
  ASSUME TypeOK, Shape, Keeps, NEW c \in Calls, NEW s \in CallState,
         Becomes(c, s), Sound(s)'
  PROVE  Shape'
<1>1. ASSUME NEW o \in Calls
      PROVE  Sound(call[o])'
  <2>1. CASE o = c
    BY <2>1, BecomesType
  <2>2. CASE o # c
    BY <2>2, BecomesType, SoundKept DEF TypeOK, Shape
  <2> QED
    BY <2>1, <2>2
<1> QED
  BY <1>1 DEF Shape, Keeps

LEMMA SameTables ==
  ASSUME Shape, UNCHANGED <<issued, row, sessions>>
  PROVE  Keeps
BY DEF Keeps, Shape, Present, Own

LEMMA Counts ==
  ASSUME TypeOK, Tally
  PROVE  /\ IsFiniteSet(Installing) /\ Cardinality(Installing) \in Nat
         /\ Cardinality(Installing) <= Cardinality(Calls)
         /\ Cardinality(Calls) \in Nat
         /\ setups \in Nat /\ emptied \in Nat
<1>1. Installing \subseteq Calls
  BY DEF Installing
<1> QED
  BY <1>1, FS_Subset, FS_CardinalityType, AccessAssumption DEF TypeOK

LEMMA Fewer ==
  ASSUME NEW S, NEW T, IsFiniteSet(T), S \subseteq T
  PROVE  IsFiniteSet(S) /\ Cardinality(S) <= Cardinality(T) /\ Cardinality(S) \in Nat
BY FS_Subset, FS_CardinalityType

LEMMA Product ==
  ASSUME NEW n \in Nat, NEW e \in Nat
  PROVE  /\ n * e \in Nat /\ n * (1 + e) \in Nat
         /\ n * (1 + e) = n * e + n
         /\ n * (1 + (e + 1)) = n * (1 + e) + n
OBVIOUS

\* A request that does not find the wizard open, and takes no account away.
LEMMA TallyKept ==
  ASSUME TypeOK, Tally, NEW c \in Calls,
         \A o \in Calls : o # c => call'[o] = call[o],
         call'[c].stage # "setup",
         UNCHANGED <<setups, emptied>>,
         \A u \in Users : Present(u) => Present(u)'
  PROVE  Tally'
<1>1. Installing' \subseteq Installing
  BY DEF Installing, At
<1>2. /\ Cardinality(Installing') <= Cardinality(Installing)
      /\ Cardinality(Installing') \in Nat
  BY <1>1, Counts, Fewer
<1> QED
  BY <1>2, Counts, Product DEF Tally

\* A step of one request on unchanged tables.
LEMMA QuietInv ==
  ASSUME IInv, NEW c \in Calls, NEW s \in CallState, Becomes(c, s),
         Sound(s), s.stage # "setup",
         UNCHANGED <<issued, row, sessions, setups, emptied>>
  PROVE  IInv'
<1>1. /\ call' \in [Calls -> CallState] /\ call'[c] = s
      /\ \A o \in Calls : o # c => call'[o] = call[o]
  BY BecomesType DEF IInv
<1>2. TypeOK'
  BY <1>1 DEF IInv, TypeOK
<1>3. Shape'
  <2>1. Keeps
    BY SameTables DEF IInv
  <2> QED
    BY <2>1, SoundKept, ShapeStep DEF IInv
<1>4. Tally'
  BY <1>1, TallyKept DEF IInv, Present
<1> QED
  BY <1>2, <1>3, <1>4 DEF IInv

----------------------------------------------------------------------------
(* One lemma per action. *)

LEMMA InitInv == Init => IInv
<1> SUFFICES ASSUME Init PROVE IInv
  OBVIOUS
<1>1. TypeOK
  <2>1. call \in [Calls -> CallState] /\ row \in [Users -> Row \cup {NoRow}]
    BY NoCallType DEF Init
  <2> QED
    BY <2>1 DEF Init, TypeOK
<1>2. Shape
  <2>1. \A c \in Calls : Sound(call[c])
    BY IdleSound DEF Init
  <2> QED
    BY <2>1 DEF Init, Shape, Present
<1>3. Tally
  <2>1. Installing = {}
    BY NoCallType DEF Init, Installing, At
  <2>2. Cardinality({}) = 0 /\ Cardinality(Calls) \in Nat
    BY FS_EmptySet, FS_CardinalityType, AccessAssumption
  <2> QED
    BY <2>1, <2>2 DEF Init, Tally
<1> QED
  BY <1>1, <1>2, <1>3 DEF IInv

LEMMA LoginInv ==
  ASSUME IInv, NEW u \in Users, Login(u) \/ Verify2FA(u)
  PROVE  IInv'
<1> DEFINE s == [user |-> u, role |-> row[u].role]
<1>0. Present(u) /\ NewSession(u)
  BY DEF Login, Verify2FA, Active
<1>1. s \in Session /\ u \in issued
  <2>1. row[u] \in Row
    BY <1>0 DEF IInv, TypeOK, Present
  <2> QED
    BY <1>0, <2>1 DEF IInv, Shape, NewSession, Session, Row, Role
<1>2. TypeOK'
  BY <1>0, <1>1 DEF IInv, TypeOK, NewSession
<1>3. Shape'
  <2>1. /\ UNCHANGED <<issued, row, call>>
        /\ \A t \in sessions' : t.user \in issued
    BY <1>0, <1>1 DEF NewSession, IInv, Shape
  <2>2. \A o \in Calls : Sound(call[o])'
    BY <2>1 DEF IInv, Shape, Sound, Present, Own
  <2> QED
    BY <2>1, <2>2 DEF IInv, Shape, Present
<1>4. Tally'
  BY <1>0 DEF NewSession, IInv, Tally, Installing, At, Present
<1> QED
  BY <1>2, <1>3, <1>4 DEF IInv

LEMMA NeedsSetupInv ==
  ASSUME IInv, NEW c \in Calls, NeedsSetup(c)
  PROVE  IInv'
<1> DEFINE s == [NoCall EXCEPT !.stage = "setup"]
<1>1. s \in CallState /\ Sound(s)'
  BY DEF NoCall, CallState, Role, Sound
<1>2. Becomes(c, s) /\ UNCHANGED <<issued, row, sessions, setups, emptied>>
  BY DEF NeedsSetup
<1>3. TypeOK'
  BY <1>1, <1>2, BecomesType DEF IInv, TypeOK
<1>4. Shape'
  BY <1>1, <1>2, SameTables, ShapeStep DEF IInv
<1>5. Tally'
  <2>1. setups <= Cardinality(Calls) * emptied
    BY DEF NeedsSetup, IInv, Tally
  <2>2. /\ Cardinality(Installing') <= Cardinality(Calls)
        /\ Cardinality(Installing') \in Nat
    BY Fewer, AccessAssumption DEF Installing
  <2> QED
    BY <1>2, <2>1, <2>2, Counts, Product DEF IInv, Tally, Present
<1> QED
  BY <1>3, <1>4, <1>5 DEF IInv

\* A new row, made by the wizard or by an account there is.
LEMMA Inserted ==
  ASSUME IInv, NEW c \in Calls, NEW u \in Users, NEW r \in Row,
         u \notin issued, issued' = issued \cup {u},
         row' = [row EXCEPT ![u] = r], sessions' = sessions,
         Becomes(c, NoCall)
  PROVE  /\ call' \in [Calls -> CallState] /\ row' \in [Users -> Row \cup {NoRow}]
         /\ call'[c] = NoCall /\ \A o \in Calls : o # c => call'[o] = call[o]
         /\ Present(u)' /\ \A v \in Users : Present(v) => Present(v)'
         /\ Shape'
<1>1. /\ call' \in [Calls -> CallState] /\ call'[c] = NoCall
      /\ \A o \in Calls : o # c => call'[o] = call[o]
  BY NoCallType, BecomesType DEF IInv
<1>2. /\ row' \in [Users -> Row \cup {NoRow}]
      /\ row'[u] = r /\ \A v \in Users : v # u => row'[v] = row[v]
  BY DEF IInv, TypeOK
<1>3. Present(u)' /\ \A v \in Users : Present(v) => Present(v)'
  BY <1>2, NoRowAssumption DEF Present
<1>4. Keeps
  <2>1. issued \subseteq Users
    BY DEF IInv, TypeOK
  <2>2. \A a \in issued : row'[a] = row[a]
    BY <1>2, <2>1
  <2>3. \A v \in Users : Present(v)' => v \in issued'
    BY <1>2 DEF IInv, Shape, Present
  <2>4. \A s \in sessions' : s.user \in issued'
    BY DEF IInv, Shape
  <2> QED
    BY <2>2, <2>3, <2>4 DEF Keeps, Present, Own
<1>5. Shape'
  BY <1>4, NoCallType, IdleSound, ShapeStep DEF IInv
<1> QED
  BY <1>1, <1>2, <1>3, <1>5

LEMMA CompleteInv ==
  ASSUME IInv, NEW c \in Calls, NEW u \in Users, Complete(c, u)
  PROVE  IInv'
<1> DEFINE r == [role |-> "super_admin", active |-> TRUE, by |-> Nobody]
<1>1. r \in Row
  BY DEF Row, Role
<1>2. /\ call' \in [Calls -> CallState] /\ row' \in [Users -> Row \cup {NoRow}]
      /\ call'[c] = NoCall /\ \A o \in Calls : o # c => call'[o] = call[o]
      /\ Present(u)' /\ Shape'
  BY <1>1, Inserted DEF Complete
<1>3. TypeOK'
  BY <1>2 DEF IInv, TypeOK, Complete
<1>4. Tally'
  <2>1. c \in Installing /\ Installing' = Installing \ {c}
    BY <1>2, NoCallType DEF Complete, Installing, At
  <2>2. Cardinality(Installing') = Cardinality(Installing) - 1
    BY <2>1, Counts, FS_RemoveElement DEF IInv
  <2> QED
    BY <1>2, <2>2, Counts, Product DEF Complete, IInv, Tally
<1> QED
  BY <1>2, <1>3, <1>4 DEF IInv

LEMMA InsertInv ==
  ASSUME IInv, NEW c \in Calls, NEW u \in Users, Insert(c, u)
  PROVE  IInv'
<1> DEFINE r == [role |-> call[c].role, active |-> TRUE, by |-> call[c].actor]
<1>1. r \in Row
  BY DEF IInv, TypeOK, CallState, Row
<1>2. /\ call' \in [Calls -> CallState] /\ row' \in [Users -> Row \cup {NoRow}]
      /\ call'[c] = NoCall /\ \A o \in Calls : o # c => call'[o] = call[o]
      /\ \A v \in Users : Present(v) => Present(v)'
      /\ Shape'
  BY <1>1, Inserted DEF Insert, Writes
<1>3. TypeOK'
  BY <1>2 DEF IInv, TypeOK, Insert
<1>4. Tally'
  BY <1>2, NoCallType, TallyKept DEF Insert, IInv
<1> QED
  BY <1>2, <1>3, <1>4 DEF IInv

----------------------------------------------------------------------------
(* Requests of the users page. *)

LEMMA AskedType ==
  ASSUME IInv, NEW s \in sessions, NEW stage \in {"filter", "write"},
         NEW op \in {"create", "update", "status", "delete"}
  PROVE  /\ Asked(s, stage, op) \in CallState
         /\ Asked(s, stage, op).actor = s.user
         /\ Asked(s, stage, op).stage = stage /\ Asked(s, stage, op).op = op
         /\ Asked(s, stage, op).allowed = {} /\ Asked(s, stage, op).todo = {}
         /\ s.user \in issued /\ s.user \in Users
<1>1. s \in Session
  BY DEF IInv, TypeOK
<1> QED
  BY <1>1 DEF IInv, Shape, Session, Asked, NoCall, CallState, Role

\* A request sets out with nothing allowed yet.
LEMMA StartsInv ==
  ASSUME IInv, NEW c \in Calls, NEW s \in sessions, NEW q \in CallState,
         Starts(c, s, q), q.actor = s.user, q.stage \in {"filter", "write"},
         q.allowed = {}, q.op \in {"status", "delete"} => s.user \notin q.todo
  PROVE  IInv'
<1>1. Sound(q)
  BY DEF IInv, Shape, Sound
<1> QED
  BY <1>1, QuietInv DEF Starts

LEMMA RequestInv ==
  ASSUME IInv, NEW c \in Calls, NEW s \in sessions, Request(c, s)
  PROVE  IInv'
<1>1. ASSUME NEW role \in Role, Create(c, s, role)
      PROVE  IInv'
  <2> DEFINE q == [Asked(s, "write", "create") EXCEPT !.role = role]
  <2>1. /\ q \in CallState /\ q.actor = s.user /\ q.stage = "write"
        /\ q.allowed = {} /\ q.op = "create"
    BY AskedType DEF CallState
  <2> QED
    BY <1>1, <2>1, StartsInv DEF Create
<1>2. ASSUME NEW u \in Users, NEW role \in Given, Update(c, s, u, role)
      PROVE  IInv'
  <2> DEFINE q == [Asked(s, "filter", "update") EXCEPT !.todo = {u}, !.role = role]
  <2>1. /\ q \in CallState /\ q.actor = s.user /\ q.stage = "filter"
        /\ q.allowed = {} /\ q.op = "update"
    <3>1. q = [Asked(s, "filter", "update") EXCEPT !.todo = {u}, !.role = role]
      OBVIOUS
    <3> HIDE DEF q
    <3>2. PICK a \in CallState :
               /\ a = Asked(s, "filter", "update") /\ a.actor = s.user
               /\ a.stage = "filter" /\ a.op = "update" /\ a.allowed = {}
      BY AskedType
    <3>3. {u} \in SUBSET Users /\ role \in Role
      BY GivenAssumption
    <3> QED
      <4>1. q = [a EXCEPT !.todo = {u}, !.role = role]
        BY <3>1, <3>2
      <4> QED
        BY <3>2, <3>3, <4>1 DEF CallState
  <2> QED
    BY <1>2, <2>1, StartsInv DEF Update
<1>3. ASSUME NEW ids \in SUBSET Users, Delete(c, s, ids)
      PROVE  IInv'
  <2> DEFINE q == [Asked(s, "filter", "delete") EXCEPT !.todo = Others(s, ids)]
  <2>1. /\ q \in CallState /\ q.actor = s.user /\ q.stage = "filter"
        /\ q.allowed = {} /\ q.op = "delete" /\ s.user \notin q.todo
    BY AskedType DEF CallState, Others
  <2> QED
    BY <1>3, <2>1, StartsInv DEF Delete
<1>4. ASSUME NEW ids \in SUBSET Users, NEW active \in BOOLEAN,
             UpdateStatus(c, s, ids, active)
      PROVE  IInv'
  <2> DEFINE q == [Asked(s, "filter", "status") EXCEPT
                     !.todo = Others(s, ids), !.active = active]
  <2>1. /\ q \in CallState /\ q.actor = s.user /\ q.stage = "filter"
        /\ q.allowed = {} /\ q.op = "status" /\ s.user \notin q.todo
    <3>1. Others(s, ids) \in SUBSET Users /\ s.user \notin Others(s, ids)
      BY DEF Others
    <3>2. q = [Asked(s, "filter", "status") EXCEPT
                 !.todo = Others(s, ids), !.active = active]
      OBVIOUS
    <3> HIDE DEF q
    <3>3. PICK a \in CallState :
               /\ a = Asked(s, "filter", "status") /\ a.actor = s.user
               /\ a.stage = "filter" /\ a.op = "status" /\ a.allowed = {}
      BY AskedType
    <3> QED
      <4>1. q = [a EXCEPT !.todo = Others(s, ids), !.active = active]
        BY <3>2, <3>3
      <4> QED
        BY <3>1, <3>3, <4>1 DEF CallState
  <2> QED
    BY <1>4, <2>1, StartsInv DEF UpdateStatus
<1> QED
  BY <1>1, <1>2, <1>3, <1>4 DEF Request

LEMMA TargetRoleInv ==
  ASSUME IInv, NEW c \in Calls, NEW u \in Users, NEW ok \in BOOLEAN, TargetRole(c, u, ok)
  PROVE  IInv'
<1> DEFINE todo == call[c].todo \ {u}
           may == ok /\ Present(u) /\ CanMutate(call[c].actor, call[c].power, row[u])
           allowed == IF may THEN call[c].allowed \cup {u} ELSE call[c].allowed
           stage == IF todo = {} THEN "write" ELSE "filter"
           s == [call[c] EXCEPT !.todo = todo, !.allowed = allowed, !.stage = stage]
<1>1. /\ call[c].stage = "filter" /\ u \in call[c].todo
      /\ Becomes(c, IF todo = {} /\ allowed = {} THEN NoCall ELSE s)
      /\ UNCHANGED <<issued, row, sessions, setups, emptied>>
  BY DEF TargetRole, At
<1>2. call[c] \in CallState /\ Sound(call[c])
  BY DEF IInv, TypeOK, Shape
<1>3. CASE todo = {} /\ allowed = {}
  <2>1. Becomes(c, NoCall)
    BY <1>1, <1>3
  <2> QED
    BY <1>1, <2>1, NoCallType, IdleSound, QuietInv
<1>4. CASE ~ (todo = {} /\ allowed = {})
  <2>1. /\ s \in CallState /\ s.stage = stage /\ s.stage \in {"filter", "write"}
        /\ s.todo = todo /\ s.allowed = allowed /\ s.op = call[c].op
        /\ s.actor = call[c].actor /\ s.power = call[c].power
    BY <1>2 DEF CallState
  <2>2. may => /\ u \in issued
               /\ call[c].power = "super_admin" \/ Own(call[c].actor, u)
    BY DEF IInv, Shape, CanMutate, Own
  <2>3. Sound(s)
    <3> HIDE DEF s, may, stage
    <3> QED
      BY <1>1, <1>2, <2>1, <2>2 DEF Sound
  <2>4. Becomes(c, s)
    BY <1>1, <1>4
  <2> HIDE DEF s, stage
  <2> QED
    BY <1>1, <2>1, <2>3, <2>4, QuietInv
<1> QED
  BY <1>3, <1>4

\* An UPDATE of the rows there still are, which leaves created_by alone.
LEMMA Updated ==
  ASSUME IInv, NEW c \in Calls, Becomes(c, NoCall),
         row' \in [Users -> Row \cup {NoRow}],
         \A u \in Users : /\ Present(u)' <=> Present(u)
                          /\ Present(u) => row'[u].by = row[u].by,
         UNCHANGED <<issued, sessions, setups, emptied>>
  PROVE  IInv'
<1>1. /\ call' \in [Calls -> CallState] /\ call'[c] = NoCall
      /\ \A o \in Calls : o # c => call'[o] = call[o]
  BY NoCallType, BecomesType DEF IInv
<1>2. TypeOK'
  BY <1>1 DEF IInv, TypeOK
<1>3. Keeps
  <2>1. issued \subseteq Users
    BY DEF IInv, TypeOK
  <2> QED
    BY <2>1 DEF Keeps, IInv, Shape, Own
<1>4. Shape'
  BY <1>3, NoCallType, IdleSound, ShapeStep DEF IInv
<1>5. Tally'
  BY <1>1, NoCallType, TallyKept DEF IInv
<1> QED
  BY <1>2, <1>4, <1>5 DEF IInv

LEMMA SetRoleInv ==
  ASSUME IInv, NEW c \in Calls, SetRole(c)
  PROVE  IInv'
<1>1. /\ row \in [Users -> Row \cup {NoRow}] /\ call[c].role \in Role
  BY DEF IInv, TypeOK, CallState
<1>2. ASSUME NEW u \in Users
      PROVE  /\ row'[u] \in Row \cup {NoRow}
             /\ row'[u] # NoRow <=> row[u] # NoRow
             /\ row[u] # NoRow => row'[u].by = row[u].by
  <2>1. CASE u \in call[c].allowed /\ Present(u)
    <3>1. row[u] \in Row /\ row'[u] = [row[u] EXCEPT !.role = call[c].role]
      BY <1>1, <2>1 DEF SetRole, Present
    <3>2. row'[u] \in Row /\ row'[u].by = row[u].by
      BY <1>1, <3>1 DEF Row
    <3> QED
      BY <2>1, <3>2, NoRowAssumption DEF Present
  <2>2. CASE ~ (u \in call[c].allowed /\ Present(u))
    BY <1>1, <2>2 DEF SetRole
  <2> QED
    BY <2>1, <2>2
<1>3. row' \in [Users -> Row \cup {NoRow}]
  BY <1>2 DEF SetRole
<1> QED
  BY <1>2, <1>3, Updated DEF SetRole, Writes, Present

LEMMA SetStatusInv ==
  ASSUME IInv, NEW c \in Calls, SetStatus(c)
  PROVE  IInv'
<1>1. /\ row \in [Users -> Row \cup {NoRow}] /\ call[c].active \in BOOLEAN
  BY DEF IInv, TypeOK, CallState
<1>2. ASSUME NEW u \in Users
      PROVE  /\ row'[u] \in Row \cup {NoRow}
             /\ row'[u] # NoRow <=> row[u] # NoRow
             /\ row[u] # NoRow => row'[u].by = row[u].by
  <2>1. CASE u \in call[c].allowed /\ Present(u)
    <3>1. row[u] \in Row /\ row'[u] = [row[u] EXCEPT !.active = call[c].active]
      BY <1>1, <2>1 DEF SetStatus, Present
    <3>2. row'[u] \in Row /\ row'[u].by = row[u].by
      BY <1>1, <3>1 DEF Row
    <3> QED
      BY <2>1, <3>2, NoRowAssumption DEF Present
  <2>2. CASE ~ (u \in call[c].allowed /\ Present(u))
    BY <1>1, <2>2 DEF SetStatus
  <2> QED
    BY <2>1, <2>2
<1>3. row' \in [Users -> Row \cup {NoRow}]
  BY <1>2 DEF SetStatus
<1> QED
  BY <1>2, <1>3, Updated DEF SetStatus, Writes, Present

\* What a DELETE leaves of each row.
LEMMA WithoutType ==
  ASSUME TypeOK, NEW ids \in SUBSET Users, row' = Without(ids)
  PROVE  /\ row' \in [Users -> Row \cup {NoRow}]
         /\ \A u \in Users :
              /\ Present(u)' <=> Present(u) /\ u \notin ids
              /\ Present(u)' => /\ row'[u].by = IF row[u].by \in ids THEN Nobody ELSE row[u].by
                                /\ row'[u].active = row[u].active
                                /\ row[u].by \notin ids => row'[u] = row[u]
<1>1. ASSUME NEW u \in Users
      PROVE  /\ row'[u] \in Row \cup {NoRow}
             /\ row'[u] # NoRow <=> row[u] # NoRow /\ u \notin ids
             /\ row'[u] # NoRow =>
                  /\ row'[u].by = IF row[u].by \in ids THEN Nobody ELSE row[u].by
                  /\ row'[u].active = row[u].active
                  /\ row[u].by \notin ids => row'[u] = row[u]
  <2>1. row[u] \in Row \cup {NoRow}
    BY DEF TypeOK
  <2>2. CASE u \in ids
    BY <2>2 DEF Without
  <2>3. CASE u \notin ids /\ Present(u) /\ row[u].by \in ids
    <3>1. row[u] \in Row /\ row'[u] = [row[u] EXCEPT !.by = Nobody]
      BY <2>1, <2>3 DEF Without, Present
    <3>2. /\ row'[u] \in Row /\ row'[u].by = Nobody /\ row'[u].active = row[u].active
      BY <3>1 DEF Row
    <3> QED
      BY <2>3, <3>2, NoRowAssumption DEF Present
  <2>4. CASE u \notin ids /\ ~ (Present(u) /\ row[u].by \in ids)
    BY <2>1, <2>4 DEF Without, Present
  <2> QED
    BY <2>2, <2>3, <2>4
<1>2. row' \in [Users -> Row \cup {NoRow}]
  BY <1>1 DEF Without
<1> QED
  BY <1>1, <1>2 DEF Present

LEMMA RemoveInv ==
  ASSUME IInv, NEW c \in Calls, Remove(c)
  PROVE  IInv'
<1> DEFINE ids == call[c].allowed
<1>1. /\ ids \in SUBSET Users /\ row' = Without(ids) /\ call[c].stage = "write"
      /\ Becomes(c, NoCall) /\ UNCHANGED <<issued, sessions, setups>>
  BY DEF Remove, Writes, At, IInv, TypeOK, CallState
<1>2. /\ row' \in [Users -> Row \cup {NoRow}]
      /\ \A u \in Users :
           /\ Present(u)' <=> Present(u) /\ u \notin ids
           /\ Present(u)' => row'[u].by = IF row[u].by \in ids THEN Nobody ELSE row[u].by
  BY <1>1, WithoutType DEF IInv
<1>3. /\ call' \in [Calls -> CallState] /\ call'[c] = NoCall
      /\ \A o \in Calls : o # c => call'[o] = call[o]
  BY <1>1, NoCallType, BecomesType DEF IInv
<1> HIDE DEF ids
<1>4. TypeOK'
  BY <1>1, <1>2, <1>3 DEF IInv, TypeOK, Remove
<1>5. Shape'
  <2>1. issued \subseteq Users
    BY DEF IInv, TypeOK
  <2>2. ASSUME NEW a \in issued, NEW u \in issued, Present(u) => Own(a, u), Present(u)'
        PROVE  Own(a, u)'
    <3>1. a \in Users /\ u \in Users /\ a # Nobody
      BY <2>1, AccessAssumption
    <3>2. /\ row[u].by = a \/ (row[u].by = Nobody /\ ~ Present(a))
          /\ row'[u].by = IF row[u].by \in ids THEN Nobody ELSE row[u].by
          /\ Present(a)' => Present(a) /\ a \notin ids
      BY <1>2, <2>2, <3>1 DEF Own
    <3>3. Nobody \notin ids
      BY <1>1, AccessAssumption
    <3> QED
      BY <3>1, <3>2, <3>3 DEF Own
  <2>3. Keeps
    BY <1>1, <1>2, <2>2 DEF Keeps, IInv, Shape
  <2> QED
    BY <1>1, <2>3, NoCallType, IdleSound, ShapeStep DEF IInv
<1>6. Tally'
  <2>1. /\ Cardinality(Installing') <= Cardinality(Installing)
        /\ Cardinality(Installing') \in Nat
    <3>1. Installing' \subseteq Installing
      BY <1>3, NoCallType DEF Installing, At
    <3> QED
      BY <3>1, Counts, Fewer DEF IInv
  <2>2. CASE (\E u \in Users : Present(u)) /\ (\A u \in Users : ~ Present(u)')
    <3>1. emptied' = emptied + 1
      BY <2>2 DEF Remove
    <3> QED
      BY <1>1, <2>1, <3>1, Counts, Product DEF IInv, Tally
  <2>3. CASE ~ ((\E u \in Users : Present(u)) /\ (\A u \in Users : ~ Present(u)'))
    <3>1. emptied' = emptied
      BY <2>3 DEF Remove
    <3>2. (\A u \in Users : ~ Present(u)') => (\A u \in Users : ~ Present(u))
      BY <2>3
    <3> QED
      BY <1>1, <2>1, <3>1, <3>2, Counts, Product DEF IInv, Tally
  <2> QED
    BY <2>2, <2>3
<1> QED
  BY <1>4, <1>5, <1>6 DEF IInv

LEMMA FailInv ==
  ASSUME IInv, NEW c \in Calls, Fail(c)
  PROVE  IInv'
BY NoCallType, IdleSound, QuietInv DEF Fail

----------------------------------------------------------------------------
(* The theorems. *)

LEMMA NextInv == IInv /\ [Next]_vars => IInv'
<1> SUFFICES ASSUME IInv, [Next]_vars PROVE IInv'
  OBVIOUS
<1>1. ASSUME NEW c \in Calls, Setup(c)
      PROVE  IInv'
  BY <1>1, NeedsSetupInv, CompleteInv DEF Setup
<1>2. ASSUME NEW c \in Calls, Work(c)
      PROVE  IInv'
  BY <1>2, TargetRoleInv, InsertInv, SetRoleInv, SetStatusInv, RemoveInv, FailInv DEF Work
<1>3. CASE UNCHANGED vars
  BY <1>3 DEF vars, IInv, TypeOK, Shape, Sound, Own, Tally, Installing, At, Present
<1> QED
  BY <1>1, <1>2, <1>3, RequestInv, LoginInv DEF Next

LEMMA Invariance == Spec => []IInv
BY InitInv, NextInv, PTL DEF Spec

\* Accounts, sessions and requests stay well typed.
THEOREM TypeCorrect == Spec => []TypeOK
BY Invariance, PTL DEF IInv

\* The wizard makes no more Super Admins than there are requests at a time, and
\* as many again for each time the last account was deleted.
THEOREM WizardIsBounded == Spec => []SetupsBounded
<1>1. IInv => SetupsBounded
  BY Counts, Product DEF IInv, Tally, SetupsBounded
<1> QED
  BY <1>1, Invariance, PTL

\* Somebody who can log in never ends that nobody can.
THEOREM SomebodyStays == Spec => LastAccountStays
<1> DEFINE Stays ==
      (\E u \in Users : Active(u)) /\ (\A u \in Users : ~ Active(u)') =>
        \E c \in Calls : At(c, "write") /\ ~ Active(call[c].actor)
<1>1. ASSUME IInv, Next
      PROVE  Stays
  <2> SUFFICES ASSUME NEW u \in Users, Active(u), \A v \in Users : ~ Active(v)'
               PROVE  \E c \in Calls : At(c, "write") /\ ~ Active(call[c].actor)
    OBVIOUS
  <2> USE <1>1
  <2>1. row \in [Users -> Row \cup {NoRow}] /\ row' # row
    BY DEF IInv, TypeOK, Active, Present
  <2>2. ASSUME NEW c \in Calls, NEW v \in Users, Complete(c, v) \/ Insert(c, v)
        PROVE  FALSE
    <3>1. row'[v].active = TRUE /\ row'[v] \in Row
      <4>1. call[c].role \in Role /\ call[c].actor \in Users \cup {Nobody}
        BY DEF IInv, TypeOK, CallState
      <4>2. \/ row'[v] = [role |-> "super_admin", active |-> TRUE, by |-> Nobody]
            \/ row'[v] = [role |-> call[c].role, active |-> TRUE, by |-> call[c].actor]
        BY <2>1, <2>2 DEF Complete, Insert
      <4>3. ASSUME NEW role \in Role, NEW by \in Users \cup {Nobody},
                   row'[v] = [role |-> role, active |-> TRUE, by |-> by]
            PROVE  row'[v].active = TRUE /\ row'[v] \in Row
        BY <4>3 DEF Row
      <4>4. "super_admin" \in Role
        BY DEF Role
      <4> QED
        BY <4>1, <4>2, <4>3, <4>4
    <3> QED
      BY <3>1, NoRowAssumption DEF Active, Present
  <2>3. ASSUME NEW c \in Calls, SetRole(c)
        PROVE  FALSE
    <3>1. row[u] \in Row /\ call[c].role \in Role
      BY <2>1 DEF Active, Present, IInv, TypeOK, CallState
    <3>2. row'[u] = row[u] \/ row'[u] = [row[u] EXCEPT !.role = call[c].role]
      BY <2>3 DEF SetRole
    <3>3. row'[u] \in Row /\ row'[u].active = row[u].active
      BY <3>1, <3>2 DEF Row
    <3> QED
      BY <3>3, NoRowAssumption DEF Active, Present
  <2>4. ASSUME NEW c \in Calls, SetStatus(c) \/ Remove(c)
        PROVE  At(c, "write") /\ ~ Active(call[c].actor)
    <3>1. /\ At(c, "write") /\ call[c].actor \in Users
          /\ call[c].actor \notin call[c].allowed
          /\ call[c].allowed \in SUBSET Users
      BY <2>4 DEF SetStatus, Remove, Writes, At, IInv, Shape, Sound, TypeOK, CallState
    <3>2. PICK a \in Users : a = call[c].actor
      BY <3>1
    <3>3. Present(a) => Present(a)' /\ row'[a].active = row[a].active
      <4>1. CASE SetStatus(c)
        BY <3>1, <3>2, <4>1 DEF SetStatus, Present
      <4>2. CASE Remove(c)
        <5>1. row' = Without(call[c].allowed)
          BY <4>2 DEF Remove
        <5> QED
          BY <3>1, <3>2, <5>1, WithoutType DEF IInv
      <4> QED
        BY <2>4, <4>1, <4>2
    <3>4. ~ Active(a)
      BY <3>3 DEF Active
    <3> QED
      BY <3>1, <3>2, <3>4
  <2> QED
    BY <2>1, <2>2, <2>3, <2>4
    DEF Next, Setup, Work, Request, NeedsSetup, Login, Verify2FA, NewSession,
        TargetRole, Fail, Create, Update, UpdateStatus, Delete, Starts
<1>2. IInv /\ [Next]_vars => [Stays]_vars
  BY <1>1
<1> QED
  BY <1>2, Invariance, PTL DEF Spec, LastAccountStays

\* A check that is old when the row is written was still about that account.
THEOREM OwnAccountsOnly == Spec => OnlyOwnAccounts
<1> DEFINE OwnOnly ==
      \A u \in Users : Present(u) /\ row'[u] # row[u] =>
        \/ \E c \in Calls :
             /\ At(c, "write") /\ u \in call[c].allowed
             /\ call[c].power = "super_admin" \/ Own(call[c].actor, u)
        \/ \E v \in Users : row[u].by = v /\ ~ Present(v)'
<1>1. ASSUME IInv, Next
      PROVE  OwnOnly
  <2> SUFFICES ASSUME NEW u \in Users, Present(u), row'[u] # row[u]
               PROVE  \/ \E c \in Calls :
                           /\ At(c, "write") /\ u \in call[c].allowed
                           /\ call[c].power = "super_admin" \/ Own(call[c].actor, u)
                      \/ \E v \in Users : row[u].by = v /\ ~ Present(v)'
    OBVIOUS
  <2> USE <1>1
  <2>1. ASSUME NEW c \in Calls, At(c, "write"), u \in call[c].allowed
        PROVE  call[c].power = "super_admin" \/ Own(call[c].actor, u)
    BY <2>1 DEF At, IInv, Shape, Sound
  <2>2. ASSUME NEW c \in Calls, NEW v \in Users, Complete(c, v) \/ Insert(c, v)
        PROVE  FALSE
    BY <2>2 DEF Complete, Insert, IInv, TypeOK, Shape
  <2>3. ASSUME NEW c \in Calls, SetRole(c) \/ SetStatus(c)
        PROVE  At(c, "write") /\ u \in call[c].allowed
    BY <2>3 DEF SetRole, SetStatus, Writes
  <2>4. ASSUME NEW c \in Calls, Remove(c)
        PROVE  \/ At(c, "write") /\ u \in call[c].allowed
               \/ \E v \in Users : row[u].by = v /\ ~ Present(v)'
    <3>1. /\ call[c].allowed \in SUBSET Users /\ At(c, "write")
          /\ row' = Without(call[c].allowed)
      BY <2>4 DEF Remove, Writes, IInv, TypeOK, CallState
    <3>2. CASE u \notin call[c].allowed
      <4>1. PICK v \in call[c].allowed : row[u].by = v
        BY <3>1, <3>2, WithoutType DEF IInv
      <4>2. ~ Present(v)'
        BY <3>1, <4>1, WithoutType DEF IInv
      <4> QED
        BY <3>1, <4>1, <4>2
    <3> QED
      BY <3>1, <3>2
  <2>5. row' # row
    OBVIOUS
  <2> QED
    BY <2>1, <2>2, <2>3, <2>4, <2>5
    DEF Next, Setup, Work, Request, NeedsSetup, Login, Verify2FA, NewSession,
        TargetRole, Fail, Create, Update, UpdateStatus, Delete, Starts
<1>2. IInv /\ [Next]_vars => [OwnOnly]_vars
  BY <1>1
<1> QED
  BY <1>2, Invariance, PTL DEF Spec, OnlyOwnAccounts
=============================================================================
