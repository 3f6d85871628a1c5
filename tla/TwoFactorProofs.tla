--------------------------- MODULE TwoFactorProofs ---------------------------
(***************************************************************************)
(* What TLAPS proves of TwoFactor, for every set of browsers, requests,    *)
(* secrets and tokens, every cap and every number of faults.               *)
(***************************************************************************)
EXTENDS TwoFactor, FiniteSetTheorems, TLAPS

----------------------------------------------------------------------------
(* Types. *)

\* A new state of one request.
LEMMA BecomesType ==
  ASSUME TypeOK, NEW c \in Calls, NEW s \in CallState, Becomes(c, s)
  PROVE  /\ call' \in [Calls -> CallState]
         /\ call'[c] = s
         /\ \A o \in Calls : o # c => call'[o] = call[o]
BY DEF TypeOK, Becomes

LEMMA NoCallType == /\ NoCall \in CallState
                    /\ NoCall.op = "none" /\ NoCall.stage = "idle" /\ NoCall.token = None
                    /\ NoCall.device = None
BY DEF NoCall, CallState, Op, Stage

LEMMA GoesType ==
  ASSUME TypeOK, NEW c \in Calls, NEW stage \in Stage, Goes(c, stage)
  PROVE  /\ call' \in [Calls -> CallState]
         /\ call'[c].stage = stage /\ call'[c].token = call[c].token
         /\ call'[c].op = call[c].op /\ call'[c].browser = call[c].browser
         /\ call'[c].code = call[c].code
         /\ \A o \in Calls : o # c => call'[o] = call[o]
<1> DEFINE s == [call[c] EXCEPT !.stage = stage]
<1>1. /\ s \in CallState /\ s.stage = stage /\ s.token = call[c].token
      /\ s.op = call[c].op /\ s.browser = call[c].browser /\ s.code = call[c].code
  BY DEF TypeOK, CallState
<1>2. Becomes(c, s)
  BY DEF Goes
<1> HIDE DEF s
<1> QED
  BY <1>1, <1>2, BecomesType

LEMMA EndsType ==
  ASSUME TypeOK, NEW c \in Calls, Becomes(c, NoCall)
  PROVE  /\ call' \in [Calls -> CallState]
         /\ call'[c] = NoCall
         /\ \A o \in Calls : o # c => call'[o] = call[o]
BY NoCallType, BecomesType

LEMMA FaultType ==
  ASSUME TypeOK, Fault
  PROVE  faults' \in 0 .. MaxFaults /\ faults' = faults + 1
BY TwoFactorAssumption DEF TypeOK, Fault

LEMMA PassedOverType ==
  ASSUME TypeOK, NEW ok \in BOOLEAN, PassedOver(ok)
  PROVE  faults' \in 0 .. MaxFaults /\ faults' = faults + (IF ok THEN 0 ELSE 1)
BY TwoFactorAssumption, FaultType DEF TypeOK, PassedOver

\* The start of a request.
LEMMA StartType ==
  ASSUME TypeOK, NEW c \in Calls, Start(c)
  PROVE  /\ call' \in [Calls -> CallState]
         /\ \A o \in Calls : o # c => call'[o] = call[o]
         /\ call'[c].stage \in {"account", "pending", "code"}
         /\ call'[c].browser \in Browsers
         /\ call'[c].stage \in {"pending", "code"} => call'[c].code \in Secrets
         /\ \/ call'[c].token = None
            \/ /\ call'[c].token \in issued /\ call'[c].op = "verify"
               /\ call'[c].stage = "pending"
         /\ UNCHANGED <<store, signedIn, cookie, issued, history, faults>>
<1> DEFINE Fact(s) == /\ s \in CallState
                      /\ s.stage \in {"account", "pending", "code"}
                      /\ s.browser \in Browsers
                      /\ s.stage \in {"pending", "code"} => s.code \in Secrets
                      /\ \/ s.token = None
                         \/ s.token \in issued /\ s.op = "verify" /\ s.stage = "pending"
<1>1. ASSUME NEW s, Fact(s), Becomes(c, s),
             UNCHANGED <<store, signedIn, cookie, issued, history, faults>>
      PROVE  /\ call' \in [Calls -> CallState] /\ Fact(call'[c])
             /\ \A o \in Calls : o # c => call'[o] = call[o]
  BY <1>1, BecomesType
<1>2. ASSUME NEW b \in Browsers, Login(c, b)
      PROVE  \E s : Fact(s) /\ Becomes(c, s)
  <2> DEFINE s == [NoCall EXCEPT !.op = "login", !.stage = "account", !.browser = b]
  <2>1. Fact(s)
    BY DEF NoCall, CallState, Op, Stage
  <2> QED
    BY <1>2, <2>1 DEF Login
<1>3. ASSUME NEW b \in Browsers, NEW t \in Tokens, NEW k \in Secrets, Verify2FA(c, b, t, k)
      PROVE  \E s : Fact(s) /\ Becomes(c, s)
  <2> DEFINE s == [NoCall EXCEPT !.op = "verify", !.stage = "pending", !.browser = b,
                                 !.code = k, !.token = t]
  <2>1. Fact(s)
    BY <1>3 DEF NoCall, CallState, Op, Stage, Verify2FA
  <2> QED
    BY <1>3, <2>1 DEF Verify2FA
<1>4. ASSUME NEW b \in Browsers, NEW k \in Secrets, VerifyEnrollment(c, b, k)
      PROVE  \E s : Fact(s) /\ Becomes(c, s)
  <2> DEFINE s == [NoCall EXCEPT !.op = "enroll", !.stage = "code", !.browser = b,
                                 !.code = k]
  <2>1. Fact(s)
    BY DEF NoCall, CallState, Op, Stage
  <2> QED
    BY <1>4, <2>1 DEF VerifyEnrollment
<1>5. /\ \E s : Fact(s) /\ Becomes(c, s)
      /\ UNCHANGED <<store, signedIn, cookie, issued, history, faults>>
  BY <1>2, <1>3, <1>4 DEF Start, Login, Verify2FA, VerifyEnrollment
<1> QED
  BY <1>1, <1>5

----------------------------------------------------------------------------
(* The invariant, and the steps that disturb no count. *)

IInv == TypeOK /\ Shape /\ DevicesBounded /\ Tally

LEMMA Counts ==
  ASSUME TypeOK
  PROVE  /\ IsFiniteSet(devices) /\ Cardinality(devices) \in Nat
         /\ IsFiniteSet(Trusting) /\ Cardinality(Trusting) \in Nat
         /\ \A t : IsFiniteSet(Redeeming(t)) /\ Cardinality(Redeeming(t)) \in Nat
         /\ \A t : IsFiniteSet(Exchanging(t)) /\ Cardinality(Exchanging(t)) \in Nat
         /\ Cardinality(Calls) \in Nat
         /\ MaxDevices \in Nat /\ MaxFaults \in Nat /\ faults \in Nat
<1>1. /\ devices \in SUBSET Devices /\ Trusting \in SUBSET Calls
      /\ \A t : Redeeming(t) \in SUBSET Calls /\ Exchanging(t) \in SUBSET Calls
  BY DEF TypeOK, Trusting, Redeeming, Exchanging
<1> QED
  BY <1>1, FS_Subset, FS_CardinalityType, TwoFactorAssumption DEF TypeOK

LEMMA Fewer ==
  ASSUME NEW S, NEW T, IsFiniteSet(T), S \subseteq T
  PROVE  IsFiniteSet(S) /\ Cardinality(S) <= Cardinality(T) /\ Cardinality(S) \in Nat
BY FS_Subset, FS_CardinalityType

\* Nothing is trusted, redeemed or exchanged.
LEMMA Quiet ==
  ASSUME IInv, TypeOK', Shape',
         devices' \subseteq devices, Trusting' \subseteq Trusting,
         pending' \subseteq pending, issued \subseteq issued', exchanged' = exchanged,
         \A t \in Tokens : /\ Redeeming(t)' \subseteq Redeeming(t)
                           /\ Exchanging(t)' \subseteq Exchanging(t),
         faults' >= faults
  PROVE  IInv'
<1>1. TypeOK /\ DevicesBounded /\ Tally /\ faults' \in Nat
  BY TwoFactorAssumption DEF IInv, TypeOK
<1>2. /\ Cardinality(devices') <= Cardinality(devices) /\ Cardinality(devices') \in Nat
      /\ Cardinality(Trusting') <= Cardinality(Trusting) /\ Cardinality(Trusting') \in Nat
  BY <1>1, Counts, Fewer
<1>3. DevicesBounded'
  BY <1>1, <1>2, Counts DEF DevicesBounded, Cap
<1>4. Tally'
  <2> SUFFICES ASSUME NEW t \in Tokens
               PROVE  /\ t \notin issued' => exchanged'[t] = 0
                      /\ t \in pending' =>
                           exchanged'[t] + Cardinality(Redeeming(t)') <= faults'
                      /\ exchanged'[t] + Cardinality(Exchanging(t)')
                           <= Cardinality(Calls) + faults'
    BY DEF Tally
  <2>1. /\ Cardinality(Redeeming(t)') <= Cardinality(Redeeming(t))
        /\ Cardinality(Redeeming(t)') \in Nat
        /\ Cardinality(Exchanging(t)') <= Cardinality(Exchanging(t))
        /\ Cardinality(Exchanging(t)') \in Nat
    BY <1>1, Counts, Fewer
  <2>2. exchanged[t] \in Nat
    BY <1>1 DEF TypeOK
  <2> QED
    BY <1>1, <2>1, <2>2, Counts DEF Tally
<1> QED
  BY <1>3, <1>4 DEF IInv

\* The request c goes on or ends, without entering the stages that are counted.
LEMMA QuietCall ==
  ASSUME IInv, TypeOK', Shape', NEW c \in Calls,
         \A o \in Calls : o # c => call'[o] = call[o],
         call'[c].stage # "trust",
         call'[c].stage \in {"count", "complete"} /\ call'[c].token # None =>
           /\ call'[c].token = call[c].token
           /\ call[c].stage \in {"count", "trust", "complete"},
         call'[c].stage \in {"code", "redeem"} /\ call'[c].token # None =>
           /\ call'[c].token = call[c].token
           /\ call[c].stage \in {"code", "redeem"},
         UNCHANGED <<devices, pending, issued, exchanged>>, faults' >= faults
  PROVE  IInv'
<1>1. Trusting' \subseteq Trusting
  BY DEF Trusting, At
<1>2. ASSUME NEW t \in Tokens
      PROVE  Redeeming(t)' \subseteq Redeeming(t) /\ Exchanging(t)' \subseteq Exchanging(t)
  BY <1>2, TwoFactorAssumption DEF Redeeming, Exchanging
<1> QED
  BY <1>1, <1>2, Quiet

\* How the shape of one request is kept.
LEMMA ShapeStep ==
  ASSUME Shape, NEW c \in Calls,
         \A o \in Calls : o # c => call'[o] = call[o],
         issued \subseteq issued',
         call'[c].stage # "idle" => call'[c].browser \in Browsers,
         call'[c].stage \in {"pending", "code"} => call'[c].code \in Secrets,
         call'[c].token # None =>
           /\ call'[c].op = "verify" /\ call'[c].token \in issued'
           /\ call'[c].stage \notin {"account", "device", "confirm"}
  PROVE  Shape'
BY DEF Shape

\* A request that moves to another stage.
LEMMA ShapeGoes ==
  ASSUME TypeOK, Shape, NEW c \in Calls, NEW stage \in Stage, Goes(c, stage),
         ~ At(c, "idle"), issued \subseteq issued',
         stage \in {"pending", "code"} => At(c, "pending"),
         stage \in {"account", "device", "confirm"} => call[c].token = None
  PROVE  Shape'
<1>1. /\ call'[c].stage = stage /\ call'[c].token = call[c].token
      /\ call'[c].op = call[c].op /\ call'[c].browser = call[c].browser
      /\ call'[c].code = call[c].code
      /\ \A o \in Calls : o # c => call'[o] = call[o]
  BY GoesType
<1> QED
  BY <1>1, ShapeStep DEF Shape, At

\* A request that is over.
LEMMA ShapeEnds ==
  ASSUME Shape, NEW c \in Calls, call'[c] = NoCall,
         \A o \in Calls : o # c => call'[o] = call[o], issued \subseteq issued'
  PROVE  Shape'
BY NoCallType, ShapeStep

----------------------------------------------------------------------------
(* One lemma per action. *)

LEMMA InitInv == Init => IInv
<1> SUFFICES ASSUME Init PROVE IInv
  OBVIOUS
<1>1. TypeOK
  <2>1. call \in [Calls -> CallState]
    BY NoCallType DEF Init
  <2>2. faults \in 0 .. MaxFaults /\ exchanged \in [Tokens -> Nat]
    BY TwoFactorAssumption DEF Init
  <2> QED
    BY <2>1, <2>2 DEF Init, TypeOK
<1>2. Shape
  BY NoCallType DEF Init, Shape
<1>3. /\ devices = {} /\ Trusting = {} /\ faults = 0
      /\ \A t \in Tokens : Redeeming(t) = {} /\ Exchanging(t) = {} /\ exchanged[t] = 0
  BY NoCallType, TwoFactorAssumption DEF Init, Trusting, At, Redeeming, Exchanging
<1>4. Cardinality({}) = 0 /\ Cardinality(Calls) \in Nat
  BY FS_EmptySet, FS_CardinalityType, TwoFactorAssumption
<1>5. DevicesBounded
  BY <1>3, <1>4, TwoFactorAssumption DEF DevicesBounded, Cap
<1>6. Tally
  BY <1>3, <1>4 DEF Tally
<1> QED
  BY <1>1, <1>2, <1>5, <1>6 DEF IInv

LEMMA StartInv ==
  ASSUME IInv, NEW c \in Calls, Start(c)
  PROVE  IInv'
<1>1. /\ call' \in [Calls -> CallState]
      /\ \A o \in Calls : o # c => call'[o] = call[o]
      /\ call'[c].stage \in {"account", "pending", "code"}
      /\ call'[c].browser \in Browsers
      /\ call'[c].stage \in {"pending", "code"} => call'[c].code \in Secrets
      /\ \/ call'[c].token = None
         \/ /\ call'[c].token \in issued /\ call'[c].op = "verify"
            /\ call'[c].stage = "pending"
      /\ UNCHANGED <<store, signedIn, cookie, issued, history, faults>>
  BY StartType DEF IInv
<1>2. TypeOK'
  BY <1>1 DEF IInv, TypeOK, store, history
<1>3. Shape'
  BY <1>1, ShapeStep DEF IInv
<1>4. faults' >= faults
  BY <1>1 DEF IInv, TypeOK
<1> QED
  BY <1>1, <1>2, <1>3, <1>4, QuietCall DEF store, history

\* A move of c to a stage that is not counted.
LEMMA GoesInv ==
  ASSUME IInv, NEW c \in Calls, NEW stage \in Stage \ {"trust", "pending", "code"}, Goes(c, stage),
         ~ At(c, "idle"), TypeOK',
         stage \in {"account", "device", "confirm"} => call[c].token = None,
         stage \in {"count", "complete"} /\ call[c].token # None =>
           call[c].stage \in {"count", "trust", "complete"},
         stage = "redeem" /\ call[c].token # None =>
           call[c].stage \in {"code", "redeem"},
         UNCHANGED <<devices, pending, issued, exchanged>>, faults' >= faults
  PROVE  IInv'
<1>1. /\ call'[c].stage = stage /\ call'[c].token = call[c].token
      /\ \A o \in Calls : o # c => call'[o] = call[o]
  BY GoesType DEF IInv
<1>2. Shape'
  BY ShapeGoes DEF IInv
<1> QED
  BY <1>1, <1>2, QuietCall

\* The end of c without a sign-in.
LEMMA EndsInv ==
  ASSUME IInv, NEW c \in Calls, Becomes(c, NoCall), TypeOK',
         UNCHANGED <<devices, pending, issued, exchanged>>, faults' >= faults
  PROVE  IInv'
<1>1. call'[c] = NoCall /\ \A o \in Calls : o # c => call'[o] = call[o]
  BY EndsType DEF IInv
<1>2. Shape'
  BY <1>1, ShapeEnds DEF IInv
<1> QED
  BY <1>1, <1>2, NoCallType, QuietCall

LEMMA LoginInv ==
  ASSUME IInv, NEW c \in Calls, NEW ok \in BOOLEAN,
         CheckEnrolled(c, ok) \/ CheckDevice(c, ok)
  PROVE  IInv'
<1> DEFINE to == IF At(c, "account")
                   THEN IF ok /\ enrolled THEN "device" ELSE "complete"
                   ELSE IF ok /\ cookie[call[c].browser] \in devices
                          THEN "complete" ELSE "suspend"
<1>1. /\ call[c].stage \in {"account", "device"} /\ Goes(c, to)
      /\ PassedOver(ok) /\ UNCHANGED <<store, signedIn, cookie, issued, history>>
  BY DEF CheckEnrolled, CheckDevice, At
<1>2. to \in {"device", "complete", "suspend"} /\ to \in Stage \ {"trust", "pending", "code"}
  BY DEF Stage
<1> HIDE DEF to
<1>3. call[c].token = None
  BY <1>1 DEF IInv, Shape
<1>4. faults' \in 0 .. MaxFaults /\ faults' >= faults
  BY <1>1, PassedOverType DEF IInv, TypeOK
<1>5. TypeOK'
  BY <1>1, <1>2, <1>4, GoesType DEF IInv, TypeOK, store, history
<1> QED
  BY <1>1, <1>2, <1>3, <1>4, <1>5, GoesInv DEF At, store, history

LEMMA CheckCodeInv ==
  ASSUME IInv, NEW c \in Calls, CheckCode(c)
  PROVE  IInv'
<1>1. /\ call[c].stage = "code" /\ call[c].code \in Secrets
      /\ UNCHANGED <<store, signedIn, cookie, issued, shown, exchanged, faults>>
      /\ proven' = proven \/ (call[c].code = secret /\ proven' = proven \cup {secret})
  BY DEF CheckCode, At, IInv, Shape
<1>0. proven' \in SUBSET Secrets /\ faults' >= faults
  BY <1>1 DEF IInv, TypeOK
<1>2. CASE Becomes(c, NoCall)
  <2>1. TypeOK'
    BY <1>0, <1>1, <1>2, EndsType DEF IInv, TypeOK, store
  <2> QED
    BY <1>0, <1>1, <1>2, <2>1, EndsInv DEF store
<1>3. CASE Goes(c, "redeem") /\ call[c].op = "verify"
  <2>1. TypeOK'
    BY <1>0, <1>1, <1>3, GoesType DEF IInv, TypeOK, store, Stage
  <2> QED
    BY <1>0, <1>1, <1>3, <2>1, GoesInv DEF store, Stage, At
<1>4. CASE Goes(c, "confirm") /\ call[c].op # "verify"
  <2>1. TypeOK'
    BY <1>0, <1>1, <1>4, GoesType DEF IInv, TypeOK, store, Stage
  <2>2. call[c].token = None
    BY <1>4 DEF IInv, Shape
  <2> QED
    BY <1>0, <1>1, <1>4, <2>1, <2>2, GoesInv DEF store, Stage, At
<1> QED
  BY <1>2, <1>3, <1>4 DEF CheckCode

LEMMA ConfirmInv ==
  ASSUME IInv, NEW c \in Calls, Confirm(c)
  PROVE  IInv'
<1>1. /\ call[c].stage = "confirm" /\ Goes(c, "count") /\ enrolled' = TRUE
      /\ UNCHANGED <<secret, devices, pending, signedIn, cookie, issued, history, faults>>
      /\ faults' >= faults
  BY DEF Confirm, At, IInv, TypeOK
<1>2. TypeOK'
  BY <1>1, GoesType DEF IInv, TypeOK, history, Stage
<1>3. call[c].token = None
  BY <1>1 DEF IInv, Shape
<1> QED
  BY <1>1, <1>2, <1>3, GoesInv DEF history, Stage, At

LEMMA FailInv ==
  ASSUME IInv, NEW c \in Calls, Fail(c)
  PROVE  IInv'
<1>1. faults' \in 0 .. MaxFaults /\ faults' >= faults
  BY FaultType DEF Fail, IInv, TypeOK
<1>2. TypeOK'
  BY <1>1, EndsType DEF Fail, IInv, TypeOK, store, history
<1> QED
  BY <1>1, <1>2, EndsInv DEF Fail, store, history

\* A new pending token was never exchanged and is in no request.
LEMMA CreatePendingInv ==
  ASSUME IInv, NEW c \in Calls, NEW t \in Tokens, CreatePending(c, t)
  PROVE  IInv'
<1>1. /\ call[c].stage = "suspend" /\ t \notin issued /\ pending' = pending \cup {t}
      /\ issued' = issued \cup {t} /\ Becomes(c, NoCall)
      /\ UNCHANGED <<secret, enrolled, devices, signedIn, cookie, history, faults>>
  BY DEF CreatePending, At
<1>2. /\ call' \in [Calls -> CallState] /\ call'[c] = NoCall
      /\ \A o \in Calls : o # c => call'[o] = call[o]
  BY <1>1, EndsType DEF IInv
<1>3. TypeOK'
  BY <1>1, <1>2 DEF IInv, TypeOK, history
<1>4. Shape'
  BY <1>1, <1>2, ShapeEnds DEF IInv
<1>5. Trusting' \subseteq Trusting
  BY <1>2, NoCallType DEF Trusting, At
<1>6. \A u \in Tokens : /\ Redeeming(u)' \subseteq Redeeming(u)
                        /\ Exchanging(u)' \subseteq Exchanging(u)
  BY <1>2, NoCallType, TwoFactorAssumption DEF Redeeming, Exchanging
<1>7. DevicesBounded'
  <2>1. Cardinality(Trusting') <= Cardinality(Trusting) /\ Cardinality(Trusting') \in Nat
    BY <1>5, Counts, Fewer DEF IInv
  <2> QED
    BY <1>1, <2>1, Counts DEF IInv, DevicesBounded, Cap
<1>8. Tally'
  <2> SUFFICES ASSUME NEW u \in Tokens
               PROVE  /\ u \notin issued' => exchanged[u] = 0
                      /\ u \in pending' =>
                           exchanged[u] + Cardinality(Redeeming(u)') <= faults
                      /\ exchanged[u] + Cardinality(Exchanging(u)')
                           <= Cardinality(Calls) + faults
    BY <1>1 DEF Tally, history
  <2>1. /\ Cardinality(Redeeming(u)') <= Cardinality(Redeeming(u))
        /\ Cardinality(Redeeming(u)') \in Nat
        /\ Cardinality(Exchanging(u)') <= Cardinality(Exchanging(u))
        /\ Cardinality(Exchanging(u)') \in Nat
    BY <1>6, Counts, Fewer DEF IInv
  <2>2. exchanged[u] \in Nat /\ faults \in Nat
    BY Counts DEF IInv, TypeOK
  <2>3. CASE u # t
    BY <1>1, <2>1, <2>2, <2>3, Counts DEF IInv, Tally
  <2>4. CASE u = t
    <3>1. Redeeming(t) = {} /\ exchanged[t] = 0
      BY <1>1, TwoFactorAssumption DEF Redeeming, IInv, Shape, Tally
    <3>2. Redeeming(u)' = {}
      BY <1>6, <2>4, <3>1
    <3> QED
      BY <1>1, <2>1, <2>2, <2>4, <3>1, <3>2, FS_EmptySet, Counts DEF IInv, Tally
  <2> QED
    BY <2>3, <2>4
<1> QED
  BY <1>3, <1>4, <1>7, <1>8 DEF IInv

\* A request that finds its token: none that has redeemed it is left but for
\* failed deletions.
LEMMA GetPendingInv ==
  ASSUME IInv, NEW c \in Calls, GetPending(c)
  PROVE  IInv'
<1>1. /\ call[c].stage = "pending" /\ call[c].code \in Secrets
      /\ UNCHANGED <<store, signedIn, cookie, issued, history, faults>>
      /\ faults' >= faults
  BY DEF GetPending, At, IInv, Shape, TypeOK
<1>2. CASE Becomes(c, NoCall)
  <2>1. TypeOK'
    BY <1>1, <1>2, EndsType DEF IInv, TypeOK, store, history
  <2> QED
    BY <1>1, <1>2, <2>1, EndsInv DEF store, history
<1>3. CASE call[c].token \in pending /\ Goes(c, "code")
  <2>1. /\ call' \in [Calls -> CallState]
        /\ call'[c].stage = "code" /\ call'[c].token = call[c].token
        /\ \A o \in Calls : o # c => call'[o] = call[o]
    BY <1>3, GoesType DEF IInv, Stage
  <2>2. TypeOK'
    BY <1>1, <2>1 DEF IInv, TypeOK, store, history
  <2>3. Shape'
    BY <1>1, <1>3, ShapeGoes DEF IInv, At, Stage
  <2>4. Trusting' \subseteq Trusting /\ \A t : Redeeming(t)' \subseteq Redeeming(t)
    BY <2>1 DEF Trusting, At, Redeeming
  <2>5. DevicesBounded'
    <3>1. Cardinality(Trusting') <= Cardinality(Trusting) /\ Cardinality(Trusting') \in Nat
      BY <2>4, Counts, Fewer DEF IInv
    <3> QED
      BY <1>1, <3>1, Counts DEF IInv, DevicesBounded, Cap, store
  <2>6. Tally'
    <3> SUFFICES ASSUME NEW t \in Tokens
                 PROVE  /\ t \notin issued => exchanged[t] = 0
                        /\ t \in pending =>
                             exchanged[t] + Cardinality(Redeeming(t)') <= faults
                        /\ exchanged[t] + Cardinality(Exchanging(t)')
                             <= Cardinality(Calls) + faults
      BY <1>1 DEF Tally, history, store
    <3>1. /\ Cardinality(Redeeming(t)') <= Cardinality(Redeeming(t))
          /\ Cardinality(Redeeming(t)') \in Nat
      BY <2>4, Counts, Fewer DEF IInv
    <3>2. exchanged[t] \in Nat /\ faults \in Nat
      BY Counts DEF IInv, TypeOK
    <3>3. CASE call[c].token # t
      <4>1. Exchanging(t)' \subseteq Exchanging(t)
        BY <2>1, <3>3 DEF Exchanging
      <4>2. /\ Cardinality(Exchanging(t)') <= Cardinality(Exchanging(t))
            /\ Cardinality(Exchanging(t)') \in Nat
        BY <4>1, Counts, Fewer DEF IInv
      <4> QED
        BY <3>1, <3>2, <4>2, Counts DEF IInv, Tally
    <3>4. CASE call[c].token = t
      <4>1. Exchanging(t)' \subseteq Calls
        BY DEF Exchanging
      <4>2. /\ Cardinality(Exchanging(t)') <= Cardinality(Calls)
            /\ Cardinality(Exchanging(t)') \in Nat
        BY <4>1, Fewer, TwoFactorAssumption
      <4>3. exchanged[t] + Cardinality(Redeeming(t)) <= faults
        BY <1>3, <3>4 DEF IInv, Tally
      <4> QED
        BY <3>1, <3>2, <4>2, <4>3, Counts DEF IInv, Tally
    <3> QED
      BY <3>3, <3>4
  <2> QED
    BY <2>2, <2>3, <2>5, <2>6 DEF IInv
<1> QED
  BY <1>2, <1>3 DEF GetPending

\* A set of requests that at most c joins.
LEMMA OneMore ==
  ASSUME NEW S, NEW T, NEW c, IsFiniteSet(T), S \subseteq T \cup {c}
  PROVE  /\ IsFiniteSet(S) /\ Cardinality(S) \in Nat
         /\ Cardinality(S) <= Cardinality(T) + 1
<1>1. /\ IsFiniteSet(T \cup {c}) /\ Cardinality(T \cup {c}) \in Nat
      /\ Cardinality(T \cup {c}) <= Cardinality(T) + 1
  BY FS_AddElement, FS_CardinalityType
<1>2. /\ IsFiniteSet(S) /\ Cardinality(S) <= Cardinality(T \cup {c}) /\ Cardinality(S) \in Nat
  BY <1>1, Fewer
<1> QED
  BY <1>1, <1>2, FS_CardinalityType

\* A set of requests that c leaves.
LEMMA OneLess ==
  ASSUME NEW S, NEW T, NEW c \in T, IsFiniteSet(T), S \subseteq T \ {c}
  PROVE  /\ IsFiniteSet(S) /\ Cardinality(S) \in Nat
         /\ Cardinality(S) + 1 <= Cardinality(T)
<1>1. /\ IsFiniteSet(T \ {c}) /\ Cardinality(T \ {c}) = Cardinality(T) - 1
      /\ Cardinality(T) \in Nat
  BY FS_RemoveElement, FS_CardinalityType
<1>2. /\ IsFiniteSet(S) /\ Cardinality(S) <= Cardinality(T \ {c}) /\ Cardinality(S) \in Nat
  BY <1>1, Fewer
<1> QED
  BY <1>1, <1>2

LEMMA DeletePendingInv ==
  ASSUME IInv, NEW c \in Calls, NEW ok \in BOOLEAN, DeletePending(c, ok)
  PROVE  IInv'
<1>1. /\ call[c].stage = "redeem" /\ PassedOver(ok) /\ Goes(c, "count")
      /\ pending' = IF ok THEN pending \ {call[c].token} ELSE pending
      /\ UNCHANGED <<secret, enrolled, devices, signedIn, cookie, issued, history>>
  BY DEF DeletePending, At
<1>2. faults' \in 0 .. MaxFaults /\ faults' = faults + (IF ok THEN 0 ELSE 1)
      /\ faults \in Nat /\ faults' \in Nat
  BY <1>1, PassedOverType, TwoFactorAssumption DEF IInv, TypeOK
<1>3. /\ call' \in [Calls -> CallState]
      /\ call'[c].stage = "count" /\ call'[c].token = call[c].token
      /\ \A o \in Calls : o # c => call'[o] = call[o]
  BY <1>1, GoesType DEF IInv, Stage
<1>4. TypeOK'
  BY <1>1, <1>2, <1>3 DEF IInv, TypeOK, history
<1>5. Shape'
  BY <1>1, ShapeGoes DEF IInv, At, Stage
<1>6. DevicesBounded'
  <2>1. Trusting' \subseteq Trusting
    BY <1>3 DEF Trusting, At
  <2>2. Cardinality(Trusting') <= Cardinality(Trusting) /\ Cardinality(Trusting') \in Nat
    BY <2>1, Counts, Fewer DEF IInv
  <2> QED
    BY <1>1, <1>2, <2>2, Counts DEF IInv, DevicesBounded, Cap
<1>7. Tally'
  <2> SUFFICES ASSUME NEW t \in Tokens
               PROVE  /\ t \notin issued => exchanged[t] = 0
                      /\ t \in pending' =>
                           exchanged[t] + Cardinality(Redeeming(t)') <= faults'
                      /\ exchanged[t] + Cardinality(Exchanging(t)')
                           <= Cardinality(Calls) + faults'
    BY <1>1 DEF Tally, history
  <2>1. exchanged[t] \in Nat
    BY DEF IInv, TypeOK
  <2>2. Exchanging(t)' \subseteq Exchanging(t)
    BY <1>1, <1>3 DEF Exchanging
  <2>3. /\ Cardinality(Exchanging(t)') <= Cardinality(Exchanging(t))
        /\ Cardinality(Exchanging(t)') \in Nat
    BY <2>2, Counts, Fewer DEF IInv
  <2>4. exchanged[t] + Cardinality(Exchanging(t)') <= Cardinality(Calls) + faults'
    BY <1>2, <2>1, <2>3, Counts DEF IInv, Tally
  <2>5. ASSUME t \in pending'
        PROVE  exchanged[t] + Cardinality(Redeeming(t)') <= faults'
    <3>1. t \in pending /\ (ok => call[c].token # t)
      BY <1>1, <2>5
    <3>2. CASE ok
      <4>1. Redeeming(t)' \subseteq Redeeming(t)
        BY <1>3, <3>1, <3>2 DEF Redeeming
      <4>2. /\ Cardinality(Redeeming(t)') <= Cardinality(Redeeming(t))
            /\ Cardinality(Redeeming(t)') \in Nat
        BY <4>1, Counts, Fewer DEF IInv
      <4> QED
        BY <1>2, <2>1, <3>1, <4>2, Counts DEF IInv, Tally
    <3>3. CASE ~ ok
      <4>1. Redeeming(t)' \subseteq Redeeming(t) \cup {c}
        BY <1>3 DEF Redeeming
      <4>2. /\ Cardinality(Redeeming(t)') <= Cardinality(Redeeming(t)) + 1
            /\ Cardinality(Redeeming(t)') \in Nat
        BY <4>1, Counts, OneMore DEF IInv
      <4> QED
        BY <1>2, <2>1, <3>1, <3>3, <4>2, Counts DEF IInv, Tally
    <3> QED
      BY <3>2, <3>3
  <2> QED
    BY <2>4, <2>5 DEF IInv, Tally
<1> QED
  BY <1>4, <1>5, <1>6, <1>7 DEF IInv

\* Steps of c within the stages after redeeming: no token's tally moves.
LEMMA TallyStays ==
  ASSUME IInv, NEW c \in Calls, \A o \in Calls : o # c => call'[o] = call[o],
         call[c].stage \in {"count", "trust"},
         call'[c].token \in {None, call[c].token},
         UNCHANGED <<pending, issued, exchanged>>, faults' \in Nat, faults' >= faults
  PROVE  Tally'
<1> SUFFICES ASSUME NEW t \in Tokens
             PROVE  /\ t \notin issued => exchanged[t] = 0
                    /\ t \in pending =>
                         exchanged[t] + Cardinality(Redeeming(t)') <= faults'
                    /\ exchanged[t] + Cardinality(Exchanging(t)')
                         <= Cardinality(Calls) + faults'
  BY DEF Tally
<1>1. Redeeming(t)' \subseteq Redeeming(t) /\ Exchanging(t)' \subseteq Exchanging(t)
  BY TwoFactorAssumption DEF Redeeming, Exchanging
<1>2. /\ Cardinality(Redeeming(t)') <= Cardinality(Redeeming(t))
      /\ Cardinality(Redeeming(t)') \in Nat
      /\ Cardinality(Exchanging(t)') <= Cardinality(Exchanging(t))
      /\ Cardinality(Exchanging(t)') \in Nat
  BY <1>1, Counts, Fewer DEF IInv
<1>3. exchanged[t] \in Nat
  BY DEF IInv, TypeOK
<1> QED
  BY <1>2, <1>3, Counts DEF IInv, Tally

\* The request that finds a place free may be one of all that are under way.
LEMMA CountDevicesInv ==
  ASSUME IInv, NEW c \in Calls, NEW ok \in BOOLEAN, CountDevices(c, ok)
  PROVE  IInv'
<1>1. /\ call[c].stage = "count" /\ PassedOver(ok)
      /\ UNCHANGED <<store, signedIn, cookie, issued, history>>
      /\ \/ Goes(c, "trust") /\ (ok => Cardinality(devices) < MaxDevices)
         \/ Goes(c, "complete") \/ Goes(c, "answer")
  BY DEF CountDevices, Then, At
<1>2. faults' \in 0 .. MaxFaults /\ faults' = faults + (IF ok THEN 0 ELSE 1)
      /\ faults \in Nat /\ faults' \in Nat
  BY <1>1, PassedOverType, TwoFactorAssumption DEF IInv, TypeOK
<1>3. CASE Goes(c, "complete")
  <2>1. TypeOK'
    BY <1>1, <1>2, <1>3, GoesType DEF IInv, TypeOK, store, history, Stage
  <2> QED
    BY <1>1, <1>2, <1>3, <2>1, GoesInv DEF At, store, history, Stage
<1>4. CASE Goes(c, "answer")
  <2>1. TypeOK'
    BY <1>1, <1>2, <1>4, GoesType DEF IInv, TypeOK, store, history, Stage
  <2> QED
    BY <1>1, <1>2, <1>4, <2>1, GoesInv DEF At, store, history, Stage
<1>5. CASE Goes(c, "trust") /\ (ok => Cardinality(devices) < MaxDevices)
  <2>1. /\ call' \in [Calls -> CallState]
        /\ call'[c].stage = "trust" /\ call'[c].token = call[c].token
        /\ \A o \in Calls : o # c => call'[o] = call[o]
    BY <1>5, GoesType DEF IInv, Stage
  <2>2. TypeOK'
    BY <1>1, <1>2, <2>1 DEF IInv, TypeOK, store, history
  <2>3. Shape'
    BY <1>1, <1>5, ShapeGoes DEF IInv, At, Stage
  <2>4. Tally'
    BY <1>1, <1>2, <2>1, TallyStays DEF store, history
  <2>5. DevicesBounded'
    <3>1. CASE ok
      <4>1. Trusting' \subseteq Calls
        BY DEF Trusting
      <4>2. /\ Cardinality(Trusting') <= Cardinality(Calls)
            /\ Cardinality(Trusting') \in Nat
        BY <4>1, Fewer, TwoFactorAssumption
      <4> QED
        BY <1>1, <1>2, <1>5, <3>1, <4>2, Counts DEF IInv, DevicesBounded, Cap, store
    <3>2. CASE ~ ok
      <4>1. Trusting' \subseteq Trusting \cup {c}
        BY <2>1 DEF Trusting, At
      <4>2. /\ Cardinality(Trusting') <= Cardinality(Trusting) + 1
            /\ Cardinality(Trusting') \in Nat
        BY <4>1, Counts, OneMore DEF IInv
      <4> QED
        BY <1>1, <1>2, <3>2, <4>2, Counts DEF IInv, DevicesBounded, Cap, store
    <3> QED
      BY <3>1, <3>2
  <2> QED
    BY <2>2, <2>3, <2>4, <2>5 DEF IInv
<1> QED
  BY <1>1, <1>3, <1>4, <1>5

\* The place taken at the count is used up by the insert.
LEMMA TrustDeviceInv ==
  ASSUME IInv, NEW c \in Calls, NEW d \in Devices, NEW ok \in BOOLEAN,
         TrustDevice(c, d, ok)
  PROVE  IInv'
<1>1. /\ call[c].stage = "trust" /\ PassedOver(ok)
      /\ devices' = IF ok THEN devices \cup {d} ELSE devices
      /\ UNCHANGED <<secret, enrolled, pending, signedIn, cookie, issued, history>>
      /\ call[c] \in CallState /\ call[c].browser \in Browsers
  BY DEF TrustDevice, At, IInv, TypeOK, Shape
<1>2. faults' \in 0 .. MaxFaults /\ faults' = faults + (IF ok THEN 0 ELSE 1)
      /\ faults \in Nat /\ faults' \in Nat
  BY <1>1, PassedOverType, TwoFactorAssumption DEF IInv, TypeOK
<1>3. /\ call' \in [Calls -> CallState]
      /\ \A o \in Calls : o # c => call'[o] = call[o]
      /\ call'[c].stage \in {"complete", "answer"} /\ call'[c].token = call[c].token
      /\ call'[c].op = call[c].op /\ call'[c].browser = call[c].browser
  <2> DEFINE s == [call[c] EXCEPT !.stage = Then(c), !.device = d]
  <2>1. /\ s \in CallState /\ s.stage \in {"complete", "answer"} /\ s.token = call[c].token
        /\ s.op = call[c].op /\ s.browser = call[c].browser
    BY <1>1 DEF CallState, Stage, Then
  <2>2. Becomes(c, s)
    BY DEF TrustDevice
  <2> HIDE DEF s
  <2> QED
    BY <2>1, <2>2, BecomesType DEF IInv
<1>4. TypeOK'
  BY <1>1, <1>2, <1>3 DEF IInv, TypeOK, history
<1>5. Shape'
  BY <1>1, <1>3, ShapeStep DEF IInv, Shape
<1>6. call'[c].token \in {None, call[c].token} /\ call'[c].stage # "trust"
  BY <1>3
<1>7. Tally'
  BY <1>1, <1>2, <1>3, <1>6, TallyStays DEF history
<1>8. DevicesBounded'
  <2>1. c \in Trusting /\ Trusting' \subseteq Trusting \ {c}
    BY <1>1, <1>3, <1>6 DEF Trusting, At
  <2>2. /\ Cardinality(Trusting') + 1 <= Cardinality(Trusting)
        /\ Cardinality(Trusting') \in Nat
    BY <2>1, Counts, OneLess DEF IInv
  <2>3. devices' \subseteq devices \cup {d}
    BY <1>1
  <2>4. Cardinality(devices') <= Cardinality(devices) + 1 /\ Cardinality(devices') \in Nat
    BY <2>3, Counts, OneMore DEF IInv
  <2> QED
    BY <1>2, <2>2, <2>4, Counts DEF IInv, DevicesBounded, Cap
<1> QED
  BY <1>4, <1>5, <1>7, <1>8 DEF IInv

\* A request in the tally of its token becomes one of the token's sessions.
LEMMA CompleteLoginInv ==
  ASSUME IInv, NEW c \in Calls, CompleteLogin(c)
  PROVE  IInv'
<1>1. /\ call[c].stage = "complete" /\ Goes(c, "answer")
      /\ exchanged' = [t \in Tokens |->
                         IF t = call[c].token THEN exchanged[t] + 1 ELSE exchanged[t]]
      /\ UNCHANGED <<store, signedIn, cookie, issued, shown, proven, faults>>
  BY DEF CompleteLogin, At
<1>2. /\ call' \in [Calls -> CallState]
      /\ call'[c].stage = "answer" /\ call'[c].token = call[c].token
      /\ \A o \in Calls : o # c => call'[o] = call[o]
  BY <1>1, GoesType DEF IInv, Stage
<1>3. TypeOK'
  <2>1. exchanged' \in [Tokens -> Nat]
    BY <1>1 DEF IInv, TypeOK
  <2> QED
    BY <1>1, <1>2, <2>1 DEF IInv, TypeOK, store
<1>4. Shape'
  BY <1>1, ShapeGoes DEF IInv, At, Stage
<1>5. DevicesBounded'
  <2>1. Trusting' \subseteq Trusting
    BY <1>2 DEF Trusting, At
  <2>2. Cardinality(Trusting') <= Cardinality(Trusting) /\ Cardinality(Trusting') \in Nat
    BY <2>1, Counts, Fewer DEF IInv
  <2> QED
    BY <1>1, <2>2, Counts DEF IInv, DevicesBounded, Cap, store
<1>6. Tally'
  <2> SUFFICES ASSUME NEW t \in Tokens
               PROVE  /\ t \notin issued => exchanged'[t] = 0
                      /\ t \in pending =>
                           exchanged'[t] + Cardinality(Redeeming(t)') <= faults
                      /\ exchanged'[t] + Cardinality(Exchanging(t)')
                           <= Cardinality(Calls) + faults
    BY <1>1 DEF Tally, store
  <2>1. exchanged[t] \in Nat
    BY DEF IInv, TypeOK
  <2>2. CASE call[c].token # t
    <3>1. Redeeming(t)' \subseteq Redeeming(t) /\ Exchanging(t)' \subseteq Exchanging(t)
      BY <1>2, TwoFactorAssumption DEF Redeeming, Exchanging
    <3>2. /\ Cardinality(Redeeming(t)') <= Cardinality(Redeeming(t))
          /\ Cardinality(Redeeming(t)') \in Nat
          /\ Cardinality(Exchanging(t)') <= Cardinality(Exchanging(t))
          /\ Cardinality(Exchanging(t)') \in Nat
      BY <3>1, Counts, Fewer DEF IInv
    <3>3. exchanged'[t] = exchanged[t]
      BY <1>1, <2>2
    <3> QED
      BY <2>1, <3>2, <3>3, Counts DEF IInv, Tally
  <2>3. CASE call[c].token = t
    <3>1. t \in issued /\ c \in Redeeming(t) /\ c \in Exchanging(t)
      BY <1>1, <2>3, TwoFactorAssumption DEF IInv, Shape, Redeeming, Exchanging
    <3>2. /\ Redeeming(t)' \subseteq Redeeming(t) \ {c}
          /\ Exchanging(t)' \subseteq Exchanging(t) \ {c}
      BY <1>2, TwoFactorAssumption DEF Redeeming, Exchanging
    <3>3. /\ Cardinality(Redeeming(t)') + 1 <= Cardinality(Redeeming(t))
          /\ Cardinality(Redeeming(t)') \in Nat
          /\ Cardinality(Exchanging(t)') + 1 <= Cardinality(Exchanging(t))
          /\ Cardinality(Exchanging(t)') \in Nat
      BY <3>1, <3>2, Counts, OneLess DEF IInv
    <3>4. exchanged'[t] = exchanged[t] + 1
      BY <1>1, <2>3
    <3> QED
      BY <2>1, <3>1, <3>3, <3>4, Counts DEF IInv, Tally
  <2> QED
    BY <2>2, <2>3
<1> QED
  BY <1>3, <1>4, <1>5, <1>6 DEF IInv

LEMMA AnswerInv ==
  ASSUME IInv, NEW c \in Calls, Answer(c)
  PROVE  IInv'
<1>1. /\ Becomes(c, NoCall) /\ call[c] \in CallState /\ call[c].browser \in Browsers
      /\ signedIn' = IF call[c].op = "enroll" THEN signedIn
                     ELSE signedIn \cup {call[c].browser}
      /\ cookie' = IF call[c].device = None THEN cookie
                   ELSE [cookie EXCEPT ![call[c].browser] = call[c].device]
      /\ UNCHANGED <<store, issued, history, faults>> /\ faults' >= faults
  BY DEF Answer, At, IInv, TypeOK, Shape
<1>2. call[c].device \in Devices \cup {None}
  BY <1>1 DEF CallState
<1>3. signedIn' \in SUBSET Browsers /\ cookie' \in [Browsers -> Devices \cup {None}]
  BY <1>1, <1>2 DEF IInv, TypeOK
<1>4. TypeOK'
  BY <1>1, <1>3, EndsType DEF IInv, TypeOK, store, history
<1> QED
  BY <1>1, <1>4, EndsInv DEF store, history

\* Steps of nobody's request: a new secret, a device removed, a token expired,
\* a browser signed out.
LEMMA StillInv ==
  ASSUME IInv, TypeOK', call' = call, issued' = issued, exchanged' = exchanged,
         faults' = faults, devices' \subseteq devices, pending' \subseteq pending
  PROVE  IInv'
<1>1. Shape'
  BY DEF IInv, Shape
<1>2. /\ Trusting' \subseteq Trusting
      /\ \A t \in Tokens : /\ Redeeming(t)' \subseteq Redeeming(t)
                            /\ Exchanging(t)' \subseteq Exchanging(t)
  BY DEF Trusting, At, Redeeming, Exchanging
<1>3. faults' >= faults
  BY DEF IInv, TypeOK
<1> QED
  BY <1>1, <1>2, <1>3, Quiet

LEMMA StepInv == IInv /\ [Next]_vars => IInv'
<1> SUFFICES ASSUME IInv, [Next]_vars PROVE IInv'
  OBVIOUS
<1>1. ASSUME NEW c \in Calls, Step(c) PROVE IInv'
  BY <1>1, GetPendingInv, CheckCodeInv, ConfirmInv, CompleteLoginInv, AnswerInv, FailInv,
     CreatePendingInv, LoginInv, DeletePendingInv, CountDevicesInv, TrustDeviceInv DEF Step
<1>2. ASSUME NEW b \in Browsers, SignOut(b) PROVE IInv'
  <2>1. TypeOK'
    BY <1>2 DEF SignOut, IInv, TypeOK, store, history
  <2> QED
    BY <1>2, <2>1, StillInv DEF SignOut, store, history
<1>3. ASSUME NEW b \in Browsers, NEW s \in Secrets, Enroll(b, s) PROVE IInv'
  <2>1. TypeOK'
    BY <1>3 DEF Enroll, IInv, TypeOK
  <2> QED
    BY <1>3, <2>1, StillInv DEF Enroll
<1>4. ASSUME NEW b \in Browsers, NEW d \in Devices, RemoveDevice(b, d) PROVE IInv'
  <2>1. TypeOK'
    BY <1>4 DEF RemoveDevice, IInv, TypeOK, history
  <2> QED
    BY <1>4, <2>1, StillInv DEF RemoveDevice, history
<1>5. ASSUME NEW t \in Tokens, Expire(t) PROVE IInv'
  <2>1. TypeOK'
    BY <1>5 DEF Expire, IInv, TypeOK, history
  <2> QED
    BY <1>5, <2>1, StillInv DEF Expire, history
<1>6. CASE UNCHANGED vars
  <2>1. TypeOK'
    BY <1>6 DEF vars, store, history, IInv, TypeOK
  <2> QED
    BY <1>6, <2>1, StillInv DEF vars, store, history
<1> QED
  BY <1>1, <1>2, <1>3, <1>4, <1>5, <1>6, StartInv DEF Next

LEMMA Invariance == Spec => []IInv
BY InitInv, StepInv, PTL DEF Spec

----------------------------------------------------------------------------
(* The theorems. *)

\* The tables and the requests only ever hold what the code can put there.
THEOREM TypeCorrect == Spec => []TypeOK
<1>1. IInv => TypeOK
  BY DEF IInv
<1> QED
  BY <1>1, Invariance, PTL

\* However many requests count and insert at once, trusted devices exceed
\* maxTrustedDevices by less than the number of requests at a time plus the
\* number of faults (VerifyEnrollment, Verify2FA).
THEOREM CapIsNearlyKept == Spec => []DevicesBounded
<1>1. IInv => DevicesBounded
  BY DEF IInv
<1> QED
  BY <1>1, Invariance, PTL

\* A pending token yields at most one session per request at a time and fault
\* (GetPending and DeletePending in Verify2FA).
THEOREM ExchangesAreBounded == Spec => []ExchangesBounded
<1>1. IInv => ExchangesBounded
  <2> SUFFICES ASSUME IInv, NEW t \in Tokens
               PROVE  exchanged[t] <= Cardinality(Calls) + faults
    BY DEF ExchangesBounded
  <2>1. exchanged[t] \in Nat
    BY DEF IInv, TypeOK
  <2> QED
    BY <2>1, Counts DEF IInv, Tally
<1> QED
  BY <1>1, Invariance, PTL
=============================================================================
