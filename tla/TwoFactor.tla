------------------------------ MODULE TwoFactor ------------------------------
(***************************************************************************)
(* The second factor of one account: enrolling an authenticator app        *)
(* (twofactor.go), signing in with a code or from a trusted device         *)
(* (auth.go), and the pending tokens in between (session.go).  Each request *)
(* is a process that reads and writes MySQL and Redis one statement at a   *)
(* time, without a transaction.                                            *)
(*                                                                         *)
(* A code is the secret it was computed from.  Passwords are right: a wrong *)
(* one, like a request that cannot be decoded, changes nothing.            *)
(***************************************************************************)
EXTENDS Integers, FiniteSets

CONSTANTS
  Browsers,
  Calls,        \* requests that may be under way at once
  Secrets,
  Devices,      \* device tokens
  Tokens,       \* pending tokens
  MaxDevices,   \* maxTrustedDevices
  None,
  MaxFaults     \* bound on failing statements, crashes and lost replies

ASSUME TwoFactorAssumption ==
  /\ None \notin Browsers \cup Secrets \cup Devices \cup Tokens
  /\ IsFiniteSet(Calls) /\ IsFiniteSet(Devices)
  /\ MaxDevices \in Nat \ {0}
  /\ MaxFaults \in Nat

VARIABLES
  secret,     \* two_factor_secrets.secret_base32
  enrolled,   \* two_factor_secrets.enrolled_at IS NOT NULL
  devices,    \* trusted_devices.device_token
  pending,    \* pending2fa keys in Redis
  signedIn,   \* browsers with a session
  cookie,     \* pb_device of each browser
  issued,     \* pending tokens browsers were ever given
  call,
  shown,      \* secrets whose QR code was ever shown
  proven,     \* secrets a right code was ever entered for
  exchanged,  \* sessions given for a pending token
  faults

store == <<secret, enrolled, devices, pending>>
history == <<shown, proven, exchanged>>
vars == <<store, signedIn, cookie, issued, call, history, faults>>

Op == {"none", "login", "verify", "enroll"}

Stage == {"idle", "account", "device", "suspend", "pending", "code", "confirm",
          "redeem", "count", "trust", "complete", "answer"}

\* code, token: of the request.  device: the token of the reply's cookie.
CallState == [op : Op, stage : Stage, browser : Browsers \cup {None},
              code : Secrets \cup {None}, token : Tokens \cup {None},
              device : Devices \cup {None}]

TypeOK ==
  /\ secret \in Secrets \cup {None}
  /\ enrolled \in BOOLEAN
  /\ devices \in SUBSET Devices
  /\ pending \in SUBSET Tokens
  /\ signedIn \in SUBSET Browsers
  /\ cookie \in [Browsers -> Devices \cup {None}]
  /\ issued \in SUBSET Tokens
  /\ call \in [Calls -> CallState]
  /\ shown \in SUBSET Secrets /\ proven \in SUBSET Secrets
  /\ exchanged \in [Tokens -> Nat]
  /\ faults \in 0 .. MaxFaults

NoCall == [op |-> "none", stage |-> "idle", browser |-> None, code |-> None,
           token |-> None, device |-> None]

At(c, stage) == call[c].stage = stage

Becomes(c, s) == call' = [call EXCEPT ![c] = s]

Goes(c, stage) == Becomes(c, [call[c] EXCEPT !.stage = stage])

Fault == faults < MaxFaults /\ faults' = faults + 1

\* A statement that may fail, the failure being passed over.
PassedOver(ok) == IF ok THEN UNCHANGED faults ELSE Fault

----------------------------------------------------------------------------
(* Login. *)

\* Bound: each login under way may still need a pending token.
TokensLeft ==
  Cardinality(issued) + Cardinality({ c \in Calls : call[c].op = "login" })
    < Cardinality(Tokens)

Login(c, b) ==
  /\ At(c, "idle") /\ TokensLeft
  /\ Becomes(c, [NoCall EXCEPT !.op = "login", !.stage = "account", !.browser = b])
  /\ UNCHANGED <<store, signedIn, cookie, issued, history, faults>>

\* A failing read leaves enrolledAt invalid, as on an account without 2FA.
CheckEnrolled(c, ok) ==
  /\ At(c, "account")
  /\ PassedOver(ok)
  /\ Goes(c, IF ok /\ enrolled THEN "device" ELSE "complete")
  /\ UNCHANGED <<store, signedIn, cookie, issued, history>>

\* A failing count leaves it 0.
CheckDevice(c, ok) ==
  /\ At(c, "device")
  /\ PassedOver(ok)
  /\ Goes(c, IF ok /\ cookie[call[c].browser] \in devices THEN "complete" ELSE "suspend")
  /\ UNCHANGED <<store, signedIn, cookie, issued, history>>

CreatePending(c, t) ==
  /\ At(c, "suspend")
  /\ t \notin issued
  /\ pending' = pending \cup {t}
  /\ issued' = issued \cup {t}
  /\ Becomes(c, NoCall)
  /\ UNCHANGED <<secret, enrolled, devices, signedIn, cookie, history, faults>>

----------------------------------------------------------------------------
(* Verify2FA. *)

\* A mistake Verify2FA could have: the fields of the request are swapped.
Verify2FASwapped(c, b, t, code) ==
  /\ At(c, "idle")
  /\ t \in issued /\ code \in shown
  /\ Becomes(c, [NoCall EXCEPT !.op = "verify", !.stage = "pending", !.browser = b,
                               !.code = t, !.token = code])
  /\ UNCHANGED <<store, signedIn, cookie, issued, history, faults>>

Verify2FA(c, b, t, code) ==
  /\ At(c, "idle")
  /\ t \in issued /\ code \in shown
  /\ Becomes(c, [NoCall EXCEPT !.op = "verify", !.stage = "pending", !.browser = b,
                               !.code = code, !.token = t])
  /\ UNCHANGED <<store, signedIn, cookie, issued, history, faults>>

GetPending(c) ==
  /\ At(c, "pending")
  /\ IF call[c].token \in pending THEN Goes(c, "code") ELSE Becomes(c, NoCall)
  /\ UNCHANGED <<store, signedIn, cookie, issued, history, faults>>

\* Verify2FA and VerifyEnrollment read the secret and validate the code alike.
CheckCode(c) ==
  /\ At(c, "code")
  /\ IF call[c].code = secret
       THEN /\ Goes(c, IF call[c].op = "verify" THEN "redeem" ELSE "confirm")
            /\ proven' = proven \cup {secret}
       ELSE Becomes(c, NoCall) /\ UNCHANGED proven
  /\ UNCHANGED <<store, signedIn, cookie, issued, shown, exchanged, faults>>

\* A mistake Verify2FA could have: the pending token is left to its expiry.
DeletePendingNever(c, ok) ==
  /\ At(c, "redeem") /\ ok
  /\ Goes(c, "count")
  /\ UNCHANGED <<store, signedIn, cookie, issued, history, faults>>

DeletePending(c, ok) ==
  /\ At(c, "redeem")
  /\ PassedOver(ok)
  /\ pending' = IF ok THEN pending \ {call[c].token} ELSE pending
  /\ Goes(c, "count")
  /\ UNCHANGED <<secret, enrolled, devices, signedIn, cookie, issued, history>>

----------------------------------------------------------------------------
(* Trusting the browser, at the end of Verify2FA and of VerifyEnrollment. *)

\* What follows: Verify2FA signs in, VerifyEnrollment is done.
Then(c) == IF call[c].op = "verify" THEN "complete" ELSE "answer"

\* A mistake the cap could have: off by one.
CountUpToCap(c, ok) ==
  /\ At(c, "count")
  /\ PassedOver(ok)
  /\ Goes(c, IF ~ ok \/ Cardinality(devices) <= MaxDevices THEN "trust" ELSE Then(c))
  /\ UNCHANGED <<store, signedIn, cookie, issued, history>>

\* A failing count leaves it 0.
CountDevices(c, ok) ==
  /\ At(c, "count")
  /\ PassedOver(ok)
  /\ Goes(c, IF ~ ok \/ Cardinality(devices) < MaxDevices THEN "trust" ELSE Then(c))
  /\ UNCHANGED <<store, signedIn, cookie, issued, history>>

\* A random token: one that is in no table, cookie or reply.
Unused == Devices \ ( devices \cup { cookie[b] : b \in Browsers }
                              \cup { call[c].device : c \in Calls } )

\* The cookie is set whether or not the row was inserted.
TrustDevice(c, d, ok) ==
  /\ At(c, "trust")
  /\ d \in Unused
  /\ PassedOver(ok)
  /\ devices' = IF ok THEN devices \cup {d} ELSE devices
  /\ Becomes(c, [call[c] EXCEPT !.stage = Then(c), !.device = d])
  /\ UNCHANGED <<secret, enrolled, pending, signedIn, cookie, issued, history>>

\* completeLogin, of Login and of Verify2FA.
CompleteLogin(c) ==
  /\ At(c, "complete")
  /\ exchanged' = [t \in Tokens |->
                     IF t = call[c].token THEN exchanged[t] + 1 ELSE exchanged[t]]
  /\ Goes(c, "answer")
  /\ UNCHANGED <<store, signedIn, cookie, issued, shown, proven, faults>>

\* The reply arrives, with the session's cookie and perhaps the device's.
Answer(c) ==
  /\ At(c, "answer")
  /\ Becomes(c, NoCall)
  /\ signedIn' = IF call[c].op = "enroll" THEN signedIn ELSE signedIn \cup {call[c].browser}
  /\ cookie' = IF call[c].device = None THEN cookie
               ELSE [cookie EXCEPT ![call[c].browser] = call[c].device]
  /\ UNCHANGED <<store, issued, history, faults>>

----------------------------------------------------------------------------
(* The profile page; its routes require a session. *)

\* The dashboard offers this while it believes 2FA is off, another tab may know
\* better.  One statement, whose reply shows the QR code.
Enroll(b, s) ==
  /\ b \in signedIn
  /\ s \notin shown
  /\ secret' = s /\ enrolled' = FALSE
  /\ shown' = shown \cup {s}
  /\ UNCHANGED <<devices, pending, signedIn, cookie, issued, call, proven, exchanged, faults>>

VerifyEnrollment(c, b, code) ==
  /\ At(c, "idle")
  /\ b \in signedIn /\ code \in shown
  /\ Becomes(c, [NoCall EXCEPT !.op = "enroll", !.stage = "code", !.browser = b,
                               !.code = code])
  /\ UNCHANGED <<store, signedIn, cookie, issued, history, faults>>

\* Whatever secret is stored by now.
Confirm(c) ==
  /\ At(c, "confirm")
  /\ enrolled' = TRUE
  /\ Goes(c, "count")
  /\ UNCHANGED <<secret, devices, pending, signedIn, cookie, issued, history, faults>>

RemoveDevice(b, d) ==
  /\ b \in signedIn /\ d \in devices
  /\ devices' = devices \ {d}
  /\ UNCHANGED <<secret, enrolled, pending, signedIn, cookie, issued, call, history, faults>>

----------------------------------------------------------------------------
(* The rest of the world. *)

\* An error answer, a crash of the API or a lost reply, at any point of a call.
Fail(c) ==
  /\ ~ At(c, "idle")
  /\ Fault
  /\ Becomes(c, NoCall)
  /\ UNCHANGED <<store, signedIn, cookie, issued, history>>

\* PendingTTL has passed.
Expire(t) ==
  /\ t \in pending
  /\ pending' = pending \ {t}
  /\ UNCHANGED <<secret, enrolled, devices, signedIn, cookie, issued, call, history, faults>>

\* A logout or the session's expiry; module Sessions has the details.
SignOut(b) ==
  /\ b \in signedIn
  /\ signedIn' = signedIn \ {b}
  /\ UNCHANGED <<store, cookie, issued, call, history, faults>>

Init ==
  /\ secret = None /\ enrolled = FALSE /\ devices = {} /\ pending = {}
  /\ signedIn = {}
  /\ cookie = [b \in Browsers |-> None]
  /\ issued = {}
  /\ call = [c \in Calls |-> NoCall]
  /\ shown = {} /\ proven = {}
  /\ exchanged = [t \in Tokens |-> 0]
  /\ faults = 0

Start(c) ==
  \E b \in Browsers :
    \/ Login(c, b)
    \/ \E t \in Tokens, s \in Secrets : Verify2FA(c, b, t, s)
    \/ \E s \in Secrets : VerifyEnrollment(c, b, s)

Step(c) ==
  \/ GetPending(c) \/ CheckCode(c) \/ Confirm(c) \/ CompleteLogin(c) \/ Answer(c)
  \/ Fail(c)
  \/ \E t \in Tokens : CreatePending(c, t)
  \/ \E ok \in BOOLEAN :
       \/ CheckEnrolled(c, ok) \/ CheckDevice(c, ok) \/ DeletePending(c, ok)
       \/ CountDevices(c, ok) \/ \E d \in Devices : TrustDevice(c, d, ok)

Next ==
  \/ \E c \in Calls : Start(c) \/ Step(c)
  \/ \E b \in Browsers :
       \/ SignOut(b)
       \/ \E s \in Secrets : Enroll(b, s)
       \/ \E d \in Devices : RemoveDevice(b, d)
  \/ \E t \in Tokens : Expire(t)

Spec == Init /\ [][Next]_vars

----------------------------------------------------------------------------
(* Properties. *)

Cap == MaxDevices - 1 + Cardinality(Calls) + faults

Trusting == { c \in Calls : At(c, "trust") }

\* The count and the insert are two statements, so that requests under way
\* together may each take the last place, but no more than one each: trusted
\* devices exceed maxTrustedDevices by less than the number of requests at a time
\* and the number of failed counts (VerifyEnrollment and Verify2FA).
DevicesBounded == Cardinality(devices) + Cardinality(Trusting) <= Cap

\* Reading a pending token and deleting it are two calls of Redis, so that
\* requests under way together may each exchange it, but it is not given again:
\* it yields no more sessions than there are requests at a time and failed
\* deletions (Verify2FA).
ExchangesBounded ==
  \A t \in Tokens : exchanged[t] <= Cardinality(Calls) + faults

\* Why: requests past a token's deletion either followed a failed one or read
\* the token before it was gone.
Redeeming(t) ==
  { c \in Calls : call[c].token = t /\ call[c].stage \in {"count", "trust", "complete"} }

Exchanging(t) ==
  { c \in Calls : /\ call[c].token = t
                  /\ call[c].stage \in {"code", "redeem", "count", "trust", "complete"} }

Shape ==
  \A c \in Calls :
    /\ call[c].stage # "idle" => call[c].browser \in Browsers
    /\ call[c].stage \in {"pending", "code"} => call[c].code \in Secrets
    /\ call[c].token # None =>
         /\ call[c].op = "verify" /\ call[c].token \in issued
         /\ call[c].stage \notin {"account", "device", "confirm"}

Tally ==
  \A t \in Tokens :
    /\ t \notin issued => exchanged[t] = 0
    /\ t \in pending => exchanged[t] + Cardinality(Redeeming(t)) <= faults
    /\ exchanged[t] + Cardinality(Exchanging(t)) <= Cardinality(Calls) + faults

\* Nothing is "active" until a code of the very secret that is stored was
\* entered (the comment on Enroll).
ConfirmedSecret == enrolled => secret \in proven
=============================================================================
