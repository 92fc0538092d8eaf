---------------------------- MODULE Access_proofs ----------------------------
(***************************************************************************)
(* What holds of sessions and keys for every set of browsers, logins, keys *)
(* and requests, and any number of restarts.                               *)
(***************************************************************************)
EXTENDS Access, TLAPS

LEMMA InitInv == Init => IInv
<1> SUFFICES ASSUME Init PROVE IInv
  OBVIOUS
<1> USE DEF Init
<1>1. TypeOK
  <2>1. asked \in 1..Candidates /\ epoch \in Nat
    BY AccessAssumption
  <2>2. config \in Configs /\ password \in Passwords
    <3>1. PICK s \in Settings : config = s[1] /\ password = s[2]
      OBVIOUS
    <3>2. s \in Configs \X Passwords
      BY <3>1, AccessAssumption
    <3>3. QED BY <3>1, <3>2
  <2>3. QED BY <2>1, <2>2 DEF TypeOK
<1>2. OwnLogins /\ EpochInv /\ CodesOnce /\ StoredKeys /\ LastInv /\ RefusedInv
  BY DEF OwnLogins, EpochInv, CodesOnce, StoredKeys, LastInv, RefusedInv
<1>3. SessionsAreEarned /\ ShownKeysWork /\ LastLoginGetsThrough
  BY DEF SessionsAreEarned, ShownKeysWork, LastLoginGetsThrough, Admitted
<1> QED BY <1>1, <1>2, <1>3 DEF IInv

-----------------------------------------------------------------------------
(* One lemma per action: first the parts it can disturb, then the others.    *)

\* Cookies of the process before are not those of the new one.
LEMMA StartInv == ASSUME IInv, Start PROVE IInv'
<1> USE DEF Start, settings, browser, provider, keys, history, IInv
<1>1. TypeOK'
  <2>1. asked' \in 1..Candidates /\ epoch' \in Nat
    BY AccessAssumption DEF TypeOK
  <2>2. QED BY <2>1 DEF TypeOK
<1>2. EpochInv'
  BY AccessAssumption DEF EpochInv, TypeOK
<1>3. SessionsAreEarned'
  BY AccessAssumption DEF SessionsAreEarned, Admitted, OwnLogins, EpochInv, TypeOK,
     CallbackRecord, OpRecord
<1>4. OwnLogins'
  BY AccessAssumption DEF OwnLogins, EpochInv, TypeOK
<1>5. /\ CodesOnce' /\ StoredKeys' /\ LastInv'
      /\ RefusedInv' /\ ShownKeysWork' /\ LastLoginGetsThrough'
  BY DEF CodesOnce, StoredKeys, LastInv, RefusedInv, ShownKeysWork,
     LastLoginGetsThrough, TypeOK
<1> QED BY <1>1, <1>2, <1>3, <1>4, <1>5

LEMMA ProbeInv == ASSUME IInv, Probe PROVE IInv'
<1> USE DEF Probe, settings, browser, provider, keys, history, IInv
<1>1. TypeOK'
  <2>1. asked' \in 1..Candidates
    BY AccessAssumption DEF TypeOK
  <2>2. boot' \in {"down", "probing", "up"} /\ oidc' \in BOOLEAN
    BY DEF TypeOK
  <2>3. QED BY <2>1, <2>2 DEF TypeOK
<1>2. EpochInv'
  BY AccessAssumption DEF EpochInv, TypeOK
<1>3. /\ OwnLogins' /\ CodesOnce' /\ StoredKeys' /\ LastInv' /\ RefusedInv'
      /\ SessionsAreEarned' /\ ShownKeysWork' /\ LastLoginGetsThrough'
  BY DEF OwnLogins, CodesOnce, StoredKeys, LastInv, RefusedInv, SessionsAreEarned,
     ShownKeysWork, LastLoginGetsThrough, Admitted, TypeOK
<1> QED BY <1>1, <1>2, <1>3

LEMMA CrashInv == ASSUME IInv, Crash PROVE IInv'
<1> USE DEF Crash, AllOut, settings, browser, provider, keys, history, IInv
<1>1. TypeOK'
  BY AccessAssumption DEF TypeOK
<1>2. OwnLogins'
  BY AccessAssumption DEF OwnLogins, TypeOK, CallbackRecord
<1>3. EpochInv'
  BY AccessAssumption DEF EpochInv, TypeOK
<1>4. CodesOnce'
  BY AccessAssumption DEF CodesOnce, OwnLogins, TypeOK, CallbackRecord
<1>5. StoredKeys'
  BY AccessAssumption DEF StoredKeys, TypeOK, OpRecord
<1>6. SessionsAreEarned'
  BY AccessAssumption DEF SessionsAreEarned, Admitted, OwnLogins, EpochInv, TypeOK,
     CallbackRecord, OpRecord
<1>7. LastInv' /\ RefusedInv' /\ ShownKeysWork' /\ LastLoginGetsThrough'
  BY DEF LastInv, RefusedInv, ShownKeysWork, LastLoginGetsThrough, TypeOK
<1> QED BY <1>1, <1>2, <1>3, <1>4, <1>5, <1>6, <1>7

LEMMA SubmitPasswordInv ==
  ASSUME IInv, NEW b \in Browsers, NEW p \in Passwords, SubmitPassword(b, p)
  PROVE  IInv'
<1> USE DEF SubmitPassword, Up, settings, browser, provider, keys, history, IInv
<1>1. TypeOK'
  BY AccessAssumption DEF TypeOK
<1>2. EpochInv'
  BY AccessAssumption DEF EpochInv, TypeOK
<1>3. SessionsAreEarned'
  BY AccessAssumption DEF SessionsAreEarned, Admitted, OwnLogins, EpochInv, TypeOK,
     CallbackRecord, OpRecord
<1>4. /\ OwnLogins' /\ CodesOnce' /\ StoredKeys' /\ LastInv'
      /\ RefusedInv' /\ ShownKeysWork' /\ LastLoginGetsThrough'
  BY DEF OwnLogins, CodesOnce, StoredKeys, LastInv, RefusedInv, ShownKeysWork,
     LastLoginGetsThrough, TypeOK
<1> QED BY <1>1, <1>2, <1>3, <1>4

LEMMA LogoutInv == ASSUME IInv, NEW b \in Browsers, Logout(b) PROVE IInv'
<1> USE DEF Logout, Up, ClearOIDCCookies, settings, browser, provider, keys, history, IInv
<1>1. TypeOK'
  BY AccessAssumption DEF TypeOK
<1>2. OwnLogins'
  BY AccessAssumption DEF OwnLogins, TypeOK, CallbackRecord
<1>3. EpochInv'
  BY AccessAssumption DEF EpochInv, TypeOK
<1>4. LastInv'
  BY AccessAssumption DEF LastInv, OwnLogins, TypeOK, CallbackRecord
<1>5. SessionsAreEarned'
  BY AccessAssumption DEF SessionsAreEarned, Admitted, OwnLogins, EpochInv, TypeOK,
     CallbackRecord, OpRecord
<1>6. LastLoginGetsThrough'
  BY AccessAssumption DEF LastLoginGetsThrough, LastInv, RefusedInv, OwnLogins, TypeOK,
     CallbackRecord
<1>7. CodesOnce' /\ StoredKeys' /\ RefusedInv' /\ ShownKeysWork'
  BY DEF CodesOnce, StoredKeys, RefusedInv, ShownKeysWork, TypeOK
<1> QED BY <1>1, <1>2, <1>3, <1>4, <1>5, <1>6, <1>7

LEMMA ExpireInv == ASSUME IInv, NEW b \in Browsers, Expire(b) PROVE IInv'
<1> USE DEF Expire, ClearOIDCCookies, settings, browser, provider, keys, history, IInv
<1>1. TypeOK'
  BY AccessAssumption DEF TypeOK
<1>2. OwnLogins'
  BY AccessAssumption DEF OwnLogins, TypeOK, CallbackRecord
<1>3. LastInv'
  BY AccessAssumption DEF LastInv, OwnLogins, TypeOK, CallbackRecord
<1>4. LastLoginGetsThrough'
  BY AccessAssumption DEF LastLoginGetsThrough, LastInv, RefusedInv, OwnLogins, TypeOK,
     CallbackRecord
<1>5. /\ EpochInv' /\ CodesOnce' /\ StoredKeys' /\ RefusedInv'
      /\ SessionsAreEarned' /\ ShownKeysWork'
  BY DEF EpochInv, CodesOnce, StoredKeys, RefusedInv, SessionsAreEarned, ShownKeysWork,
     Admitted, TypeOK
<1> QED BY <1>1, <1>2, <1>3, <1>4, <1>5

\* The login is new, so no callback, cookie or refusal is about it.
LEMMA StartLoginInv ==
  ASSUME IInv, NEW b \in Browsers, NEW l \in Logins, StartLogin(b, l)
  PROVE  IInv'
<1> USE DEF StartLogin, Started, Up, settings, browser, provider, keys, history, IInv
<1>1. TypeOK'
  BY AccessAssumption DEF TypeOK
<1>2. OwnLogins'
  BY AccessAssumption DEF OwnLogins, TypeOK, CallbackRecord
<1>3. LastInv'
  BY AccessAssumption DEF LastInv, OwnLogins, TypeOK, CallbackRecord
<1>4. RefusedInv'
  BY AccessAssumption DEF RefusedInv, TypeOK
<1>5. SessionsAreEarned'
  BY AccessAssumption DEF SessionsAreEarned, Admitted, OwnLogins, EpochInv, TypeOK,
     CallbackRecord, OpRecord
<1>6. LastLoginGetsThrough'
  BY AccessAssumption DEF LastLoginGetsThrough, LastInv, RefusedInv, OwnLogins, TypeOK,
     CallbackRecord
<1>7. EpochInv' /\ CodesOnce' /\ StoredKeys' /\ ShownKeysWork'
  BY DEF EpochInv, CodesOnce, StoredKeys, ShownKeysWork, TypeOK
<1> QED BY <1>1, <1>2, <1>3, <1>4, <1>5, <1>6, <1>7

\* A callback that is let through has the nonce of a login of its browser's own.
LEMMA CallbackInv ==
  ASSUME IInv, NEW c \in Callbacks, NEW b \in Browsers, NEW s \in Logins, NEW l \in Logins,
         Callback(c, b, s, l)
  PROVE  IInv'
<1> USE DEF Callback, Up, settings, browser, provider, keys, history, IInv
<1>1. TypeOK'
  BY AccessAssumption DEF TypeOK, CallbackRecord
<1>2. OwnLogins'
  BY AccessAssumption DEF OwnLogins, TypeOK, CallbackRecord
<1>3. EpochInv'
  BY AccessAssumption DEF EpochInv, TypeOK
<1>4. CodesOnce'
  BY AccessAssumption DEF CodesOnce, OwnLogins, TypeOK, CallbackRecord
<1>5. LastInv'
  BY AccessAssumption DEF LastInv, OwnLogins, TypeOK, CallbackRecord
<1>6. RefusedInv'
  BY AccessAssumption DEF RefusedInv, TypeOK
<1>7. LastLoginGetsThrough'
  BY AccessAssumption DEF LastLoginGetsThrough, LastInv, RefusedInv, OwnLogins, TypeOK,
     CallbackRecord
<1>8. StoredKeys' /\ SessionsAreEarned' /\ ShownKeysWork'
  BY DEF StoredKeys, SessionsAreEarned, ShownKeysWork, Admitted, TypeOK
<1> QED BY <1>1, <1>2, <1>3, <1>4, <1>5, <1>6, <1>7, <1>8

LEMMA AuthInv ==
  ASSUME IInv, NEW o \in Ops, NEW b \in Browsers, NEW do \in {"create", "revoke"},
         NEW k \in Keys \union {None}, Auth(o, b, do, k)
  PROVE  IInv'
<1> USE DEF Auth, Up, settings, browser, provider, keys, history, IInv
<1>1. TypeOK'
  BY AccessAssumption DEF TypeOK, OpRecord
<1>2. EpochInv'
  BY AccessAssumption DEF EpochInv, TypeOK
<1>3. StoredKeys'
  BY AccessAssumption DEF StoredKeys, TypeOK, OpRecord
<1>4. SessionsAreEarned'
  BY AccessAssumption DEF SessionsAreEarned, Admitted, OwnLogins, EpochInv, TypeOK,
     CallbackRecord, OpRecord
<1>5. /\ OwnLogins' /\ CodesOnce' /\ LastInv' /\ RefusedInv'
      /\ ShownKeysWork' /\ LastLoginGetsThrough'
  BY DEF OwnLogins, CodesOnce, LastInv, RefusedInv, ShownKeysWork, LastLoginGetsThrough, TypeOK
<1> QED BY <1>1, <1>2, <1>3, <1>4, <1>5

\* The code that passes is that of the nonce, and so of a login of this browser.
LEMMA ExchangeInv == ASSUME IInv, NEW c \in Callbacks, Exchange(c) PROVE IInv'
<1> USE DEF Exchange, ExchangeStep, ExchangeFails, Accept, settings, browser, provider,
            keys, history, IInv
<1>1. TypeOK'
  BY AccessAssumption DEF TypeOK, CallbackRecord
<1>2. OwnLogins'
  BY AccessAssumption DEF OwnLogins, TypeOK, CallbackRecord
<1>3. EpochInv'
  BY AccessAssumption DEF EpochInv, TypeOK
<1>4. CodesOnce'
  BY AccessAssumption DEF CodesOnce, OwnLogins, TypeOK, CallbackRecord
<1>5. LastInv'
  BY AccessAssumption DEF LastInv, OwnLogins, TypeOK, CallbackRecord
<1>6. SessionsAreEarned'
  BY AccessAssumption DEF SessionsAreEarned, Admitted, OwnLogins, EpochInv, TypeOK,
     CallbackRecord, OpRecord
<1>7. LastLoginGetsThrough'
  BY AccessAssumption DEF LastLoginGetsThrough, LastInv, RefusedInv, OwnLogins, TypeOK,
     CallbackRecord
<1>8. StoredKeys' /\ RefusedInv' /\ ShownKeysWork'
  BY DEF StoredKeys, RefusedInv, ShownKeysWork, TypeOK
<1> QED BY <1>1, <1>2, <1>3, <1>4, <1>5, <1>6, <1>7, <1>8

\* The login that is answered has been accepted, and is the browser's own.
LEMMA RespondInv == ASSUME IInv, NEW c \in Callbacks, Respond(c) PROVE IInv'
<1> USE DEF Respond, ClearOIDCCookies, settings, browser, provider, keys, history, IInv
<1>1. TypeOK'
  <2>1. cb[c] \in CallbackRecord
    BY DEF TypeOK
  <2>2. cb[c].by \in Browsers /\ cb[c].login \in Logins
    BY <2>1 DEF CallbackRecord
  <2>3. session' \in [Browsers -> Nat] /\ idToken' \in [Browsers -> Logins \union {None}]
    BY <2>2 DEF TypeOK
  <2>4. QED BY <2>3 DEF TypeOK
<1>2. OwnLogins'
  BY AccessAssumption DEF OwnLogins, TypeOK, CallbackRecord
<1>3. EpochInv'
  BY AccessAssumption DEF EpochInv, TypeOK
<1>4. CodesOnce'
  BY AccessAssumption DEF CodesOnce, OwnLogins, TypeOK, CallbackRecord
<1>5. LastInv'
  BY AccessAssumption DEF LastInv, OwnLogins, TypeOK, CallbackRecord
<1>6. SessionsAreEarned'
  BY AccessAssumption DEF SessionsAreEarned, Admitted, OwnLogins, EpochInv, TypeOK,
     CallbackRecord, OpRecord
<1>7. LastLoginGetsThrough'
  BY AccessAssumption DEF LastLoginGetsThrough, LastInv, RefusedInv, OwnLogins, TypeOK,
     CallbackRecord
<1>8. StoredKeys' /\ RefusedInv' /\ ShownKeysWork'
  BY DEF StoredKeys, RefusedInv, ShownKeysWork, TypeOK
<1> QED BY <1>1, <1>2, <1>3, <1>4, <1>5, <1>6, <1>7, <1>8

LEMMA AbandonInv == ASSUME IInv, NEW c \in Callbacks, Abandon(c) PROVE IInv'
<1> USE DEF Abandon, settings, browser, provider, keys, history, IInv
<1>1. TypeOK'
  BY AccessAssumption DEF TypeOK
<1>2. OwnLogins'
  BY AccessAssumption DEF OwnLogins, TypeOK, CallbackRecord
<1>3. EpochInv'
  BY AccessAssumption DEF EpochInv, TypeOK
<1>4. CodesOnce'
  BY AccessAssumption DEF CodesOnce, OwnLogins, TypeOK, CallbackRecord
<1>5. /\ StoredKeys' /\ LastInv' /\ RefusedInv' /\ SessionsAreEarned'
      /\ ShownKeysWork' /\ LastLoginGetsThrough'
  BY DEF StoredKeys, LastInv, RefusedInv, SessionsAreEarned, ShownKeysWork,
     LastLoginGetsThrough, Admitted, TypeOK
<1> QED BY <1>1, <1>2, <1>3, <1>4, <1>5

LEMMA InsertKeyInv == ASSUME IInv, NEW o \in Ops, InsertKey(o) PROVE IInv'
<1> USE DEF InsertKey, OpStep, settings, browser, provider, keys, history, IInv
<1>1. TypeOK'
  BY AccessAssumption DEF TypeOK, OpRecord
<1>2. EpochInv'
  BY AccessAssumption DEF EpochInv, TypeOK
<1>3. StoredKeys'
  BY AccessAssumption DEF StoredKeys, TypeOK, OpRecord
<1>4. SessionsAreEarned'
  BY AccessAssumption DEF SessionsAreEarned, Admitted, OwnLogins, EpochInv, TypeOK,
     CallbackRecord, OpRecord
<1>5. ShownKeysWork'
  BY AccessAssumption DEF ShownKeysWork, StoredKeys, TypeOK, OpRecord
<1>6. OwnLogins' /\ CodesOnce' /\ LastInv' /\ RefusedInv' /\ LastLoginGetsThrough'
  BY DEF OwnLogins, CodesOnce, LastInv, RefusedInv, LastLoginGetsThrough, TypeOK
<1> QED BY <1>1, <1>2, <1>3, <1>4, <1>5, <1>6

LEMMA ShowKeyInv == ASSUME IInv, NEW o \in Ops, ShowKey(o) PROVE IInv'
<1> USE DEF ShowKey, OpStep, settings, browser, provider, keys, history, IInv
<1>1. TypeOK'
  <2>1. known' \subseteq Keys
    BY DEF StoredKeys, TypeOK
  <2>2. QED BY <2>1 DEF TypeOK
<1>2. EpochInv'
  BY AccessAssumption DEF EpochInv, TypeOK
<1>3. StoredKeys'
  BY AccessAssumption DEF StoredKeys, TypeOK, OpRecord
<1>4. SessionsAreEarned'
  BY AccessAssumption DEF SessionsAreEarned, Admitted, OwnLogins, EpochInv, TypeOK,
     CallbackRecord, OpRecord
<1>5. ShownKeysWork'
  BY AccessAssumption DEF ShownKeysWork, StoredKeys, TypeOK, OpRecord
<1>6. OwnLogins' /\ CodesOnce' /\ LastInv' /\ RefusedInv' /\ LastLoginGetsThrough'
  BY DEF OwnLogins, CodesOnce, LastInv, RefusedInv, LastLoginGetsThrough, TypeOK
<1> QED BY <1>1, <1>2, <1>3, <1>4, <1>5, <1>6

LEMMA RevokeKeyInv == ASSUME IInv, NEW o \in Ops, RevokeKey(o) PROVE IInv'
<1> USE DEF RevokeKey, OpStep, settings, browser, provider, keys, history, IInv
<1>1. TypeOK'
  BY AccessAssumption DEF TypeOK, OpRecord
<1>2. EpochInv'
  BY AccessAssumption DEF EpochInv, TypeOK
<1>3. StoredKeys'
  BY AccessAssumption DEF StoredKeys, TypeOK, OpRecord
<1>4. SessionsAreEarned'
  BY AccessAssumption DEF SessionsAreEarned, Admitted, OwnLogins, EpochInv, TypeOK,
     CallbackRecord, OpRecord
<1>5. ShownKeysWork'
  BY AccessAssumption DEF ShownKeysWork, StoredKeys, TypeOK, OpRecord
<1>6. OwnLogins' /\ CodesOnce' /\ LastInv' /\ RefusedInv' /\ LastLoginGetsThrough'
  BY DEF OwnLogins, CodesOnce, LastInv, RefusedInv, LastLoginGetsThrough, TypeOK
<1> QED BY <1>1, <1>2, <1>3, <1>4, <1>5, <1>6

LEMMA LeaveInv == ASSUME IInv, NEW o \in Ops, Leave(o) PROVE IInv'
<1> USE DEF Leave, OpStep, settings, browser, provider, keys, history, IInv
<1>1. TypeOK'
  BY AccessAssumption DEF TypeOK
<1>2. EpochInv'
  BY AccessAssumption DEF EpochInv, TypeOK
<1>3. StoredKeys'
  BY AccessAssumption DEF StoredKeys, TypeOK, OpRecord
<1>4. SessionsAreEarned'
  BY AccessAssumption DEF SessionsAreEarned, Admitted, OwnLogins, EpochInv, TypeOK,
     CallbackRecord, OpRecord
<1>5. /\ OwnLogins' /\ CodesOnce' /\ LastInv' /\ RefusedInv'
      /\ ShownKeysWork' /\ LastLoginGetsThrough'
  BY DEF OwnLogins, CodesOnce, LastInv, RefusedInv, ShownKeysWork, LastLoginGetsThrough, TypeOK
<1> QED BY <1>1, <1>2, <1>3, <1>4, <1>5

\* Uploads change nothing that the invariant is about but their own key.
LEMMA UploadInv ==
  ASSUME IInv, NEW u \in Uploads, EndUpload(u) \/ \E k \in Keys : Lookup(u, k)
  PROVE  IInv'
<1>1. /\ UNCHANGED <<settings, boot, asked, epoch, oidc, browser, provider, cb, op, key,
                     known, history>>
      /\ upload' \in [Uploads -> Keys \union {None}]
  BY DEF EndUpload, Lookup, UploadStep, IInv, TypeOK
<1>2. TypeOK'
  BY <1>1 DEF IInv, TypeOK, settings, browser, provider, history
<1>3. OwnLogins' /\ EpochInv' /\ CodesOnce' /\ StoredKeys' /\ LastInv' /\ RefusedInv'
  BY <1>1 DEF IInv, OwnLogins, EpochInv, CodesOnce, StoredKeys, LastInv, RefusedInv,
     settings, browser, provider, history
<1>4. SessionsAreEarned' /\ ShownKeysWork' /\ LastLoginGetsThrough'
  BY <1>1 DEF IInv, SessionsAreEarned, ShownKeysWork, LastLoginGetsThrough, Admitted,
     settings, browser, provider, history
<1> QED BY <1>2, <1>3, <1>4 DEF IInv

LEMMA NextInv == IInv /\ [Next]_vars => IInv'
<1> SUFFICES ASSUME IInv, [Next]_vars PROVE IInv'
  OBVIOUS
<1>1. CASE Start \/ Probe \/ Crash
  BY <1>1, StartInv, ProbeInv, CrashInv
<1>2. ASSUME NEW b \in Browsers, Logout(b) \/ Expire(b) PROVE IInv'
  BY <1>2, LogoutInv, ExpireInv
<1>3. ASSUME NEW c \in Callbacks, Exchange(c) \/ Respond(c) \/ Abandon(c) PROVE IInv'
  BY <1>3, ExchangeInv, RespondInv, AbandonInv
<1>4. ASSUME NEW o \in Ops, InsertKey(o) \/ ShowKey(o) \/ RevokeKey(o) \/ Leave(o) PROVE IInv'
  BY <1>4, InsertKeyInv, ShowKeyInv, RevokeKeyInv, LeaveInv
<1>5. CASE UNCHANGED vars
  <2> USE <1>5 DEF vars, settings, browser, provider, keys, history, IInv
  <2>1. TypeOK'
    BY DEF TypeOK
  <2>2. OwnLogins' /\ EpochInv' /\ CodesOnce' /\ StoredKeys' /\ LastInv' /\ RefusedInv'
    BY DEF OwnLogins, EpochInv, CodesOnce, StoredKeys, LastInv, RefusedInv
  <2>3. SessionsAreEarned' /\ ShownKeysWork' /\ LastLoginGetsThrough'
    BY DEF SessionsAreEarned, ShownKeysWork, LastLoginGetsThrough, Admitted
  <2>4. QED BY <2>1, <2>2, <2>3
<1> QED BY <1>1, <1>2, <1>3, <1>4, <1>5, SubmitPasswordInv, StartLoginInv, CallbackInv,
           AuthInv, UploadInv DEF Next

-----------------------------------------------------------------------------

\* The inductive invariant: cookies, callbacks and sessions belong to logins the
\* browser has started, codes are exchanged once, and keys are stored before they
\* are shown.
THEOREM Invariance == Spec => []IInv
<1>1. QED BY InitInv, NextInv, PTL DEF Spec

\* Sessions and requests past auth are earned by this browser in this process: by
\* the text that it has for a password, empty when none is configured, or by the
\* code of a login this browser has started (admin.go:144-173, oidc.go:273-350).
THEOREM SessionsEarned == Spec => []SessionsAreEarned
<1>1. IInv => SessionsAreEarned
  BY DEF IInv
<1>2. QED BY <1>1, Invariance, PTL

\* The login a browser started last is let through on its way back
\* (oidc.go:273-317), with any number of tabs.
THEOREM LastLoginPasses == Spec => []LastLoginGetsThrough
<1>1. IInv => LastLoginGetsThrough
  BY DEF IInv
<1>2. QED BY <1>1, Invariance, PTL

\* A key somebody has seen is in the table or revoked (admin.go:602-614,
\* postgres.go:464-491).
THEOREM ShownKeysAreStored == Spec => []ShownKeysWork
<1>1. IInv => ShownKeysWork
  BY DEF IInv
<1>2. QED BY <1>1, Invariance, PTL
=============================================================================
