------------------------------- MODULE Access --------------------------------
(***************************************************************************)
(* Who may change the catalog. Admins hold a session cookie: the token of   *)
(* the process that set it, for the password or for a login at an OpenID    *)
(* Connect provider (admin.go, oidc.go). Upload clients hold an API key     *)
(* that an admin created (uploadapi.go, postgres.go).                       *)
(*                                                                         *)
(* A login at the provider names the random state and nonce it was started  *)
(* with, and the code it was given; a callback may bring the state of one    *)
(* login with the code of another. Browsers may have several tabs: they send *)
(* requests while others are being answered, and keep cookies between them.  *)
(***************************************************************************)
EXTENDS Naturals

CONSTANTS Browsers, Logins, Keys,
          Settings,   (* what the environment may say: pairs of config and password *)
          Callbacks, Ops, Uploads, (* requests in progress at a time               *)
          Candidates, (* number of URLs a discovery document is looked for at   *)
          MaxEpochs,  (* bound: how often the process is started                *)
          None

Configs == {"none", "ids", "partial", "full"}
Passwords == {"", "secret"}

ASSUME AccessAssumption ==
    /\ Settings \subseteq Configs \X Passwords
    /\ Candidates \in Nat \ {0} /\ MaxEpochs \in Nat
    /\ None \notin Browsers \union Logins \union Keys

VARIABLES
    config,      \* what the environment says of OIDC: "none", "ids" (id and secret,
                 \* no URL), "partial" (id or secret is missing), "full"
    password,    \* a.Password: "", when the environment names none, or "secret"
    boot,        \* "down", "probing" for a discovery document, "up"
    asked,       \* the candidate that is asked for it
    epoch,       \* starts so far; the session token of the process
    oidc,        \* a.OIDC is there
    session,     \* session[b]: admin_session cookie, 0 for none
    stateCookie, nonceCookie, idToken,  \* the other cookies of b: a login or None
    starter,     \* starter[l]: the browser that started login l
    last,        \* last[b]: the login b started last
    exchanged,   \* logins whose code was exchanged
    cb,          \* cb[c]: a callback in progress
    op,          \* op[o]: a request to the admin panel
    key,         \* key[k]: "free", "stored" in api_keys or "revoked"
    known,       \* keys somebody was shown
    upload       \* upload[u]: the key of an upload in progress

\* History, read by the properties only.
VARIABLES
    earned,      \* browsers that have sent this process its password, or come back
                 \* to it with the code of a login they had started
    accepted,    \* logins whose callback passed all checks
    dropped,     \* logins whose cookies expired or were cleared by a logout
    refused      \* logins whose callback failed on the state cookie of its browser

browser == <<session, stateCookie, nonceCookie, idToken>>
provider == <<starter, last, exchanged>>
keys == <<key, known, upload>>
settings == <<config, password>>
history == <<earned, accepted, dropped, refused>>
vars == <<settings, boot, asked, epoch, oidc, browser, provider, cb, op, keys, history>>

CallbackRecord == [by : Browsers, login : Logins, nonce : Logins \union {None},
                   stage : {"exchange", "respond"}]
OpRecord == [by : Browsers, do : {"create", "shown", "revoke"}, key : Keys \union {None}]

TypeOK ==
    /\ config \in Configs /\ password \in Passwords
    /\ boot \in {"down", "probing", "up"} /\ asked \in 1..Candidates
    /\ epoch \in Nat /\ oidc \in BOOLEAN
    /\ session \in [Browsers -> Nat]
    /\ stateCookie \in [Browsers -> Logins \union {None}]
    /\ nonceCookie \in [Browsers -> Logins \union {None}]
    /\ idToken \in [Browsers -> Logins \union {None}]
    /\ starter \in [Logins -> Browsers \union {None}]
    /\ last \in [Browsers -> Logins \union {None}]
    /\ exchanged \subseteq Logins
    /\ cb \in [Callbacks -> CallbackRecord \union {None}]
    /\ op \in [Ops -> OpRecord \union {None}]
    /\ key \in [Keys -> {"free", "stored", "revoked"}] /\ known \subseteq Keys
    /\ upload \in [Uploads -> Keys \union {None}]
    /\ earned \subseteq Browsers /\ accepted \subseteq exchanged
    /\ dropped \subseteq Logins /\ refused \subseteq Logins

Init ==
    /\ \E s \in Settings : config = s[1] /\ password = s[2]
    /\ boot = "down" /\ asked = 1 /\ epoch = 0 /\ oidc = FALSE
    /\ session = [b \in Browsers |-> 0]
    /\ stateCookie = [b \in Browsers |-> None]
    /\ nonceCookie = [b \in Browsers |-> None]
    /\ idToken = [b \in Browsers |-> None]
    /\ starter = [l \in Logins |-> None] /\ last = [b \in Browsers |-> None]
    /\ exchanged = {}
    /\ cb = [c \in Callbacks |-> None]
    /\ op = [o \in Ops |-> None]
    /\ key = [k \in Keys |-> "free"] /\ known = {}
    /\ upload = [u \in Uploads |-> None]
    /\ earned = {} /\ accepted = {} /\ dropped = {} /\ refused = {}

-----------------------------------------------------------------------------
(* Start and end of the process.                                             *)

AllOut == /\ cb' = [c \in Callbacks |-> None]
          /\ op' = [o \in Ops |-> None]
          /\ upload' = [u \in Uploads |-> None]

\* The process starts and draws its session token. newOIDC: without any setting,
\* or without a URL, there is no OIDC; half an identity is an error, which ends
\* the process; otherwise the candidates are asked in turn.
Start ==
    /\ boot = "down" /\ epoch < MaxEpochs
    /\ epoch' = epoch + 1
    /\ \/ config \in {"none", "ids"} /\ boot' = "up"
       \/ config = "partial" /\ boot' = "down"
       \/ config = "full" /\ boot' = "probing"
    /\ asked' = 1 /\ oidc' = FALSE
    /\ earned' = {}
    /\ UNCHANGED <<settings, browser, provider, cb, op, keys, accepted, dropped, refused>>

\* fetchOIDCDiscovery: the first document that is complete. With none of them
\* the process ends, and the public API with it.
Probe ==
    /\ boot = "probing"
    /\ \/ boot' = "up" /\ oidc' = TRUE /\ UNCHANGED asked
       \/ asked < Candidates /\ asked' = asked + 1 /\ UNCHANGED <<boot, oidc>>
       \/ asked = Candidates /\ boot' = "down" /\ UNCHANGED <<asked, oidc>>
    /\ UNCHANGED <<settings, epoch, browser, provider, cb, op, keys, history>>

\* The process ends with all it was doing.
Crash ==
    /\ boot = "up"
    /\ boot' = "down"
    /\ AllOut
    /\ UNCHANGED <<settings, asked, epoch, oidc, browser, provider, key, known, history>>

-----------------------------------------------------------------------------
(* Sessions.                                                                 *)

Up == boot = "up"

\* handleLoginSubmit: what the form says is compared with a.Password; another
\* text changes nothing. With no password in the environment that is "", and so a
\* form without one is let in: only the page leaves the form out then.
SubmitPassword(b, p) ==
    /\ Up
    /\ p = password
    /\ session' = [session EXCEPT ![b] = epoch]
    /\ earned' = earned \union {x \in {b} : p = password}
    /\ UNCHANGED <<settings, boot, asked, epoch, oidc, stateCookie, nonceCookie, idToken,
                   provider, cb, op, keys, accepted, dropped, refused>>

\* clearOIDCCookies.
ClearOIDCCookies(b) == /\ stateCookie' = [stateCookie EXCEPT ![b] = None]
                       /\ nonceCookie' = [nonceCookie EXCEPT ![b] = None]

\* handleLogout clears cookies; the token of the process stays what it is.
Logout(b) ==
    /\ Up
    /\ session' = [session EXCEPT ![b] = 0]
    /\ idToken' = [idToken EXCEPT ![b] = None]
    /\ ClearOIDCCookies(b)
    /\ dropped' = dropped \union ({stateCookie[b]} \ {None})
    /\ UNCHANGED <<settings, boot, asked, epoch, oidc, provider, cb, op, keys, earned,
                   accepted, refused>>

\* Five minutes after they were set, both cookies of a login are gone.
Expire(b) ==
    /\ stateCookie[b] # None
    /\ ClearOIDCCookies(b)
    /\ dropped' = dropped \union {stateCookie[b]}
    /\ UNCHANGED <<settings, boot, asked, epoch, oidc, session, idToken, provider, cb, op, keys,
                   earned, accepted, refused>>

\* What a handler that starts login l does apart from the cookies.
Started(b, l) ==
    /\ Up /\ oidc /\ starter[l] = None
    /\ starter' = [starter EXCEPT ![l] = b]
    /\ last' = [last EXCEPT ![b] = l]
    /\ UNCHANGED <<settings, boot, asked, epoch, oidc, session, idToken, exchanged,
                   cb, op, keys, history>>

\* Mutant of StartLogin: keeps the state of a login that is under way.
StartLoginOnce(b, l) ==
    /\ Started(b, l)
    /\ IF stateCookie[b] # None THEN UNCHANGED <<stateCookie, nonceCookie>>
       ELSE /\ stateCookie' = [stateCookie EXCEPT ![b] = l]
            /\ nonceCookie' = [nonceCookie EXCEPT ![b] = l]

\* handleOIDCLogin, with a state and nonce nobody has used before.
StartLogin(b, l) ==
    /\ Started(b, l)
    /\ stateCookie' = [stateCookie EXCEPT ![b] = l]
    /\ nonceCookie' = [nonceCookie EXCEPT ![b] = l]

\* handleOIDCCallback up to the exchange: b opens it with the state of login s and
\* the code that the provider gave to login l: as the tab that was sent there, once
\* more, with an address from another browser, or with one put together.
Callback(c, b, s, l) ==
    /\ Up /\ oidc /\ starter[s] # None /\ starter[l] # None /\ cb[c] = None
    /\ IF stateCookie[b] = s /\ nonceCookie[b] # None
       THEN /\ cb' = [cb EXCEPT ![c] = [by |-> b, login |-> l, nonce |-> nonceCookie[b],
                                        stage |-> "exchange"]]
            /\ UNCHANGED refused
       ELSE /\ refused' = refused \union {x \in {l} : s = l /\ starter[l] = b}
            /\ UNCHANGED cb
    /\ UNCHANGED <<settings, boot, asked, epoch, oidc, browser, provider, op, keys,
                   earned, accepted, dropped>>

\* The provider refuses a code it has taken before, or there is another error; the
\* browser is sent to the login page.
ExchangeFails(c) ==
    /\ cb' = [cb EXCEPT ![c] = None]
    /\ UNCHANGED <<exchanged, earned, accepted>>

\* The code is taken and its login passes for the browser's.
Accept(c) ==
    /\ cb' = [cb EXCEPT ![c].stage = "respond"]
    /\ accepted' = accepted \union {cb[c].login}
    /\ earned' = earned \union {x \in {cb[c].by} : starter[cb[c].login] = x}

\* What Exchange does apart from that.
ExchangeStep(c) ==
    /\ cb[c] # None /\ cb[c].stage = "exchange"
    /\ UNCHANGED <<settings, boot, asked, epoch, oidc, browser, starter, last, op, keys,
                   dropped, refused>>

\* Mutant of Exchange: takes the ID token whatever its nonce is.
ExchangeTrusting(c) ==
    /\ ExchangeStep(c)
    /\ \/ ExchangeFails(c)
       \/ /\ cb[c].login \notin exchanged
          /\ exchanged' = exchanged \union {cb[c].login}
          /\ Accept(c)

\* handleOIDCCallback: a code is good for one exchange; the ID token has the nonce
\* of its login, which has to be that of the cookie.
Exchange(c) ==
    /\ ExchangeStep(c)
    /\ \/ ExchangeFails(c)
       \/ /\ cb[c].login \notin exchanged
          /\ exchanged' = exchanged \union {cb[c].login}
          /\ \/ cb[c].nonce = cb[c].login /\ Accept(c)
             \/ /\ cb[c].nonce # cb[c].login
                /\ cb' = [cb EXCEPT ![c] = None] /\ UNCHANGED <<earned, accepted>>

\* The browser gets the answer: session and ID token; state and nonce, of
\* whichever login they are by now, are cleared.
Respond(c) ==
    /\ cb[c] # None /\ cb[c].stage = "respond"
    /\ session' = [session EXCEPT ![cb[c].by] = epoch]
    /\ idToken' = [idToken EXCEPT ![cb[c].by] = cb[c].login]
    /\ ClearOIDCCookies(cb[c].by)
    /\ cb' = [cb EXCEPT ![c] = None]
    /\ UNCHANGED <<settings, boot, asked, epoch, oidc, provider, op, keys, history>>

\* The browser does not wait for the answer.
Abandon(c) ==
    /\ cb[c] # None
    /\ cb' = [cb EXCEPT ![c] = None]
    /\ UNCHANGED <<settings, boot, asked, epoch, oidc, browser, provider, op, keys, history>>

-----------------------------------------------------------------------------
(* Requests to the admin panel, of which those about API keys are followed.  *)

OpStep(o) == /\ op[o] # None
             /\ UNCHANGED <<settings, boot, asked, epoch, oidc, browser, provider, cb, upload, history>>

\* auth: b has the session of this process; otherwise it is sent to the login
\* page. Keys are revoked from a list of those that are there.
Auth(o, b, do, k) ==
    /\ Up /\ op[o] = None
    /\ session[b] = epoch
    /\ (do = "create" /\ k = None) \/ (do = "revoke" /\ k \in Keys /\ key[k] = "stored")
    /\ op' = [op EXCEPT ![o] = [by |-> b, do |-> do, key |-> k]]
    /\ UNCHANGED <<settings, boot, asked, epoch, oidc, browser, provider, cb, keys, history>>

\* Mutant of InsertKey: shows a key that could not be stored.
InsertKeyUnchecked(o) ==
    /\ OpStep(o) /\ op[o].do = "create"
    /\ \E k \in Keys :
          /\ key[k] = "free"
          /\ \/ key' = [key EXCEPT ![k] = "stored"]
             \/ UNCHANGED key
          /\ op' = [op EXCEPT ![o] = [by |-> @.by, do |-> "shown", key |-> k]]
    /\ UNCHANGED known

\* CreateAPIKey: a random key nobody has; it is shown when it is stored.
InsertKey(o) ==
    /\ OpStep(o) /\ op[o].do = "create"
    /\ \/ \E k \in Keys :
            /\ key[k] = "free"
            /\ key' = [key EXCEPT ![k] = "stored"]
            /\ op' = [op EXCEPT ![o] = [by |-> @.by, do |-> "shown", key |-> k]]
       \/ op' = [op EXCEPT ![o] = None] /\ UNCHANGED key
    /\ UNCHANGED known

\* handleCreateAPIKey redirects to a page with the key, the only time it is seen.
ShowKey(o) ==
    /\ OpStep(o) /\ op[o].do = "shown"
    /\ known' = known \union {op[o].key}
    /\ op' = [op EXCEPT ![o] = None]
    /\ UNCHANGED key

\* DeleteAPIKey, or its failure.
RevokeKey(o) ==
    /\ OpStep(o) /\ op[o].do = "revoke"
    /\ key' \in {key, [key EXCEPT ![op[o].key] = "revoked"]}
    /\ op' = [op EXCEPT ![o] = None]
    /\ UNCHANGED known

\* The browser does not wait for the answer, or Exec fails on a row that
\* was stored: a key that is there stays unseen.
Leave(o) ==
    /\ OpStep(o)
    /\ op' = [op EXCEPT ![o] = None]
    /\ UNCHANGED <<key, known>>

-----------------------------------------------------------------------------
(* Requests with an API key.                                                 *)

UploadStep == UNCHANGED <<settings, boot, asked, epoch, oidc, browser, provider, cb, op, key,
                          known, history>>

\* apiKeyAuth and LookupAPIKey admit an upload; an error of the query reads as a
\* wrong key, and refuses it as one.
Lookup(u, k) ==
    /\ Up /\ upload[u] = None
    /\ k \in known /\ key[k] = "stored"
    /\ upload' = [upload EXCEPT ![u] = k]
    /\ UploadStep

EndUpload(u) ==
    /\ upload[u] # None
    /\ upload' = [upload EXCEPT ![u] = None]
    /\ UploadStep

-----------------------------------------------------------------------------
Next == \/ Start \/ Probe \/ Crash
        \/ \E b \in Browsers :
              \/ Logout(b) \/ Expire(b)
              \/ \E p \in Passwords : SubmitPassword(b, p)
              \/ \E l \in Logins : StartLogin(b, l)
              \/ \E c \in Callbacks, s, l \in Logins : Callback(c, b, s, l)
              \/ \E o \in Ops, do \in {"create", "revoke"}, k \in Keys \union {None} :
                    Auth(o, b, do, k)
        \/ \E c \in Callbacks : Exchange(c) \/ Respond(c) \/ Abandon(c)
        \/ \E o \in Ops : InsertKey(o) \/ ShowKey(o) \/ RevokeKey(o) \/ Leave(o)
        \/ \E u \in Uploads : EndUpload(u) \/ \E k \in Keys : Lookup(u, k)

Spec == Init /\ [][Next]_vars

-----------------------------------------------------------------------------
(* Properties.                                                               *)

Admitted(b) == \E o \in Ops : op[o] # None /\ op[o].by = b

\* Whoever holds a session of this process, or has a request past auth, has sent
\* this process the text it has for a password (with none configured, an empty
\* form), or has come back to it with the code of a login that it had started
\* itself: whatever tabs, restarts, repeated callbacks, callbacks opened in the
\* wrong browser and callbacks with the code of another login do.
SessionsAreEarned ==
    \A b \in Browsers : (session[b] = epoch /\ epoch > 0) \/ Admitted(b) => b \in earned

\* With several tabs, the one that started its login last gets through: its
\* callback is not refused for its state, unless the cookies have expired, the
\* browser has logged out, or one of its logins has been accepted already.
LastLoginGetsThrough ==
    \A l \in refused : last[starter[l]] = l =>
        l \in dropped \/ \E x \in accepted : starter[x] = starter[l]

\* A key that was shown to somebody is in the table until it is revoked, whatever
\* fails or dies between the two.
ShownKeysWork == \A k \in known : key[k] # "free"

-----------------------------------------------------------------------------
(* The inductive invariant.                                                  *)

\* Both cookies are those of one login, and all that names a login as a
\* browser's own is right about it.
OwnLogins ==
    /\ nonceCookie = stateCookie
    /\ \A b \in Browsers : /\ stateCookie[b] # None => starter[stateCookie[b]] = b
                           /\ idToken[b] # None => /\ starter[idToken[b]] = b
                                                   /\ idToken[b] \in accepted
    /\ \A c \in Callbacks : cb[c] # None =>
          /\ cb[c].nonce # None /\ starter[cb[c].nonce] = cb[c].by
          /\ starter[cb[c].login] # None
          /\ cb[c].stage = "respond" => /\ cb[c].login = cb[c].nonce
                                        /\ cb[c].login \in accepted
                                        /\ cb[c].by \in earned

\* Cookies are of this process or an earlier one; a stopped process does nothing.
EpochInv ==
    /\ \A b \in Browsers : session[b] <= epoch
    /\ boot # "down" => epoch > 0
    /\ boot # "up" => /\ \A c \in Callbacks : cb[c] = None
                      /\ \A o \in Ops : op[o] = None

\* A code is never answered twice.
CodesOnce == \A c, d \in Callbacks :
    cb[c] # None /\ cb[d] # None /\ cb[c].login = cb[d].login
        /\ cb[c].stage = "respond" /\ cb[d].stage = "respond" => c = d

StoredKeys == \A o \in Ops :
    op[o] # None /\ op[o].do \in {"shown", "revoke"} =>
        op[o].key \in Keys /\ key[op[o].key] # "free"

\* The login a browser has started last has left its cookies there.
LastInv == \A b \in Browsers : last[b] # None =>
    /\ starter[last[b]] = b
    /\ \/ stateCookie[b] = last[b] \/ last[b] \in dropped
       \/ \E x \in accepted : starter[x] = b

RefusedInv == \A l \in refused : starter[l] # None

IInv == /\ TypeOK /\ OwnLogins /\ EpochInv /\ CodesOnce /\ StoredKeys /\ LastInv /\ RefusedInv
        /\ SessionsAreEarned /\ ShownKeysWork /\ LastLoginGetsThrough
=============================================================================
