--------------------------- MODULE ImageCoalescing ---------------------------
(***************************************************************************)
(* imageHandler of internal/imageapi/image.go: an LRU cache of rendered    *)
(* images in front of the image processor, and a map of in-flight keys by  *)
(* which concurrent requests for one key wait for the first of them.       *)
(*                                                                         *)
(* A request is one call of the handler. A done channel is named by the    *)
(* request that made it. The image processor is its contract: it returns   *)
(* an image, an error or ErrQueueFull, and, once its queue has shut down,  *)
(* it may panic (WorkerQueue!SendOnClosed).                                *)
(***************************************************************************)
EXTENDS Naturals, FiniteSets

CONSTANTS Requests,  (* the calls of imageHandler                          *)
          Keys,      (* cache keys: image id, size, format and effects     *)
          NoRequest  (* no entry in the in-flight map                      *)

ASSUME CoalescingAssumption == NoRequest \notin Requests

VARIABLES
    pc,          \* pc[r]: the statement r is at, or how it was answered
    key,         \* key[r]: the cache key of r
    loaded,      \* loaded[r]: LoadOrStore found another request's channel
    waitsOn,     \* waitsOn[r]: the request whose channel r found
    outcome,     \* outcome[r]: what ProcessImage returned to r
    lru,         \* the keys with an image in a.imageCache
    inflight,    \* a.inflight: the request whose channel is stored for a key
    doneClosed,  \* the requests whose done channel is closed
    ctxDone,     \* the requests whose context has ended
    queueDown    \* the worker queue has shut down

vars == <<pc, key, loaded, waitsOn, outcome, lru, inflight, doneClosed, ctxDone, queueDown>>

Answers == {"served", "failed", "unavailable", "panicked"}
Outcome == {"image", "error", "queueFull"}

\* The stretch in which a request that claimed its key owns the map entry.
Claimed == {"processing", "returned"}

TypeOK ==
    /\ pc \in [Requests -> {"idle", "missed", "following", "woken", "deleted", "settled"}
                             \union Claimed \union Answers]
    /\ key \in [Requests -> Keys]
    /\ loaded \in [Requests -> BOOLEAN]
    /\ waitsOn \in [Requests -> Requests \union {NoRequest}]
    /\ outcome \in [Requests -> Outcome \union {"none"}]
    /\ lru \subseteq Keys
    /\ inflight \in [Keys -> Requests \union {NoRequest}]
    /\ doneClosed \subseteq Requests
    /\ ctxDone \subseteq Requests
    /\ queueDown \in BOOLEAN

Init ==
    /\ pc = [r \in Requests |-> "idle"]
    /\ key \in [Requests -> Keys]
    /\ loaded = [r \in Requests |-> FALSE]
    /\ waitsOn = [r \in Requests |-> NoRequest]
    /\ outcome = [r \in Requests |-> "none"]
    /\ lru = {}
    /\ inflight = [k \in Keys |-> NoRequest]
    /\ doneClosed = {}
    /\ ctxDone = {}
    /\ queueDown = FALSE

-----------------------------------------------------------------------------

At(r, from, to) == /\ pc[r] = from
                   /\ pc' = [pc EXCEPT ![r] = to]

Leads(r) == ~loaded[r]

\* The first look at the LRU cache.
Lookup(r) ==
    /\ At(r, "idle", IF key[r] \in lru THEN "served" ELSE "missed")
    /\ UNCHANGED <<key, loaded, waitsOn, outcome, lru, inflight, doneClosed, ctxDone, queueDown>>

\* Mutant of Claim: a Load and a Store in place of LoadOrStore; another request
\* may have stored its channel since the Load.
ClaimAfterLoad(r) ==
    /\ At(r, "missed", "processing")
    /\ inflight' = [inflight EXCEPT ![key[r]] = r]
    /\ UNCHANGED <<key, loaded, waitsOn, outcome, lru, doneClosed, ctxDone, queueDown>>

\* LoadOrStore stores r's channel: r leads and goes on to the processor.
Claim(r) ==
    /\ inflight[key[r]] = NoRequest
    /\ At(r, "missed", "processing")
    /\ inflight' = [inflight EXCEPT ![key[r]] = r]
    /\ UNCHANGED <<key, loaded, waitsOn, outcome, lru, doneClosed, ctxDone, queueDown>>

\* LoadOrStore finds a channel: r will wait for it.
Follow(r) ==
    /\ inflight[key[r]] # NoRequest
    /\ At(r, "missed", "following")
    /\ loaded' = [loaded EXCEPT ![r] = TRUE]
    /\ waitsOn' = [waitsOn EXCEPT ![r] = inflight[key[r]]]
    /\ UNCHANGED <<key, outcome, lru, inflight, doneClosed, ctxDone, queueDown>>

Wake(r) ==
    /\ waitsOn[r] \in doneClosed
    /\ At(r, "following", "woken")
    /\ UNCHANGED <<key, loaded, waitsOn, outcome, lru, inflight, doneClosed, ctxDone, queueDown>>

\* Mutant of GiveUp: the wait does not look at the request's context.
GiveUpNever(r) == FALSE /\ At(r, "following", "failed") /\ UNCHANGED vars

GiveUp(r) ==
    /\ r \in ctxDone
    /\ At(r, "following", "failed")
    /\ UNCHANGED <<key, loaded, waitsOn, outcome, lru, inflight, doneClosed, ctxDone, queueDown>>

\* The second look at the LRU cache: on a miss r processes the image itself,
\* without claiming the key (loaded stays true).
Recheck(r) ==
    /\ At(r, "woken", IF key[r] \in lru THEN "served" ELSE "processing")
    /\ UNCHANGED <<key, loaded, waitsOn, outcome, lru, inflight, doneClosed, ctxDone, queueDown>>

\* Mutant of ProcessReturns: errors are returned before the cleanup.
ProcessReturnsEarly(r, o) ==
    /\ At(r, "processing", IF o = "error" THEN "failed"
                           ELSE IF Leads(r) THEN "returned" ELSE "settled")
    /\ outcome' = [outcome EXCEPT ![r] = o]
    /\ UNCHANGED <<key, loaded, waitsOn, lru, inflight, doneClosed, ctxDone, queueDown>>

\* ProcessImage returns. A follower that processes has nothing to clean up.
ProcessReturns(r, o) ==
    /\ At(r, "processing", IF Leads(r) THEN "returned" ELSE "settled")
    /\ outcome' = [outcome EXCEPT ![r] = o]
    /\ UNCHANGED <<key, loaded, waitsOn, lru, inflight, doneClosed, ctxDone, queueDown>>

\* A panic leaves the handler with no deferred cleanup to run; the recovery
\* middleware answers the request.
ProcessPanics(r) ==
    /\ queueDown
    /\ At(r, "processing", "panicked")
    /\ UNCHANGED <<key, loaded, waitsOn, outcome, lru, inflight, doneClosed, ctxDone, queueDown>>

\* Mutant of DeleteEntry: the entry stays.
DeleteEntryForgotten(r) ==
    /\ At(r, "returned", "deleted")
    /\ UNCHANGED <<key, loaded, waitsOn, outcome, lru, inflight, doneClosed, ctxDone, queueDown>>

\* inflight.Delete(cacheKey): by key, whoever the entry belongs to.
DeleteEntry(r) ==
    /\ At(r, "returned", "deleted")
    /\ inflight' = [inflight EXCEPT ![key[r]] = NoRequest]
    /\ UNCHANGED <<key, loaded, waitsOn, outcome, lru, doneClosed, ctxDone, queueDown>>

CloseDone(r) ==
    /\ At(r, "deleted", "settled")
    /\ doneClosed' = doneClosed \union {r}
    /\ UNCHANGED <<key, loaded, waitsOn, outcome, lru, inflight, ctxDone, queueDown>>

\* The error returns, or the image is added to the LRU cache and sent.
Settle(r) ==
    /\ At(r, "settled", CASE outcome[r] = "image"     -> "served"
                          [] outcome[r] = "error"     -> "failed"
                          [] outcome[r] = "queueFull" -> "unavailable")
    /\ lru' = IF outcome[r] = "image" THEN lru \union {key[r]} ELSE lru
    /\ UNCHANGED <<key, loaded, waitsOn, outcome, inflight, doneClosed, ctxDone, queueDown>>

-----------------------------------------------------------------------------

\* An entry expires after imageCacheTTL, or makes room for a newer one.
Evict(k) ==
    /\ k \in lru
    /\ lru' = lru \ {k}
    /\ UNCHANGED <<pc, key, loaded, waitsOn, outcome, inflight, doneClosed, ctxDone, queueDown>>

\* The request's context ends: its client left, or http.TimeoutHandler fired.
Cancel(r) ==
    /\ r \notin ctxDone
    /\ ctxDone' = ctxDone \union {r}
    /\ UNCHANGED <<pc, key, loaded, waitsOn, outcome, lru, inflight, doneClosed, queueDown>>

QueueShutdown ==
    /\ ~queueDown
    /\ queueDown' = TRUE
    /\ UNCHANGED <<pc, key, loaded, waitsOn, outcome, lru, inflight, doneClosed, ctxDone>>

Terminated == (\A r \in Requests : pc[r] \in Answers) /\ UNCHANGED vars

HandlerStep(r) ==
    \/ Lookup(r) \/ Claim(r) \/ Follow(r) \/ Wake(r) \/ GiveUp(r) \/ Recheck(r)
    \/ \E o \in Outcome : ProcessReturns(r, o)
    \/ ProcessPanics(r)
    \/ DeleteEntry(r) \/ CloseDone(r) \/ Settle(r)

Next ==
    \/ \E r \in Requests : HandlerStep(r) \/ Cancel(r)
    \/ \E k \in Keys : Evict(k)
    \/ QueueShutdown
    \/ Terminated

Spec == Init /\ [][Next]_vars

\* The handler's goroutine runs on. ProcessImage returns or panics: a job that
\* is never answered ends with its request's context (WorkerQueue!EveryCallReturns).
Scheduling == \A r \in Requests : WF_vars(pc[r] # "idle" /\ HandlerStep(r))

FairSpec == Spec /\ Scheduling

\* Every request runs under http.TimeoutHandler, which ends its context.
Deadlines == \A r \in Requests : WF_vars(Cancel(r))

-----------------------------------------------------------------------------
(* Properties.                                                               *)

\* The entry a leader deletes at image.go:101 is its own: between its claim and
\* its cleanup the map holds the leader's own channel, so two leaders of a key
\* never overlap and no follower is cut off from a live leader.
LeaderOwnsEntry ==
    \A r \in Requests : Leads(r) /\ pc[r] \in Claimed => inflight[key[r]] = r

\* The map never keeps a channel nobody will close, save that of a leader that
\* panicked out of the handler.
EntryHasLeader ==
    \A k \in Keys : \A r \in Requests : inflight[k] = r =>
        /\ key[r] = k
        /\ Leads(r)
        /\ pc[r] \in Claimed \union {"panicked"}

\* A follower waits on a request for its own key that did claim that key, and
\* whose channel is closed or is still going to be, unless that leader panicked.
FollowerHasLeader ==
    \A r \in Requests : pc[r] = "following" =>
        LET l == waitsOn[r] IN
        /\ l \in Requests
        /\ key[l] = key[r]
        /\ Leads(l)
        /\ l \in doneClosed \/ pc[l] \in Claimed \union {"deleted", "panicked"}

\* done is closed at most once (a second close would panic): only after the
\* handler's own delete, and never before.
ClosedByOwnLeader ==
    \A r \in doneClosed : Leads(r) /\ pc[r] \in {"settled", "served", "failed", "unavailable"}

\* The inductive strengthening: who has claimed, and who has a result.
PhaseInv ==
    \A r \in Requests :
        /\ pc[r] \in {"idle", "missed", "returned", "deleted"} => Leads(r)
        /\ pc[r] \in {"following", "woken"} => ~Leads(r)
        /\ pc[r] \in {"returned", "deleted", "settled"} => outcome[r] \in Outcome

\* The inductive invariant: who owns the entry of a key, who waits on whom, and
\* whose channel is closed, at every step of the handler (image.go:54-111).
IInv ==
    /\ TypeOK
    /\ LeaderOwnsEntry
    /\ EntryHasLeader
    /\ FollowerHasLeader
    /\ ClosedByOwnLeader
    /\ PhaseInv

\* At most one request at a time works on a key on behalf of others.
OneLeaderPerKey ==
    \A q, r \in Requests : /\ Leads(q) /\ pc[q] \in Claimed
                           /\ Leads(r) /\ pc[r] \in Claimed
                           /\ key[q] = key[r]
                           => q = r

\* With a deadline on every request, every request is answered, whatever fails,
\* is evicted, or shuts down.
EveryRequestAnswered ==
    Deadlines => \A r \in Requests : pc[r] = "missed" ~> pc[r] \in Answers

\* A follower is released by its leader alone, without its own deadline, as
\* long as no leader panics.
FollowersReleased ==
    \A r \in Requests : pc[r] = "following"
                          ~> (pc[r] # "following" \/ pc[waitsOn[r]] = "panicked")
=============================================================================
