----------------------- MODULE ImageCoalescing_proofs -----------------------
(***************************************************************************)
(* What holds of request coalescing for every set of requests and keys.    *)
(***************************************************************************)
EXTENDS ImageCoalescing, TLAPS

LEMMA InitInv == Init => IInv
<1> SUFFICES ASSUME Init PROVE IInv
  OBVIOUS
<1>1. TypeOK
  BY DEF Init, TypeOK
<1>2. \A r \in Requests : pc[r] = "idle" /\ Leads(r) /\ key[r] \in Keys
  BY DEF Init, Leads
<1>3. \A k \in Keys : inflight[k] = NoRequest
  BY DEF Init
<1>4. LeaderOwnsEntry /\ FollowerHasLeader /\ PhaseInv
  BY <1>2 DEF LeaderOwnsEntry, FollowerHasLeader, PhaseInv, Claimed
<1>5. EntryHasLeader
  BY <1>3, CoalescingAssumption DEF EntryHasLeader
<1>6. ClosedByOwnLeader
  BY DEF Init, ClosedByOwnLeader
<1> QED BY <1>1, <1>4, <1>5, <1>6 DEF IInv

LEMMA TypeStep ==
  ASSUME IInv, [Next]_vars
  PROVE  TypeOK'
<1> USE DEF IInv, TypeOK
<1>1. ASSUME NEW r \in Requests, HandlerStep(r) PROVE TypeOK'
  <2> USE DEF At, Claimed, Answers
  <2>1. CASE Lookup(r) \/ Wake(r) \/ GiveUp(r) \/ Recheck(r) \/ ProcessPanics(r)
    BY <2>1 DEF Lookup, Wake, GiveUp, Recheck, ProcessPanics
  <2>2. CASE Claim(r)
    BY <2>2 DEF Claim
  <2>3. CASE Follow(r)
    BY <2>3 DEF Follow
  <2>4. ASSUME NEW o \in Outcome, ProcessReturns(r, o) PROVE TypeOK'
    BY <2>4 DEF ProcessReturns
  <2>5. CASE DeleteEntry(r)
    BY <2>5 DEF DeleteEntry
  <2>6. CASE CloseDone(r)
    BY <2>6 DEF CloseDone
  <2>7. CASE Settle(r)
    <3>1. outcome[r] \in {"image", "error", "queueFull"}
      BY <2>7 DEF Settle, PhaseInv, Outcome
    <3>2. PICK to \in {"served", "failed", "unavailable"} : At(r, "settled", to)
      BY <2>7, <3>1 DEF Settle
    <3>3. pc' \in [Requests -> {"idle", "missed", "following", "woken", "deleted", "settled"}
                                \union Claimed \union Answers]
      BY <3>2
    <3> QED BY <2>7, <3>3 DEF Settle
  <2> QED BY <1>1, <2>1, <2>2, <2>3, <2>4, <2>5, <2>6, <2>7 DEF HandlerStep
<1>2. ASSUME NEW r \in Requests, Cancel(r) PROVE TypeOK'
  BY <1>2 DEF Cancel
<1>3. ASSUME NEW k \in Keys, Evict(k) PROVE TypeOK'
  BY <1>3 DEF Evict
<1>4. CASE QueueShutdown \/ Terminated \/ UNCHANGED vars
  BY <1>4 DEF QueueShutdown, Terminated, vars
<1> QED BY <1>1, <1>2, <1>3, <1>4 DEF Next

\* Who owns a key, who waits and what is closed, apart from the types.
Ownership == /\ LeaderOwnsEntry /\ EntryHasLeader /\ FollowerHasLeader
             /\ ClosedByOwnLeader /\ PhaseInv

\* A move of one handler that leaves the in-flight map, the claims and the done
\* channels alone, outside the stretch from claim to close of a leader.
LEMMA QuietMove ==
  ASSUME Ownership, NEW r \in Requests, NEW to,
         \A q \in Requests : pc'[q] = IF q = r THEN to ELSE pc[q],
         UNCHANGED <<key, loaded, waitsOn, inflight, doneClosed>>,
         \A q \in Requests : q # r => outcome'[q] = outcome[q],
         to \notin {"idle", "deleted", "following", "returned", "settled"},
         to = "missed" => Leads(r),
         to = "woken" => ~Leads(r),
         to = "processing" => ~Leads(r),
         doneClosed \subseteq Requests,
         Leads(r) /\ pc[r] \in {"processing", "returned", "deleted", "panicked"} => to = "panicked",
         r \in doneClosed => to \in {"settled", "served", "failed", "unavailable"}
  PROVE  Ownership'
<1> USE DEF Ownership, Leads, Claimed
<1>1. LeaderOwnsEntry'
  BY DEF LeaderOwnsEntry
<1>2. EntryHasLeader'
  BY DEF EntryHasLeader
<1>3. FollowerHasLeader'
  BY DEF FollowerHasLeader
<1>4. ClosedByOwnLeader'
  BY DEF ClosedByOwnLeader
<1>5. PhaseInv'
  BY DEF PhaseInv
<1> QED BY <1>1, <1>2, <1>3, <1>4, <1>5

LEMMA HandlerStepInv ==
  ASSUME IInv, NEW r \in Requests, HandlerStep(r)
  PROVE  Ownership'
<1>0. Ownership /\ doneClosed \subseteq Requests
  BY DEF IInv, Ownership, TypeOK
<1>1. CASE Lookup(r) \/ Wake(r) \/ GiveUp(r) \/ Recheck(r) \/ ProcessPanics(r) \/ Settle(r)
  <2>1. PICK to : /\ pc' = [pc EXCEPT ![r] = to]
                  /\ \/ pc[r] = "idle" /\ to \in {"served", "missed"}
                     \/ pc[r] = "following" /\ to \in {"woken", "failed"}
                     \/ pc[r] = "woken" /\ to \in {"served", "processing"}
                     \/ pc[r] = "processing" /\ to = "panicked"
                     \/ pc[r] = "settled" /\ to \in {"served", "failed", "unavailable"}
                  /\ UNCHANGED <<key, loaded, waitsOn, outcome, inflight, doneClosed>>
    <3>1. CASE Settle(r)
      <4>1. outcome[r] \in {"image", "error", "queueFull"}
        BY <3>1 DEF Settle, At, IInv, PhaseInv, Outcome
      <4> QED BY <3>1, <4>1 DEF Settle, At
    <3> QED BY <1>1, <3>1 DEF Lookup, Wake, GiveUp, Recheck, ProcessPanics, At
  <2>2. \A q \in Requests : pc'[q] = IF q = r THEN to ELSE pc[q]
    BY <2>1 DEF IInv, TypeOK
  <2>3. /\ pc[r] \in {"idle"} => Leads(r)
        /\ pc[r] \in {"following", "woken"} => ~Leads(r)
        /\ r \in doneClosed => pc[r] \in {"settled", "served", "failed", "unavailable"}
    BY DEF IInv, PhaseInv, ClosedByOwnLeader
  <2> QED BY <1>0, <2>1, <2>2, <2>3, QuietMove
<1>2. CASE Claim(r)
  <2>1. /\ \A q \in Requests : pc'[q] = IF q = r THEN "processing" ELSE pc[q]
        /\ \A k \in Keys : inflight'[k] = IF k = key[r] THEN r ELSE inflight[k]
        /\ pc[r] = "missed" /\ inflight[key[r]] = NoRequest
        /\ key \in [Requests -> Keys]
        /\ UNCHANGED <<key, loaded, waitsOn, outcome, doneClosed>>
    BY <1>2 DEF Claim, At, IInv, TypeOK
  <2>2. Leads(r)
    BY <2>1 DEF IInv, PhaseInv
  <2>3. LeaderOwnsEntry'
    BY <2>1, CoalescingAssumption DEF IInv, LeaderOwnsEntry, Leads, Claimed
  <2>4. EntryHasLeader'
    BY <2>1, <2>2 DEF IInv, EntryHasLeader, Leads, Claimed
  <2>5. FollowerHasLeader'
    BY <2>1 DEF IInv, FollowerHasLeader, Leads, Claimed
  <2>6. ClosedByOwnLeader'
    BY <1>0, <2>1 DEF IInv, ClosedByOwnLeader, Leads
  <2>7. PhaseInv'
    BY <2>1 DEF IInv, PhaseInv, Leads
  <2> QED BY <2>3, <2>4, <2>5, <2>6, <2>7 DEF Ownership
<1>3. CASE Follow(r)
  <2>1. /\ \A q \in Requests : pc'[q] = IF q = r THEN "following" ELSE pc[q]
        /\ \A q \in Requests : loaded'[q] = IF q = r THEN TRUE ELSE loaded[q]
        /\ \A q \in Requests : waitsOn'[q] = IF q = r THEN inflight[key[r]] ELSE waitsOn[q]
        /\ pc[r] = "missed"
        /\ key[r] \in Keys /\ inflight[key[r]] \in Requests
        /\ UNCHANGED <<key, outcome, inflight, doneClosed>>
    BY <1>3 DEF Follow, At, IInv, TypeOK
  <2>2. LET l == inflight[key[r]]
        IN  key[l] = key[r] /\ Leads(l) /\ pc[l] \in Claimed \union {"panicked"}
    BY <2>1 DEF IInv, EntryHasLeader
  <2>3. LeaderOwnsEntry'
    BY <2>1 DEF IInv, LeaderOwnsEntry, Leads, Claimed
  <2>4. EntryHasLeader'
    BY <2>1 DEF IInv, EntryHasLeader, Leads, Claimed
  <2>5. FollowerHasLeader'
    <3> SUFFICES ASSUME NEW q \in Requests, pc'[q] = "following"
                 PROVE  /\ waitsOn'[q] \in Requests
                        /\ key'[waitsOn'[q]] = key'[q]
                        /\ ~loaded'[waitsOn'[q]]
                        /\ \/ waitsOn'[q] \in doneClosed'
                           \/ pc'[waitsOn'[q]] \in Claimed \union {"deleted", "panicked"}
      BY DEF FollowerHasLeader, Leads, Claimed
    <3>1. CASE q = r
      BY <2>1, <2>2, <3>1 DEF Leads, Claimed
    <3>2. CASE q # r
      <4> DEFINE l == waitsOn[q]
      <4>1. /\ l \in Requests /\ key[l] = key[q] /\ Leads(l)
            /\ l \in doneClosed \/ pc[l] \in Claimed \union {"deleted", "panicked"}
        BY <2>1, <3>2 DEF IInv, FollowerHasLeader
      <4>2. l # r
        BY <2>1, <4>1 DEF IInv, ClosedByOwnLeader, Claimed
      <4> QED BY <2>1, <3>2, <4>1, <4>2 DEF Leads, Claimed
    <3> QED BY <3>1, <3>2
  <2>6. ClosedByOwnLeader'
    BY <1>0, <2>1 DEF IInv, ClosedByOwnLeader, Leads
  <2>7. PhaseInv'
    BY <2>1 DEF IInv, PhaseInv, Leads
  <2> QED BY <2>3, <2>4, <2>5, <2>6, <2>7 DEF Ownership
<1>4. ASSUME NEW o \in Outcome, ProcessReturns(r, o) PROVE Ownership'
  <2>1. /\ \A q \in Requests : pc'[q] = IF q # r THEN pc[q]
                                        ELSE IF Leads(r) THEN "returned" ELSE "settled"
        /\ \A q \in Requests : outcome'[q] = IF q = r THEN o ELSE outcome[q]
        /\ pc[r] = "processing"
        /\ UNCHANGED <<key, loaded, waitsOn, inflight, doneClosed>>
    BY <1>4 DEF ProcessReturns, At, IInv, TypeOK
  <2>3. LeaderOwnsEntry'
    BY <2>1 DEF IInv, LeaderOwnsEntry, Leads, Claimed
  <2>4. EntryHasLeader'
    BY <2>1 DEF IInv, EntryHasLeader, Leads, Claimed
  <2>5. FollowerHasLeader'
    BY <2>1 DEF IInv, FollowerHasLeader, Leads, Claimed
  <2>6. ClosedByOwnLeader'
    BY <1>0, <2>1 DEF IInv, ClosedByOwnLeader, Leads
  <2>7. PhaseInv'
    BY <2>1 DEF IInv, PhaseInv, Leads
  <2> QED BY <2>3, <2>4, <2>5, <2>6, <2>7 DEF Ownership
<1>5. CASE DeleteEntry(r)
  <2>1. /\ \A q \in Requests : pc'[q] = IF q = r THEN "deleted" ELSE pc[q]
        /\ \A k \in Keys : inflight'[k] = IF k = key[r] THEN NoRequest ELSE inflight[k]
        /\ pc[r] = "returned"
        /\ key \in [Requests -> Keys]
        /\ UNCHANGED <<key, loaded, waitsOn, outcome, doneClosed>>
    BY <1>5 DEF DeleteEntry, At, IInv, TypeOK
  <2>2. Leads(r) /\ inflight[key[r]] = r /\ outcome[r] \in Outcome
    BY <2>1 DEF IInv, PhaseInv, LeaderOwnsEntry, Claimed
  <2>3. LeaderOwnsEntry'
    BY <2>1, <2>2 DEF IInv, LeaderOwnsEntry, Leads, Claimed
  <2>4. EntryHasLeader'
    BY <2>1, <2>2, CoalescingAssumption DEF IInv, EntryHasLeader, Leads, Claimed
  <2>5. FollowerHasLeader'
    BY <2>1 DEF IInv, FollowerHasLeader, Leads, Claimed
  <2>6. ClosedByOwnLeader'
    BY <1>0, <2>1 DEF IInv, ClosedByOwnLeader, Leads
  <2>7. PhaseInv'
    BY <2>1, <2>2 DEF IInv, PhaseInv, Leads
  <2> QED BY <2>3, <2>4, <2>5, <2>6, <2>7 DEF Ownership
<1>6. CASE CloseDone(r)
  <2>1. /\ \A q \in Requests : pc'[q] = IF q = r THEN "settled" ELSE pc[q]
        /\ doneClosed' = doneClosed \union {r}
        /\ pc[r] = "deleted"
        /\ UNCHANGED <<key, loaded, waitsOn, outcome, inflight>>
    BY <1>6 DEF CloseDone, At, IInv, TypeOK
  <2>2. Leads(r) /\ outcome[r] \in Outcome
    BY <2>1 DEF IInv, PhaseInv
  <2>3. LeaderOwnsEntry'
    BY <2>1 DEF IInv, LeaderOwnsEntry, Leads, Claimed
  <2>4. EntryHasLeader'
    BY <2>1 DEF IInv, EntryHasLeader, Leads, Claimed
  <2>5. FollowerHasLeader'
    BY <2>1 DEF IInv, FollowerHasLeader, Leads, Claimed
  <2>6. ClosedByOwnLeader'
    BY <1>0, <2>1, <2>2 DEF IInv, ClosedByOwnLeader, Leads
  <2>7. PhaseInv'
    BY <2>1, <2>2 DEF IInv, PhaseInv, Leads
  <2> QED BY <2>3, <2>4, <2>5, <2>6, <2>7 DEF Ownership
<1> QED BY <1>1, <1>2, <1>3, <1>4, <1>5, <1>6 DEF HandlerStep

LEMMA NextInv == IInv /\ [Next]_vars => IInv'
<1> SUFFICES ASSUME IInv, [Next]_vars PROVE IInv'
  OBVIOUS
<1>1. TypeOK'
  BY TypeStep
<1>2. ASSUME NEW r \in Requests, HandlerStep(r) PROVE Ownership'
  BY <1>2, HandlerStepInv
<1>3. ASSUME \/ \E r \in Requests : Cancel(r)
             \/ \E k \in Keys : Evict(k)
             \/ QueueShutdown \/ Terminated \/ UNCHANGED vars
      PROVE  Ownership'
  <2>1. UNCHANGED <<pc, key, loaded, waitsOn, outcome, inflight, doneClosed>>
    BY <1>3 DEF Cancel, Evict, QueueShutdown, Terminated, vars
  <2>2. LeaderOwnsEntry'
    BY <2>1 DEF IInv, LeaderOwnsEntry, Leads
  <2>5. EntryHasLeader'
    BY <2>1 DEF IInv, EntryHasLeader, Leads
  <2>3. FollowerHasLeader'
    BY <2>1 DEF IInv, FollowerHasLeader, Leads
  <2>4. ClosedByOwnLeader' /\ PhaseInv'
    BY <2>1 DEF IInv, ClosedByOwnLeader, PhaseInv, Leads
  <2> QED BY <2>2, <2>3, <2>4, <2>5 DEF Ownership
<1>4. Ownership'
  BY <1>2, <1>3 DEF Next
<1> QED BY <1>1, <1>4 DEF IInv, Ownership

\* The in-flight map, the done channels and the handlers agree throughout.
THEOREM Invariance == Spec => []IInv
<1> QED BY InitInv, NextInv, PTL DEF Spec

\* No two requests lead the same key at once: work shared with followers is
\* done by one request.
THEOREM CoalescingIsExclusive == Spec => []OneLeaderPerKey
<1>1. IInv => OneLeaderPerKey
  BY DEF IInv, LeaderOwnsEntry, OneLeaderPerKey
<1> QED BY <1>1, Invariance, PTL

\* A follower always waits on a leader of its own key that has closed, or has
\* yet to close, its channel, or that panicked.
THEOREM FollowersHaveLeaders == Spec => []FollowerHasLeader
<1>1. IInv => FollowerHasLeader
  BY DEF IInv
<1> QED BY <1>1, Invariance, PTL

\* A done channel is closed by the leader that made it, once.
THEOREM DoneClosedByLeader == Spec => []ClosedByOwnLeader
<1>1. IInv => ClosedByOwnLeader
  BY DEF IInv
<1> QED BY <1>1, Invariance, PTL
=============================================================================
