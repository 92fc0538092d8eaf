------------------------- MODULE WorkerQueue_proofs -------------------------
(***************************************************************************)
(* What holds of the worker queue for every set of calls, every finite set *)
(* of workers and every number of slots.                                   *)
(***************************************************************************)
EXTENDS WorkerQueue, FiniteSetTheorems, TLAPS

\* The channel's capacity is a number.
LEMMA CapacityType == Capacity \in Nat
<1>1. Cardinality(Workers) \in Nat
  BY QueueAssumption, FS_CardinalityType
<1> QED BY <1>1, QueueAssumption, SMT DEF Capacity

\* What the buffer holds after a send: the elements it held, then the new one.
LEMMA AppendFacts ==
  ASSUME NEW S, NEW s \in Seq(S), NEW e \in S
  PROVE  /\ Append(s, e) \in Seq(S)
         /\ Len(Append(s, e)) = Len(s) + 1
         /\ DOMAIN s = 1 .. Len(s)
         /\ DOMAIN Append(s, e) = 1 .. (Len(s) + 1)
         /\ \A i \in 1 .. Len(s) : Append(s, e)[i] = s[i]
         /\ Append(s, e)[Len(s) + 1] = e
  OBVIOUS

\* What the buffer holds after a receive: everything but its first element.
LEMMA TailFacts ==
  ASSUME NEW S, NEW s \in Seq(S), s # <<>>
  PROVE  /\ Len(s) \in Nat \ {0}
         /\ Head(s) = s[1]
         /\ Head(s) \in S
         /\ Tail(s) \in Seq(S)
         /\ Len(Tail(s)) = Len(s) - 1
         /\ DOMAIN s = 1 .. Len(s)
         /\ DOMAIN Tail(s) = 1 .. (Len(s) - 1)
         /\ \A i \in 1 .. (Len(s) - 1) : Tail(s)[i] = s[i + 1]
  OBVIOUS

LEMMA InitInv == Init => IInv
<1> SUFFICES ASSUME Init PROVE IInv
  OBVIOUS
<1>1. buffer \in Seq(Requests) /\ Len(buffer) = 0 /\ DOMAIN buffer = {}
  <2>1. <<>> \in Seq(Requests) /\ Len(<<>>) = 0 /\ DOMAIN <<>> = {}
    OBVIOUS
  <2> QED BY <2>1, Zenon DEF Init
<1>2. TypeOK
  <2>1. Len(buffer) <= Capacity
    BY <1>1, CapacityType
  <2>2. /\ caller \in [Requests -> CallerState]
        /\ ctxDone \subseteq Requests
        /\ result \in [Requests -> Outcome \union {"none"}]
        /\ wstate \in [Workers -> WorkerState]
        /\ held \in [Workers -> Requests \union {NoJob}]
        /\ qDone \in BOOLEAN
        /\ closed \in BOOLEAN
    BY DEF Init, CallerState, WorkerState
  <2> QED BY <1>1, <2>1, <2>2 DEF TypeOK
<1>3. \A r \in Requests : ~InSystem(r)
  BY <1>1 DEF Init, InSystem, InBuffer, HeldBy
<1>4. JobConservation
  BY <1>1, <1>3 DEF Init, JobConservation, InBuffer, HeldBy
<1> QED BY <1>2, <1>4 DEF Init, IInv, WorkerNeverBlocks

\* A step that only moves one caller keeps the invariant when the place the
\* caller moves to agrees with where its job is.
LEMMA CallerMoves ==
  ASSUME IInv,
         NEW r \in Requests, NEW to \in CallerState,
         caller' = [caller EXCEPT ![r] = to],
         UNCHANGED <<ctxDone, buffer, result, wstate, held, qDone, closed>>,
         to \in {"waiting", "ok", "failed"} => InSystem(r) \/ result[r] # "none",
         to \in {"idle", "checked", "shutdown", "full", "panicked"}
            => ~InSystem(r) /\ result[r] = "none",
         to \in {"ok", "failed"} => result[r] = to
  PROVE  IInv'
<1> DEFINE same == UNCHANGED <<ctxDone, buffer, result, wstate, held, qDone, closed>>
<1>1. TypeOK'
  BY DEF IInv, TypeOK
<1>2. \A q \in Requests : caller'[q] = IF q = r THEN to ELSE caller[q]
  BY DEF IInv, TypeOK
<1>3. /\ \A q \in Requests : InBuffer(q)' <=> InBuffer(q)
      /\ \A q \in Requests : InSystem(q)' <=> InSystem(q)
      /\ \A q \in Requests, w \in Workers : HeldBy(w, q)' <=> HeldBy(w, q)
  BY DEF InSystem, InBuffer, HeldBy
<1>4. JobConservation'
  BY <1>2, <1>3 DEF IInv, JobConservation
<1>5. WorkerNeverBlocks'
  BY DEF IInv, WorkerNeverBlocks
<1> QED BY <1>1, <1>2, <1>4, <1>5 DEF IInv

\* The calls of Process that move no job: the early check, the refusing cases
\* of the enqueue select and both cases of the wait select.
LEMMA CallerStepInv ==
  ASSUME IInv, NEW r \in Requests,
         \/ Call(r) \/ SendOnClosed(r) \/ SendShutdown(r) \/ SendCancelled(r)
         \/ SendFull(r) \/ Receive(r) \/ Abandon(r)
  PROVE  IInv'
<1>1. CASE \/ Call(r) \/ SendOnClosed(r) \/ SendShutdown(r) \/ SendCancelled(r) \/ SendFull(r)
  <2>1. PICK to \in {"checked", "shutdown", "panicked", "cancelled", "full"} :
           /\ caller' = [caller EXCEPT ![r] = to]
           /\ caller[r] \in {"idle", "checked"}
           /\ UNCHANGED <<ctxDone, buffer, result, wstate, held, qDone, closed>>
    BY <1>1 DEF Call, SendOnClosed, SendShutdown, SendCancelled, SendFull, CallTo
  <2>2. ~InSystem(r) /\ result[r] = "none"
    BY <2>1 DEF IInv, JobConservation
  <2>3. to \in CallerState
    BY DEF CallerState, Returned
  <2> QED BY <2>1, <2>2, <2>3, CallerMoves
<1>2. CASE Receive(r)
  <2>1. /\ result[r] \in Outcome
        /\ caller' = [caller EXCEPT ![r] = result[r]]
        /\ UNCHANGED <<ctxDone, buffer, result, wstate, held, qDone, closed>>
    BY <1>2 DEF Receive, CallTo, IInv, TypeOK
  <2>2. result[r] \in CallerState
    BY <2>1 DEF CallerState, Returned, Outcome
  <2>3. result[r] \notin {"none", "idle", "checked", "shutdown", "full", "panicked"}
    BY <2>1 DEF Outcome
  <2> QED BY <2>1, <2>2, <2>3, CallerMoves
<1>3. CASE Abandon(r)
  <2>1. "cancelled" \in CallerState
    BY DEF CallerState, Returned
  <2> QED BY <1>3, <2>1, CallerMoves DEF Abandon, CallTo
<1> QED BY <1>1, <1>2, <1>3

LEMMA SendInv ==
  ASSUME IInv, NEW r \in Requests, Send(r)
  PROVE  IInv' /\ \A q \in Requests : InSystem(q)' <=> InSystem(q) \/ q = r
<1> USE DEF IInv
<1>1. /\ buffer \in Seq(Requests)
      /\ buffer' = Append(buffer, r)
      /\ caller' = [caller EXCEPT ![r] = "waiting"]
      /\ UNCHANGED <<ctxDone, result, wstate, held, qDone, closed>>
      /\ ~InSystem(r) /\ result[r] = "none"
      /\ Len(buffer) < Capacity
  BY DEF Send, CallTo, HasRoom, TypeOK, JobConservation
<1>2. /\ buffer' \in Seq(Requests)
      /\ Len(buffer') = Len(buffer) + 1
      /\ DOMAIN buffer = 1 .. Len(buffer)
      /\ DOMAIN buffer' = 1 .. (Len(buffer) + 1)
      /\ \A i \in 1 .. Len(buffer) : buffer'[i] = buffer[i]
      /\ buffer'[Len(buffer) + 1] = r
      /\ Len(buffer) \in Nat
  BY <1>1, AppendFacts
<1>3. TypeOK'
  <2>1. Len(buffer') <= Capacity
    BY <1>1, <1>2, CapacityType
  <2>2. caller' \in [Requests -> CallerState]
    BY <1>1 DEF TypeOK, CallerState
  <2> QED BY <1>1, <1>2, <2>1, <2>2 DEF TypeOK
<1>4. \A q \in Requests : InBuffer(q)' <=> InBuffer(q) \/ q = r
  BY <1>2 DEF InBuffer
<1>5. \A q \in Requests, w \in Workers : HeldBy(w, q)' <=> HeldBy(w, q)
  BY <1>1 DEF HeldBy
<1>6. \A q \in Requests : InSystem(q)' <=> InSystem(q) \/ q = r
  BY <1>4, <1>5 DEF InSystem
<1>7. \A q \in Requests : caller'[q] = IF q = r THEN "waiting" ELSE caller[q]
  BY <1>1 DEF TypeOK
<1>8. JobConservation'
  <2>1. \A i, j \in DOMAIN buffer' : buffer'[i] = buffer'[j] => i = j
    <3>1. \A i \in 1 .. Len(buffer) : buffer[i] # r
      BY <1>1, <1>2 DEF InSystem, InBuffer
    <3> QED BY <1>2, <3>1 DEF JobConservation
  <2>2. \A v, w \in Workers : \A q \in Requests : HeldBy(v, q)' /\ HeldBy(w, q)' => v = w
    BY <1>5 DEF JobConservation
  <2>3. \A q \in Requests : \A w \in Workers : ~(InBuffer(q)' /\ HeldBy(w, q)')
    BY <1>1, <1>4, <1>5 DEF JobConservation, InSystem
  <2>4. \A q \in Requests : result'[q] # "none" => ~InSystem(q)'
    BY <1>1, <1>6 DEF JobConservation
  <2>5. \A q \in Requests :
          caller'[q] \in {"waiting", "ok", "failed"} => InSystem(q)' \/ result'[q] # "none"
    BY <1>1, <1>6, <1>7 DEF JobConservation
  <2>6. \A q \in Requests :
          caller'[q] \in {"idle", "checked", "shutdown", "full", "panicked"}
             => ~InSystem(q)' /\ result'[q] = "none"
    BY <1>1, <1>6, <1>7 DEF JobConservation
  <2> QED BY <2>1, <2>2, <2>3, <2>4, <2>5, <2>6 DEF JobConservation
<1>9. WorkerNeverBlocks'
  BY <1>1 DEF WorkerNeverBlocks
<1> QED BY <1>1, <1>3, <1>6, <1>7, <1>8, <1>9

LEMMA TakeInv ==
  ASSUME IInv, NEW w \in Workers, Take(w)
  PROVE  IInv' /\ \A q \in Requests : InSystem(q)' <=> InSystem(q)
<1> USE DEF IInv
<1>1. /\ buffer \in Seq(Requests) /\ buffer # <<>>
      /\ buffer' = Tail(buffer)
      /\ wstate' = [wstate EXCEPT ![w] = "received"]
      /\ held' = [held EXCEPT ![w] = Head(buffer)]
      /\ wstate[w] = "idle"
      /\ UNCHANGED <<caller, ctxDone, result, qDone, closed>>
  BY DEF Take, TypeOK
<1>0. PICK h \in Requests : h = Head(buffer)
  BY <1>1, TailFacts
<1>2. /\ Len(buffer) \in Nat \ {0}
      /\ h = buffer[1]
      /\ h \in Requests
      /\ buffer' \in Seq(Requests)
      /\ Len(buffer') = Len(buffer) - 1
      /\ DOMAIN buffer = 1 .. Len(buffer)
      /\ DOMAIN buffer' = 1 .. (Len(buffer) - 1)
      /\ \A i \in 1 .. (Len(buffer) - 1) : buffer'[i] = buffer[i + 1]
  BY <1>0, <1>1, TailFacts
<1>3. /\ held' = [held EXCEPT ![w] = h]
      /\ \A v \in Workers : held'[v] = IF v = w THEN h ELSE held[v]
      /\ \A v \in Workers : wstate'[v] = IF v = w THEN "received" ELSE wstate[v]
  BY <1>0, <1>1 DEF TypeOK
<1>4. TypeOK'
  <2>1. Len(buffer') <= Capacity
    BY <1>2, CapacityType DEF TypeOK
  <2>2. wstate' \in [Workers -> WorkerState] /\ held' \in [Workers -> Requests \union {NoJob}]
    BY <1>1, <1>2, <1>3 DEF TypeOK, WorkerState
  <2> QED BY <1>1, <1>2, <2>1, <2>2 DEF TypeOK
<1>5. \A q \in Requests : InBuffer(q) => InBuffer(q)' \/ q = h
  <2> SUFFICES ASSUME NEW q \in Requests, InBuffer(q), q # h
               PROVE  InBuffer(q)'
    OBVIOUS
  <2>1. PICK i \in 1 .. Len(buffer) : buffer[i] = q
    BY <1>2 DEF InBuffer
  <2>2. i # 1 /\ i - 1 \in 1 .. (Len(buffer) - 1) /\ (i - 1) + 1 = i
    BY <1>2, <2>1
  <2>3. buffer'[i - 1] = q
    BY <1>2, <2>1, <2>2
  <2> QED BY <1>2, <2>2, <2>3 DEF InBuffer
<1>6. \A q \in Requests : InBuffer(q)' => InBuffer(q) /\ q # h
  <2> SUFFICES ASSUME NEW q \in Requests, InBuffer(q)'
               PROVE  InBuffer(q) /\ q # h
    OBVIOUS
  <2>1. PICK i \in 1 .. (Len(buffer) - 1) : buffer'[i] = q
    BY <1>2 DEF InBuffer
  <2>2. i + 1 \in 1 .. Len(buffer) /\ 1 \in 1 .. Len(buffer) /\ i + 1 # 1
    BY <1>2
  <2>3. buffer[i + 1] = q
    BY <1>2, <2>1
  <2>4. q # buffer[1]
    BY <1>2, <2>2, <2>3 DEF JobConservation
  <2> QED BY <1>2, <2>2, <2>3, <2>4 DEF InBuffer
<1>7. InBuffer(h) /\ ~InBuffer(h)'
  <2>1. 1 \in DOMAIN buffer
    BY <1>2
  <2> QED BY <1>2, <1>6, <2>1 DEF InBuffer
<1>8. \A v \in Workers : \A q \in Requests :
        HeldBy(v, q)' <=> IF v = w THEN q = h ELSE HeldBy(v, q)
  BY <1>3 DEF HeldBy
<1>9. \A q \in Requests : ~HeldBy(w, q)
  BY <1>1 DEF HeldBy
<1>10. \A q \in Requests : InSystem(q)' <=> InSystem(q)
  BY <1>5, <1>6, <1>7, <1>8, <1>9 DEF InSystem
<1>11. JobConservation'
  <2>1. \A i, j \in DOMAIN buffer' : buffer'[i] = buffer'[j] => i = j
    <3> SUFFICES ASSUME NEW i \in 1 .. (Len(buffer) - 1), NEW j \in 1 .. (Len(buffer) - 1),
                        buffer'[i] = buffer'[j]
                 PROVE  i = j
      BY <1>2
    <3>1. i + 1 \in 1 .. Len(buffer) /\ j + 1 \in 1 .. Len(buffer)
      BY <1>2
    <3>2. buffer[i + 1] = buffer[j + 1]
      BY <1>2
    <3>3. i + 1 = j + 1
      BY <1>2, <3>1, <3>2 DEF JobConservation
    <3> QED BY <3>3
  <2>2. \A u, v \in Workers : \A q \in Requests : HeldBy(u, q)' /\ HeldBy(v, q)' => u = v
    <3>1. \A v \in Workers : ~HeldBy(v, h)
      BY <1>2, <1>7 DEF JobConservation
    <3> QED BY <1>8, <3>1 DEF JobConservation
  <2>3. \A q \in Requests : \A v \in Workers : ~(InBuffer(q)' /\ HeldBy(v, q)')
    BY <1>6, <1>8 DEF JobConservation
  <2>4. \A q \in Requests : result'[q] # "none" => ~InSystem(q)'
    BY <1>1, <1>10 DEF JobConservation
  <2>5. \A q \in Requests :
          caller'[q] \in {"waiting", "ok", "failed"} => InSystem(q)' \/ result'[q] # "none"
    BY <1>1, <1>10 DEF JobConservation
  <2>6. \A q \in Requests :
          caller'[q] \in {"idle", "checked", "shutdown", "full", "panicked"}
             => ~InSystem(q)' /\ result'[q] = "none"
    BY <1>1, <1>10 DEF JobConservation
  <2> QED BY <2>1, <2>2, <2>3, <2>4, <2>5, <2>6 DEF JobConservation
<1>12. WorkerNeverBlocks'
  <2>1. result[h] = "none"
    BY <1>2, <1>7 DEF JobConservation, InSystem
  <2> QED BY <1>1, <1>2, <1>3, <2>1 DEF WorkerNeverBlocks
<1> QED BY <1>1, <1>4, <1>10, <1>11, <1>12

\* A worker that starts on its job, or stops, moves no job.
LEMMA WorkerMoves ==
  ASSUME IInv, NEW w \in Workers, Start(w) \/ StopWorker(w) \/ TakeClosed(w)
  PROVE  IInv' /\ \A q \in Requests : InSystem(q)' <=> InSystem(q)
<1> USE DEF IInv
<1>1. PICK to \in {"handling", "stopped"} :
         /\ wstate' = [wstate EXCEPT ![w] = to]
         /\ to = "handling" => wstate[w] = "received"
         /\ to = "stopped" => wstate[w] = "idle"
         /\ UNCHANGED <<caller, ctxDone, buffer, result, held, qDone, closed>>
  BY DEF Start, StopWorker, TakeClosed
<1>2. TypeOK'
  BY <1>1 DEF TypeOK, WorkerState
<1>3. \A v \in Workers : wstate'[v] = IF v = w THEN to ELSE wstate[v]
  BY <1>1 DEF TypeOK
<1>4. \A q \in Requests : InBuffer(q)' <=> InBuffer(q)
  BY <1>1 DEF InBuffer
<1>5. \A v \in Workers : \A q \in Requests : HeldBy(v, q)' <=> HeldBy(v, q)
  BY <1>1, <1>3 DEF HeldBy
<1>6. \A q \in Requests : InSystem(q)' <=> InSystem(q)
  BY <1>4, <1>5 DEF InSystem
<1>7. JobConservation'
  BY <1>1, <1>4, <1>5, <1>6 DEF JobConservation
<1>8. WorkerNeverBlocks'
  BY <1>1, <1>3 DEF WorkerNeverBlocks
<1> QED BY <1>1, <1>2, <1>6, <1>7, <1>8

\* Delivering puts the only result of the job the worker holds.
LEMMA DeliverInv ==
  ASSUME IInv, NEW w \in Workers, NEW outcome \in Outcome,
         wstate[w] \in {"received", "handling"}, Deliver(w, outcome)
  PROVE  IInv' /\ \A q \in Requests : InSystem(q)' <=> InSystem(q) /\ q # held[w]
<1> USE DEF IInv
<1>0. PICK h \in Requests : h = held[w]
  BY DEF WorkerNeverBlocks
<1>1. /\ result[h] = "none"
      /\ result' = [result EXCEPT ![h] = outcome]
      /\ wstate' = [wstate EXCEPT ![w] = "idle"]
      /\ held' = [held EXCEPT ![w] = NoJob]
      /\ UNCHANGED <<caller, ctxDone, buffer, qDone, closed>>
      /\ HeldBy(w, h)
  BY <1>0 DEF Deliver, WorkerNeverBlocks, HeldBy
<1>2. TypeOK'
  BY <1>1 DEF TypeOK, WorkerState
<1>3. /\ \A v \in Workers : wstate'[v] = IF v = w THEN "idle" ELSE wstate[v]
      /\ \A v \in Workers : held'[v] = IF v = w THEN NoJob ELSE held[v]
      /\ \A q \in Requests : result'[q] = IF q = h THEN outcome ELSE result[q]
      /\ outcome # "none"
  BY <1>1 DEF TypeOK, Outcome
<1>4. \A q \in Requests : InBuffer(q)' <=> InBuffer(q)
  BY <1>1 DEF InBuffer
<1>5. \A v \in Workers : \A q \in Requests : HeldBy(v, q)' <=> HeldBy(v, q) /\ v # w
  BY <1>3 DEF HeldBy
<1>6. \A v \in Workers : HeldBy(v, h) => v = w
  BY <1>1 DEF JobConservation
<1>7. ~InBuffer(h)
  BY <1>1 DEF JobConservation
<1>8. \A q \in Requests : q # h => ~HeldBy(w, q)
  BY <1>0 DEF HeldBy
<1>9. \A q \in Requests : InSystem(q)' <=> InSystem(q) /\ q # h
  BY <1>4, <1>5, <1>6, <1>7, <1>8 DEF InSystem
<1>10. InSystem(h)
  BY <1>1 DEF InSystem
<1>11. JobConservation'
  <2>1. \A i, j \in DOMAIN buffer' : buffer'[i] = buffer'[j] => i = j
    BY <1>1 DEF JobConservation
  <2>2. \A u, v \in Workers : \A q \in Requests : HeldBy(u, q)' /\ HeldBy(v, q)' => u = v
    BY <1>5 DEF JobConservation
  <2>3. \A q \in Requests : \A v \in Workers : ~(InBuffer(q)' /\ HeldBy(v, q)')
    BY <1>4, <1>5 DEF JobConservation
  <2>4. \A q \in Requests : result'[q] # "none" => ~InSystem(q)'
    BY <1>3, <1>9 DEF JobConservation
  <2>5. \A q \in Requests :
          caller'[q] \in {"waiting", "ok", "failed"} => InSystem(q)' \/ result'[q] # "none"
    BY <1>1, <1>3, <1>9 DEF JobConservation
  <2>6. \A q \in Requests :
          caller'[q] \in {"idle", "checked", "shutdown", "full", "panicked"}
             => ~InSystem(q)' /\ result'[q] = "none"
    BY <1>1, <1>3, <1>9, <1>10 DEF JobConservation
  <2> QED BY <2>1, <2>2, <2>3, <2>4, <2>5, <2>6 DEF JobConservation
<1>12. WorkerNeverBlocks'
  <2> SUFFICES ASSUME NEW v \in Workers, wstate'[v] \in {"received", "handling"}
               PROVE  held'[v] \in Requests /\ result'[held'[v]] = "none"
    BY DEF WorkerNeverBlocks
  <2>1. v # w /\ wstate[v] \in {"received", "handling"} /\ held'[v] = held[v]
    BY <1>3
  <2>2. held[v] \in Requests /\ result[held[v]] = "none"
    BY <2>1 DEF WorkerNeverBlocks
  <2>3. held[v] # h
    BY <1>6, <2>1, <2>2 DEF HeldBy
  <2> QED BY <1>3, <2>1, <2>2, <2>3
<1>13. \A q \in Requests : caller'[q] \in {"ok", "failed"} => result'[q] = caller'[q]
  BY <1>1, <1>3
<1> QED BY <1>0, <1>2, <1>9, <1>11, <1>12, <1>13

\* The surroundings touch no job.
LEMMA SurroundingsInv ==
  ASSUME IInv, \/ \E r \in Requests : Cancel(r)
               \/ Shutdown \/ Close \/ UNCHANGED vars
  PROVE  IInv'
<1>1. UNCHANGED <<caller, buffer, result, wstate, held>>
  BY DEF Cancel, Shutdown, Close, vars
<1>2. ctxDone' \subseteq Requests /\ qDone' \in BOOLEAN /\ closed' \in BOOLEAN
  BY DEF IInv, TypeOK, Cancel, Shutdown, Close, vars
<1>3. TypeOK'
  BY <1>1, <1>2 DEF IInv, TypeOK
<1>4. JobConservation'
  BY <1>1 DEF IInv, JobConservation, InSystem, InBuffer, HeldBy
<1>5. WorkerNeverBlocks'
  BY <1>1 DEF IInv, WorkerNeverBlocks
<1> QED BY <1>1, <1>3, <1>4, <1>5 DEF IInv

LEMMA NextInv == IInv /\ [Next]_vars => IInv'
<1> SUFFICES ASSUME IInv, [Next]_vars PROVE IInv'
  OBVIOUS
<1>1. ASSUME NEW r \in Requests, CallerStep(r) PROVE IInv'
  BY <1>1, CallerStepInv, SendInv DEF CallerStep, SendSelect
<1>2. ASSUME NEW w \in Workers, WorkerStep(w) PROVE IInv'
  <2>1. CASE Take(w)
    BY <2>1, TakeInv
  <2>2. CASE Start(w) \/ StopWorker(w) \/ TakeClosed(w)
    BY <2>2, WorkerMoves
  <2>3. CASE Skip(w)
    <3>1. "cancelled" \in Outcome
      BY DEF Outcome
    <3> QED BY <2>3, <3>1, DeliverInv DEF Skip
  <2>4. CASE Finish(w)
    <3>1. {"ok", "failed"} \subseteq Outcome
      BY DEF Outcome
    <3> QED BY <2>4, <3>1, DeliverInv DEF Finish
  <2> QED BY <1>2, <2>1, <2>2, <2>3, <2>4 DEF WorkerStep
<1>3. CASE (\E r \in Requests : Cancel(r)) \/ Shutdown \/ Close \/ Terminated \/ UNCHANGED vars
  BY <1>3, SurroundingsInv DEF Terminated
<1> QED BY <1>1, <1>2, <1>3 DEF Next

\* The invariant holds throughout, for every number of calls, workers and slots.
THEOREM Invariance == Spec => []IInv
<1> QED BY InitInv, NextInv, PTL DEF Spec

\* Every variable keeps its type, and the channel its capacity.
THEOREM TypeCorrect == Spec => []TypeOK
<1>1. IInv => TypeOK
  BY DEF IInv
<1> QED BY <1>1, Invariance, PTL

\* No job is lost or duplicated on its way through the channel, the workers and
\* the result channels, and a refused call leaves no job behind.
THEOREM JobsConserved == Spec => []JobConservation
<1>1. IInv => JobConservation
  BY DEF IInv
<1> QED BY <1>1, Invariance, PTL

\* A worker's send to a result channel never blocks, whoever has left.
THEOREM WorkersNeverBlock == Spec => []WorkerNeverBlocks
<1>1. IInv => WorkerNeverBlocks
  BY DEF IInv
<1> QED BY <1>1, Invariance, PTL

\* Only a delivery changes a result channel, and only a start makes a worker
\* handle a job: any other step leaves a doomed call doomed.
LEMMA DoomedStep ==
  ASSUME IInv, [Next]_vars, NEW r \in Requests, Doomed(r)
  PROVE  Doomed(r)'
<1> USE DEF Doomed
<1>1. ASSUME NEW q \in Requests, CallerStep(q) \/ Cancel(q) PROVE Doomed(r)'
  <2>1. ctxDone \subseteq ctxDone' /\ UNCHANGED <<result, wstate, held>>
    BY <1>1 DEF CallerStep, SendSelect, Call, Send, SendOnClosed, SendShutdown,
                SendCancelled, SendFull, Receive, Abandon, Cancel
  <2> QED BY <2>1
<1>2. ASSUME NEW w \in Workers, WorkerStep(w) PROVE Doomed(r)'
  <2>1. CASE Take(w)
    BY <2>1 DEF Take, IInv, TypeOK
  <2>2. CASE TakeClosed(w) \/ StopWorker(w)
    BY <2>2 DEF TakeClosed, StopWorker, IInv, TypeOK
  <2>3. CASE Start(w)
    BY <2>3 DEF Start, IInv, TypeOK
  <2>4. ASSUME NEW outcome, Deliver(w, outcome),
               held[w] = r => outcome \notin {"ok", "failed"}
        PROVE  Doomed(r)'
    <3>1. result'[r] \notin {"ok", "failed"}
      BY <2>4 DEF Deliver, IInv, TypeOK
    <3>2. \A v \in Workers : ~(wstate'[v] = "handling" /\ held'[v] = r)
      BY <2>4 DEF Deliver, IInv, TypeOK
    <3> QED BY <2>4, <3>1, <3>2 DEF Deliver
  <2>5. CASE Skip(w)
    BY <2>4, <2>5 DEF Skip
  <2>6. CASE Finish(w)
    BY <2>4, <2>6 DEF Finish
  <2> QED BY <1>2, <2>1, <2>2, <2>3, <2>5, <2>6 DEF WorkerStep
<1>3. CASE Shutdown \/ Close \/ Terminated \/ UNCHANGED vars
  BY <1>3 DEF Shutdown, Close, Terminated, vars
<1> QED BY <1>1, <1>2, <1>3 DEF Next

\* A call whose context ended before its job was started is never served.
THEOREM DeadCallersNotServed == Spec => NoWorkForDeadCallers
<1>1. ASSUME IInv, IInv', [Next]_vars
      PROVE  [\A r \in Requests : Doomed(r) => Doomed(r)' /\ caller'[r] \notin {"ok", "failed"}]_vars
  <2>1. ASSUME NEW r \in Requests, Doomed(r)
        PROVE  Doomed(r)' /\ caller'[r] \notin {"ok", "failed"}
    <3>1. Doomed(r)'
      BY <1>1, <2>1, DoomedStep
    <3> QED BY <1>1, <3>1 DEF Doomed, IInv
  <2> QED BY <2>1
<1> QED BY <1>1, Invariance, PTL DEF Spec, NoWorkForDeadCallers

-----------------------------------------------------------------------------
(* The queue implements JobService.                                          *)

reply == [r \in Requests |-> ReplyOf(caller[r])]
work == [r \in Requests |-> Work(r)]

\* Every caller state has one reading as a reply.
LEMMA ReplyOfStates ==
  /\ ReplyOf("idle") = "none"
  /\ \A c \in {"checked", "waiting"} : ReplyOf(c) = "pending"
  /\ \A c \in Outcome : ReplyOf(c) = c
  /\ \A c \in {"shutdown", "full", "panicked"} : ReplyOf(c) = "refused"
  BY DEF ReplyOf, Outcome

\* The caller's move, seen as a reply.
LEMMA ReplyMoves ==
  ASSUME TypeOK, NEW r \in Requests, NEW from, NEW to, CallTo(r, from, to)
  PROVE  /\ reply[r] = ReplyOf(from)
         /\ reply' = [reply EXCEPT ![r] = ReplyOf(to)]
<1>1. \A q \in Requests : caller'[q] = IF q = r THEN to ELSE caller[q]
  BY DEF CallTo, TypeOK
<1>2. caller[r] = from
  BY DEF CallTo
<1>3. \A q \in Requests : ReplyOf(caller'[q]) = IF q = r THEN ReplyOf(to) ELSE ReplyOf(caller[q])
  BY <1>1
<1>4. reply' = [q \in Requests |-> ReplyOf(caller'[q])]
  BY DEF reply, ReplyOf
<1> QED BY <1>2, <1>3, <1>4 DEF reply

\* Work depends on the result channels and on where the jobs are.
LEMMA WorkSame ==
  ASSUME UNCHANGED result, \A q \in Requests : InSystem(q)' <=> InSystem(q)
  PROVE  UNCHANGED work
  BY DEF work, Work

LEMMA ServiceInit == Init => Service!Init
<1> SUFFICES ASSUME Init PROVE Service!Init
  OBVIOUS
<1>1. \A r \in Requests : ReplyOf(caller[r]) = "none"
  BY ReplyOfStates DEF Init
<1>2. \A r \in Requests : ~InSystem(r) /\ result[r] = "none"
  BY InitInv DEF IInv, JobConservation, Init
<1> QED BY <1>1, <1>2 DEF Service!Init, Work

LEMMA ServiceStep ==
  ASSUME IInv, [Next]_vars
  PROVE  [Service!Next]_<<reply, work>>
<1> DEFINE Goal == [Service!Next]_<<reply, work>>
<1> USE DEF IInv
<1>1. ASSUME NEW r \in Requests, CallerStep(r) PROVE Goal
  <2>1. /\ reply \in [Requests -> {ReplyOf(c) : c \in CallerState}]
        /\ work[r] = Work(r)
    BY DEF reply, work, TypeOK
  <2>2. ASSUME UNCHANGED <<buffer, result, wstate, held>> PROVE UNCHANGED work
    BY <2>2, WorkSame DEF InSystem, InBuffer, HeldBy
  <2>3. caller[r] \in {"idle", "checked"} => Work(r) = "none"
    BY DEF JobConservation, Work
  <2>4. CASE Call(r)
    <3>1. PICK to \in {"checked", "shutdown"} : CallTo(r, "idle", to)
      BY <2>4 DEF Call
    <3>2. UNCHANGED work
      BY <2>2, <2>4 DEF Call
    <3>3. work[r] = "none"
      BY <2>1, <2>3, <3>1 DEF CallTo
    <3>4. /\ reply[r] = "none"
          /\ reply' = [reply EXCEPT ![r] = ReplyOf(to)]
          /\ ReplyOf(to) \in {"pending", "refused"}
      BY <3>1, ReplyMoves, ReplyOfStates
    <3>5. Service!Submit(r) \/ Service!Refuse(r)
      BY <3>2, <3>3, <3>4 DEF Service!Submit, Service!Refuse, Service!Answer, reply, work
    <3> QED BY <3>5 DEF Service!Next
  <2>5. CASE SendOnClosed(r) \/ SendShutdown(r) \/ SendFull(r)
    <3>1. PICK to \in {"panicked", "shutdown", "full"} : CallTo(r, "checked", to)
      BY <2>5 DEF SendOnClosed, SendShutdown, SendFull
    <3>2. UNCHANGED work
      BY <2>2, <2>5 DEF SendOnClosed, SendShutdown, SendFull
    <3>3. work[r] = "none"
      BY <2>1, <2>3, <3>1 DEF CallTo
    <3>4. /\ reply[r] = "pending"
          /\ reply' = [reply EXCEPT ![r] = "refused"]
      BY <3>1, ReplyMoves, ReplyOfStates
    <3>5. Service!Refuse(r)
      BY <3>2, <3>3, <3>4 DEF Service!Refuse, Service!Answer, reply, work
    <3> QED BY <3>5 DEF Service!Next
  <2>6. CASE SendCancelled(r) \/ Abandon(r)
    <3>1. PICK from \in {"checked", "waiting"} : CallTo(r, from, "cancelled")
      BY <2>6 DEF SendCancelled, Abandon
    <3>2. UNCHANGED work
      BY <2>2, <2>6 DEF SendCancelled, Abandon
    <3>3. /\ reply[r] = "pending"
          /\ reply' = [reply EXCEPT ![r] = "cancelled"]
      BY <3>1, ReplyMoves, ReplyOfStates DEF Outcome
    <3>4. Service!Withdraw(r)
      BY <3>2, <3>3 DEF Service!Withdraw, Service!Answer, reply, work
    <3> QED BY <3>4 DEF Service!Next
  <2>7. CASE Receive(r)
    <3>1. /\ CallTo(r, "waiting", result[r])
          /\ result[r] \in Outcome
      BY <2>7 DEF Receive, TypeOK
    <3>2. UNCHANGED work
      BY <2>2, <2>7 DEF Receive
    <3>3. work[r] = result[r]
      BY <2>1, <3>1 DEF Work, Outcome
    <3>4. /\ reply[r] = "pending"
          /\ reply' = [reply EXCEPT ![r] = work[r]]
      BY <3>1, <3>3, ReplyMoves, ReplyOfStates
    <3>5. Service!Serve(r)
      BY <3>1, <3>2, <3>3, <3>4
         DEF Service!Serve, Service!Answer, Service!Outcome, Outcome, reply, work
    <3> QED BY <3>5 DEF Service!Next
  <2>8. CASE Send(r)
    <3>1. /\ CallTo(r, "checked", "waiting")
          /\ UNCHANGED result
      BY <2>8 DEF Send
    <3>2. /\ reply[r] = "pending"
          /\ reply' = [reply EXCEPT ![r] = "pending"]
      BY <3>1, ReplyMoves, ReplyOfStates
    <3>3. reply' = reply
      BY <3>2 DEF reply
    <3>4. \A q \in Requests : InSystem(q)' <=> InSystem(q) \/ q = r
      BY <2>8, SendInv
    <3>5. work[r] = "none" /\ result[r] = "none"
      BY <2>1, <2>3, <3>1 DEF CallTo, JobConservation
    <3>6. \A q \in Requests : Work(q)' = IF q = r THEN "open" ELSE Work(q)
      BY <3>1, <3>4, <3>5 DEF Work
    <3>7. work' = [work EXCEPT ![r] = "open"]
      BY <3>6 DEF work
    <3>8. Service!Open(r)
      BY <3>2, <3>3, <3>5, <3>7 DEF Service!Open, reply, work
    <3> QED BY <3>8 DEF Service!Next
  <2> QED BY <1>1, <2>4, <2>5, <2>6, <2>7, <2>8 DEF CallerStep, SendSelect
<1>2. ASSUME NEW w \in Workers, WorkerStep(w) PROVE Goal
  <2>1. CASE Take(w)
    <3>1. UNCHANGED <<caller, result>>
      BY <2>1 DEF Take
    <3>2. UNCHANGED work
      BY <2>1, <3>1, TakeInv, WorkSame
    <3> QED BY <3>1, <3>2 DEF reply, ReplyOf
  <2>2. CASE Start(w) \/ StopWorker(w) \/ TakeClosed(w)
    <3>1. UNCHANGED <<caller, result>>
      BY <2>2 DEF Start, StopWorker, TakeClosed
    <3>2. UNCHANGED work
      BY <2>2, <3>1, WorkerMoves, WorkSame
    <3> QED BY <3>1, <3>2 DEF reply, ReplyOf
  <2>3. ASSUME NEW outcome \in Outcome, Deliver(w, outcome),
               wstate[w] \in {"received", "handling"}
        PROVE  Goal
    <3>1. PICK h \in Requests : h = held[w]
      BY <2>3 DEF WorkerNeverBlocks
    <3>2. /\ result[h] = "none"
          /\ \A q \in Requests : result'[q] = IF q = h THEN outcome ELSE result[q]
          /\ outcome # "none"
          /\ UNCHANGED caller
      BY <2>3, <3>1 DEF Deliver, TypeOK, Outcome
    <3>3. InSystem(h)
      BY <2>3, <3>1 DEF InSystem, HeldBy
    <3>4. \A q \in Requests : InSystem(q)' <=> InSystem(q) /\ q # h
      BY <2>3, <3>1, DeliverInv
    <3>5. \A q \in Requests : Work(q)' = IF q = h THEN outcome ELSE Work(q)
      BY <3>2, <3>4 DEF Work
    <3>6. /\ work' = [work EXCEPT ![h] = outcome]
          /\ work[h] = "open"
      BY <3>2, <3>3, <3>5 DEF work, Work
    <3>7. UNCHANGED reply
      BY <3>2 DEF reply, ReplyOf
    <3>8. Service!End(h)
      BY <3>6, <3>7 DEF Service!End, Service!Outcome, Outcome, reply, work
    <3> QED BY <3>8 DEF Service!Next
  <2>4. CASE Skip(w)
    BY <2>3, <2>4 DEF Skip, Outcome
  <2>5. CASE Finish(w)
    BY <2>3, <2>5 DEF Finish, Outcome
  <2> QED BY <1>2, <2>1, <2>2, <2>4, <2>5 DEF WorkerStep
<1>3. ASSUME \/ \E r \in Requests : Cancel(r)
             \/ Shutdown \/ Close \/ Terminated \/ UNCHANGED vars
      PROVE  Goal
  <2>1. UNCHANGED <<caller, buffer, result, wstate, held>>
    BY <1>3 DEF Cancel, Shutdown, Close, Terminated, vars
  <2>2. UNCHANGED work
    BY <2>1, WorkSame DEF InSystem, InBuffer, HeldBy
  <2> QED BY <2>1, <2>2 DEF reply, ReplyOf
<1> QED BY <1>1, <1>2, <1>3 DEF Next

\* Seen by its callers, the queue is a JobService: each call becomes work at
\* most once, a refused call never does, and a served call gets its own outcome.
THEOREM QueueImplementsService == Spec => ImplementsService
<1>1. ASSUME IInv, [Next]_vars PROVE [Service!Next]_Service!vars
  BY <1>1, ServiceStep DEF Service!vars, reply, work
<1> QED BY <1>1, ServiceInit, Invariance, PTL DEF Spec, ImplementsService, Service!Spec
=============================================================================
