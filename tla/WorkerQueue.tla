----------------------------- MODULE WorkerQueue -----------------------------
(***************************************************************************)
(* The bounded worker queue of internal/queue/queue.go: Process enqueues a *)
(* job on a buffered channel and waits for its result, a fixed set of      *)
(* workers receives jobs, and Run closes the channel at shutdown.          *)
(*                                                                         *)
(* A request is one call of Process together with its job: r names the     *)
(* caller, the job in the channel, its context and its result channel.     *)
(***************************************************************************)
EXTENDS Naturals, Sequences, FiniteSets

CONSTANTS Requests,  (* the calls of Process                             *)
          Workers,   (* the worker goroutines                            *)
          Slots,     (* buffer slots per worker: 64 in queue.New         *)
          NoJob      (* what an idle worker holds                        *)

ASSUME QueueAssumption == /\ IsFiniteSet(Workers)
                          /\ Workers # {}
                          /\ Slots \in Nat \ {0}
                          /\ NoJob \notin Requests

VARIABLES
    caller,    \* caller[r]: where the call of Process for r is, or what it returned
    ctxDone,   \* the requests whose own context has been cancelled
    buffer,    \* the buffered channel q.queue
    result,    \* result[r]: content ever put in r's result channel (capacity 1)
    wstate,    \* wstate[w]: where worker w is in its loop
    held,      \* held[w]: the job worker w has received and not answered
    qDone,     \* q.ctx is cancelled
    closed     \* q.queue is closed

vars == <<caller, ctxDone, buffer, result, wstate, held, qDone, closed>>

Capacity == Cardinality(Workers) * Slots

Returned == {"ok", "failed", "cancelled", "shutdown", "full", "panicked"}
CallerState == {"idle", "checked", "waiting"} \union Returned
Outcome == {"ok", "failed", "cancelled"}
WorkerState == {"idle", "received", "handling", "stopped"}

InBuffer(r) == \E i \in DOMAIN buffer : buffer[i] = r
HeldBy(w, r) == wstate[w] \in {"received", "handling"} /\ held[w] = r

TypeOK ==
    /\ caller \in [Requests -> CallerState]
    /\ ctxDone \subseteq Requests
    /\ buffer \in Seq(Requests)
    /\ Len(buffer) <= Capacity
    /\ result \in [Requests -> Outcome \union {"none"}]
    /\ wstate \in [Workers -> WorkerState]
    /\ held \in [Workers -> Requests \union {NoJob}]
    /\ qDone \in BOOLEAN
    /\ closed \in BOOLEAN

Init ==
    /\ caller = [r \in Requests |-> "idle"]
    /\ ctxDone = {}
    /\ buffer = <<>>
    /\ result = [r \in Requests |-> "none"]
    /\ wstate = [w \in Workers |-> "idle"]
    /\ held = [w \in Workers |-> NoJob]
    /\ qDone = FALSE
    /\ closed = FALSE

-----------------------------------------------------------------------------
(* Process: the check of q.ctx, the enqueue select, the wait select.         *)

CallTo(r, from, to) == /\ caller[r] = from
                       /\ caller' = [caller EXCEPT ![r] = to]

\* Process is entered and reads q.ctx.Err(); nothing holds the answer fixed
\* between this read and the select that follows.
Call(r) ==
    /\ CallTo(r, "idle", IF qDone THEN "shutdown" ELSE "checked")
    /\ UNCHANGED <<ctxDone, buffer, result, wstate, held, qDone, closed>>

HasRoom == Len(buffer) < Capacity

\* The send case: the job is in the channel.
Send(r) ==
    /\ ~closed
    /\ HasRoom
    /\ CallTo(r, "checked", "waiting")
    /\ buffer' = Append(buffer, r)
    /\ UNCHANGED <<ctxDone, result, wstate, held, qDone, closed>>

\* The send case on a channel Run has closed: a closed channel makes the case
\* ready, and taking it panics. The panic leaves Process.
SendOnClosed(r) ==
    /\ closed
    /\ CallTo(r, "checked", "panicked")
    /\ UNCHANGED <<ctxDone, buffer, result, wstate, held, qDone, closed>>

SendShutdown(r) ==
    /\ qDone
    /\ CallTo(r, "checked", "shutdown")
    /\ UNCHANGED <<ctxDone, buffer, result, wstate, held, qDone, closed>>

SendCancelled(r) ==
    /\ r \in ctxDone
    /\ CallTo(r, "checked", "cancelled")
    /\ UNCHANGED <<ctxDone, buffer, result, wstate, held, qDone, closed>>

\* The default case, taken only when no other case is ready.
SendFull(r) ==
    /\ ~closed /\ ~HasRoom
    /\ ~qDone
    /\ r \notin ctxDone
    /\ CallTo(r, "checked", "full")
    /\ UNCHANGED <<ctxDone, buffer, result, wstate, held, qDone, closed>>

\* Mutant of Receive: result.err is not looked at.
ReceiveIgnoringError(r) ==
    /\ result[r] # "none"
    /\ CallTo(r, "waiting", "ok")
    /\ UNCHANGED <<ctxDone, buffer, result, wstate, held, qDone, closed>>

Receive(r) ==
    /\ result[r] # "none"
    /\ CallTo(r, "waiting", result[r])
    /\ UNCHANGED <<ctxDone, buffer, result, wstate, held, qDone, closed>>

\* Mutant of Abandon: the wait does not look at the request's context.
AbandonNever(r) == FALSE /\ CallTo(r, "waiting", "cancelled") /\ UNCHANGED vars

\* Mutant of Abandon: the caller is told that its job was not accepted.
AbandonAsFull(r) ==
    /\ r \in ctxDone
    /\ CallTo(r, "waiting", "full")
    /\ UNCHANGED <<ctxDone, buffer, result, wstate, held, qDone, closed>>

\* The wait select gives up on the job; it stays wherever it is.
Abandon(r) ==
    /\ r \in ctxDone
    /\ CallTo(r, "waiting", "cancelled")
    /\ UNCHANGED <<ctxDone, buffer, result, wstate, held, qDone, closed>>

-----------------------------------------------------------------------------
(* worker: one select per iteration, either case when both are ready.        *)

Take(w) ==
    /\ wstate[w] = "idle"
    /\ buffer # <<>>
    /\ buffer' = Tail(buffer)
    /\ wstate' = [wstate EXCEPT ![w] = "received"]
    /\ held' = [held EXCEPT ![w] = Head(buffer)]
    /\ UNCHANGED <<caller, ctxDone, result, qDone, closed>>

\* Receiving from the closed and drained channel ends the worker.
TakeClosed(w) ==
    /\ wstate[w] = "idle"
    /\ closed /\ buffer = <<>>
    /\ wstate' = [wstate EXCEPT ![w] = "stopped"]
    /\ UNCHANGED <<caller, ctxDone, buffer, result, held, qDone, closed>>

StopWorker(w) ==
    /\ wstate[w] = "idle"
    /\ qDone
    /\ wstate' = [wstate EXCEPT ![w] = "stopped"]
    /\ UNCHANGED <<caller, ctxDone, buffer, result, held, qDone, closed>>

\* Mutant of Deliver: the result channel has no buffer, the send is a rendezvous.
DeliverUnbuffered(w, outcome) ==
    /\ caller[held[w]] = "waiting"
    /\ result' = [result EXCEPT ![held[w]] = outcome]
    /\ wstate' = [wstate EXCEPT ![w] = "idle"]
    /\ held' = [held EXCEPT ![w] = NoJob]
    /\ UNCHANGED <<caller, ctxDone, buffer, qDone, closed>>

\* Put the answer in the job's result channel and go round the loop. The
\* channel has capacity 1: the send would block if it already held a result.
Deliver(w, outcome) ==
    /\ result[held[w]] = "none"
    /\ result' = [result EXCEPT ![held[w]] = outcome]
    /\ wstate' = [wstate EXCEPT ![w] = "idle"]
    /\ held' = [held EXCEPT ![w] = NoJob]
    /\ UNCHANGED <<caller, ctxDone, buffer, qDone, closed>>

\* Mutant of Skip: return in place of continue.
SkipReturning(w) ==
    /\ wstate[w] = "received"
    /\ held[w] \in ctxDone
    /\ result' = [result EXCEPT ![held[w]] = "cancelled"]
    /\ wstate' = [wstate EXCEPT ![w] = "stopped"]
    /\ UNCHANGED <<caller, ctxDone, buffer, held, qDone, closed>>

\* A job whose context is done by now is answered without being handled.
Skip(w) ==
    /\ wstate[w] = "received"
    /\ held[w] \in ctxDone
    /\ Deliver(w, "cancelled")

\* Mutant of Start: the job's context is not checked first.
StartUnchecked(w) ==
    /\ wstate[w] = "received"
    /\ wstate' = [wstate EXCEPT ![w] = "handling"]
    /\ UNCHANGED <<caller, ctxDone, buffer, result, held, qDone, closed>>

Start(w) ==
    /\ wstate[w] = "received"
    /\ held[w] \notin ctxDone
    /\ wstate' = [wstate EXCEPT ![w] = "handling"]
    /\ UNCHANGED <<caller, ctxDone, buffer, result, held, qDone, closed>>

\* The handler returns, with an error or without one.
Finish(w) ==
    /\ wstate[w] = "handling"
    /\ \E outcome \in {"ok", "failed"} : Deliver(w, outcome)

-----------------------------------------------------------------------------
(* The surroundings: request contexts, the shutdown signal, Run.             *)

\* The HTTP server cancels a request's context: the client went away, or the
\* handler timeout expired. Call does not read the context, so a call entered
\* with a dead context is one cancelled right after Call.
Cancel(r) ==
    /\ caller[r] # "idle"
    /\ r \notin ctxDone
    /\ ctxDone' = ctxDone \union {r}
    /\ UNCHANGED <<caller, buffer, result, wstate, held, qDone, closed>>

Shutdown ==
    /\ ~qDone
    /\ qDone' = TRUE
    /\ UNCHANGED <<caller, ctxDone, buffer, result, wstate, held, closed>>

Close ==
    /\ qDone /\ ~closed
    /\ closed' = TRUE
    /\ UNCHANGED <<caller, ctxDone, buffer, result, wstate, held, qDone>>

\* Everything has returned: the only state in which nothing is left to do.
Terminated ==
    /\ \A r \in Requests : caller[r] \in Returned /\ r \in ctxDone
    /\ \A w \in Workers : wstate[w] = "stopped"
    /\ closed
    /\ UNCHANGED vars

SendSelect(r) == \/ Send(r) \/ SendOnClosed(r) \/ SendShutdown(r)
                 \/ SendCancelled(r) \/ SendFull(r)

CallerStep(r) == \/ Call(r) \/ SendSelect(r) \/ Receive(r) \/ Abandon(r)

WorkerStep(w) == \/ Take(w) \/ TakeClosed(w) \/ StopWorker(w)
                 \/ Skip(w) \/ Start(w) \/ Finish(w)

Next ==
    \/ \E r \in Requests : CallerStep(r) \/ Cancel(r)
    \/ \E w \in Workers : WorkerStep(w)
    \/ Shutdown
    \/ Close
    \/ Terminated

Spec == Init /\ [][Next]_vars

\* What the Go scheduler gives: a goroutine that can run keeps running. A
\* handler call of libvips returns, and a select with several ready cases
\* may pick any of them, so no case by itself is owed anything.
Scheduling ==
    /\ \A r \in Requests : WF_vars(SendSelect(r)) /\ WF_vars(Receive(r) \/ Abandon(r))
    /\ \A w \in Workers : WF_vars(WorkerStep(w))
    /\ WF_vars(Close)

\* What the queue owes its callers by itself.
FairSpec == Spec /\ Scheduling

\* Every request runs under http.TimeoutHandler, which ends its context.
Deadlines == \A r \in Requests : WF_vars(Cancel(r))

-----------------------------------------------------------------------------
(* Properties.                                                               *)

\* Where r's job is, out of the channel, the workers and the result channel.
InSystem(r) == InBuffer(r) \/ \E w \in Workers : HeldBy(w, r)

\* No job is lost or duplicated between the channel, the workers and the result
\* channels: a job is buffered at one position, or held by one worker, or
\* answered, never two of them; a caller past the send has a job somewhere, and
\* a call that was refused (queue.go:88-90, 100-105) has none.
JobConservation ==
    /\ \A i, j \in DOMAIN buffer : buffer[i] = buffer[j] => i = j
    /\ \A v, w \in Workers : \A r \in Requests :
           HeldBy(v, r) /\ HeldBy(w, r) => v = w
    /\ \A r \in Requests : \A w \in Workers : ~(InBuffer(r) /\ HeldBy(w, r))
    /\ \A r \in Requests : result[r] # "none" => ~InSystem(r)
    /\ \A r \in Requests :
           caller[r] \in {"waiting", "ok", "failed"} => InSystem(r) \/ result[r] # "none"
    /\ \A r \in Requests :
           caller[r] \in {"idle", "checked", "shutdown", "full", "panicked"}
              => ~InSystem(r) /\ result[r] = "none"

\* A worker never blocks on a caller that is gone: whenever it holds a job, the
\* job's one-slot result channel is empty, so the send at queue.go:68 or 73
\* goes through (the reason for the buffer made at queue.go:92).
WorkerNeverBlocks ==
    \A w \in Workers : wstate[w] \in {"received", "handling"}
                        => held[w] \in Requests /\ result[held[w]] = "none"

\* The inductive strengthening the proofs use: a caller that was served got the
\* outcome its own job put in its own result channel.
IInv ==
    /\ TypeOK
    /\ JobConservation
    /\ WorkerNeverBlocks
    /\ \A r \in Requests : caller[r] \in {"ok", "failed"} => result[r] = caller[r]

\* r's context ended before a worker began to handle its job.
Doomed(r) == /\ r \in ctxDone
             /\ result[r] \notin {"ok", "failed"}
             /\ \A w \in Workers : ~(wstate[w] = "handling" /\ held[w] = r)

\* Nothing is handled for a caller whose context ended first, whatever steps
\* come in between: its call can only end with the context's error, a refusal
\* or a shutdown (TestTaskWithCancelledContext, queue_test.go:62-77).
NoWorkForDeadCallers ==
    [][\A r \in Requests : Doomed(r) => Doomed(r)' /\ caller'[r] \notin {"ok", "failed"}]_vars

\* With a deadline on every request, every call of Process returns.
EveryCallReturns ==
    Deadlines => \A r \in Requests : caller[r] = "checked" ~> caller[r] \in Returned

\* Once q.ctx is cancelled every worker goroutine ends, whatever is queued.
WorkersStop == qDone ~> \A w \in Workers : wstate[w] = "stopped"

\* While the service is up the channel starves nobody: a waiting caller gets an
\* answer from the queue unless its own context ends or the service shuts down.
AnsweredUnlessShutdown ==
    \A r \in Requests : caller[r] = "waiting" ~> (result[r] # "none" \/ r \in ctxDone \/ qDone)

\* The callers' view of the queue, as the state of JobService.
ReplyOf(c) == CASE c = "idle"                             -> "none"
                [] c \in {"checked", "waiting"}           -> "pending"
                [] c \in Outcome                          -> c
                [] c \in {"shutdown", "full", "panicked"} -> "refused"

Work(r) == IF result[r] # "none" THEN result[r]
           ELSE IF InSystem(r) THEN "open" ELSE "none"

Service == INSTANCE JobService WITH reply <- [r \in Requests |-> ReplyOf(caller[r])],
                                    work <- [r \in Requests |-> Work(r)]

\* The queue implements JobService: work is opened and ended at most once per
\* call, a refused call never becomes work, and a served call gets the outcome
\* of its own job.
ImplementsService == Service!Spec

\* Process "adds a job to the queue, waits for it to process, and returns the
\* result" (queue.go:86): no call of it leaves by a panic.
NoPanic == \A r \in Requests : caller[r] # "panicked"
=============================================================================
