------------------------------- MODULE Health -------------------------------
(***************************************************************************)
(* The health checker of internal/health/health.go: every tick starts a    *)
(* check goroutine that asks the dependencies one after the other, and     *)
(* waits for its verdict or for the deadline. A check that is given up     *)
(* lives on until the dependency it waits for answers.                     *)
(***************************************************************************)
EXTENDS Naturals, Sequences

CONSTANTS Order,   (* the configured dependencies, in the order they are asked *)
          Checks,  (* check goroutines: bounds how many are alive at once      *)
          NoCheck  (* runCheck is not running                                  *)

Dependency == {"database", "cache", "storage"}

ASSUME HealthAssumption == Order \in Seq(Dependency) /\ NoCheck \notin Checks

Deps == {Order[i] : i \in DOMAIN Order}

VARIABLES
    cond,     \* cond[d]: "up", "down" (answers with an error) or "hung"
    runner,   \* the goroutine of Run: "idle" between ticks, "waiting", "stopped"
    cur,      \* the check that runCheck waits for
    pos,      \* pos[k]: the dependency check k is at; 0 when there is no such goroutine
    asking,   \* asking[k]: k has sent its question and waits for the answer
    expired,  \* the checks whose context is done
    verdict,  \* verdict[k]: the Status that check k fills in
    channel,  \* channel[k]: "empty", "verdict" or "closed"
    status    \* what Status() returns

\* History: met[k][d] is the condition d was in when it answered check k, and
\* behind what the check of the round had met when the status was published,
\* whichever check the findings in the status are of.
VARIABLES met, behind

checkVars == <<pos, asking, verdict, channel, met>>
healthVars == <<cond, runner, cur, expired, status, behind, checkVars>>

Verdicts == [Deps -> {"unset", "unknown", "healthy", "unhealthy"}]
All(v) == [d \in Deps |-> v]

HealthTypeOK ==
    /\ cond \in [Deps -> {"up", "down", "hung"}]
    /\ runner \in {"idle", "waiting", "stopped"}
    /\ cur \in Checks \union {NoCheck}
    /\ pos \in [Checks -> 0 .. Len(Order) + 1]
    /\ asking \in [Checks -> BOOLEAN]
    /\ expired \subseteq Checks
    /\ verdict \in [Checks -> Verdicts]
    /\ channel \in [Checks -> {"empty", "verdict", "closed"}]
    /\ status \in [healthy : BOOLEAN, verdict : Verdicts]
    /\ met \in [Checks -> [Deps -> {"none", "up", "down", "hung"}]]
    /\ behind \in [Deps -> {"none", "up", "down", "hung"}]

HealthInit ==
    /\ cond \in [Deps -> {"up", "down"}]
    /\ runner = "idle"
    /\ cur = NoCheck
    /\ pos = [k \in Checks |-> 0]
    /\ asking = [k \in Checks |-> FALSE]
    /\ expired = {}
    /\ verdict = [k \in Checks |-> All("unset")]
    /\ channel = [k \in Checks |-> "empty"]
    /\ status = [healthy |-> FALSE, verdict |-> All("unset")]
    /\ met = [k \in Checks |-> All("none")]
    /\ behind = All("none")

-----------------------------------------------------------------------------
(* Run and runCheck.                                                         *)

\* A tick: a fresh channel, a fresh context, a new goroutine.
StartCheck(k) ==
    /\ runner = "idle"
    /\ pos[k] = 0
    /\ runner' = "waiting"
    /\ cur' = k
    /\ expired' = expired \ {k}
    /\ pos' = [pos EXCEPT ![k] = 1]
    /\ verdict' = [verdict EXCEPT ![k] = All("unknown")]
    /\ channel' = [channel EXCEPT ![k] = "empty"]
    /\ met' = [met EXCEPT ![k] = All("none")]
    /\ UNCHANGED <<cond, asking, status, behind>>

\* checkTimeout passes; it is long enough for dependencies that answer.
Expire ==
    /\ runner = "waiting"
    /\ cur \notin expired
    /\ asking[cur] /\ cond[Order[pos[cur]]] = "hung"
    /\ expired' = expired \union {cur}
    /\ UNCHANGED <<cond, runner, cur, status, behind, checkVars>>

\* runCheck returns, and its deferred cancel ends the check's context.
EndCheck == /\ runner = "waiting"
            /\ runner' = "idle"
            /\ cur' = NoCheck
            /\ expired' = expired \union {cur}
            /\ UNCHANGED <<cond, checkVars>>

\* Mutant of TimedOut: no case for the context.
TimedOutNever == FALSE /\ EndCheck /\ UNCHANGED <<status, behind>>

TimedOut ==
    /\ cur \in expired
    /\ EndCheck
    /\ status' = [healthy |-> FALSE, verdict |-> All("unknown")]
    /\ behind' = All("none")

\* Status.Healthy, as check leaves it.
Healthy(v) == \A d \in Deps : v[d] # "unhealthy"

\* Mutant of Publish: all checks send on one channel.
PublishLate ==
    /\ runner = "waiting" /\ runner' = "idle"
    /\ cur' = NoCheck /\ expired' = expired \union {cur}
    /\ \E k \in Checks :
         /\ channel[k] = "verdict" /\ channel' = [channel EXCEPT ![k] = "empty"]
         /\ status' = [healthy |-> Healthy(verdict[k]), verdict |-> verdict[k]]
    /\ behind' = met[cur]
    /\ UNCHANGED <<cond, pos, asking, verdict, met>>

Publish ==
    /\ runner = "waiting" /\ channel[cur] = "verdict"
    /\ EndCheck
    /\ status' = [healthy |-> Healthy(verdict[cur]), verdict |-> verdict[cur]]
    /\ behind' = met[cur]

\* The channel was closed without a verdict: the status stays as it was.
ClosedEarly ==
    /\ runner = "waiting" /\ channel[cur] = "closed"
    /\ EndCheck
    /\ UNCHANGED <<status, behind>>

Stop ==
    /\ runner = "idle"
    /\ runner' = "stopped"
    /\ UNCHANGED <<cond, cur, expired, status, behind, checkVars>>

-----------------------------------------------------------------------------
(* check.                                                                    *)

Running(k) == pos[k] \in DOMAIN Order

\* Before each question: ctx.Err(). A done context ends the check, and the
\* deferred close is all its reader sees.
Ask(k) ==
    /\ Running(k) /\ ~asking[k]
    /\ k \notin expired
    /\ asking' = [asking EXCEPT ![k] = TRUE]
    /\ UNCHANGED <<cond, runner, cur, expired, status, behind, pos, verdict, channel, met>>

GiveUp(k) ==
    /\ Running(k) /\ ~asking[k]
    /\ k \in expired
    /\ pos' = [pos EXCEPT ![k] = 0]
    /\ channel' = [channel EXCEPT ![k] = "closed"]
    /\ UNCHANGED <<cond, runner, cur, expired, status, behind, asking, verdict, met>>

\* A hung query ends with its context; the cache and the storage providers do
\* not look at theirs.
CanAnswer(k, d) == cond[d] # "hung" \/ (d = "database" /\ k \in expired)

\* Mutant of Finding: a failing storage is written down and not counted.
FindingNoStorage(d) == IF d = "cache" /\ cond[d] # "up" THEN "unhealthy" ELSE "healthy"

\* What check makes of an answer. GetRandom of the Postgres provider returns
\* ErrNotFound whatever went wrong, and ErrNotFound counts as healthy.
Finding(d) == IF d # "database" /\ cond[d] # "up" THEN "unhealthy" ELSE "healthy"

Answer(k) ==
    LET d == Order[pos[k]] IN
    /\ Running(k) /\ asking[k]
    /\ CanAnswer(k, d)
    /\ asking' = [asking EXCEPT ![k] = FALSE]
    /\ verdict' = [verdict EXCEPT ![k][d] = Finding(d)]
    /\ met' = [met EXCEPT ![k][d] = cond[d]]
    /\ pos' = [pos EXCEPT ![k] = @ + 1]
    /\ UNCHANGED <<cond, runner, cur, expired, status, behind, channel>>

\* The buffered send, and the end of the goroutine.
Send(k) ==
    /\ pos[k] = Len(Order) + 1
    /\ pos' = [pos EXCEPT ![k] = 0]
    /\ channel' = [channel EXCEPT ![k] = "verdict"]
    /\ UNCHANGED <<cond, runner, cur, expired, status, behind, asking, verdict, met>>

-----------------------------------------------------------------------------

\* A dependency breaks, hangs or recovers. The memory cache answers at once:
\* it is "down" when it holds an image with the id "healthcheck".
Turn(d, c) ==
    /\ cond[d] # c
    /\ d = "cache" => c # "hung"
    /\ cond' = [cond EXCEPT ![d] = c]
    /\ UNCHANGED <<runner, cur, expired, status, behind, checkVars>>

RunnerStep == TimedOut \/ Publish \/ ClosedEarly

CheckStep(k) == Ask(k) \/ GiveUp(k) \/ Answer(k) \/ Send(k)

HealthNext ==
    \/ \E k \in Checks : StartCheck(k) \/ CheckStep(k)
    \/ Expire \/ RunnerStep \/ Stop
    \/ \E d \in Deps, c \in {"up", "down", "hung"} : Turn(d, c)

HealthSpec == HealthInit /\ [][HealthNext]_healthVars

\* Ticks come while the checker is not stopped, and goroutines that can run do.
\* The deadline passes also when a dependency hangs only now and then. Which
\* case of runCheck's select is taken is nobody's duty.
HealthFairSpec ==
    /\ HealthSpec
    /\ WF_healthVars(\E k \in Checks : StartCheck(k))
    /\ SF_healthVars(Expire)
    /\ WF_healthVars(RunnerStep)
    /\ \A k \in Checks : WF_healthVars(CheckStep(k))

-----------------------------------------------------------------------------
(* Properties.                                                               *)

\* A healthy status was earned: in the check of the round that set it the cache
\* and the storage were asked, answered, and were up; no timeout, early end or
\* finding of a check given up before can leave one behind (health.go:63-98).
HealthyIsEarned ==
    status.healthy => \A d \in Deps \ {"database"} : behind[d] = "up"

\* The inductive strengthening: runCheck waits for a check, a finding records the
\* condition its dependency was in, and a check sends its verdict only after
\* every answer.
WaitingInv == runner = "waiting" => cur \in Checks

FindingInv ==
    \A k \in Checks :
        /\ \A d \in Deps : met[k][d] # "none" =>
             verdict[k][d] = IF d # "database" /\ met[k][d] # "up" THEN "unhealthy" ELSE "healthy"
        /\ \A i \in DOMAIN Order :
             i < pos[k] \/ channel[k] = "verdict" => met[k][Order[i]] # "none"

HealthInv == HealthTypeOK /\ WaitingInv /\ FindingInv /\ HealthyIsEarned

\* runCheck returns, whatever hangs: the ticks go on.
RunnerReturns == runner = "waiting" ~> runner # "waiting"

\* While the database does not hang, a storage that stays broken is reported
\* as such (health_test.go:54-61), unless the checker is stopped.
OutageReported ==
    <>[](cond["storage"] = "down" /\ cond["database"] # "hung")
      => <>[](~status.healthy \/ runner = "stopped")
=============================================================================
