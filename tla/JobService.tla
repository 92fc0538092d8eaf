------------------------------ MODULE JobService ------------------------------
(***************************************************************************)
(* What the worker queue promises its callers, with no buffer, channel or  *)
(* worker in sight: a call is opened as a piece of work at most once, the  *)
(* work ends at most once, a call that is refused never becomes work, and  *)
(* a call that is served gets the outcome of its own work.                 *)
(***************************************************************************)
CONSTANT Requests

VARIABLES reply,  \* reply[r]: "none", "pending", or what the caller was told
          work    \* work[r]: "none", "open", or how the work ended

vars == <<reply, work>>

Outcome == {"ok", "failed", "cancelled"}

Init == /\ reply = [r \in Requests |-> "none"]
        /\ work = [r \in Requests |-> "none"]

Answer(r, a) == /\ reply' = [reply EXCEPT ![r] = a]
                /\ UNCHANGED work

Submit(r) == reply[r] = "none" /\ Answer(r, "pending")

\* Only a call that never became work may be refused.
Refuse(r) == /\ reply[r] \in {"none", "pending"} /\ work[r] = "none"
             /\ Answer(r, "refused")

Open(r) == /\ reply[r] = "pending" /\ work[r] = "none"
           /\ work' = [work EXCEPT ![r] = "open"]
           /\ UNCHANGED reply

\* Work ends whether or not its caller still waits.
End(r) == /\ work[r] = "open"
          /\ \E o \in Outcome : work' = [work EXCEPT ![r] = o]
          /\ UNCHANGED reply

Serve(r) == reply[r] = "pending" /\ work[r] \in Outcome /\ Answer(r, work[r])

\* The caller's own context ended.
Withdraw(r) == reply[r] = "pending" /\ Answer(r, "cancelled")

Next == \E r \in Requests : \/ Submit(r) \/ Refuse(r) \/ Open(r) \/ End(r)
                            \/ Serve(r) \/ Withdraw(r)

Spec == Init /\ [][Next]_vars
=============================================================================
