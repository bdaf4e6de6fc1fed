------------------------------- MODULE JobQueue -------------------------------
(***************************************************************************)
(* What a queue of jobs promises, without workers, claims or leases: a job *)
(* is decided once, it is recorded as sent only if it was sent, and one    *)
(* that failed is opened again a bounded number of times.                  *)
(***************************************************************************)
EXTENDS Naturals

CONSTANTS
    Jobs,
    MaxReopen       \* how often a failed job may be opened again

VARIABLES
    status,         \* of a job: none, open, sent, cancelled or failed
    reopened,       \* how often it was opened again
    delivered       \* the jobs that reached their recipient

jobVars == <<status, reopened, delivered>>

JobInit ==
    /\ status \in [Jobs -> {"none", "open"}]
    /\ reopened = [j \in Jobs |-> 0]
    /\ delivered = {}

Again(j, to) == status[j] = "failed" /\ to = "open"

\* What may become of a job in one step.  Several may change together.
Permitted(j, to) ==
    \/ to = status[j]
    \/ status[j] = "none" /\ to = "open"
    \/ status[j] = "open" /\ to \in {"cancelled", "failed"}
    \/ status[j] = "open" /\ to = "sent" /\ j \in delivered
    \/ Again(j, to) /\ reopened[j] < MaxReopen

JobNext ==
    /\ status' \in [Jobs -> {"none", "open", "sent", "cancelled", "failed"}]
    /\ \A j \in Jobs : Permitted(j, status'[j])
    /\ reopened' = [j \in Jobs |-> IF Again(j, status'[j]) THEN reopened[j] + 1
                                   ELSE reopened[j]]
    /\ delivered \subseteq delivered'
    /\ \A j \in delivered' \ delivered : status[j] # "none"

JobSpec == JobInit /\ [][JobNext]_jobVars

===============================================================================
