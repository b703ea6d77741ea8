---------------------------- MODULE JobLifecycle ----------------------------
(***************************************************************************)
(* What the compute queue promises of a job, whatever the submitters and   *)
(* the workers do: it is tried at most MaxAttempts times, at most one job  *)
(* of a user is held at a time, a try that was not finished is either      *)
(* repeated or the job fails, only a held job succeeds, and an end is      *)
(* final.  Several jobs may move in one step: leasing also takes back the  *)
(* leases that have expired.                                               *)
(***************************************************************************)
EXTENDS Naturals

CONSTANTS Jobs, UserOf, MaxAttempts

VARIABLES stage, tries

Ends == {"succeeded", "failed", "cancelled"}

Init ==
    /\ stage = [j \in Jobs |-> "absent"]
    /\ tries = [j \in Jobs |-> 0]

Moves(j, from, to) == stage[j] = from /\ stage'[j] = to

Submit(j) == Moves(j, "absent", "waiting") /\ tries'[j] = 0

\* From "held" this is a lease that expired and was granted again at once.
Take(j) ==
    /\ Moves(j, "waiting", "held") \/ Moves(j, "held", "held")
    /\ tries[j] < MaxAttempts
    /\ tries'[j] = tries[j] + 1

GiveBack(j) ==
    /\ Moves(j, "held", "waiting")
    /\ tries[j] < MaxAttempts
    /\ tries'[j] = tries[j]

End(j) ==
    /\ \/ \E end \in Ends : Moves(j, "held", end)
       \/ Moves(j, "waiting", "cancelled")
    /\ tries'[j] = tries[j]

Stay(j) == stage'[j] = stage[j] /\ tries'[j] = tries[j]

OneHeldPerUser ==
    \A j, k \in Jobs :
        (stage[j] = "held" /\ stage[k] = "held" /\ UserOf[j] = UserOf[k]) => j = k

Next ==
    /\ \A j \in Jobs : Submit(j) \/ Take(j) \/ GiveBack(j) \/ End(j) \/ Stay(j)
    /\ OneHeldPerUser'

Spec == Init /\ [][Next]_<<stage, tries>>
=============================================================================
