------------------------------ MODULE WorkList ------------------------------
(***************************************************************************)
(* What the job queue promises to the rest of mempher, with no lease, no   *)
(* clock and no worker in it: a list of jobs, each owed until it is done   *)
(* or given up on.  The same work is never owed twice, owed work is never  *)
(* forgotten, and only finished jobs are ever pruned.                      *)
(* JobQueue is shown to implement this.                                    *)
(***************************************************************************)
CONSTANTS JobIds,   \* identities of the rows of mempher.jobs
          Works,    \* (kind, scope, episodes) triples a job can be for
          NoWork    \* the work of a row that was never inserted

VARIABLES status,   \* status[j]: where job j stands
          work      \* work[j]: what job j is for

vars == <<status, work>>

Statuses == {"absent", "owed", "done", "dead", "purged"}

Init == /\ status = [j \in JobIds |-> "absent"]
        /\ work = [j \in JobIds |-> NoWork]

Owed(k) == \E j \in JobIds : status[j] = "owed" /\ work[j] = k

\* A new job for work that is not owed already.
Add(j, k) == /\ status[j] = "absent"
             /\ ~Owed(k)
             /\ status' = [status EXCEPT ![j] = "owed"]
             /\ work' = [work EXCEPT ![j] = k]

Complete(j) == /\ status[j] = "owed"
               /\ status' = [status EXCEPT ![j] = "done"]
               /\ UNCHANGED work

\* Attempts ran out; one reclaim can give up on several jobs at once.
Abandon(S) == /\ \A j \in S : status[j] = "owed"
              /\ status' = [j \in JobIds |-> IF j \in S THEN "dead" ELSE status[j]]
              /\ UNCHANGED work

\* An operator owes a dead job again, unless its work is owed by another.
Revive(j) == /\ status[j] = "dead"
             /\ ~Owed(work[j])
             /\ status' = [status EXCEPT ![j] = "owed"]
             /\ UNCHANGED work

\* An operator prunes history; outstanding work is not history.
Prune(S) == /\ \A j \in S : status[j] \in {"done", "dead"}
            /\ status' = [j \in JobIds |-> IF j \in S THEN "purged" ELSE status[j]]
            /\ work' = [j \in JobIds |-> IF j \in S THEN NoWork ELSE work[j]]

Next == \/ \E j \in JobIds, k \in Works : Add(j, k)
        \/ \E j \in JobIds : Complete(j) \/ Revive(j)
        \/ \E S \in SUBSET JobIds : Abandon(S) \/ Prune(S)

Spec == Init /\ [][Next]_vars
=============================================================================
