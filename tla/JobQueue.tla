------------------------------ MODULE JobQueue ------------------------------
(***************************************************************************)
(* The deferred-work queue of mempher: the table mempher.jobs, the         *)
(* statements of postgres/queue.go that change it, and the worker loop of  *)
(* worker.go that leases from it and reports to it.                        *)
(*                                                                         *)
(* One statement of PostgreSQL is one action, except the two statements    *)
(* that read a snapshot and act on rows that may have moved on since:      *)
(* Enqueue and Purge have a Begin (the snapshot) and an End (the write).   *)
(*                                                                         *)
(* Times are relative to the current instant: runAfter = 0 is "now",       *)
(* Tick lowers every stored time by one, and times more than Horizon in    *)
(* the past are not told apart.  Workers read their own clocks, which may  *)
(* be off by Skew.                                                         *)
(***************************************************************************)
EXTENDS Integers, FiniteSets

CONSTANTS
    MaxJobs,      \* bound: rows ever inserted
    Works,        \* (kind, scope, episodes) triples
    Kinds,        \* JobKind
    KindOf,       \* KindOf[k]: the kind of work k
    MaxAttempts,  \* MaxAttempts[k]: NewJob.MaxAttempts
    Delays,       \* values of NewJob.RunAfter, relative to the enqueue
    Workers,      \* Worker instances
    WorkerIds,    \* the names leases are held under
    Reliable,     \* workers that keep running (fairness is assumed of them only)
    IdOf,         \* IdOf[w]: WorkerConfig.ID, or host/pid by default
    KindsOf,      \* KindsOf[w]: the kinds worker w claims
    Skew,         \* Skew[w]: how far w's Clock runs ahead
    Batch,        \* WorkerConfig.Batch
    Lease,        \* WorkerConfig.LeaseDuration
    BaseBackoff,  \* DefaultRetryBackoff
    MaxBackoff,   \* MaxRetryBackoff
    Horizon,      \* bound: how far into the past times are told apart
    Clients,      \* callers of Enqueue
    MaxOperations, \* bound: operator retries and purges
    OneOperator,  \* whether operators retry and purge one at a time
    Null          \* SQL NULL, and "nothing" in a worker

JobIds == 1 .. MaxJobs

ASSUME ConstantsOK ==
    /\ MaxJobs \in Nat /\ Batch \in Nat \ {0} /\ Lease \in Nat \ {0}
    /\ BaseBackoff \in Nat \ {0} /\ MaxBackoff \in Nat /\ MaxBackoff >= BaseBackoff
    /\ Horizon \in Nat /\ MaxOperations \in Nat
    /\ OneOperator \in BOOLEAN
    /\ KindOf \in [Works -> Kinds]
    /\ MaxAttempts \in [Works -> Nat \ {0}]
    /\ Delays \subseteq Nat
    /\ Reliable \subseteq Workers
    /\ IdOf \in [Workers -> WorkerIds]
    /\ KindsOf \in [Workers -> SUBSET Kinds]
    /\ Skew \in [Workers -> Int]
    /\ \A w \in Workers : Horizon > -Skew[w]
    /\ Null \notin Int /\ Null \notin WorkerIds /\ Null \notin Works
    /\ Null \notin [job : JobIds, ok : BOOLEAN]

VARIABLES
    job,      \* job[j]: the row with id j
    next,     \* the id the next insert gets (uuidv7: ids only grow)
    held,     \* held[w][j]: attempts in w's leased copy of j, 0 without one
    until,    \* until[w]: when the batch w leased expires
    ran,      \* ran[w]: a job whose body returned and is not reported yet
    enq,      \* enq[c]: the Enqueue statement client c is in
    purging,  \* the ids a Purge statement has selected
    operations, \* retries and purges started so far
    runs,     \* runs[j]: how often a body of j was run
    revived   \* revived[j]: how often an operator retried j

queueVars == <<job, next>>
workerVars == <<held, until, ran>>
clientVars == <<enq, purging, operations>>
ghostVars == <<runs, revived>>
vars == <<job, next, held, until, ran, enq, purging, operations, runs, revived>>

-----------------------------------------------------------------------------
(* Rows *)

Row(state, work, attempts, runAfter, leasedUntil, leasedBy) ==
    [state |-> state, work |-> work, attempts |-> attempts, runAfter |-> runAfter,
     leasedUntil |-> leasedUntil, leasedBy |-> leasedBy]

NoRow == Row("absent", Null, 0, 0, Null, Null)
DeletedRow == Row("purged", Null, 0, 0, Null, Null)
NewRow(k, delay) == Row("pending", k, 0, delay, Null, Null)

Outstanding(j) == job[j].state \in {"pending", "running"}

\* Faulty: the index covers pending rows only.
InflightPending(k) == {j \in JobIds : job[j].state = "pending" /\ job[j].work = k}

\* The rows jobs_inflight_key indexes under work k.
Inflight(k) == {j \in JobIds : Outstanding(j) /\ job[j].work = k}

Spent(j) == job[j].attempts >= MaxAttempts[job[j].work]

\* Faulty: run_after is cleared with the lease.
UnleasedNoTime(j, state, runAfter) ==
    Row(state, job[j].work, job[j].attempts, Null, Null, Null)

\* The row of j once its lease is over.
Unleased(j, state, runAfter) ==
    Row(state, job[j].work, job[j].attempts, runAfter, Null, Null)

\* An attempt is over without success: the CASE of Fail and of Reclaim.
Released(j, retryAt) == IF Spent(j) THEN Unleased(j, "dead", job[j].runAfter)
                                    ELSE Unleased(j, "pending", retryAt)

-----------------------------------------------------------------------------
(* Enqueue: INSERT ... ON CONFLICT DO NOTHING, and a SELECT on the         *)
(* snapshot of the same statement for the row it collapsed onto.           *)

Statement(work, delay, seen, answer) ==
    [work |-> work, delay |-> delay, seen |-> seen, answer |-> answer]

\* No statement in progress; the last one returned a.
Answered(a) == Statement(Null, 0, {}, a)

\* The statement starts: its snapshot holds the rows it could collapse onto.
EnqueueBegin(c, k, delay) ==
    /\ enq[c].work = Null
    /\ next <= MaxJobs
    /\ enq' = [enq EXCEPT ![c] = Statement(k, delay, Inflight(k), "none")]
    /\ UNCHANGED <<queueVars, workerVars, purging, operations, ghostVars>>

\* No row of the index conflicts: the insert happens and returns the new job.
EnqueueInsert(c) ==
    /\ enq[c].work # Null
    /\ Inflight(enq[c].work) = {}
    /\ next <= MaxJobs
    /\ job' = [job EXCEPT ![next] = NewRow(enq[c].work, enq[c].delay)]
    /\ next' = next + 1
    /\ enq' = [enq EXCEPT ![c] = Answered("job")]
    /\ UNCHANGED <<workerVars, purging, operations, ghostVars>>

\* The insert conflicts and does nothing; what comes back is what the
\* statement's snapshot held, which may be no row at all (pgx.ErrNoRows).
EnqueueCollapse(c) ==
    /\ enq[c].work # Null
    /\ Inflight(enq[c].work) # {}
    /\ enq' = [enq EXCEPT ![c] = Answered(IF enq[c].seen = {} THEN "noRows" ELSE "job")]
    /\ UNCHANGED <<queueVars, workerVars, purging, operations, ghostVars>>

-----------------------------------------------------------------------------
(* The worker loop *)

Idle(w) == ran[w] = Null /\ \A j \in JobIds : held[w][j] = 0

Ready(w) == {j \in JobIds : /\ job[j].state = "pending"
                            /\ job[j].runAfter <= Skew[w]
                            /\ ~Spent(j)
                            /\ KindOf[job[j].work] \in KindsOf[w]}

\* ORDER BY run_after, id
Sooner(i, j) == \/ job[i].runAfter < job[j].runAfter
                \/ job[i].runAfter = job[j].runAfter /\ i < j

\* S is what LIMIT Batch leaves of the ready rows.
FirstReady(w, S) ==
    /\ S \subseteq Ready(w) /\ S # {}
    /\ \A i \in S, j \in Ready(w) \ S : Sooner(i, j)
    /\ Cardinality(S) <= Batch
    /\ Cardinality(S) < Batch => S = Ready(w)

\* Faulty: the lease does not count the attempt.
LeasedUncounted(w, j) == Row("running", job[j].work, job[j].attempts, job[j].runAfter,
                             Skew[w] + Lease, IdOf[w])

Leased(w, j) == Row("running", job[j].work, job[j].attempts + 1, job[j].runAfter,
                    Skew[w] + Lease, IdOf[w])

\* Lease, called by DrainOnce of a worker between two batches.
LeaseBatch(w, S) ==
    /\ Idle(w)
    /\ FirstReady(w, S)
    /\ job' = [j \in JobIds |-> IF j \in S THEN Leased(w, j) ELSE job[j]]
    /\ held' = [held EXCEPT ![w] = [j \in JobIds |->
                    IF j \in S THEN job[j].attempts + 1 ELSE 0]]
    /\ until' = [until EXCEPT ![w] = Skew[w] + Lease]
    /\ UNCHANGED <<next, ran, clientVars, ghostVars>>

\* runJob on one job of the batch; RETURNING gives the batch in no order.
RunJob(w, j, ok) ==
    /\ ran[w] = Null
    /\ held[w][j] > 0
    /\ ran' = [ran EXCEPT ![w] = [job |-> j, ok |-> ok]]
    /\ runs' = [runs EXCEPT ![j] = @ + 1]
    /\ UNCHANGED <<queueVars, held, until, clientVars, revived>>

\* Faulty: any running row may be reported, whoever leased it.
MayReportAny(w, j) == job[j].state = "running"

\* The WHERE clause of Succeed and of Fail.
MayReport(w, j) == job[j].state = "running" /\ job[j].leasedBy = IdOf[w]

\* The worker is through with its copy of j, whatever the queue answered.
Reported(w, j) ==
    /\ held' = [held EXCEPT ![w][j] = 0]
    /\ ran' = [ran EXCEPT ![w] = Null]
    /\ UNCHANGED <<next, until, clientVars, ghostVars>>

Succeed(w) ==
    /\ ran[w] # Null /\ ran[w].ok
    /\ LET j == ran[w].job IN
       /\ job' = IF MayReport(w, j)
                 THEN [job EXCEPT ![j] = Unleased(j, "done", job[j].runAfter)]
                 ELSE job
       /\ Reported(w, j)

\* min(BaseBackoff * 2^(attempt-1), MaxBackoff)
RetryBackoff(attempt) ==
    LET b == BaseBackoff * 2^(attempt - 1)
    IN  IF b \in 1 .. MaxBackoff THEN b ELSE MaxBackoff

Fail(w) ==
    /\ ran[w] # Null /\ ~ran[w].ok
    /\ LET j == ran[w].job IN
       /\ job' = IF MayReport(w, j)
                 THEN [job EXCEPT ![j] = Released(j, Skew[w] + RetryBackoff(held[w][j]))]
                 ELSE job
       /\ Reported(w, j)

\* The call that reports the result fails; DrainOnce logs it and goes on.
LoseReport(w) ==
    /\ ran[w] # Null
    /\ Reported(w, ran[w].job)
    /\ UNCHANGED job

\* A crash, or a context cancelled within the batch: the rest stays leased.
Stop(w) ==
    /\ ~Idle(w)
    /\ held' = [held EXCEPT ![w] = [j \in JobIds |-> 0]]
    /\ ran' = [ran EXCEPT ![w] = Null]
    /\ UNCHANGED <<queueVars, until, clientVars, ghostVars>>

\* Faulty: a lease is taken away in its last instant.
ExpiredEarly(w) ==
    {j \in JobIds : job[j].state = "running" /\ job[j].leasedUntil <= Skew[w]}

\* Faulty: a worker reclaims only what it leased itself.
ExpiredOwn(w) == {j \in JobIds : /\ job[j].state = "running"
                                 /\ job[j].leasedUntil < Skew[w]
                                 /\ job[j].leasedBy = IdOf[w]}

Expired(w) == {j \in JobIds : job[j].state = "running" /\ job[j].leasedUntil < Skew[w]}

\* Faulty: a reclaimed job is pending again, attempts left or not.
ReclaimToPending(w) ==
    /\ Idle(w)
    /\ Expired(w) # {}
    /\ job' = [j \in JobIds |-> IF j \in Expired(w)
                                THEN Unleased(j, "pending", job[j].runAfter) ELSE job[j]]
    /\ UNCHANGED <<next, workerVars, clientVars, ghostVars>>

\* Reclaim, called by Run before it drains.
Reclaim(w) ==
    /\ Idle(w)
    /\ Expired(w) # {}
    /\ job' = [j \in JobIds |-> IF j \in Expired(w) THEN Released(j, job[j].runAfter)
                                                     ELSE job[j]]
    /\ UNCHANGED <<next, workerVars, clientVars, ghostVars>>

-----------------------------------------------------------------------------
(* Operators *)

\* Faulty: no index stands in the way of a retry.
RetryBlindly(j) ==
    /\ operations < MaxOperations
    /\ OneOperator => purging = {}
    /\ job[j].state = "dead"
    /\ job' = [job EXCEPT ![j] = NewRow(job[j].work, 0)]
    /\ revived' = [revived EXCEPT ![j] = @ + 1]
    /\ operations' = operations + 1
    /\ UNCHANGED <<next, workerVars, enq, purging, runs>>

\* Retry of a dead job; jobs_inflight_key refuses it while the same work is
\* outstanding.
Retry(j) ==
    /\ operations < MaxOperations
    /\ OneOperator => purging = {}
    /\ job[j].state = "dead"
    /\ Inflight(job[j].work) = {}
    /\ job' = [job EXCEPT ![j] = NewRow(job[j].work, 0)]
    /\ revived' = [revived EXCEPT ![j] = @ + 1]
    /\ operations' = operations + 1
    /\ UNCHANGED <<next, workerVars, enq, purging, runs>>

\* The inner SELECT of Purge: finished rows; which of them depends on the
\* states, the cutoff and the limit the operator asked for.
PurgeBegin(S) ==
    /\ purging = {} /\ operations < MaxOperations
    /\ S # {} /\ \A j \in S : job[j].state \in {"done", "dead"}
    /\ purging' = S
    /\ operations' = operations + 1
    /\ UNCHANGED <<queueVars, workerVars, enq, ghostVars>>

\* The DELETE around it: under READ COMMITTED a row that changed since the
\* SELECT is only checked for still having a selected id.
PurgeEnd ==
    /\ purging # {}
    /\ job' = [j \in JobIds |-> IF j \in purging THEN DeletedRow ELSE job[j]]
    /\ purging' = {}
    /\ UNCHANGED <<next, workerVars, enq, operations, ghostVars>>

-----------------------------------------------------------------------------
\* One unit of time passes.
Earlier(t) == IF t > -Horizon THEN t - 1 ELSE t

Aged(row) == Row(row.state, row.work, row.attempts, Earlier(row.runAfter),
                 IF row.leasedUntil = Null THEN Null ELSE Earlier(row.leasedUntil),
                 row.leasedBy)

Tick ==
    /\ job' = [j \in JobIds |-> IF Outstanding(j) THEN Aged(job[j]) ELSE job[j]]
    /\ until' = [w \in Workers |-> Earlier(until[w])]
    /\ UNCHANGED <<next, held, ran, clientVars, ghostVars>>

Init ==
    /\ job = [j \in JobIds |-> NoRow]
    /\ next = 1
    /\ held = [w \in Workers |-> [j \in JobIds |-> 0]]
    /\ until = [w \in Workers |-> -Horizon]
    /\ ran = [w \in Workers |-> Null]
    /\ enq = [c \in Clients |-> Answered("none")]
    /\ purging = {}
    /\ operations = 0
    /\ runs = [j \in JobIds |-> 0]
    /\ revived = [j \in JobIds |-> 0]

Next ==
    \/ \E c \in Clients : \/ \E k \in Works, delay \in Delays : EnqueueBegin(c, k, delay)
                          \/ EnqueueInsert(c)
                          \/ EnqueueCollapse(c)
    \/ \E w \in Workers : \/ \E S \in SUBSET JobIds : LeaseBatch(w, S)
                          \/ \E j \in JobIds, ok \in BOOLEAN : RunJob(w, j, ok)
                          \/ Succeed(w)
                          \/ Fail(w)
                          \/ LoseReport(w)
                          \/ Stop(w)
                          \/ Reclaim(w)
    \/ \E j \in JobIds : Retry(j)
    \/ \E S \in SUBSET JobIds : PurgeBegin(S)
    \/ PurgeEnd
    \/ Tick

Spec == Init /\ [][Next]_vars

(***************************************************************************)
(* Run never leaves its loop, whatever fails, so a reliable worker that    *)
(* can lease, run, report or reclaim eventually does; time passes.         *)
(* Nothing is assumed of the other workers: they may hang holding a lease. *)
(***************************************************************************)
Report(w) == Succeed(w) \/ Fail(w) \/ LoseReport(w)

Fairness ==
    /\ WF_vars(Tick)
    /\ \A w \in Reliable : /\ WF_vars(\E S \in SUBSET JobIds : LeaseBatch(w, S))
                           /\ WF_vars(\E j \in JobIds, ok \in BOOLEAN : RunJob(w, j, ok))
                           /\ WF_vars(Report(w))
                           /\ WF_vars(Reclaim(w))

FairSpec == Spec /\ Fairness

-----------------------------------------------------------------------------
(* Properties *)

States == {"absent", "pending", "running", "done", "dead", "purged"}

Rows == [state : States, work : Works \cup {Null}, attempts : Nat, runAfter : Int,
         leasedUntil : Int \cup {Null}, leasedBy : WorkerIds \cup {Null}]

\* Every variable has its type; ids from next on have never been inserted.
TypeOK ==
    /\ job \in [JobIds -> Rows]
    /\ next \in 1 .. MaxJobs + 1
    /\ \A j \in JobIds : (j >= next) = (job[j].state = "absent")
    /\ \A j \in JobIds : job[j].work = Null <=> job[j].state \in {"absent", "purged"}
    /\ held \in [Workers -> [JobIds -> Nat]]
    /\ until \in [Workers -> Int]
    /\ ran \in [Workers -> [job : JobIds, ok : BOOLEAN] \cup {Null}]
    /\ enq \in [Clients -> [work : Works \cup {Null}, delay : Nat, seen : SUBSET JobIds,
                            answer : {"none", "job", "noRows"}]]
    /\ purging \in SUBSET JobIds
    /\ \A j \in purging : job[j].state # "absent"
    /\ operations \in 0 .. MaxOperations
    /\ runs \in [JobIds -> Nat]
    /\ revived \in [JobIds -> Nat]

\* No sequence of the queue's statements runs into the constraints of the
\* jobs table: a lease exists exactly while a job runs (jobs_lease_ok),
\* attempts stay within max_attempts (jobs_attempts_ok), and the same work is
\* outstanding at most once (jobs_inflight_key).
ConstraintsHold ==
    /\ \A j \in JobIds :
          /\ (job[j].state = "running") =
                (job[j].leasedUntil # Null /\ job[j].leasedBy # Null)
          /\ job[j].work # Null => job[j].attempts <= MaxAttempts[job[j].work]
    /\ \A i, j \in JobIds : Outstanding(i) /\ Outstanding(j) /\ job[i].work = job[j].work
                              => i = j

\* A pending row always has an attempt left, so Lease can claim it some day,
\* and a dead one has none: the CASE of Fail and Reclaim and the reset of
\* Retry never leave a row that is neither claimable nor visibly dead.
NoLimbo ==
    \A j \in JobIds : /\ job[j].state = "pending" => ~Spent(j)
                      /\ job[j].state = "dead" => Spent(j)

\* The batch w leased has not expired, whoever's clock is asked.
Live(w) == \A v \in Workers : until[w] >= Skew[v]

\* Until the lease it was given expires by somebody's clock, a worker owns
\* every job of its batch that it has not reported: nobody else can lease,
\* reclaim or finish it, however far the clocks disagree.  Needs workers with
\* ids of their own and no Retry under a running Purge.
LiveLeaseHolds ==
    \A w \in Workers, j \in JobIds :
        held[w][j] > 0 /\ Live(w) =>
            /\ job[j].state = "running"
            /\ job[j].leasedBy = IdOf[w]
            /\ job[j].attempts = held[w][j]

\* A worker that lost its lease cannot settle the attempt of the worker that
\* holds it now: Succeed and Fail change a row only for the attempt reported.
OnlyHolderReports ==
    [][\A w \in Workers, j \in JobIds :
          ran[w] # Null /\ ran[w].job = j /\ ran'[w] = Null /\ job'[j] # job[j]
             => job[j].attempts = held[w][j]]_vars

\* The body of a job runs at most MaxAttempts times, counted anew for every
\* time an operator revives it, expired leases and crashes included.
RunsBounded ==
    \A j \in JobIds : job[j].work # Null =>
        runs[j] <= MaxAttempts[job[j].work] * (1 + revived[j])

\* Enqueue hands back a job: the one it inserted or the one it collapsed onto.
EnqueueAnswered == \A c \in Clients : enq[c].answer # "noRows"

\* Purge never deletes work that is still owed.
PurgeSparesOwed ==
    [][\A j \in JobIds : job'[j].state = "purged" /\ job[j].state # "purged"
                            => ~Outstanding(j)]_vars

\* The queue implements the abstract work list.
Status(j) == IF Outstanding(j) THEN "owed" ELSE job[j].state

WL == INSTANCE WorkList WITH status <- [j \in JobIds |-> Status(j)],
                             work <- [j \in JobIds |-> job[j].work],
                             NoWork <- Null

ImplementsWorkList == WL!Spec

\* Every owed job is eventually done, dead or pruned, as long as one reliable
\* worker claims its kind: crashed and hung workers delay it, no more.
EverySettles == \A j \in JobIds : Outstanding(j) ~> ~Outstanding(j)
=============================================================================
