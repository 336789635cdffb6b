--------------------------- MODULE JobQueueProofs ---------------------------
(* Proofs about JobQueue, for every number of jobs, workers and clients.   *)
EXTENDS JobQueue, FiniteSetTheorems, TLAPS

-----------------------------------------------------------------------------
(* Type correctness *)

\* RetryBackoff is a positive delay of at most MaxBackoff, whatever the power.
LEMMA BackoffType ==
    ASSUME NEW a \in Nat
    PROVE  RetryBackoff(a) \in 1 .. MaxBackoff
<1> DEFINE b == BaseBackoff * 2^(a - 1)
<1>1. MaxBackoff \in 1 .. MaxBackoff
  BY ConstantsOK
<1>2. RetryBackoff(a) = IF b \in 1 .. MaxBackoff THEN b ELSE MaxBackoff
  BY Zenon DEF RetryBackoff
<1> HIDE DEF b
<1> QED
  BY <1>1, <1>2

\* A row that an attempt releases is a row again, for the same work.
LEMMA ReleasedType ==
    ASSUME TypeOK, NEW j \in JobIds, NEW t \in Int
    PROVE  /\ Released(j, t) \in Rows
           /\ Released(j, t).state = IF Spent(j) THEN "dead" ELSE "pending"
           /\ Released(j, t).work = job[j].work
           /\ Released(j, t).attempts = job[j].attempts
           /\ Released(j, t).leasedBy = Null
           /\ Released(j, t).leasedUntil = Null
  BY ConstantsOK DEF Released, Unleased, Row, TypeOK, Rows, States

\* The initial state and every step of the queue, the workers, the clients and
\* the operators keep every variable in its type.
LEMMA TypeStep == TypeOK /\ [Next]_vars => TypeOK'
<1> SUFFICES ASSUME TypeOK, [Next]_vars PROVE TypeOK'
  OBVIOUS
<1> USE ConstantsOK DEF TypeOK, Rows, States
<1>1. ASSUME NEW c \in Clients, NEW k \in Works, NEW delay \in Delays,
             EnqueueBegin(c, k, delay)
      PROVE  TypeOK'
  BY <1>1 DEF EnqueueBegin, queueVars, workerVars, ghostVars, Inflight, Statement
<1>2. ASSUME NEW c \in Clients, EnqueueInsert(c) PROVE TypeOK'
  <2> DEFINE row == NewRow(enq[c].work, enq[c].delay)
  <2>1. next \in JobIds /\ next' = next + 1 /\ job' = [job EXCEPT ![next] = row]
    BY <1>2 DEF EnqueueInsert, JobIds
  <2>2. row \in Rows /\ row.state = "pending" /\ row.work # Null
    BY <1>2 DEF EnqueueInsert, NewRow, Row
  <2> HIDE DEF row
  <2>3. job' \in [JobIds -> Rows] /\ next' \in 1 .. MaxJobs + 1
    BY <2>1, <2>2 DEF JobIds
  <2>4. \A j \in JobIds : (j >= next') = (job'[j].state = "absent")
    BY <2>1, <2>2 DEF JobIds
  <2>5. \A j \in JobIds : job'[j].work = Null <=> job'[j].state \in {"absent", "purged"}
    BY <2>1, <2>2
  <2>6. enq' \in [Clients -> [work : Works \cup {Null}, delay : Nat, seen : SUBSET JobIds,
                              answer : {"none", "job", "noRows"}]]
    BY <1>2 DEF EnqueueInsert, Answered, Statement
  <2> QED
    BY <1>2, <2>3, <2>4, <2>5, <2>6 DEF EnqueueInsert, workerVars, ghostVars
<1>3. ASSUME NEW c \in Clients, EnqueueCollapse(c) PROVE TypeOK'
  BY <1>3 DEF EnqueueCollapse, queueVars, workerVars, ghostVars, Answered, Statement
<1>4. ASSUME NEW w \in Workers, NEW S \in SUBSET JobIds, LeaseBatch(w, S) PROVE TypeOK'
  BY <1>4 DEF LeaseBatch, Leased, Row, FirstReady, Ready, clientVars, ghostVars
<1>5. ASSUME NEW w \in Workers, NEW j \in JobIds, NEW ok \in BOOLEAN, RunJob(w, j, ok)
      PROVE  TypeOK'
  BY <1>5 DEF RunJob, queueVars, clientVars
<1>6. ASSUME NEW w \in Workers, Succeed(w) PROVE TypeOK'
  BY <1>6 DEF Succeed, Reported, MayReport, Unleased, Row, clientVars, ghostVars
<1>7. ASSUME NEW w \in Workers, Fail(w) PROVE TypeOK'
  <2> DEFINE j == ran[w].job
             t == Skew[w] + RetryBackoff(held[w][j])
  <2>1. j \in JobIds /\ t \in Int
    BY <1>7, BackoffType DEF Fail
  <2>2. job' \in [JobIds -> Rows] /\ \A i \in JobIds :
            /\ (job'[i].state = "absent") = (job[i].state = "absent")
            /\ job'[i].work = Null <=> job'[i].state \in {"absent", "purged"}
    <3>1. CASE MayReport(w, j)
      <4>1. job' = [job EXCEPT ![j] = Released(j, t)]
        BY <1>7, <3>1 DEF Fail
      <4> HIDE DEF j, t
      <4>2. /\ Released(j, t) \in Rows
            /\ Released(j, t).state \in {"dead", "pending"}
            /\ Released(j, t).work = job[j].work
        BY <2>1, ReleasedType
      <4>3. job[j].state = "running"
        BY <3>1 DEF MayReport
      <4> HIDE DEF Rows
      <4>4. job' \in [JobIds -> Rows]
        BY <2>1, <4>1, <4>2
      <4> QED
        BY <2>1, <4>1, <4>2, <4>3, <4>4
    <3>2. CASE ~MayReport(w, j)
      BY <1>7, <3>2 DEF Fail
    <3> QED
      BY <3>1, <3>2
  <2> QED
    BY <1>7, <2>1, <2>2 DEF Fail, Reported, clientVars, ghostVars
<1>8. ASSUME NEW w \in Workers, LoseReport(w) PROVE TypeOK'
  BY <1>8 DEF LoseReport, Reported, clientVars, ghostVars
<1>9. ASSUME NEW w \in Workers, Stop(w) PROVE TypeOK'
  BY <1>9 DEF Stop, queueVars, clientVars, ghostVars
<1>10. ASSUME NEW w \in Workers, Reclaim(w) PROVE TypeOK'
  <2>1. ASSUME NEW j \in JobIds
        PROVE  /\ job'[j] \in Rows
               /\ (job'[j].state = "absent") = (job[j].state = "absent")
               /\ job'[j].work = Null <=> job'[j].state \in {"absent", "purged"}
    <3>1. CASE j \in Expired(w)
      <4> DEFINE t == job[j].runAfter
      <4>1. job'[j] = Released(j, t) /\ job[j].state = "running"
        BY <1>10, <3>1 DEF Reclaim, Expired
      <4>2. t \in Int
        OBVIOUS
      <4> HIDE DEF t
      <4>3. /\ Released(j, t) \in Rows
            /\ Released(j, t).state \in {"dead", "pending"}
            /\ Released(j, t).work = job[j].work
        BY <4>2, ReleasedType
      <4> HIDE DEF Rows
      <4> QED
        BY <4>1, <4>3
    <3>2. CASE j \notin Expired(w)
      BY <1>10, <3>2 DEF Reclaim
    <3> QED
      BY <3>1, <3>2
  <2>2. DOMAIN job' = JobIds /\ job' = [j \in JobIds |-> job'[j]]
    BY <1>10 DEF Reclaim
  <2>3. job' \in [JobIds -> Rows]
    <3> HIDE DEF Rows
    <3> QED BY <2>1, <2>2
  <2> QED
    BY <1>10, <2>1, <2>3 DEF Reclaim, workerVars, clientVars, ghostVars
<1>11. ASSUME NEW j \in JobIds, Retry(j) PROVE TypeOK'
  <2>1. operations' \in 0 .. MaxOperations
    BY <1>11 DEF Retry
  <2> QED
    BY <1>11, <2>1 DEF Retry, NewRow, Row, workerVars
<1>12. ASSUME NEW S \in SUBSET JobIds, PurgeBegin(S) PROVE TypeOK'
  <2>1. operations' \in 0 .. MaxOperations
    BY <1>12 DEF PurgeBegin
  <2>2. purging' \in SUBSET JobIds /\ \A j \in purging' : job'[j].state # "absent"
    BY <1>12 DEF PurgeBegin, queueVars
  <2> QED
    BY <1>12, <2>1, <2>2 DEF PurgeBegin, queueVars, workerVars, ghostVars
<1>13. CASE PurgeEnd
  <2>1. DeletedRow \in Rows /\ DeletedRow.state = "purged" /\ DeletedRow.work = Null
    BY DEF DeletedRow, Row
  <2>2. job' \in [JobIds -> Rows]
    BY <1>13, <2>1 DEF PurgeEnd
  <2>3. \A j \in JobIds : /\ (j >= next') = (job'[j].state = "absent")
                          /\ job'[j].work = Null <=> job'[j].state \in {"absent", "purged"}
    BY <1>13, <2>1 DEF PurgeEnd
  <2> QED
    BY <1>13, <2>2, <2>3 DEF PurgeEnd, workerVars, ghostVars
<1>14. CASE Tick
  BY <1>14 DEF Tick, Aged, Row, Earlier, Outstanding, clientVars, ghostVars
<1>15. CASE UNCHANGED vars
  BY <1>15 DEF vars
<1> QED
  BY <1>1, <1>2, <1>3, <1>4, <1>5, <1>6, <1>7, <1>8, <1>9, <1>10, <1>11, <1>12,
     <1>13, <1>14, <1>15 DEF Next

\* An empty table and idle workers are of their types.
LEMMA TypeInit == Init => TypeOK
  BY ConstantsOK DEF Init, TypeOK, Rows, States, NoRow, Row, JobIds, Answered, Statement

\* Type correctness of the queue and of everything that calls it.
THEOREM TypeCorrect == Spec => []TypeOK
  BY TypeInit, TypeStep, PTL DEF Spec

-----------------------------------------------------------------------------
(* The constraints of the jobs table, and no row in limbo *)

\* What the two invariants say of a single row: its lease, its attempts, and
\* that it is claimable while pending and out of attempts once dead.
RowOK(row) ==
    /\ (row.state = "running") = (row.leasedUntil # Null /\ row.leasedBy # Null)
    /\ row.work # Null => row.attempts <= MaxAttempts[row.work]
    /\ row.state = "pending" => row.attempts < MaxAttempts[row.work]
    /\ row.state = "dead" => row.attempts >= MaxAttempts[row.work]

\* What they say of pairs of rows: jobs_inflight_key.
OutstandingOnce ==
    \A i, j \in JobIds : Outstanding(i) /\ Outstanding(j) /\ job[i].work = job[j].work
                           => i = j

\* The two invariants are exactly these two parts.
LEMMA QueueInvParts ==
    ASSUME TypeOK
    PROVE  ConstraintsHold /\ NoLimbo <=> (\A j \in JobIds : RowOK(job[j])) /\ OutstandingOnce
<1> USE ConstantsOK
<1>1. ASSUME NEW j \in JobIds, job[j].work # Null
      PROVE  job[j].attempts \in Nat /\ MaxAttempts[job[j].work] \in Nat
  BY <1>1 DEF TypeOK, Rows
<1>2. \A j \in JobIds : job[j].state \in {"pending", "dead"} => job[j].work # Null
  BY DEF TypeOK
<1> QED
  BY <1>1, <1>2 DEF ConstraintsHold, NoLimbo, RowOK, OutstandingOnce, Spent

\* A released row is dead exactly when its attempts are spent, and its lease
\* is over.
LEMMA ReleasedOK ==
    ASSUME TypeOK, NEW j \in JobIds, NEW t \in Int, RowOK(job[j]), job[j].state = "running"
    PROVE  RowOK(Released(j, t))
<1>1. job[j].attempts \in Nat /\ MaxAttempts[job[j].work] \in Nat
  BY ConstantsOK DEF TypeOK, Rows
<1>2. CASE Spent(j)
  BY <1>1, <1>2 DEF Released, Unleased, Row, RowOK, Spent
<1>3. CASE ~Spent(j)
  BY <1>1, <1>3 DEF Released, Unleased, Row, RowOK, Spent
<1> QED
  BY <1>2, <1>3

\* A step that makes no row outstanding and moves no row to other work keeps
\* the key.
LEMMA OnceKept ==
    ASSUME OutstandingOnce,
           \A j \in JobIds : Outstanding(j)' => Outstanding(j) /\ job'[j].work = job[j].work
    PROVE  OutstandingOnce'
  BY DEF OutstandingOnce, Outstanding

\* A step that makes one row outstanding, for work no row was outstanding for,
\* keeps the key too.
LEMMA OnceExtended ==
    ASSUME OutstandingOnce, NEW n \in JobIds, Inflight(job'[n].work) = {},
           \A j \in JobIds \ {n} : job'[j] = job[j]
    PROVE  OutstandingOnce'
  BY DEF OutstandingOnce, Outstanding, Inflight

\* Every step keeps every row within the table's constraints and out of limbo.
LEMMA RowsStep ==
    ASSUME TypeOK, OutstandingOnce, \A j \in JobIds : RowOK(job[j]), [Next]_vars
    PROVE  OutstandingOnce' /\ \A j \in JobIds : RowOK(job'[j])
<1> USE ConstantsOK
<1> DEFINE Kept == OutstandingOnce' /\ \A j \in JobIds : RowOK(job'[j])
<1> SUFFICES Kept
  OBVIOUS
<1>0. job = [j \in JobIds |-> job[j]] /\ \A j \in JobIds : job[j] \in Rows
  BY DEF TypeOK
<1>1. ASSUME NEW c \in Clients, EnqueueInsert(c) PROVE Kept
  <2> DEFINE row == NewRow(enq[c].work, enq[c].delay)
  <2>1. next \in JobIds /\ job' = [job EXCEPT ![next] = row]
    BY <1>1 DEF EnqueueInsert, JobIds, TypeOK
  <2>2. row.work = enq[c].work /\ RowOK(row)
    BY <1>1 DEF EnqueueInsert, NewRow, Row, RowOK, TypeOK
  <2> HIDE DEF row
  <2>3. job'[next] = row /\ \A j \in JobIds \ {next} : job'[j] = job[j]
    BY <1>0, <2>1
  <2>4. Inflight(job'[next].work) = {}
    BY <1>1, <2>2, <2>3 DEF EnqueueInsert
  <2>5. OutstandingOnce'
    BY <2>1, <2>3, <2>4, OnceExtended
  <2> QED
    BY <2>2, <2>3, <2>5
<1>2. ASSUME NEW w \in Workers, NEW S \in SUBSET JobIds, LeaseBatch(w, S) PROVE Kept
  <2>1. \A j \in JobIds : job'[j] = IF j \in S THEN Leased(w, j) ELSE job[j]
    BY <1>2 DEF LeaseBatch
  <2>2. \A j \in S : Outstanding(j) /\ job[j].state = "pending" /\ ~Spent(j)
    BY <1>2 DEF LeaseBatch, FirstReady, Ready, Outstanding
  <2>3. ASSUME NEW j \in S
        PROVE  RowOK(Leased(w, j)) /\ Leased(w, j).work = job[j].work
    <3>1. /\ job[j].attempts \in Nat /\ MaxAttempts[job[j].work] \in Nat
          /\ job[j].work # Null
      BY <2>2 DEF TypeOK, Rows
    <3>2. Skew[w] + Lease # Null /\ IdOf[w] # Null
      OBVIOUS
    <3> QED
      BY <2>2, <3>1, <3>2 DEF Leased, Row, RowOK, Spent
  <2>4. OutstandingOnce'
    BY <2>1, <2>2, <2>3, OnceKept DEF Outstanding
  <2> QED
    BY <2>1, <2>3, <2>4
<1>3. ASSUME NEW w \in Workers, Succeed(w) PROVE Kept
  <2> DEFINE j == ran[w].job
             row == Unleased(j, "done", job[j].runAfter)
  <2>1. j \in JobIds
    BY <1>3 DEF Succeed, TypeOK
  <2>2. CASE MayReport(w, j)
    <3>1. job' = [job EXCEPT ![j] = row]
      BY <1>3, <2>2 DEF Succeed
    <3>2. RowOK(row) /\ row.state = "done"
      BY <2>1, <2>2 DEF MayReport, Unleased, Row, RowOK, TypeOK
    <3> HIDE DEF j, row
    <3>3. job'[j] = row /\ \A i \in JobIds \ {j} : job'[i] = job[i]
      BY <1>0, <2>1, <3>1
    <3>4. OutstandingOnce'
      BY <3>2, <3>3, OnceKept DEF Outstanding
    <3> QED
      BY <3>2, <3>3, <3>4
  <2>3. CASE ~MayReport(w, j)
    <3>1. job' = job
      BY <1>3, <2>3 DEF Succeed
    <3> QED
      BY <3>1 DEF OutstandingOnce, Outstanding
  <2> QED
    BY <2>2, <2>3
<1>4. ASSUME NEW w \in Workers, Fail(w) PROVE Kept
  <2> DEFINE j == ran[w].job
             t == Skew[w] + RetryBackoff(held[w][j])
  <2>1. j \in JobIds
    BY <1>4 DEF Fail, TypeOK
  <2>2. t \in Int
    BY <2>1, BackoffType DEF TypeOK
  <2>3. CASE MayReport(w, j)
    <3>1. job' = [job EXCEPT ![j] = Released(j, t)] /\ job[j].state = "running"
      BY <1>4, <2>3 DEF Fail, MayReport
    <3> HIDE DEF j, t
    <3>2. RowOK(Released(j, t)) /\ Released(j, t).work = job[j].work
      BY <2>1, <2>2, <3>1, ReleasedOK, ReleasedType
    <3>3. job'[j] = Released(j, t) /\ \A i \in JobIds \ {j} : job'[i] = job[i]
      BY <1>0, <2>1, <3>1
    <3>4. OutstandingOnce'
      BY <3>1, <3>2, <3>3, OnceKept DEF Outstanding
    <3> QED
      BY <3>2, <3>3, <3>4
  <2>4. CASE ~MayReport(w, j)
    <3>1. job' = job
      BY <1>4, <2>4 DEF Fail
    <3> QED
      BY <3>1 DEF OutstandingOnce, Outstanding
  <2> QED
    BY <2>3, <2>4
<1>5. ASSUME NEW w \in Workers, Reclaim(w) PROVE Kept
  <2>1. \A j \in JobIds : job'[j] = IF j \in Expired(w) THEN Released(j, job[j].runAfter)
                                                        ELSE job[j]
    BY <1>5 DEF Reclaim
  <2>2. ASSUME NEW j \in JobIds, j \in Expired(w)
        PROVE  /\ RowOK(Released(j, job[j].runAfter))
               /\ Released(j, job[j].runAfter).work = job[j].work
               /\ Outstanding(j)
    <3>1. job[j].state = "running" /\ job[j].runAfter \in Int
      BY <1>0, <2>2 DEF Expired, Rows
    <3> QED
      BY <3>1, ReleasedOK, ReleasedType DEF Outstanding
  <2>3. OutstandingOnce'
    BY <2>1, <2>2, OnceKept DEF Outstanding
  <2> QED
    BY <2>1, <2>2, <2>3
<1>6. ASSUME NEW n \in JobIds, Retry(n) PROVE Kept
  <2> DEFINE row == NewRow(job[n].work, 0)
  <2>1. job' = [job EXCEPT ![n] = row] /\ job[n].state = "dead"
    BY <1>6 DEF Retry
  <2>2. row.work = job[n].work /\ RowOK(row)
    BY <2>1 DEF NewRow, Row, RowOK, TypeOK, Rows
  <2> HIDE DEF row
  <2>3. job'[n] = row /\ \A j \in JobIds \ {n} : job'[j] = job[j]
    BY <1>0, <2>1
  <2>4. Inflight(job'[n].work) = {}
    BY <1>6, <2>2, <2>3 DEF Retry
  <2>5. OutstandingOnce'
    BY <2>3, <2>4, OnceExtended
  <2> QED
    BY <2>2, <2>3, <2>5
<1>7. CASE PurgeEnd
  <2>1. \A j \in JobIds : job'[j] = IF j \in purging THEN DeletedRow ELSE job[j]
    BY <1>7 DEF PurgeEnd
  <2>2. RowOK(DeletedRow) /\ DeletedRow.state = "purged"
    BY DEF DeletedRow, Row, RowOK
  <2>3. OutstandingOnce'
    BY <2>1, <2>2, OnceKept DEF Outstanding
  <2> QED
    BY <2>1, <2>2, <2>3
<1>8. CASE Tick
  <2>1. \A j \in JobIds : job'[j] = IF Outstanding(j) THEN Aged(job[j]) ELSE job[j]
    BY <1>8 DEF Tick
  <2>2. ASSUME NEW j \in JobIds
        PROVE  /\ RowOK(Aged(job[j]))
               /\ Aged(job[j]).work = job[j].work
               /\ Aged(job[j]).state = job[j].state
    <3>1. job[j].leasedUntil # Null => Earlier(job[j].leasedUntil) # Null
      BY <1>0 DEF Rows, Earlier
    <3> QED
      BY <3>1 DEF Aged, Row, RowOK
  <2>3. OutstandingOnce'
    BY <2>1, <2>2, OnceKept DEF Outstanding
  <2> QED
    BY <2>1, <2>2, <2>3
<1>9. CASE job' = job
  BY <1>9 DEF OutstandingOnce, Outstanding
<1> HIDE DEF Kept
<1>10. ASSUME NEW c \in Clients, NEW k \in Works, NEW delay \in Delays,
              EnqueueBegin(c, k, delay)
       PROVE  job' = job
  BY <1>10 DEF EnqueueBegin, queueVars
<1>11. ASSUME NEW c \in Clients, EnqueueCollapse(c) PROVE job' = job
  BY <1>11 DEF EnqueueCollapse, queueVars
<1>12. ASSUME NEW w \in Workers, NEW j \in JobIds, NEW ok \in BOOLEAN, RunJob(w, j, ok)
       PROVE  job' = job
  BY <1>12 DEF RunJob, queueVars
<1>13. ASSUME NEW w \in Workers, LoseReport(w) \/ Stop(w) PROVE job' = job
  BY <1>13 DEF LoseReport, Stop, queueVars
<1>14. ASSUME NEW S \in SUBSET JobIds, PurgeBegin(S) PROVE job' = job
  BY <1>14 DEF PurgeBegin, queueVars
<1>15. CASE UNCHANGED vars
  BY <1>9, <1>15 DEF vars, Kept
<1> QED
  BY <1>1, <1>2, <1>3, <1>4, <1>5, <1>6, <1>7, <1>8, <1>9, <1>10, <1>11, <1>12, <1>13,
     <1>14, <1>15 DEF Next

\* The empty table satisfies them.
LEMMA RowsInit == Init => OutstandingOnce /\ \A j \in JobIds : RowOK(job[j])
  BY DEF Init, NoRow, Row, RowOK, OutstandingOnce, Outstanding

\* No sequence of statements, crashes, expired leases, retries and purges runs
\* into a constraint of the jobs table: lease exactly while running, attempts
\* within max_attempts, the same work outstanding at most once.
THEOREM ConstraintsAlwaysHold == Spec => []ConstraintsHold
<1> DEFINE Inv == TypeOK /\ OutstandingOnce /\ \A j \in JobIds : RowOK(job[j])
<1>1. Init => Inv
  BY TypeInit, RowsInit
<1>2. Inv /\ [Next]_vars => Inv'
  BY TypeStep, RowsStep
<1>3. Inv => ConstraintsHold
  BY QueueInvParts
<1> QED
  BY <1>1, <1>2, <1>3, PTL DEF Spec

\* A pending row always has an attempt left and a dead one never has, so that
\* no failure, expiry or retry leaves a job that nothing will ever claim and
\* no operator sees.
THEOREM NeverInLimbo == Spec => []NoLimbo
<1> DEFINE Inv == TypeOK /\ OutstandingOnce /\ \A j \in JobIds : RowOK(job[j])
<1>1. Init => Inv
  BY TypeInit, RowsInit
<1>2. Inv /\ [Next]_vars => Inv'
  BY TypeStep, RowsStep
<1>3. Inv => NoLimbo
  BY QueueInvParts
<1> QED
  BY <1>1, <1>2, <1>3, PTL DEF Spec

-----------------------------------------------------------------------------
(* Leases: who may report what *)

\* No two workers lease under the same name.
DistinctIds == \A v, w \in Workers : IdOf[v] = IdOf[w] => v = w

\* A worker reports only what it holds, and where the queue would accept its
\* report the attempt on record is the one it holds.
HeldIsCurrent ==
    /\ \A w \in Workers : ran[w] # Null => held[w][ran[w].job] > 0
    /\ \A w \in Workers, j \in JobIds :
          held[w][j] > 0 /\ MayReport(w, j) => job[j].attempts = held[w][j]

\* Every step keeps a worker's copy of a job in agreement with the row.
LEMMA HeldStep ==
    ASSUME DistinctIds, TypeOK, HeldIsCurrent, [Next]_vars
    PROVE  HeldIsCurrent'
<1> USE ConstantsOK DEF HeldIsCurrent
<1>0. /\ job = [j \in JobIds |-> job[j]] /\ \A j \in JobIds : job[j] \in Rows
      /\ held \in [Workers -> [JobIds -> Nat]]
      /\ ran \in [Workers -> [job : JobIds, ok : BOOLEAN] \cup {Null}]
  BY DEF TypeOK
\* Rows that are not running, or run as before, put nothing at risk.
<1>1. ASSUME held' = held, ran' = ran,
             \A j \in JobIds : job'[j].state = "running" =>
                 job'[j].leasedBy = job[j].leasedBy /\ job'[j].attempts = job[j].attempts
                 /\ job[j].state = "running"
      PROVE  HeldIsCurrent'
  BY <1>1 DEF MayReport
<1>2. ASSUME NEW c \in Clients, EnqueueInsert(c) PROVE HeldIsCurrent'
  <2> DEFINE row == NewRow(enq[c].work, enq[c].delay)
  <2>1. /\ next \in JobIds /\ job' = [job EXCEPT ![next] = row]
        /\ held' = held /\ ran' = ran
    BY <1>2 DEF EnqueueInsert, JobIds, TypeOK, workerVars
  <2>2. row.state = "pending"
    BY DEF NewRow, Row
  <2> HIDE DEF row
  <2> QED
    BY <1>0, <1>1, <2>1, <2>2
<1>3. ASSUME NEW w \in Workers, NEW S \in SUBSET JobIds, LeaseBatch(w, S) PROVE HeldIsCurrent'
  <2>1. /\ \A j \in JobIds : job'[j] = IF j \in S THEN Leased(w, j) ELSE job[j]
        /\ held' = [held EXCEPT ![w] = [j \in JobIds |->
                        IF j \in S THEN job[j].attempts + 1 ELSE 0]]
        /\ ran' = ran /\ ran[w] = Null
    BY <1>3 DEF LeaseBatch, Idle
  <2>2. \A j \in S : /\ Leased(w, j).leasedBy = IdOf[w]
                     /\ Leased(w, j).attempts = job[j].attempts + 1
    BY DEF Leased, Row
  <2>3. ASSUME NEW j \in JobIds
        PROVE  held'[w][j] = IF j \in S THEN job[j].attempts + 1 ELSE 0
    BY <1>0, <2>1
  <2>4. \A v \in Workers \ {w} : held'[v] = held[v]
    BY <1>0, <2>1
  <2>5. \A v \in Workers : ran'[v] # Null => held'[v][ran'[v].job] > 0
    BY <2>1, <2>4
  <2>6. ASSUME NEW v \in Workers, NEW j \in JobIds, held'[v][j] > 0, MayReport(v, j)'
        PROVE  job'[j].attempts = held'[v][j]
    <3>1. CASE v = w
      BY <2>1, <2>2, <2>3, <2>6, <3>1
    <3>2. CASE v # w
      <4>1. j \notin S
        BY <2>1, <2>2, <2>6, <3>2 DEF MayReport, DistinctIds
      <4> QED
        BY <2>1, <2>4, <2>6, <3>2, <4>1 DEF MayReport
    <3> QED
      BY <3>1, <3>2
  <2> QED
    BY <2>5, <2>6
<1>4. ASSUME NEW w \in Workers, NEW j \in JobIds, NEW ok \in BOOLEAN, RunJob(w, j, ok)
      PROVE  HeldIsCurrent'
  <2>1. /\ job' = job /\ held' = held /\ held[w][j] > 0
        /\ ran' = [ran EXCEPT ![w] = [job |-> j, ok |-> ok]]
    BY <1>4 DEF RunJob, queueVars
  <2> QED
    BY <1>0, <2>1 DEF MayReport
\* A worker that reported, or stopped, holds less than before; a row it settled
\* is not running.
<1>5. ASSUME NEW w \in Workers, NEW j \in JobIds, ran' = [ran EXCEPT ![w] = Null],
             held' = [held EXCEPT ![w][j] = 0], ran[w] # Null,
             \A i \in JobIds : job'[i] = job[i] \/ job'[i].state # "running"
      PROVE  HeldIsCurrent'
  <2>1. \A v \in Workers, i \in JobIds : held'[v][i] > 0 => held'[v][i] = held[v][i]
    BY <1>0, <1>5
  <2>2. \A v \in Workers : ran'[v] # Null => v # w /\ ran'[v] = ran[v] /\ held'[v] = held[v]
    BY <1>0, <1>5
  <2> QED
    BY <1>5, <2>1, <2>2 DEF MayReport
<1>6. ASSUME NEW w \in Workers, Succeed(w) PROVE HeldIsCurrent'
  <2> DEFINE j == ran[w].job
             row == Unleased(j, "done", job[j].runAfter)
  <2>1. j \in JobIds /\ ran[w] # Null
    BY <1>0, <1>6 DEF Succeed
  <2>2. held' = [held EXCEPT ![w][j] = 0] /\ ran' = [ran EXCEPT ![w] = Null]
    BY <1>6 DEF Succeed, Reported
  <2>3. row.state = "done"
    BY DEF Unleased, Row
  <2>4. job' = job \/ job' = [job EXCEPT ![j] = row]
    BY <1>6 DEF Succeed
  <2> HIDE DEF j, row
  <2>5. \A i \in JobIds : job'[i] = job[i] \/ job'[i].state # "running"
    BY <1>0, <2>1, <2>3, <2>4
  <2> QED
    BY <1>5, <2>1, <2>2, <2>5
<1>7. ASSUME NEW w \in Workers, Fail(w) PROVE HeldIsCurrent'
  <2> DEFINE j == ran[w].job
             t == Skew[w] + RetryBackoff(held[w][j])
  <2>1. j \in JobIds /\ ran[w] # Null
    BY <1>0, <1>7 DEF Fail
  <2>2. held' = [held EXCEPT ![w][j] = 0] /\ ran' = [ran EXCEPT ![w] = Null]
    BY <1>7 DEF Fail, Reported
  <2>3. t \in Int
    BY <1>0, <2>1, BackoffType
  <2>4. job' = job \/ job' = [job EXCEPT ![j] = Released(j, t)]
    BY <1>7 DEF Fail
  <2> HIDE DEF j, t
  <2>5. Released(j, t).state # "running"
    BY <2>1, <2>3, ReleasedType
  <2>6. \A i \in JobIds : job'[i] = job[i] \/ job'[i].state # "running"
    BY <1>0, <2>1, <2>4, <2>5
  <2> QED
    BY <1>5, <2>1, <2>2, <2>6
<1>8. ASSUME NEW w \in Workers, LoseReport(w) PROVE HeldIsCurrent'
  BY <1>0, <1>5, <1>8 DEF LoseReport, Reported
<1>9. ASSUME NEW w \in Workers, Stop(w) PROVE HeldIsCurrent'
  <2>1. /\ job' = job /\ ran' = [ran EXCEPT ![w] = Null]
        /\ held' = [held EXCEPT ![w] = [j \in JobIds |-> 0]]
    BY <1>9 DEF Stop, queueVars
  <2>2. \A v \in Workers, i \in JobIds : held'[v][i] > 0 => held'[v][i] = held[v][i]
    BY <1>0, <2>1
  <2>3. \A v \in Workers : ran'[v] # Null => v # w /\ ran'[v] = ran[v] /\ held'[v] = held[v]
    BY <1>0, <2>1
  <2> QED
    BY <2>1, <2>2, <2>3 DEF MayReport
<1>10. ASSUME NEW w \in Workers, Reclaim(w) PROVE HeldIsCurrent'
  <2>1. /\ held' = held /\ ran' = ran
        /\ \A j \in JobIds : job'[j] = IF j \in Expired(w) THEN Released(j, job[j].runAfter)
                                                           ELSE job[j]
    BY <1>10 DEF Reclaim, workerVars
  <2>2. \A j \in JobIds : job[j].runAfter \in Int
    BY <1>0 DEF Rows
  <2>3. \A j \in JobIds : Released(j, job[j].runAfter).state # "running"
    BY <2>2, ReleasedType
  <2> QED
    BY <1>1, <2>1, <2>3
<1>11. ASSUME NEW n \in JobIds, Retry(n) PROVE HeldIsCurrent'
  <2> DEFINE row == NewRow(job[n].work, 0)
  <2>1. job' = [job EXCEPT ![n] = row] /\ held' = held /\ ran' = ran
    BY <1>11 DEF Retry, workerVars
  <2>2. row.state = "pending"
    BY DEF NewRow, Row
  <2> HIDE DEF row
  <2> QED
    BY <1>0, <1>1, <2>1, <2>2
<1>12. CASE PurgeEnd
  <2>1. DeletedRow.state = "purged"
    BY DEF DeletedRow, Row
  <2> QED
    BY <1>1, <1>12, <2>1 DEF PurgeEnd, workerVars
<1>13. CASE Tick
  <2>1. \A j \in JobIds : /\ Aged(job[j]).state = job[j].state
                          /\ Aged(job[j]).leasedBy = job[j].leasedBy
                          /\ Aged(job[j]).attempts = job[j].attempts
    BY DEF Aged, Row
  <2> QED
    BY <1>1, <1>13, <2>1 DEF Tick
<1>14. CASE UNCHANGED <<queueVars, workerVars>>
  BY <1>1, <1>14 DEF queueVars, workerVars
<1>15. ASSUME NEW c \in Clients, NEW k \in Works, NEW delay \in Delays,
              EnqueueBegin(c, k, delay)
       PROVE  HeldIsCurrent'
  BY <1>14, <1>15 DEF EnqueueBegin
<1>16. ASSUME NEW c \in Clients, EnqueueCollapse(c) PROVE HeldIsCurrent'
  BY <1>14, <1>16 DEF EnqueueCollapse
<1>17. ASSUME NEW S \in SUBSET JobIds, PurgeBegin(S) PROVE HeldIsCurrent'
  BY <1>14, <1>17 DEF PurgeBegin
<1>18. CASE UNCHANGED vars
  BY <1>14, <1>18 DEF vars, queueVars, workerVars
<1> HIDE DEF HeldIsCurrent
<1> QED
  BY <1>2, <1>3, <1>4, <1>6, <1>7, <1>8, <1>9, <1>10, <1>11, <1>12, <1>13, <1>15, <1>16,
     <1>17, <1>18 DEF Next

\* Only these steps end a run without starting another.
LEMMA WhoReports ==
    ASSUME TypeOK, [Next]_vars, NEW w \in Workers, ran[w] # Null, ran'[w] = Null
    PROVE  Succeed(w) \/ Fail(w) \/ job' = job
<1> USE ConstantsOK
<1>0. ran \in [Workers -> [job : JobIds, ok : BOOLEAN] \cup {Null}]
  BY DEF TypeOK
<1>1. ran' # ran
  OBVIOUS
<1>2. CASE \E v \in Workers : Succeed(v) \/ Fail(v)
  <2>1. PICK v \in Workers : Succeed(v) \/ Fail(v)
    BY <1>2
  <2>2. ran' = [ran EXCEPT ![v] = Null]
    BY <2>1 DEF Succeed, Fail, Reported
  <2>3. v = w
    BY <1>0, <2>2
  <2> QED
    BY <2>1, <2>3
<1>3. CASE \E v \in Workers : LoseReport(v) \/ Stop(v)
  BY <1>3 DEF LoseReport, Stop, queueVars
<1>4. CASE \E v \in Workers, j \in JobIds, ok \in BOOLEAN : RunJob(v, j, ok)
  BY <1>4 DEF RunJob, queueVars
<1>5. ASSUME NEW v \in Workers, NEW S \in SUBSET JobIds PROVE ~LeaseBatch(v, S)
  BY <1>1 DEF LeaseBatch
<1>6. ASSUME NEW v \in Workers PROVE ~Reclaim(v)
  BY <1>1 DEF Reclaim, workerVars
<1>7. ASSUME NEW c \in Clients, NEW k \in Works, NEW delay \in Delays
      PROVE  ~EnqueueBegin(c, k, delay)
  BY <1>1 DEF EnqueueBegin, workerVars
<1>8. ASSUME NEW c \in Clients PROVE ~EnqueueInsert(c) /\ ~EnqueueCollapse(c)
  BY <1>1 DEF EnqueueInsert, EnqueueCollapse, workerVars
<1>9. \A j \in JobIds : ~Retry(j)
  BY <1>1 DEF Retry, workerVars
<1>10. ASSUME NEW S \in SUBSET JobIds PROVE ~PurgeBegin(S)
  BY <1>1 DEF PurgeBegin, workerVars
<1>11. ~PurgeEnd /\ ~Tick /\ ~UNCHANGED vars
  BY <1>1 DEF PurgeEnd, Tick, vars, workerVars
<1> QED
  BY <1>2, <1>3, <1>4, <1>5, <1>6, <1>7, <1>8, <1>9, <1>10, <1>11 DEF Next

\* Where every worker has its own id, a worker that lost its lease cannot
\* settle the attempt of the worker that holds the job now: Succeed and Fail
\* change a row only for the attempt on record.
THEOREM HolderReports ==
    ASSUME DistinctIds
    PROVE  Spec => OnlyHolderReports
<1> DEFINE Inv == TypeOK /\ HeldIsCurrent
           Allowed == \A w \in Workers, j \in JobIds :
                        ran[w] # Null /\ ran[w].job = j /\ ran'[w] = Null /\ job'[j] # job[j]
                          => job[j].attempts = held[w][j]
<1>1. Init => Inv
  BY TypeInit DEF Init, HeldIsCurrent
<1>2. Inv /\ [Next]_vars => Inv'
  BY TypeStep, HeldStep
<1>3. Inv /\ [Next]_vars => [Allowed]_vars
  <2> SUFFICES ASSUME Inv, [Next]_vars, NEW w \in Workers, NEW j \in JobIds,
                      ran[w] # Null, ran[w].job = j, ran'[w] = Null, job'[j] # job[j]
               PROVE  job[j].attempts = held[w][j]
    OBVIOUS
  <2>1. Succeed(w) \/ Fail(w)
    BY WhoReports
  <2>2. MayReport(w, j)
    BY <2>1 DEF Succeed, Fail
  <2> QED
    BY <2>2 DEF HeldIsCurrent
<1> HIDE DEF Inv
<1>4. Spec => [][Allowed]_vars
  BY <1>1, <1>2, <1>3, PTL DEF Spec
<1> QED
  BY <1>4 DEF OnlyHolderReports

-----------------------------------------------------------------------------
(* What a purge selected, and live leases *)

\* What a purge selected is still finished when it deletes it.
PurgingFinished == \A j \in purging : ~Outstanding(j)

\* As long as operators act one at a time no step owes a selected row again.
LEMMA PurgingStep ==
    ASSUME OneOperator, TypeOK, PurgingFinished, [Next]_vars
    PROVE  PurgingFinished'
<1> USE ConstantsOK DEF PurgingFinished
<1>0. /\ job = [j \in JobIds |-> job[j]] /\ purging \subseteq JobIds
      /\ \A j \in purging : job[j].state \notin {"pending", "running", "absent"}
  BY DEF TypeOK, Outstanding
<1>1. ASSUME purging' = purging, \A j \in purging : job'[j] = job[j]
      PROVE  PurgingFinished'
  BY <1>1 DEF Outstanding
<1>2. ASSUME NEW c \in Clients, EnqueueInsert(c) PROVE PurgingFinished'
  <2>0. next \in JobIds
    BY <1>2 DEF EnqueueInsert, TypeOK, JobIds
  <2>1. next \notin purging
    <3>1. (next >= next) = (job[next].state = "absent") /\ next \in Int
      BY <2>0 DEF TypeOK, JobIds
    <3> QED
      BY <1>0, <3>1
  <2>2. \A j \in purging : job'[j] = job[j]
    BY <1>0, <1>2, <2>1 DEF EnqueueInsert
  <2> QED
    BY <1>1, <1>2, <2>2 DEF EnqueueInsert
<1>3. ASSUME NEW w \in Workers, NEW S \in SUBSET JobIds, LeaseBatch(w, S)
      PROVE  PurgingFinished'
  BY <1>0, <1>1, <1>3 DEF LeaseBatch, FirstReady, Ready, clientVars
<1>4. ASSUME NEW w \in Workers, Succeed(w) \/ Fail(w) PROVE PurgingFinished'
  <2> DEFINE i == ran[w].job
  <2>1. \/ job' = job
        \/ job[i].state = "running" /\ \A j \in JobIds \ {i} : job'[j] = job[j]
    BY <1>0, <1>4 DEF Succeed, Fail, MayReport
  <2>2. \A j \in purging : job'[j] = job[j]
    BY <1>0, <2>1
  <2> QED
    BY <1>1, <1>4, <2>2 DEF Succeed, Fail, Reported, clientVars
<1>5. ASSUME NEW w \in Workers, Reclaim(w) PROVE PurgingFinished'
  BY <1>0, <1>1, <1>5 DEF Reclaim, Expired, clientVars
<1>6. ASSUME NEW n \in JobIds, Retry(n) PROVE PurgingFinished'
  <2>1. purging = {} /\ purging' = purging
    BY <1>6 DEF Retry
  <2> QED
    BY <2>1
<1>7. ASSUME NEW S \in SUBSET JobIds, PurgeBegin(S) PROVE PurgingFinished'
  <2>1. purging' = S /\ job' = job /\ \A j \in S : job[j].state \in {"done", "dead"}
    BY <1>7 DEF PurgeBegin, queueVars
  <2> QED
    BY <2>1 DEF Outstanding
<1>8. CASE PurgeEnd
  BY <1>8 DEF PurgeEnd
<1>9. CASE Tick
  BY <1>0, <1>1, <1>9 DEF Tick, Outstanding, clientVars
<1>10. ASSUME NEW c \in Clients, NEW k \in Works, NEW delay \in Delays,
              EnqueueBegin(c, k, delay)
       PROVE  PurgingFinished'
  BY <1>1, <1>10 DEF EnqueueBegin, queueVars
<1>11. ASSUME NEW c \in Clients, EnqueueCollapse(c) PROVE PurgingFinished'
  BY <1>1, <1>11 DEF EnqueueCollapse, queueVars
<1>12. ASSUME NEW w \in Workers, NEW j \in JobIds, NEW ok \in BOOLEAN, RunJob(w, j, ok)
       PROVE  PurgingFinished'
  BY <1>1, <1>12 DEF RunJob, queueVars, clientVars
<1>13. ASSUME NEW w \in Workers, LoseReport(w) \/ Stop(w) PROVE PurgingFinished'
  BY <1>1, <1>13 DEF LoseReport, Reported, Stop, queueVars, clientVars
<1>14. CASE UNCHANGED vars
  BY <1>1, <1>14 DEF vars
<1> HIDE DEF PurgingFinished
<1> QED
  BY <1>2, <1>3, <1>4, <1>5, <1>6, <1>7, <1>8, <1>9, <1>10, <1>11, <1>12, <1>13, <1>14
  DEF Next

\* The lease a worker believes it has on job j is the one the row records.
OwnsLease(w, j) ==
    /\ job[j].state = "running" /\ job[j].leasedBy = IdOf[w]
    /\ job[j].attempts = held[w][j] /\ job[j].leasedUntil = until[w]

\* Every lease a worker still counts on is the one its row records.
LeasesAgree ==
    \A w \in Workers, j \in JobIds : held[w][j] > 0 /\ Live(w) => OwnsLease(w, j)

\* While it has not expired, every step but its holder's own leaves a lease
\* alone.
LEMMA LeaseStep ==
    ASSUME DistinctIds, TypeOK, PurgingFinished, LeasesAgree, [Next]_vars
    PROVE  LeasesAgree'
<1> USE ConstantsOK
<1>0. /\ job = [j \in JobIds |-> job[j]] /\ \A j \in JobIds : job[j] \in Rows
      /\ held \in [Workers -> [JobIds -> Nat]] /\ until \in [Workers -> Int]
  BY DEF TypeOK
\* It is enough that held leases shrink and their rows stay as they are.
<1>1. ASSUME until' = until,
             \A v \in Workers, i \in JobIds : held'[v][i] > 0 => held'[v][i] = held[v][i],
             \A v \in Workers, i \in JobIds :
                 held'[v][i] > 0 /\ OwnsLease(v, i) /\ Live(v) => job'[i] = job[i]
      PROVE  LeasesAgree'
  BY <1>1 DEF LeasesAgree, OwnsLease, Live
<1>2. ASSUME NEW c \in Clients, EnqueueInsert(c) PROVE LeasesAgree'
  <2>1. next \in JobIds /\ next \in Int
    BY <1>2 DEF EnqueueInsert, TypeOK, JobIds
  <2>2. job[next].state = "absent"
    <3>1. (next >= next) = (job[next].state = "absent")
      BY <2>1 DEF TypeOK
    <3> QED
      BY <2>1, <3>1
  <2>3. held' = held /\ until' = until /\ \A i \in JobIds \ {next} : job'[i] = job[i]
    BY <1>0, <1>2 DEF EnqueueInsert, workerVars
  <2> QED
    BY <1>1, <2>2, <2>3 DEF OwnsLease
<1>3. ASSUME NEW w \in Workers, NEW S \in SUBSET JobIds, LeaseBatch(w, S) PROVE LeasesAgree'
  <2>1. /\ \A j \in JobIds : job'[j] = IF j \in S THEN Leased(w, j) ELSE job[j]
        /\ \A j \in S : job[j].state = "pending"
    BY <1>3 DEF LeaseBatch, FirstReady, Ready
  <2>2. /\ \A j \in JobIds : held'[w][j] = IF j \in S THEN job[j].attempts + 1 ELSE 0
        /\ until'[w] = Skew[w] + Lease
    BY <1>0, <1>3 DEF LeaseBatch
  <2>3. \A v \in Workers \ {w} : held'[v] = held[v] /\ until'[v] = until[v]
    BY <1>0, <1>3 DEF LeaseBatch
  <2>4. \A j \in S : /\ Leased(w, j).state = "running"
                     /\ Leased(w, j).leasedBy = IdOf[w]
                     /\ Leased(w, j).attempts = job[j].attempts + 1
                     /\ Leased(w, j).leasedUntil = Skew[w] + Lease
    BY DEF Leased, Row
  <2>5. ASSUME NEW v \in Workers, NEW j \in JobIds, held'[v][j] > 0, Live(v)'
        PROVE  OwnsLease(v, j)'
    <3>1. CASE v = w
      BY <2>1, <2>2, <2>4, <2>5, <3>1 DEF OwnsLease
    <3>2. CASE v # w
      BY <2>1, <2>3, <2>5, <3>2 DEF OwnsLease, LeasesAgree, Live
    <3> QED
      BY <3>1, <3>2
  <2> QED
    BY <2>5 DEF LeasesAgree
\* A report touches a row the reporter owns, and its copy is gone after.
<1>4. ASSUME NEW w \in Workers, NEW j \in JobIds, until' = until,
             held' = [held EXCEPT ![w][j] = 0],
             \/ job' = job
             \/ MayReport(w, j) /\ \A i \in JobIds \ {j} : job'[i] = job[i]
      PROVE  LeasesAgree'
  <2>1. \A v \in Workers, i \in JobIds : held'[v][i] > 0 => held'[v][i] = held[v][i]
    BY <1>0, <1>4
  <2>2. held'[w][j] = 0
    BY <1>0, <1>4
  <2>3. ASSUME NEW v \in Workers, NEW i \in JobIds, held'[v][i] > 0, OwnsLease(v, i)
        PROVE  job'[i] = job[i]
    BY <1>4, <2>2, <2>3 DEF OwnsLease, MayReport, DistinctIds
  <2> QED
    BY <1>1, <1>4, <2>1, <2>3
<1>5. ASSUME NEW w \in Workers, Succeed(w) \/ Fail(w) \/ LoseReport(w) PROVE LeasesAgree'
  <2> DEFINE j == ran[w].job
  <2>1. j \in JobIds
    BY <1>5 DEF Succeed, Fail, LoseReport, TypeOK
  <2>2. held' = [held EXCEPT ![w][j] = 0] /\ until' = until
    BY <1>5 DEF Succeed, Fail, LoseReport, Reported
  <2>3. \/ job' = job
        \/ MayReport(w, j) /\ \A i \in JobIds \ {j} : job'[i] = job[i]
    BY <1>0, <1>5 DEF Succeed, Fail, LoseReport
  <2> HIDE DEF j
  <2> QED
    BY <1>4, <2>1, <2>2, <2>3
<1>6. ASSUME NEW w \in Workers, Stop(w) PROVE LeasesAgree'
  <2>1. /\ job' = job /\ until' = until
        /\ held' = [held EXCEPT ![w] = [i \in JobIds |-> 0]]
    BY <1>6 DEF Stop, queueVars
  <2>2. \A v \in Workers, i \in JobIds : held'[v][i] > 0 => held'[v][i] = held[v][i]
    BY <1>0, <2>1
  <2> QED
    BY <1>1, <2>1, <2>2
<1>7. ASSUME NEW w \in Workers, Reclaim(w) PROVE LeasesAgree'
  <2>1. /\ held' = held /\ until' = until
        /\ \A i \in JobIds \ Expired(w) : job'[i] = job[i]
    BY <1>7 DEF Reclaim, workerVars
  <2>2. ASSUME NEW v \in Workers, NEW i \in JobIds, OwnsLease(v, i), Live(v)
        PROVE  i \notin Expired(w)
    BY <1>0, <2>2 DEF OwnsLease, Expired, Live
  <2> QED
    BY <1>1, <2>1, <2>2
<1>8. ASSUME NEW n \in JobIds, Retry(n) PROVE LeasesAgree'
  <2>1. /\ held' = held /\ until' = until /\ job[n].state = "dead"
        /\ \A i \in JobIds \ {n} : job'[i] = job[i]
    BY <1>0, <1>8 DEF Retry, workerVars
  <2> QED
    BY <1>1, <2>1 DEF OwnsLease
<1>9. CASE PurgeEnd
  <2>1. /\ held' = held /\ until' = until
        /\ \A i \in JobIds \ purging : job'[i] = job[i]
    BY <1>9 DEF PurgeEnd, workerVars
  <2> QED
    BY <1>1, <2>1 DEF OwnsLease, PurgingFinished, Outstanding
<1>10. CASE Tick
  <2>1. /\ held' = held
        /\ \A j \in JobIds : job'[j] = IF Outstanding(j) THEN Aged(job[j]) ELSE job[j]
        /\ \A v \in Workers : until'[v] = Earlier(until[v])
    BY <1>10 DEF Tick
  <2>2. ASSUME NEW v \in Workers, NEW j \in JobIds, held'[v][j] > 0, Live(v)'
        PROVE  OwnsLease(v, j)'
    <3>1. Live(v) /\ until[v] \in Int
      BY <1>0, <2>1, <2>2 DEF Earlier, Live
    <3>2. OwnsLease(v, j) /\ Outstanding(j)
      BY <2>1, <2>2, <3>1 DEF LeasesAgree, OwnsLease, Outstanding
    <3>3. job'[j] = Aged(job[j]) /\ job[j].leasedUntil # Null
      BY <2>1, <3>1, <3>2 DEF OwnsLease
    <3>4. /\ job'[j].state = job[j].state /\ job'[j].leasedBy = job[j].leasedBy
          /\ job'[j].attempts = job[j].attempts
          /\ job'[j].leasedUntil = Earlier(job[j].leasedUntil)
      BY <3>3 DEF Aged, Row
    <3> QED
      BY <2>1, <3>2, <3>4 DEF OwnsLease
  <2> QED
    BY <2>2 DEF LeasesAgree
<1>11. CASE UNCHANGED <<job, held, until>>
  BY <1>1, <1>11
<1>12. ASSUME NEW c \in Clients, NEW k \in Works, NEW delay \in Delays,
              EnqueueBegin(c, k, delay)
       PROVE  LeasesAgree'
  BY <1>11, <1>12 DEF EnqueueBegin, queueVars, workerVars
<1>13. ASSUME NEW c \in Clients, EnqueueCollapse(c) PROVE LeasesAgree'
  BY <1>11, <1>13 DEF EnqueueCollapse, queueVars, workerVars
<1>14. ASSUME NEW w \in Workers, NEW j \in JobIds, NEW ok \in BOOLEAN, RunJob(w, j, ok)
       PROVE  LeasesAgree'
  BY <1>11, <1>14 DEF RunJob, queueVars
<1>15. ASSUME NEW S \in SUBSET JobIds, PurgeBegin(S) PROVE LeasesAgree'
  BY <1>11, <1>15 DEF PurgeBegin, queueVars, workerVars
<1>16. CASE UNCHANGED vars
  BY <1>11, <1>16 DEF vars
<1> QED
  BY <1>2, <1>3, <1>5, <1>6, <1>7, <1>8, <1>9, <1>10, <1>12, <1>13, <1>14, <1>15, <1>16
  DEF Next

\* Until its lease expires by somebody's clock a worker owns every unreported
\* job of its batch: nobody else can lease, reclaim, finish or purge it.
\* Workers have ids of their own and operators act one at a time; the clocks
\* may disagree by any amount.
THEOREM LeaseOwns ==
    ASSUME DistinctIds, OneOperator
    PROVE  Spec => []LiveLeaseHolds
<1> DEFINE Inv == TypeOK /\ PurgingFinished /\ LeasesAgree
<1>1. Init => Inv
  BY TypeInit DEF Init, PurgingFinished, LeasesAgree
<1>2. Inv /\ [Next]_vars => Inv'
  BY TypeStep, PurgingStep, LeaseStep
<1>3. Inv => LiveLeaseHolds
  BY DEF LeasesAgree, OwnsLease, LiveLeaseHolds
<1> HIDE DEF Inv
<1> QED
  BY <1>1, <1>2, <1>3, PTL DEF Spec

-----------------------------------------------------------------------------
(* How often a job's body runs *)

\* The workers holding a lease of j that they have not spent on a run.
Waiting(j) == {w \in Workers : held[w][j] > 0 /\ (ran[w] = Null \/ ran[w].job # j)}

\* Each lease of j, in this life of the job or an earlier one, is an attempt on
\* record, and what has not been run of them is at most waiting.
RunsCovered(j) ==
    job[j].work # Null =>
        /\ IsFiniteSet(Waiting(j))
        /\ runs[j] + Cardinality(Waiting(j)) <= MaxAttempts[job[j].work] * revived[j] + job[j].attempts

\* Nobody knows an id that was never inserted.
Untouched(j) ==
    job[j].state = "absent" => /\ runs[j] = 0 /\ revived[j] = 0
                               /\ \A w \in Workers : held[w][j] = 0

\* Every row's runs are covered by its attempts, and rows not inserted yet
\* have none.
RunsCounted == \A j \in JobIds : RunsCovered(j) /\ Untouched(j)

\* A row's counters are numbers.
LEMMA CountersAreNat ==
    ASSUME TypeOK, NEW j \in JobIds
    PROVE  /\ runs[j] \in Nat /\ revived[j] \in Nat /\ job[j].attempts \in Nat
           /\ job[j].work # Null => /\ MaxAttempts[job[j].work] \in Nat \ {0}
                                    /\ MaxAttempts[job[j].work] * revived[j] \in Nat
<1>1. runs[j] \in Nat /\ revived[j] \in Nat /\ job[j].attempts \in Nat
  BY ConstantsOK DEF TypeOK, Rows
<1>2. job[j].work # Null => MaxAttempts[job[j].work] \in Nat \ {0}
  BY ConstantsOK DEF TypeOK, Rows
<1>3. \A m, n \in Nat : m * n \in Nat
  OBVIOUS
<1> QED
  BY <1>1, <1>2, <1>3

\* What the sum says of a job stays true when fewer workers wait.
LEMMA FewerWaiting ==
    ASSUME TypeOK, NEW j \in JobIds, RunsCovered(j), runs'[j] = runs[j], revived'[j] = revived[j],
           job'[j].work # Null => job'[j].work = job[j].work /\ job'[j].attempts = job[j].attempts,
           Waiting(j)' \subseteq Waiting(j)
    PROVE  RunsCovered(j)'
<1> SUFFICES ASSUME job'[j].work # Null
             PROVE  /\ IsFiniteSet(Waiting(j)')
                    /\ runs'[j] + Cardinality(Waiting(j)') <=
                          MaxAttempts[job'[j].work] * revived'[j] + job'[j].attempts
  BY DEF RunsCovered
<1>1. job'[j].work = job[j].work /\ job'[j].attempts = job[j].attempts /\ job[j].work # Null
  OBVIOUS
<1>2. /\ IsFiniteSet(Waiting(j))
      /\ runs[j] + Cardinality(Waiting(j)) <= MaxAttempts[job[j].work] * revived[j] + job[j].attempts
  BY <1>1 DEF RunsCovered
<1>3. IsFiniteSet(Waiting(j)') /\ Cardinality(Waiting(j)') <= Cardinality(Waiting(j))
  BY <1>2, FS_Subset
<1>4. Cardinality(Waiting(j)') \in Nat /\ Cardinality(Waiting(j)) \in Nat
  BY <1>2, <1>3, FS_CardinalityType
<1> QED
  BY <1>1, <1>2, <1>3, <1>4, CountersAreNat

\* A step that leases nothing, runs nothing and revives nothing keeps the sum.
LEMMA NothingStarted ==
    ASSUME TypeOK, RunsCounted, runs' = runs, revived' = revived,
           \A j \in JobIds :
              /\ job'[j].work # Null => job'[j].work = job[j].work /\ job'[j].attempts = job[j].attempts
              /\ job'[j].state = "absent" => job[j].state = "absent",
           \A w \in Workers, j \in JobIds :
              held'[w][j] = 0 \/ (held'[w][j] = held[w][j] /\ (ran'[w] = ran[w] \/ ran[w] = Null \/ ran[w].job # j))
    PROVE  RunsCounted'
<1> SUFFICES ASSUME NEW j \in JobIds
             PROVE  RunsCovered(j)' /\ Untouched(j)'
  BY DEF RunsCounted
<1>1. RunsCovered(j) /\ Untouched(j)
  BY DEF RunsCounted
<1>2. Waiting(j)' \subseteq Waiting(j)
  <2> SUFFICES ASSUME NEW w \in Workers, held'[w][j] > 0, ran'[w] = Null \/ ran'[w].job # j
               PROVE  held[w][j] > 0 /\ (ran[w] = Null \/ ran[w].job # j)
    BY DEF Waiting
  <2>1. /\ held'[w][j] = 0 \/ (held'[w][j] = held[w][j] /\ (ran'[w] = ran[w] \/ ran[w] = Null \/ ran[w].job # j))
    OBVIOUS
  <2>2. held'[w][j] # 0
    OBVIOUS
  <2> QED
    BY <2>1, <2>2
<1>3. RunsCovered(j)'
  BY <1>1, <1>2, FewerWaiting
<1>4. Untouched(j)'
  BY <1>1 DEF Untouched
<1> QED
  BY <1>3, <1>4

\* A new lease adds a worker that waits, and the attempt that covers it.
LEMMA LeaseKeepsCount ==
    ASSUME TypeOK, RunsCounted, NEW w \in Workers, NEW S \in SUBSET JobIds, LeaseBatch(w, S)
    PROVE  RunsCounted'
<1> USE ConstantsOK
<1>1. /\ \A j \in JobIds : job'[j] = IF j \in S THEN Leased(w, j) ELSE job[j]
      /\ ran' = ran /\ ran[w] = Null /\ runs' = runs /\ revived' = revived
      /\ \A j \in JobIds : held[w][j] = 0
      /\ \A j \in S : job[j].state = "pending"
  BY DEF LeaseBatch, Idle, FirstReady, Ready, ghostVars
<1>2. /\ held \in [Workers -> [JobIds -> Nat]]
      /\ held' = [held EXCEPT ![w] = [j \in JobIds |-> IF j \in S THEN job[j].attempts + 1 ELSE 0]]
  BY DEF LeaseBatch, TypeOK
<1>3. /\ \A j \in JobIds : held'[w][j] = IF j \in S THEN job[j].attempts + 1 ELSE 0
      /\ \A v \in Workers \ {w} : held'[v] = held[v]
  BY <1>2
<1> SUFFICES ASSUME NEW j \in JobIds
             PROVE  RunsCovered(j)' /\ Untouched(j)'
  BY DEF RunsCounted
<1>4. RunsCovered(j) /\ Untouched(j)
  BY DEF RunsCounted
<1>5. CASE j \notin S
  <2>1. job'[j] = job[j] /\ \A v \in Workers : held'[v][j] = held[v][j]
    BY <1>1, <1>3, <1>5
  <2>2. Waiting(j)' \subseteq Waiting(j)
    BY <1>1, <2>1 DEF Waiting
  <2>3. RunsCovered(j)'
    BY <1>1, <1>4, <2>1, <2>2, FewerWaiting
  <2> QED
    BY <1>1, <1>4, <2>1, <2>3 DEF Untouched
<1>6. CASE j \in S
  <2>1. /\ job'[j].state = "running" /\ job'[j].work = job[j].work
        /\ job'[j].attempts = job[j].attempts + 1 /\ job[j].work # Null
    <3>1. job[j].work # Null
      BY <1>1, <1>6 DEF TypeOK
    <3>2. job'[j] = Leased(w, j)
      BY <1>1, <1>6
    <3> QED
      BY <3>1, <3>2 DEF Leased, Row
  <2>2. /\ IsFiniteSet(Waiting(j))
        /\ runs[j] + Cardinality(Waiting(j)) <= MaxAttempts[job[j].work] * revived[j] + job[j].attempts
    BY <1>4, <2>1 DEF RunsCovered
  <2>3. job[j].attempts + 1 > 0
    BY CountersAreNat
  <2>4. Waiting(j)' = Waiting(j) \cup {w} /\ w \notin Waiting(j)
    BY <1>1, <1>3, <1>6, <2>3 DEF Waiting
  <2>5. IsFiniteSet(Waiting(j)') /\ Cardinality(Waiting(j)') = Cardinality(Waiting(j)) + 1
    BY <2>2, <2>4, FS_AddElement
  <2>6. Cardinality(Waiting(j)) \in Nat
    BY <2>2, FS_CardinalityType
  <2>7. runs'[j] + Cardinality(Waiting(j)') <= MaxAttempts[job'[j].work] * revived'[j] + job'[j].attempts
    BY <1>1, <2>1, <2>2, <2>5, <2>6, CountersAreNat
  <2> QED
    BY <2>1, <2>5, <2>7 DEF RunsCovered, Untouched
<1> QED
  BY <1>5, <1>6

\* A run is taken from what was waiting.
LEMMA RunKeepsCount ==
    ASSUME TypeOK, RunsCounted, NEW w \in Workers, NEW n \in JobIds, NEW ok \in BOOLEAN,
           RunJob(w, n, ok)
    PROVE  RunsCounted'
<1> USE ConstantsOK
<1>1. /\ job' = job /\ held' = held /\ revived' = revived /\ ran[w] = Null /\ held[w][n] > 0
      /\ ran' = [ran EXCEPT ![w] = [job |-> n, ok |-> ok]] /\ runs' = [runs EXCEPT ![n] = @ + 1]
  BY DEF RunJob, queueVars
<1>2. /\ ran'[w] # Null /\ ran'[w].job = n /\ \A v \in Workers \ {w} : ran'[v] = ran[v]
      /\ runs'[n] = runs[n] + 1 /\ \A j \in JobIds \ {n} : runs'[j] = runs[j]
  BY <1>1 DEF TypeOK
<1> SUFFICES ASSUME NEW j \in JobIds
             PROVE  RunsCovered(j)' /\ Untouched(j)'
  BY DEF RunsCounted
<1>3. RunsCovered(j) /\ Untouched(j)
  BY DEF RunsCounted
<1>4. CASE j # n
  <2>1. Waiting(j)' \subseteq Waiting(j)
    BY <1>1, <1>2 DEF Waiting
  <2>2. RunsCovered(j)'
    BY <1>1, <1>2, <1>3, <1>4, <2>1, FewerWaiting
  <2> QED
    BY <1>1, <1>2, <1>3, <1>4, <2>2 DEF Untouched
<1>5. CASE j = n
  <2>1. Untouched(j)'
    BY <1>1, <1>3, <1>5 DEF Untouched
  <2>2. ASSUME job[j].work # Null
        PROVE  /\ IsFiniteSet(Waiting(j)')
               /\ runs'[j] + Cardinality(Waiting(j)') <= MaxAttempts[job[j].work] * revived[j] + job[j].attempts
    <3>1. /\ IsFiniteSet(Waiting(j))
          /\ runs[j] + Cardinality(Waiting(j)) <= MaxAttempts[job[j].work] * revived[j] + job[j].attempts
      BY <1>3, <2>2 DEF RunsCovered
    <3>2. w \in Waiting(j) /\ Waiting(j)' = Waiting(j) \ {w}
      BY <1>1, <1>2, <1>5 DEF Waiting
    <3>3. IsFiniteSet(Waiting(j)') /\ Cardinality(Waiting(j)') = Cardinality(Waiting(j)) - 1
      BY <3>1, <3>2, FS_RemoveElement
    <3>4. Cardinality(Waiting(j)) \in Nat
      BY <3>1, FS_CardinalityType
    <3> QED
      BY <1>2, <1>5, <2>2, <3>1, <3>3, <3>4, CountersAreNat
  <2>3. RunsCovered(j)'
    BY <1>1, <2>2 DEF RunsCovered
  <2> QED
    BY <2>1, <2>3
<1> QED
  BY <1>4, <1>5

\* A retry starts a new life of a job whose attempts are all on record, and an
\* insert the first.
LEMMA NewRowKeepsCount ==
    ASSUME TypeOK, RunsCounted, \A j \in JobIds : RowOK(job[j]), NEW n \in JobIds,
           Retry(n) \/ (n = next /\ \E c \in Clients : EnqueueInsert(c))
    PROVE  RunsCounted'
<1> USE ConstantsOK
<1>1. held' = held /\ ran' = ran /\ runs' = runs
  BY DEF Retry, EnqueueInsert, workerVars, ghostVars
<1>2. job'[n].state = "pending" /\ job'[n].attempts = 0 /\ \A j \in JobIds \ {n} : job'[j] = job[j]
  BY DEF Retry, EnqueueInsert, NewRow, Row, TypeOK
<1>3. revived' \in [JobIds -> Nat] /\ \A j \in JobIds \ {n} : revived'[j] = revived[j]
  <2>1. revived \in [JobIds -> Nat] /\ (revived' = revived \/ revived' = [revived EXCEPT ![n] = @ + 1])
    BY DEF Retry, EnqueueInsert, ghostVars, TypeOK
  <2> QED
    BY <2>1
<1> SUFFICES ASSUME NEW j \in JobIds
             PROVE  RunsCovered(j)' /\ Untouched(j)'
  BY DEF RunsCounted
<1>4. RunsCovered(j) /\ Untouched(j)
  BY DEF RunsCounted
<1>5. Waiting(j)' = Waiting(j)
  BY <1>1 DEF Waiting
<1>6. CASE j # n
  <2>1. RunsCovered(j)'
    BY <1>1, <1>2, <1>3, <1>4, <1>5, <1>6, FewerWaiting
  <2> QED
    BY <1>1, <1>2, <1>3, <1>4, <1>6, <2>1 DEF Untouched
<1>7. CASE j = n /\ Retry(n)
  <2>1. /\ job[n].state = "dead" /\ job'[n].work = job[n].work /\ revived'[n] = revived[n] + 1
    BY <1>7 DEF Retry, NewRow, Row, TypeOK
  <2> DEFINE m == MaxAttempts[job[n].work]
  <2>2. job[n].work # Null /\ job[n].attempts = m
    <3>1. job[n].work # Null
      BY <2>1 DEF TypeOK
    <3>2. job[n].attempts <= m /\ job[n].attempts >= m
      BY <2>1, <3>1 DEF RowOK
    <3>3. m \in Nat /\ job[n].attempts \in Nat
      BY <3>1, CountersAreNat
    <3> HIDE DEF m
    <3> QED
      BY <3>1, <3>2, <3>3
  <2>3. /\ IsFiniteSet(Waiting(n))
        /\ runs[n] + Cardinality(Waiting(n)) <= m * revived[n] + m
    BY <1>4, <1>7, <2>2 DEF RunsCovered
  <2>4. m \in Nat /\ revived[n] \in Nat
    BY <2>2, CountersAreNat
  <2> HIDE DEF m
  <2>5. m * (revived[n] + 1) + 0 = m * revived[n] + m
    BY <2>4
  <2>6. runs'[n] + Cardinality(Waiting(n)') <= m * revived'[n] + job'[n].attempts
    BY <1>1, <1>2, <1>5, <1>7, <2>1, <2>3, <2>5
  <2>7. RunsCovered(n)'
    BY <1>5, <1>7, <2>1, <2>3, <2>6 DEF RunsCovered, m
  <2> QED
    BY <1>2, <1>7, <2>7 DEF Untouched
<1>8. CASE j = n /\ n = next /\ \E c \in Clients : EnqueueInsert(c)
  <2>1. job[n].state = "absent"
    <3>1. (n >= next) = (job[n].state = "absent") /\ next \in Int
      BY DEF TypeOK, JobIds
    <3> QED
      BY <1>8, <3>1
  <2>2. runs[n] = 0 /\ Waiting(n) = {} /\ revived'[n] = 0
    BY <1>4, <1>8, <2>1 DEF Untouched, Waiting, EnqueueInsert, ghostVars
  <2>3. job'[n].work # Null => MaxAttempts[job'[n].work] \in Nat
    BY <1>8 DEF EnqueueInsert, NewRow, Row, TypeOK
  <2>4. IsFiniteSet({}) /\ Cardinality({}) = 0
    BY FS_EmptySet
  <2>5. \A m \in Nat : m * 0 = 0
    OBVIOUS
  <2>6. RunsCovered(n)'
    <3>1. Waiting(n)' = {} /\ runs'[n] = 0 /\ revived'[n] = 0 /\ job'[n].attempts = 0
      BY <1>1, <1>2, <1>5, <1>8, <2>2
    <3>2. job'[n].work # Null => MaxAttempts[job'[n].work] * revived'[n] = 0
      BY <2>3, <2>5, <3>1
    <3> QED
      BY <2>4, <3>1, <3>2 DEF RunsCovered
  <2> QED
    BY <1>2, <1>8, <2>6 DEF Untouched
<1> QED
  BY <1>6, <1>7, <1>8

\* Every step keeps the count.
LEMMA CountStep ==
    ASSUME TypeOK, \A j \in JobIds : RowOK(job[j]), RunsCounted, [Next]_vars
    PROVE  RunsCounted'
<1> USE ConstantsOK
<1>0. /\ job = [j \in JobIds |-> job[j]] /\ \A j \in JobIds : job[j] \in Rows
      /\ held \in [Workers -> [JobIds -> Nat]]
      /\ ran \in [Workers -> [job : JobIds, ok : BOOLEAN] \cup {Null}]
  BY DEF TypeOK
\* Steps that leave the workers alone and change no row's work or attempts.
<1>1. ASSUME held' = held, ran' = ran, runs' = runs, revived' = revived,
             \A j \in JobIds :
                /\ job'[j].work # Null => job'[j].work = job[j].work /\ job'[j].attempts = job[j].attempts
                /\ job'[j].state = "absent" => job[j].state = "absent"
      PROVE  RunsCounted'
  BY <1>1, NothingStarted
<1>2. ASSUME NEW c \in Clients, EnqueueInsert(c) PROVE RunsCounted'
  <2>1. next \in JobIds
    BY <1>2 DEF EnqueueInsert, TypeOK, JobIds
  <2> QED
    BY <1>2, <2>1, NewRowKeepsCount
<1>3. ASSUME NEW w \in Workers, NEW S \in SUBSET JobIds, LeaseBatch(w, S) PROVE RunsCounted'
  BY <1>3, LeaseKeepsCount
<1>4. ASSUME NEW w \in Workers, NEW j \in JobIds, NEW ok \in BOOLEAN, RunJob(w, j, ok)
      PROVE  RunsCounted'
  BY <1>4, RunKeepsCount
\* A reporter is through with its copy.
<1>5. ASSUME NEW w \in Workers, NEW j \in JobIds, ran[w] # Null, ran[w].job = j, Reported(w, j),
             \A i \in JobIds : /\ job'[i].work = job[i].work /\ job'[i].attempts = job[i].attempts
                               /\ job'[i].state = "absent" => job[i].state = "absent"
      PROVE  RunsCounted'
  <2>1. /\ held' = [held EXCEPT ![w][j] = 0] /\ ran' = [ran EXCEPT ![w] = Null]
        /\ runs' = runs /\ revived' = revived
    BY <1>5 DEF Reported, ghostVars
  <2>2. /\ held'[w][j] = 0 /\ \A i \in JobIds \ {j} : held'[w][i] = held[w][i]
        /\ \A v \in Workers \ {w} : held'[v] = held[v] /\ ran'[v] = ran[v]
    BY <1>0, <2>1
  <2>3. \A v \in Workers, i \in JobIds :
            held'[v][i] = 0 \/ (held'[v][i] = held[v][i] /\ (ran'[v] = ran[v] \/ ran[v] = Null \/ ran[v].job # i))
    BY <1>5, <2>2
  <2> QED
    BY <1>5, <2>1, <2>3, NothingStarted
<1>6. ASSUME NEW w \in Workers, Succeed(w) PROVE RunsCounted'
  <2> DEFINE j == ran[w].job
             row == Unleased(j, "done", job[j].runAfter)
  <2>1. j \in JobIds /\ ran[w] # Null /\ Reported(w, j)
    BY <1>0, <1>6 DEF Succeed
  <2>2. row.state = "done" /\ row.work = job[j].work /\ row.attempts = job[j].attempts
    BY DEF Unleased, Row
  <2>3. job' = job \/ job' = [job EXCEPT ![j] = row]
    BY <1>6 DEF Succeed
  <2> HIDE DEF row
  <2>4. \A i \in JobIds : /\ job'[i].work = job[i].work /\ job'[i].attempts = job[i].attempts
                          /\ job'[i].state = "absent" => job[i].state = "absent"
    BY <1>0, <2>1, <2>2, <2>3
  <2> QED
    BY <1>5, <2>1, <2>4
<1>7. ASSUME NEW w \in Workers, Fail(w) PROVE RunsCounted'
  <2> DEFINE j == ran[w].job
             t == Skew[w] + RetryBackoff(held[w][j])
  <2>1. j \in JobIds /\ ran[w] # Null /\ Reported(w, j)
    BY <1>0, <1>7 DEF Fail
  <2>2. t \in Int
    BY <1>0, <2>1, BackoffType
  <2>3. job' = job \/ job' = [job EXCEPT ![j] = Released(j, t)]
    BY <1>7 DEF Fail
  <2> HIDE DEF t
  <2>4. /\ Released(j, t).state # "absent" /\ Released(j, t).work = job[j].work
        /\ Released(j, t).attempts = job[j].attempts
    BY <2>1, <2>2, ReleasedType
  <2>5. \A i \in JobIds : /\ job'[i].work = job[i].work /\ job'[i].attempts = job[i].attempts
                          /\ job'[i].state = "absent" => job[i].state = "absent"
    BY <1>0, <2>1, <2>3, <2>4
  <2> QED
    BY <1>5, <2>1, <2>5
<1>8. ASSUME NEW w \in Workers, LoseReport(w) PROVE RunsCounted'
  BY <1>0, <1>5, <1>8 DEF LoseReport
<1>9. ASSUME NEW w \in Workers, Stop(w) PROVE RunsCounted'
  <2>1. /\ job' = job /\ runs' = runs /\ revived' = revived /\ ran' = [ran EXCEPT ![w] = Null]
        /\ held' = [held EXCEPT ![w] = [j \in JobIds |-> 0]]
    BY <1>9 DEF Stop, queueVars, ghostVars
  <2>2. /\ \A j \in JobIds : held'[w][j] = 0
        /\ \A v \in Workers \ {w} : held'[v] = held[v] /\ ran'[v] = ran[v]
    BY <1>0, <2>1
  <2> QED
    BY <2>1, <2>2, NothingStarted
<1>10. ASSUME NEW w \in Workers, Reclaim(w) PROVE RunsCounted'
  <2>1. /\ held' = held /\ ran' = ran /\ runs' = runs /\ revived' = revived
        /\ \A j \in JobIds : job'[j] = IF j \in Expired(w) THEN Released(j, job[j].runAfter)
                                                           ELSE job[j]
    BY <1>10 DEF Reclaim, workerVars, ghostVars
  <2>2. \A j \in JobIds : job[j].runAfter \in Int
    BY <1>0 DEF Rows
  <2>3. \A j \in JobIds : /\ Released(j, job[j].runAfter).state # "absent"
                          /\ Released(j, job[j].runAfter).work = job[j].work
                          /\ Released(j, job[j].runAfter).attempts = job[j].attempts
    BY <2>2, ReleasedType
  <2> QED
    BY <1>1, <2>1, <2>3
<1>11. ASSUME NEW n \in JobIds, Retry(n) PROVE RunsCounted'
  BY <1>11, NewRowKeepsCount
<1>12. CASE PurgeEnd
  <2>1. DeletedRow.state = "purged" /\ DeletedRow.work = Null
    BY DEF DeletedRow, Row
  <2> QED
    BY <1>1, <1>12, <2>1 DEF PurgeEnd, workerVars, ghostVars
<1>13. CASE Tick
  <2>1. \A j \in JobIds : /\ Aged(job[j]).state = job[j].state
                          /\ Aged(job[j]).work = job[j].work
                          /\ Aged(job[j]).attempts = job[j].attempts
    BY DEF Aged, Row
  <2> QED
    BY <1>1, <1>13, <2>1 DEF Tick, ghostVars
<1>14. CASE UNCHANGED <<queueVars, workerVars, ghostVars>>
  BY <1>1, <1>14 DEF queueVars, workerVars, ghostVars
<1>15. ASSUME NEW c \in Clients, NEW k \in Works, NEW delay \in Delays,
              EnqueueBegin(c, k, delay)
       PROVE  RunsCounted'
  BY <1>14, <1>15 DEF EnqueueBegin
<1>16. ASSUME NEW c \in Clients, EnqueueCollapse(c) PROVE RunsCounted'
  BY <1>14, <1>16 DEF EnqueueCollapse
<1>17. ASSUME NEW S \in SUBSET JobIds, PurgeBegin(S) PROVE RunsCounted'
  BY <1>14, <1>17 DEF PurgeBegin
<1>18. CASE UNCHANGED vars
  BY <1>14, <1>18 DEF vars, queueVars, workerVars, ghostVars
<1> QED
  BY <1>2, <1>3, <1>4, <1>6, <1>7, <1>8, <1>9, <1>10, <1>11, <1>12, <1>13, <1>15, <1>16,
     <1>17, <1>18 DEF Next

\* The body of a job runs at most MaxAttempts times for every life an operator
\* gives it, whatever crashes, expired leases, lost reports, shared ids, clocks
\* and purges do: no lease is run twice, and none goes unrecorded.
THEOREM RunsAreBounded == Spec => []RunsBounded
<1> DEFINE Inv == /\ TypeOK /\ OutstandingOnce /\ \A j \in JobIds : RowOK(job[j])
                  /\ RunsCounted
<1>1. Init => Inv
  <2>1. Init => RunsCounted
    BY DEF Init, RunsCounted, RunsCovered, Untouched, NoRow, Row
  <2> QED
    BY <2>1, TypeInit, RowsInit
<1>2. Inv /\ [Next]_vars => Inv'
  BY TypeStep, RowsStep, CountStep
<1>3. Inv => RunsBounded
  <2> SUFFICES ASSUME Inv, NEW j \in JobIds, job[j].work # Null
               PROVE  runs[j] <= MaxAttempts[job[j].work] * (1 + revived[j])
    BY DEF RunsBounded
  <2> DEFINE m == MaxAttempts[job[j].work]
  <2>1. IsFiniteSet(Waiting(j)) /\ runs[j] + Cardinality(Waiting(j)) <= m * revived[j] + job[j].attempts
    BY DEF RunsCounted, RunsCovered
  <2>2. Cardinality(Waiting(j)) \in Nat
    BY <2>1, FS_CardinalityType
  <2>3. job[j].attempts <= m
    BY DEF RowOK
  <2>4. runs[j] \in Nat /\ revived[j] \in Nat /\ job[j].attempts \in Nat /\ m \in Nat /\ m * revived[j] \in Nat
    BY CountersAreNat
  <2> HIDE DEF m, Inv
  <2>5. m * (1 + revived[j]) = m + m * revived[j]
    BY <2>4
  <2>6. runs[j] <= m * (1 + revived[j])
    BY <2>1, <2>2, <2>3, <2>4, <2>5
  <2> QED
    BY <2>6 DEF m
<1> HIDE DEF Inv
<1> QED
  BY <1>1, <1>2, <1>3, PTL DEF Spec
=============================================================================
