------------------------ MODULE JobQueueRefinement ------------------------
(***************************************************************************)
(* The queue with its leases, clocks, crashes and snapshots implements the *)
(* work list, for every number of jobs, workers and clients.               *)
(***************************************************************************)
EXTENDS JobQueueProofs

\* A step that keeps every row's place on the list is a stutter.
LEMMA Stutter ==
    ASSUME \A j \in JobIds : Status(j)' = Status(j) /\ job'[j].work = job[j].work
    PROVE  UNCHANGED WL!vars
  BY DEF WL!vars

\* The work list owes work k exactly when the index holds a row for it.
LEMMA OwedInflight ==
    ASSUME TypeOK, NEW k
    PROVE  WL!Owed(k) <=> Inflight(k) # {}
<1>1. \A j \in JobIds : Status(j) = "owed" <=> Outstanding(j)
  BY DEF Status, TypeOK, Rows, States
<1> QED
  BY <1>1 DEF WL!Owed, Inflight

\* A step that drops one outstanding row from the list as done.
LEMMA CompleteStep ==
    ASSUME NEW i \in JobIds, Status(i) = "owed", Status(i)' = "done",
           job'[i].work = job[i].work,
           \A j \in JobIds \ {i} : Status(j)' = Status(j) /\ job'[j].work = job[j].work
    PROVE  WL!Complete(i)
  BY DEF WL!Complete

\* A step that gives up on the rows of S.
LEMMA AbandonStep ==
    ASSUME NEW S \in SUBSET JobIds, \A j \in S : Status(j) = "owed" /\ Status(j)' = "dead",
           \A j \in JobIds \ S : Status(j)' = Status(j),
           \A j \in JobIds : job'[j].work = job[j].work
    PROVE  WL!Abandon(S)
  BY DEF WL!Abandon

\* A step that puts one more row on the list.
LEMMA AddStep ==
    ASSUME TypeOK, NEW i \in JobIds, NEW k \in Works, Status(i) = "absent",
           Inflight(k) = {}, Status(i)' = "owed", job'[i].work = k,
           \A j \in JobIds \ {i} : Status(j)' = Status(j) /\ job'[j].work = job[j].work
    PROVE  WL!Add(i, k)
  BY OwedInflight DEF WL!Add

\* A step that owes a dead row again.
LEMMA ReviveStep ==
    ASSUME TypeOK, NEW i \in JobIds, Status(i) = "dead", Inflight(job[i].work) = {},
           Status(i)' = "owed", job'[i].work = job[i].work,
           \A j \in JobIds \ {i} : Status(j)' = Status(j) /\ job'[j].work = job[j].work
    PROVE  WL!Revive(i)
<1>1. ~WL!Owed(job[i].work)
  BY OwedInflight
<1> QED
  BY <1>1 DEF WL!Revive

\* A step that prunes the finished rows of S.
LEMMA PruneStep ==
    ASSUME NEW S \in SUBSET JobIds, \A j \in S : Status(j) \in {"done", "dead"},
           \A j \in S : Status(j)' = "purged" /\ job'[j].work = Null,
           \A j \in JobIds \ S : Status(j)' = Status(j) /\ job'[j].work = job[j].work
    PROVE  WL!Prune(S)
  BY DEF WL!Prune

\* Every step of the queue is a step of the work list or none at all.
LEMMA RefinementStep ==
    ASSUME TypeOK, PurgingFinished, [Next]_vars
    PROVE  [WL!Next]_(WL!vars)
<1> USE ConstantsOK
<1>0. job = [j \in JobIds |-> job[j]] /\ \A j \in JobIds : job[j] \in Rows
  BY DEF TypeOK
<1>1. ASSUME NEW c \in Clients, EnqueueInsert(c) PROVE WL!Next
  <2> DEFINE row == NewRow(enq[c].work, enq[c].delay)
  <2>1. next \in JobIds /\ next \in Int /\ enq[c].work \in Works
    BY <1>1 DEF EnqueueInsert, TypeOK, JobIds
  <2>2. job[next].state = "absent"
    <3>1. (next >= next) = (job[next].state = "absent")
      BY <2>1 DEF TypeOK
    <3> QED
      BY <2>1, <3>1
  <2>3. row.state = "pending" /\ row.work = enq[c].work
    BY DEF NewRow, Row
  <2>4. job' = [job EXCEPT ![next] = row] /\ Inflight(enq[c].work) = {}
    BY <1>1 DEF EnqueueInsert
  <2> HIDE DEF row
  <2>5. PICK n \in JobIds, k \in Works : n = next /\ k = enq[c].work
    BY <2>1
  <2>6. job'[n] = row /\ \A j \in JobIds \ {n} : job'[j] = job[j]
    BY <1>0, <2>4, <2>5
  <2>7. /\ Status(n) = "absent" /\ Status(n)' = "owed" /\ job'[n].work = k
        /\ \A j \in JobIds \ {n} : Status(j)' = Status(j) /\ job'[j].work = job[j].work
    BY <2>2, <2>3, <2>5, <2>6 DEF Status, Outstanding
  <2>8. WL!Add(n, k)
    BY <2>4, <2>5, <2>7, AddStep
  <2> QED
    BY <2>8 DEF WL!Next
<1>2. ASSUME NEW w \in Workers, NEW S \in SUBSET JobIds, LeaseBatch(w, S)
      PROVE  UNCHANGED WL!vars
  <2>1. /\ \A j \in JobIds : job'[j] = IF j \in S THEN Leased(w, j) ELSE job[j]
        /\ \A j \in S : job[j].state = "pending"
    BY <1>2 DEF LeaseBatch, FirstReady, Ready
  <2>2. \A j \in S : Leased(w, j).state = "running" /\ Leased(w, j).work = job[j].work
    BY DEF Leased, Row
  <2> QED
    BY <2>1, <2>2, Stutter DEF Status, Outstanding
<1>3. CASE job' = job
  BY <1>3, Stutter DEF Status, Outstanding
<1>4. ASSUME NEW w \in Workers, Succeed(w), job' # job PROVE WL!Next
  <2>1. PICK i \in JobIds : i = ran[w].job
    BY <1>4 DEF Succeed, TypeOK
  <2> DEFINE row == Unleased(i, "done", job[i].runAfter)
  <2>2. job' = [job EXCEPT ![i] = row] /\ job[i].state = "running"
    BY <1>4, <2>1 DEF Succeed, MayReport
  <2>3. row.state = "done" /\ row.work = job[i].work
    BY DEF Unleased, Row
  <2> HIDE DEF row
  <2>4. job'[i] = row /\ \A j \in JobIds \ {i} : job'[j] = job[j]
    BY <1>0, <2>1, <2>2
  <2>5. /\ Status(i) = "owed" /\ Status(i)' = "done" /\ job'[i].work = job[i].work
        /\ \A j \in JobIds \ {i} : Status(j)' = Status(j) /\ job'[j].work = job[j].work
    BY <2>1, <2>2, <2>3, <2>4 DEF Status, Outstanding
  <2>6. WL!Complete(i)
    BY <2>1, <2>5, CompleteStep
  <2> QED
    BY <2>1, <2>6 DEF WL!Next
<1>5. ASSUME NEW w \in Workers, Fail(w), job' # job PROVE [WL!Next]_(WL!vars)
  <2>1. PICK i \in JobIds : i = ran[w].job
    BY <1>5 DEF Fail, TypeOK
  <2> DEFINE t == Skew[w] + RetryBackoff(held[w][i])
  <2>2. job' = [job EXCEPT ![i] = Released(i, t)] /\ job[i].state = "running"
    BY <1>5, <2>1 DEF Fail, MayReport
  <2>3. /\ Released(i, t).state = IF Spent(i) THEN "dead" ELSE "pending"
        /\ Released(i, t).work = job[i].work
    BY DEF Released, Unleased, Row
  <2> HIDE DEF t
  <2>4. job'[i] = Released(i, t) /\ \A j \in JobIds \ {i} : job'[j] = job[j]
    BY <1>0, <2>1, <2>2
  <2>5. CASE Spent(i)
    <3> DEFINE S == {i}
    <3>1. /\ S \in SUBSET JobIds
          /\ \A j \in S : Status(j) = "owed" /\ Status(j)' = "dead"
          /\ \A j \in JobIds \ S : Status(j)' = Status(j)
          /\ \A j \in JobIds : job'[j].work = job[j].work
      BY <2>1, <2>2, <2>3, <2>4, <2>5 DEF Status, Outstanding
    <3> HIDE DEF S
    <3>2. WL!Abandon(S)
      BY <3>1, AbandonStep
    <3> QED
      BY <3>1, <3>2 DEF WL!Next
  <2>6. CASE ~Spent(i)
    BY <2>1, <2>2, <2>3, <2>4, <2>6, Stutter DEF Status, Outstanding
  <2> QED
    BY <2>5, <2>6
<1>6. ASSUME NEW w \in Workers, Reclaim(w) PROVE WL!Next
  <2>0. PICK S \in SUBSET JobIds : S = {j \in Expired(w) : Spent(j)}
    BY DEF Expired
  <2>1. \A j \in JobIds : job'[j] = IF j \in Expired(w) THEN Released(j, job[j].runAfter)
                                                        ELSE job[j]
    BY <1>6 DEF Reclaim
  <2>2. \A j \in Expired(w) : j \in JobIds /\ job[j].state = "running"
    BY DEF Expired
  <2>3. \A j \in JobIds :
           /\ Released(j, job[j].runAfter).state = IF Spent(j) THEN "dead" ELSE "pending"
           /\ Released(j, job[j].runAfter).work = job[j].work
    BY DEF Released, Unleased, Row
  <2>4. \A j \in S : Status(j) = "owed" /\ Status(j)' = "dead"
    BY <2>0, <2>1, <2>2, <2>3 DEF Status, Outstanding
  <2>5. \A j \in JobIds \ S : Status(j)' = Status(j)
    BY <2>0, <2>1, <2>2, <2>3 DEF Status, Outstanding
  <2>6. \A j \in JobIds : job'[j].work = job[j].work
    BY <2>1, <2>3
  <2>7. WL!Abandon(S)
    BY <2>4, <2>5, <2>6, AbandonStep
  <2> QED
    BY <2>7 DEF WL!Next
<1>7. ASSUME NEW n \in JobIds, Retry(n) PROVE WL!Next
  <2> DEFINE row == NewRow(job[n].work, 0)
  <2>1. /\ job' = [job EXCEPT ![n] = row] /\ job[n].state = "dead"
        /\ Inflight(job[n].work) = {}
    BY <1>7 DEF Retry
  <2>2. row.state = "pending" /\ row.work = job[n].work
    BY DEF NewRow, Row
  <2> HIDE DEF row
  <2>3. job'[n] = row /\ \A j \in JobIds \ {n} : job'[j] = job[j]
    BY <1>0, <2>1
  <2>4. WL!Revive(n)
    BY <2>1, <2>2, <2>3, ReviveStep DEF Status, Outstanding
  <2> QED
    BY <2>4 DEF WL!Next
<1>8. CASE PurgeEnd
  <2>0. PICK S \in SUBSET JobIds : S = {j \in purging : job[j].state # "purged"}
    BY DEF TypeOK
  <2>1. \A j \in JobIds : job'[j] = IF j \in purging THEN DeletedRow ELSE job[j]
    BY <1>8 DEF PurgeEnd
  <2>2. DeletedRow.state = "purged" /\ DeletedRow.work = Null
    BY DEF DeletedRow, Row
  <2>3. \A j \in S : job[j].state \in {"done", "dead"}
    BY <2>0 DEF TypeOK, Rows, States, PurgingFinished, Outstanding
  <2>4. \A j \in S : Status(j) \in {"done", "dead"}
    BY <2>3 DEF Status, Outstanding
  <2>5. \A j \in S : Status(j)' = "purged" /\ job'[j].work = Null
    BY <2>0, <2>1, <2>2 DEF Status, Outstanding
  <2>6. ASSUME NEW j \in JobIds \ S
        PROVE  Status(j)' = Status(j) /\ job'[j].work = job[j].work
    <3>1. CASE j \notin purging
      BY <2>1, <3>1 DEF Status, Outstanding
    <3>2. CASE job[j].state = "purged"
      BY <2>1, <2>2, <3>2 DEF Status, Outstanding, TypeOK
    <3> QED
      BY <2>0, <3>1, <3>2
  <2>7. \A j \in JobIds \ S : Status(j)' = Status(j) /\ job'[j].work = job[j].work
    BY <2>6
  <2>8. WL!Prune(S)
    BY <2>4, <2>5, <2>7, PruneStep
  <2> QED
    BY <2>8 DEF WL!Next
<1>9. CASE Tick
  <2>1. \A j \in JobIds : job'[j] = IF Outstanding(j) THEN Aged(job[j]) ELSE job[j]
    BY <1>9 DEF Tick
  <2>2. \A j \in JobIds : Aged(job[j]).state = job[j].state /\ Aged(job[j]).work = job[j].work
    BY DEF Aged, Row
  <2> QED
    BY <2>1, <2>2, Stutter DEF Status, Outstanding
<1>10. ASSUME NEW c \in Clients, NEW k \in Works, NEW delay \in Delays,
              EnqueueBegin(c, k, delay)
       PROVE  job' = job
  BY <1>10 DEF EnqueueBegin, queueVars
<1>11. ASSUME NEW c \in Clients, EnqueueCollapse(c) PROVE job' = job
  BY <1>11 DEF EnqueueCollapse, queueVars
<1>12. ASSUME NEW w \in Workers, NEW j \in JobIds, NEW ok \in BOOLEAN, RunJob(w, j, ok)
       PROVE  job' = job
  BY <1>12 DEF RunJob, queueVars
<1>13. ASSUME NEW w \in Workers, LoseReport(w) \/ Stop(w) PROVE job' = job
  BY <1>13 DEF LoseReport, Stop, queueVars
<1>14. ASSUME NEW S \in SUBSET JobIds, PurgeBegin(S) PROVE job' = job
  BY <1>14 DEF PurgeBegin, queueVars
<1>15. CASE UNCHANGED vars
  BY <1>3, <1>15 DEF vars
<1> QED
  BY <1>1, <1>2, <1>3, <1>4, <1>5, <1>6, <1>7, <1>8, <1>9, <1>10, <1>11, <1>12, <1>13,
     <1>14, <1>15 DEF Next

\* The empty table is the empty list.
LEMMA RefinementInit == Init => WL!Init
  BY DEF Init, WL!Init, NoRow, Row, Status, Outstanding

\* As long as operators act one at a time, the queue implements the work list:
\* the same work is never owed twice, owed work leaves the list only as done or
\* dead, and only finished jobs are pruned, whatever leases expire, workers
\* crash and reports get lost.
THEOREM QueueImplementsWorkList ==
    ASSUME OneOperator
    PROVE  Spec => ImplementsWorkList
<1> DEFINE Inv == TypeOK /\ PurgingFinished
<1>1. Init => Inv
  BY TypeInit DEF Init, PurgingFinished
<1>2. Inv /\ [Next]_vars => Inv'
  BY TypeStep, PurgingStep
<1>3. Inv /\ [Next]_vars => [WL!Next]_(WL!vars)
  BY RefinementStep
<1> HIDE DEF Inv
<1> QED
  BY <1>1, <1>2, <1>3, RefinementInit, PTL DEF Spec, ImplementsWorkList, WL!Spec
=============================================================================
