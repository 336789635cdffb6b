------------------------ MODULE ConsolidationProofs ------------------------
(* Proofs about Consolidation, for every number of episodes, jobs, workers, *)
(* claims, crashes, refusals and erasures.                                  *)
EXTENDS Consolidation, TLAPS

\* The records of the variables: workers, jobs and the erasure.
RunStates == {"idle", "read", "put", "mark", "write", "ok", "fail"}
JobKinds == {"none", "encode", "extract"}
Runs == [at : RunStates, job : 0 .. MaxJobs, kind : JobKinds,
         todo : SUBSET Episodes, new : SUBSET Episodes]
JobRows == [state : {"absent", "owed", "done", "dead"}, kind : JobKinds, eps : SUBSET Episodes,
            left : 0 .. MaxAttempts]
ForgetStates == {"none", "facts", "marks", "encs", "jobs", "log", "commit"}
Forgets == [at : ForgetStates, whole : BOOLEAN, eps : SUBSET Episodes, facts : SUBSET Claims,
            marks : SUBSET Episodes, encs : SUBSET Episodes, jobs : SUBSET JobIds,
            log : SUBSET Episodes]

\* The type invariant over the sets above.
LEMMA TypeOKDef ==
    TypeOK <=> /\ scope \in BOOLEAN
               /\ log \subseteq Episodes /\ encs \subseteq Episodes /\ marks \subseteq Episodes
               /\ fact \in [Claims -> SUBSET Episodes]
               /\ jobs \in [JobIds -> JobRows]
               /\ nextEp \in 1 .. MaxEpisodes + 1
               /\ run \in [Runners -> Runs]
               /\ fg \in Forgets
               /\ bf \in [kind : JobKinds, eps : SUBSET Episodes]
               /\ troubles \in 0 .. MaxTroubles
               /\ applied \in [JobIds -> Nat]
               /\ refused \subseteq Episodes /\ partial \in BOOLEAN
  BY Zenon DEF TypeOK, JobRows, JobKinds, Runs, RunStates, Forgets, ForgetStates

-----------------------------------------------------------------------------
(* The inductive invariant *)

\* The episodes whose numbers have been given out.
Past == 1 .. nextEp - 1

\* Nobody knows an episode before it is appended: a new episode is pending for
\* nobody's finished work.
Fresh ==
    /\ log \subseteq Past /\ bf.eps \subseteq Past
    /\ \A j \in JobIds : jobs[j].eps \subseteq Past
    /\ \A r \in Runners : run[r].todo \subseteq Past

\* What runner r holds is its job as long as the row exists: all the episodes
\* of an extraction; of an encoding, those it has not put yet.
Follows(r, row) ==
    /\ row.kind = run[r].kind
    /\ IF row.kind = "encode" THEN (row.eps \ run[r].todo) \cap log \subseteq encs
                              ELSE row.eps = run[r].todo

\* Every busy worker has a job that was enqueued, and follows its row.
Engaged ==
    \A r \in Runners : run[r].at # "idle" =>
        /\ run[r].job \in JobIds
        /\ jobs[run[r].job] = NoJob \/ Follows(r, jobs[run[r].job])

\* What each step of a worker has established.
Progress ==
    \A r \in Runners :
        /\ run[r].at = "put" => run[r].kind = "encode"
        /\ run[r].at \in {"mark", "write"} => run[r].kind # "encode"
        /\ run[r].at = "ok" => IF run[r].kind = "encode" THEN run[r].todo = {}
                                ELSE run[r].todo \cap log \subseteq marks
        /\ run[r].at = "write" => run[r].todo \cap log \subseteq marks \cup run[r].new

\* An extraction in flight marks episodes that exist, that are its own and
\* that nobody else has marked or is marking.
Marking ==
    /\ \A r \in Runners : /\ run[r].at = "write" <=> run[r].new # {}
                          /\ run[r].new \subseteq (log \cap run[r].todo) \ marks
    /\ \A r, q \in Runners : r # q => run[r].new \cap run[q].new = {}

\* Workers on one extraction job hold the same batch.
SameBatch ==
    \A r, q \in Runners :
        run[r].at # "idle" /\ run[q].at # "idle" /\ run[r].job = run[q].job =>
            run[r].kind = run[q].kind /\ (run[r].kind # "encode" => run[r].todo = run[q].todo)

\* A job whose extraction was applied has nothing left to mark, nor has any
\* worker still on it.
OnceApplied ==
    \A j \in JobIds : applied[j] # 0 =>
        /\ applied[j] = 1
        /\ jobs[j].eps \cap log \subseteq marks
        /\ \A r \in Runners : run[r].at # "idle" /\ run[r].job = j =>
               run[r].todo \cap log \subseteq marks

\* An erasure takes projections of episodes it takes, and once it has the
\* episodes nothing committed or in flight refers to them any more.
Erasing ==
    /\ fg.marks \cup fg.encs \subseteq Hit(log)
    /\ fg.at # "commit" => fg.log = {}
    /\ fg.at = "commit" => fg.marks \cup fg.encs \subseteq fg.log
    /\ fg.log \cap ((marks \ fg.marks) \cup (encs \ fg.encs)) = {}
    /\ \A r \in Runners : run[r].new \cap fg.log = {}

\* The inductive invariant.
IInv == /\ TypeOK /\ Fresh /\ Engaged /\ Progress /\ Marking /\ SameBatch /\ OnceApplied
        /\ Erasing /\ NothingOutlivesItsSource /\ DoneMeansProjected

\* With whole-scope erasures only: an extraction about to commit has lost none
\* of its episodes.
Intact ==
    /\ fg.at # "none" => fg.whole
    /\ \A r \in Runners : run[r].at = "write" => run[r].todo \subseteq log

\* An episode with a marker is in the provenance of every claim it makes.
MarkersRead == \A e \in marks : \A c \in Says[e] : e \in fact[c]

\* What holds on top of IInv as long as erasures take whole scopes.
WInv == Intact /\ FactsStandOnEpisodes /\ MarkersRead

-----------------------------------------------------------------------------
(* What the steps do to one worker and to one job *)

\* A worker that only moves on keeps its job and its batch.
LEMMA GoToEffect ==
    ASSUME run \in [Runners -> Runs], NEW r \in Runners, NEW at \in RunStates, GoTo(r, at)
    PROVE  /\ run' \in [Runners -> Runs]
           /\ run'[r] = [run[r] EXCEPT !.at = at]
           /\ run'[r].at = at /\ run'[r].job = run[r].job /\ run'[r].kind = run[r].kind
           /\ run'[r].todo = run[r].todo /\ run'[r].new = run[r].new
           /\ \A x \in Runners : x # r => run'[x] = run[x]
  BY DEF Runs, GoTo

\* A worker set to the record c; the others are as they were.
LEMMA RunnerSet ==
    ASSUME run \in [Runners -> Runs], NEW r \in Runners, NEW c \in Runs,
           run' = [run EXCEPT ![r] = c]
    PROVE  /\ run' \in [Runners -> Runs] /\ run'[r] = c
           /\ \A x \in Runners : x # r => run'[x] = run[x]
  OBVIOUS

\* Idle, and a fresh lease, are states of a worker.
LEMMA IdleIsRun == Idle \in Runs
  BY ConstantsOK DEF Idle, Runs, RunStates, JobKinds

\* The lease of job j by runner r.
Leased(j) == [at |-> "read", job |-> j, kind |-> jobs[j].kind, todo |-> jobs[j].eps, new |-> {}]

\* A worker that takes its step and replaces its uncommitted markers.
SetNew(r, at, new) == run' = [run EXCEPT ![r].at = at, ![r].new = new]

\* The rest of the worker's record is as it was.
LEMMA MarkerEffect ==
    ASSUME run \in [Runners -> Runs], NEW r \in Runners, NEW at \in RunStates,
           NEW new \in SUBSET Episodes, SetNew(r, at, new)
    PROVE  /\ run' \in [Runners -> Runs]
           /\ run'[r].at = at /\ run'[r].job = run[r].job /\ run'[r].kind = run[r].kind
           /\ run'[r].todo = run[r].todo /\ run'[r].new = new
           /\ \A x \in Runners : x # r => run'[x] = run[x]
<1> DEFINE c == [[run[r] EXCEPT !.at = at] EXCEPT !.new = new]
<1>1. /\ c \in Runs
      /\ c.at = at /\ c.job = run[r].job /\ c.kind = run[r].kind
      /\ c.todo = run[r].todo /\ c.new = new
  BY DEF Runs
<1>2. run' = [run EXCEPT ![r] = c]
  BY DEF SetNew
<1> HIDE DEF c
<1> QED
  BY <1>1, <1>2

\* A worker that takes its step and replaces what it has left to do.
SetTodo(r, at, todo) == run' = [run EXCEPT ![r].todo = todo, ![r].at = at]

\* The rest of the worker's record is as it was.
LEMMA TodoEffect ==
    ASSUME run \in [Runners -> Runs], NEW r \in Runners, NEW at \in RunStates,
           NEW todo \in SUBSET Episodes, SetTodo(r, at, todo)
    PROVE  /\ run' \in [Runners -> Runs]
           /\ run'[r].at = at /\ run'[r].job = run[r].job /\ run'[r].kind = run[r].kind
           /\ run'[r].todo = todo /\ run'[r].new = run[r].new
           /\ \A x \in Runners : x # r => run'[x] = run[x]
<1> DEFINE c == [[run[r] EXCEPT !.todo = todo] EXCEPT !.at = at]
<1>1. /\ c \in Runs
      /\ c.at = at /\ c.job = run[r].job /\ c.kind = run[r].kind
      /\ c.todo = todo /\ c.new = run[r].new
  BY DEF Runs
<1>2. run' = [run EXCEPT ![r] = c]
  BY DEF SetTodo
<1> HIDE DEF c
<1> QED
  BY <1>1, <1>2

\* A step that changes nothing of a job but its state and its attempts.
JobsKept ==
    /\ jobs' \in [JobIds -> JobRows]
    /\ \A j \in JobIds : /\ jobs'[j].kind = jobs[j].kind /\ jobs'[j].eps = jobs[j].eps
                         /\ jobs[j] = NoJob => jobs'[j] = NoJob

\* Lease keeps the rows, and only the job it takes changes.
LEMMA TakeEffect ==
    ASSUME TypeOK, NEW r \in Runners, NEW j \in JobIds, Take(r, j)
    PROVE  /\ JobsKept /\ \A i \in JobIds : jobs'[i].state = jobs[i].state
           /\ run' \in [Runners -> Runs] /\ run'[r] = Leased(j)
           /\ \A x \in Runners : x # r => run'[x] = run[x]
           /\ jobs[j] # NoJob
<1>1. jobs \in [JobIds -> JobRows] /\ run \in [Runners -> Runs]
  BY TypeOKDef
<1>2. jobs[j].state = "owed" /\ jobs[j].left \in 1 .. MaxAttempts /\ jobs[j].left - 1 \in 0 .. MaxAttempts
  BY <1>1, ConstantsOK DEF Take, JobRows
<1> DEFINE row == [jobs[j] EXCEPT !.left = @ - 1]
<1>3. /\ row \in JobRows
      /\ row.state = jobs[j].state /\ row.kind = jobs[j].kind /\ row.eps = jobs[j].eps
  BY <1>1, <1>2 DEF JobRows
<1>4. jobs' = [jobs EXCEPT ![j] = row]
  BY DEF Take
<1>5. jobs[j] # NoJob
  BY <1>2 DEF NoJob
<1>6. JobsKept /\ \A i \in JobIds : jobs'[i].state = jobs[i].state
  <2> HIDE DEF row
  <2> QED
    BY <1>1, <1>3, <1>4, <1>5 DEF JobsKept
<1>7. Leased(j) \in Runs
  BY <1>1, ConstantsOK DEF Leased, Runs, RunStates, JobRows, JobIds
<1>8. run' = [run EXCEPT ![r] = Leased(j)]
  BY DEF Take, Leased
<1> QED
  BY <1>1, <1>5, <1>6, <1>7, <1>8, RunnerSet

\* Succeed and Fail keep the rows; an owed job may end as done or dead.
LEMMA SucceedEffect ==
    ASSUME TypeOK, NEW j \in JobIds,
           jobs' = [jobs EXCEPT ![j].state = IF @ = "owed" THEN "done" ELSE @]
    PROVE  JobsKept /\ \A i \in JobIds : i # j => jobs'[i].state = jobs[i].state
<1>1. jobs \in [JobIds -> JobRows]
  BY TypeOKDef
<1> DEFINE row == [jobs[j] EXCEPT !.state = IF @ = "owed" THEN "done" ELSE @]
<1>2. /\ row \in JobRows /\ row.kind = jobs[j].kind /\ row.eps = jobs[j].eps
  BY <1>1 DEF JobRows
<1>3. jobs[j] = NoJob => row = NoJob
  BY <1>1 DEF JobRows, NoJob
<1>4. jobs' = [jobs EXCEPT ![j] = row]
  OBVIOUS
<1> HIDE DEF row
<1> QED
  BY <1>1, <1>2, <1>3, <1>4 DEF JobsKept

\* Releasing a job makes it dead or leaves it as it is.
LEMMA ReleaseEffect ==
    ASSUME TypeOK, NEW j \in JobIds, jobs' = [jobs EXCEPT ![j] = Released(j)]
    PROVE  JobsKept /\ \A i \in JobIds : jobs'[i].state = "done" => jobs[i].state = "done"
<1>1. jobs \in [JobIds -> JobRows]
  BY TypeOKDef
<1>2. /\ Released(j) \in JobRows
      /\ Released(j).kind = jobs[j].kind /\ Released(j).eps = jobs[j].eps
      /\ Released(j).state = "done" => jobs[j].state = "done"
  BY <1>1 DEF JobRows, Released
<1>3. jobs[j] = NoJob => Released(j) = NoJob
  BY <1>1 DEF JobRows, NoJob, Released
<1> QED
  BY <1>1, <1>2, <1>3 DEF JobsKept

\* New jobs, all for the episodes eps, in rows nobody is working on.
JobsAdded(eps) ==
    /\ jobs' \in [JobIds -> JobRows] /\ applied' \in [JobIds -> Nat]
    /\ \A j \in JobIds : \/ jobs'[j] = jobs[j] /\ applied'[j] = applied[j]
                         \/ /\ \A r \in Runners : run[r].job # j
                            /\ jobs'[j].state = "owed" /\ jobs'[j].eps = eps
                            /\ applied'[j] = 0

\* A row for an owed job is a row.
LEMMA NewJobIsRow ==
    ASSUME NEW k \in JobKinds, NEW eps \in SUBSET Episodes
    PROVE  NewJob(k, eps) \in JobRows /\ NewJob(k, eps).state = "owed" /\ NewJob(k, eps).eps = eps
  BY ConstantsOK DEF NewJob, JobRows

\* Insert writes one job per kind, all of them for the same episodes.
LEMMA InsertEffect ==
    ASSUME TypeOK, NEW K \in SUBSET JobKinds, NEW id \in [K -> JobIds],
           NEW eps \in SUBSET Episodes, Insert(id, eps)
    PROVE  JobsAdded(eps)
<1>1. jobs \in [JobIds -> JobRows] /\ applied \in [JobIds -> Nat] /\ DOMAIN id = K
  BY TypeOKDef
<1>2. /\ jobs' = [j \in JobIds |-> IF \E k \in DOMAIN id : id[k] = j
                                  THEN NewJob(CHOOSE k \in DOMAIN id : id[k] = j, eps)
                                  ELSE jobs[j]]
      /\ applied' = [j \in JobIds |-> IF \E k \in DOMAIN id : id[k] = j THEN 0 ELSE applied[j]]
  BY Zenon DEF Insert
<1>3. \A k \in DOMAIN id : \A r \in Runners : run[r].job # id[k]
  BY DEF Insert, FirstFree, FreeJobs
<1>4. ASSUME NEW j \in JobIds
      PROVE  /\ jobs'[j] \in JobRows /\ applied'[j] \in Nat
             /\ \/ jobs'[j] = jobs[j] /\ applied'[j] = applied[j]
                \/ /\ \A r \in Runners : run[r].job # j
                   /\ jobs'[j].state = "owed" /\ jobs'[j].eps = eps
                   /\ applied'[j] = 0
  <2>1. CASE ~ \E k \in DOMAIN id : id[k] = j
    BY <1>1, <1>2, <2>1
  <2>2. CASE \E k \in DOMAIN id : id[k] = j
    <3> DEFINE k == CHOOSE k \in DOMAIN id : id[k] = j
    <3>1. k \in DOMAIN id /\ id[k] = j
      BY <2>2, Zenon
    <3>2. jobs'[j] = NewJob(k, eps) /\ applied'[j] = 0
      BY <1>2, <2>2
    <3> HIDE DEF k
    <3>3. k \in JobKinds
      BY <1>1, <3>1
    <3>4. \A r \in Runners : run[r].job # j
      BY <1>3, <3>1
    <3> QED
      BY <3>2, <3>3, <3>4, NewJobIsRow
  <2> QED
    BY <2>1, <2>2
<1>5. jobs' \in [JobIds -> JobRows] /\ applied' \in [JobIds -> Nat]
  BY <1>2, <1>4
<1> QED
  BY <1>4, <1>5 DEF JobsAdded

\* Append writes one job per kind, all of them for the episodes it inserts.
LEMMA AppendEffect ==
    ASSUME TypeOK, NEW n \in 1 .. MaxBatch, Append(n)
    PROVE  /\ nextEp + n - 1 \in Nat /\ nextEp' = nextEp + n /\ nextEp' \in 1 .. MaxEpisodes + 1
           /\ nextEp .. nextEp + n - 1 \subseteq Episodes
           /\ log' = log \cup (nextEp .. nextEp + n - 1)
           /\ JobsAdded(nextEp .. nextEp + n - 1)
<1> DEFINE eps == nextEp .. nextEp + n - 1
<1>1. /\ nextEp + n - 1 \in Nat /\ nextEp' = nextEp + n /\ nextEp' \in 1 .. MaxEpisodes + 1
      /\ eps \subseteq Episodes /\ log' = log \cup eps
  BY ConstantsOK DEF Append, TypeOK, Episodes
<1>2. Kinds \in SUBSET JobKinds
  BY ConstantsOK DEF JobKinds
<1>3. \E id \in [Kinds -> JobIds] : Insert(id, eps)
  BY Zenon DEF Append
<1>4. eps \in SUBSET Episodes
  BY <1>1
<1> HIDE DEF eps
<1>5. JobsAdded(eps)
  BY <1>2, <1>3, <1>4, InsertEffect
<1> QED
  BY <1>1, <1>5 DEF eps

\* Enqueue inserts the job it has read the episodes for, or nothing.
LEMMA EnqueueEffect ==
    ASSUME TypeOK, BackfillEnqueue
    PROVE  JobsAdded(bf.eps) /\ (scope \/ jobs' = jobs)
<1>1. /\ jobs \in [JobIds -> JobRows] /\ applied \in [JobIds -> Nat]
      /\ bf \in [kind : JobKinds, eps : SUBSET Episodes]
  BY TypeOKDef
<1>2. CASE jobs' = jobs /\ applied' = applied
  BY <1>1, <1>2 DEF JobsAdded
<1>3. CASE scope /\ \E j \in JobIds : Insert([k \in {bf.kind} |-> j], bf.eps)
  <2>1. PICK j \in JobIds : Insert([k \in {bf.kind} |-> j], bf.eps)
    BY <1>3
  <2>2. {bf.kind} \in SUBSET JobKinds /\ bf.eps \in SUBSET Episodes
    BY <1>1
  <2> DEFINE id == [k \in {bf.kind} |-> j]
  <2>3. id \in [{bf.kind} -> JobIds]
    OBVIOUS
  <2>4. Insert(id, bf.eps)
    BY <2>1
  <2> HIDE DEF id
  <2> QED
    BY <1>3, <2>2, <2>3, <2>4, InsertEffect
<1> QED
  BY <1>2, <1>3 DEF BackfillEnqueue

-----------------------------------------------------------------------------
(* What the statements of an erasure do to it *)

\* ForgetFacts takes the facts that stand on an episode it is about.
LEMMA FactsEffect ==
    ASSUME TypeOK, ForgetFacts
    PROVE  /\ fg' \in Forgets /\ fg'.at = "marks" /\ fg'.facts = {c \in Claims : Hit(fact[c]) # {}}
           /\ fg'.whole = fg.whole /\ fg'.eps = fg.eps
           /\ fg'.marks = fg.marks /\ fg'.encs = fg.encs /\ fg'.log = fg.log
<1> DEFINE rows == {c \in Claims : Hit(fact[c]) # {}}
<1>1. fg \in Forgets
  BY TypeOKDef
<1>2. rows \in SUBSET Claims
  OBVIOUS
<1>3. fg' = [[fg EXCEPT !.facts = rows] EXCEPT !.at = "marks"]
  BY Zenon DEF ForgetFacts, Delete
<1> HIDE DEF rows
<1>4. [fg EXCEPT !.facts = rows] \in Forgets
  BY <1>1, <1>2 DEF Forgets
<1> QED
  BY <1>1, <1>2, <1>3, <1>4 DEF Forgets, ForgetStates, rows

\* ForgetMarks takes the markers of the episodes it is about.
LEMMA MarksEffect ==
    ASSUME TypeOK, ForgetMarks
    PROVE  /\ fg' \in Forgets /\ fg'.at = "encs" /\ fg'.marks = Hit(marks)
           /\ fg'.whole = fg.whole /\ fg'.eps = fg.eps
           /\ fg'.encs = fg.encs /\ fg'.log = fg.log
<1> DEFINE rows == Hit(marks)
<1>1. fg \in Forgets
  BY TypeOKDef
<1>2. rows \in SUBSET Episodes
  BY DEF TypeOK, Hit
<1>3. fg' = [[fg EXCEPT !.marks = rows] EXCEPT !.at = "encs"]
  BY Zenon DEF ForgetMarks, Delete
<1> HIDE DEF rows
<1>4. [fg EXCEPT !.marks = rows] \in Forgets
  BY <1>1, <1>2 DEF Forgets
<1> QED
  BY <1>1, <1>2, <1>3, <1>4 DEF Forgets, ForgetStates, rows

\* ForgetEncodings takes their encodings.
LEMMA EncodingsEffect ==
    ASSUME TypeOK, ForgetEncodings
    PROVE  /\ fg' \in Forgets /\ fg'.at = "jobs" /\ fg'.encs = Hit(encs)
           /\ fg'.whole = fg.whole /\ fg'.eps = fg.eps
           /\ fg'.marks = fg.marks /\ fg'.log = fg.log
<1> DEFINE rows == Hit(encs)
<1>1. fg \in Forgets
  BY TypeOKDef
<1>2. rows \in SUBSET Episodes
  BY DEF TypeOK, Hit
<1>3. fg' = [[fg EXCEPT !.encs = rows] EXCEPT !.at = "jobs"]
  BY Zenon DEF ForgetEncodings, Delete
<1> HIDE DEF rows
<1>4. [fg EXCEPT !.encs = rows] \in Forgets
  BY <1>1, <1>2 DEF Forgets
<1> QED
  BY <1>1, <1>2, <1>3, <1>4 DEF Forgets, ForgetStates, rows

\* ForgetJobs takes the jobs that name one of them.
LEMMA JobsEffect ==
    ASSUME TypeOK, ForgetJobs
    PROVE  /\ fg' \in Forgets /\ fg'.at = "log" /\ fg'.jobs = {j \in JobIds : Hit(jobs[j].eps) # {}}
           /\ fg'.whole = fg.whole /\ fg'.eps = fg.eps
           /\ fg'.marks = fg.marks /\ fg'.encs = fg.encs /\ fg'.log = fg.log
<1> DEFINE rows == {j \in JobIds : Hit(jobs[j].eps) # {}}
<1>1. fg \in Forgets
  BY TypeOKDef
<1>2. rows \in SUBSET JobIds
  OBVIOUS
<1>3. fg' = [[fg EXCEPT !.jobs = rows] EXCEPT !.at = "log"]
  BY Zenon DEF ForgetJobs, Delete
<1> HIDE DEF rows
<1>4. [fg EXCEPT !.jobs = rows] \in Forgets
  BY <1>1, <1>2 DEF Forgets
<1> QED
  BY <1>1, <1>2, <1>3, <1>4 DEF Forgets, ForgetStates, rows

\* The DELETE of the episodes takes those in the log.
LEMMA EpisodesEffect ==
    ASSUME TypeOK, Delete("log", "log", Hit(log), "commit")
    PROVE  /\ fg' \in Forgets /\ fg'.at = "commit" /\ fg'.log = Hit(log)
           /\ fg'.whole = fg.whole /\ fg'.eps = fg.eps
           /\ fg'.marks = fg.marks /\ fg'.encs = fg.encs
<1> DEFINE rows == Hit(log)
<1>1. fg \in Forgets
  BY TypeOKDef
<1>2. rows \in SUBSET Episodes
  BY DEF TypeOK, Hit
<1>3. fg' = [[fg EXCEPT !.log = rows] EXCEPT !.at = "commit"]
  BY Zenon DEF Delete
<1> HIDE DEF rows
<1>4. [fg EXCEPT !.log = rows] \in Forgets
  BY <1>1, <1>2 DEF Forgets
<1> QED
  BY <1>1, <1>2, <1>3, <1>4 DEF Forgets, ForgetStates, rows

-----------------------------------------------------------------------------
(* Type correctness, step by step.  Engaged is needed where a worker writes to *)
(* the row of its job.                                                          *)

\* A rolled back erasure, and one that begins, are erasures.
LEMMA ForgetTypes ==
    /\ NoForget \in Forgets /\ NoForget.at = "none" /\ NoForget.whole = FALSE
    /\ NoForget.marks = {} /\ NoForget.encs = {} /\ NoForget.log = {}
    /\ \A w \in BOOLEAN, eps \in SUBSET Episodes :
          LET b == [NoForget EXCEPT !.at = "facts", !.whole = w, !.eps = eps] IN
          /\ b \in Forgets /\ b.at = "facts" /\ b.whole = w /\ b.eps = eps
          /\ b.marks = {} /\ b.encs = {} /\ b.log = {}
  BY DEF NoForget, Forgets, ForgetStates

\* A worker's own step keeps the types.
LEMMA WorkerType ==
    ASSUME TypeOK, Engaged, NEW r \in Runners, Step(r) \/ ModelFails(r) \/ Refused(r) \/ Crash(r)
    PROVE  TypeOK'
<1>1. /\ run \in [Runners -> Runs] /\ jobs \in [JobIds -> JobRows] /\ troubles \in 0 .. MaxTroubles
      /\ refused \subseteq Episodes
      /\ log \subseteq Episodes /\ encs \subseteq Episodes /\ marks \subseteq Episodes
      /\ fact \in [Claims -> SUBSET Episodes] /\ applied \in [JobIds -> Nat]
  BY TypeOKDef
<1>2. run[r].at # "idle" => run[r].job \in JobIds
  BY DEF Engaged
<1>3. /\ run[r] \in Runs /\ run[r].todo \in SUBSET Episodes /\ run[r].new \in SUBSET Episodes
  BY <1>1 DEF Runs
<1>4. CASE \E j \in JobIds : Take(r, j)
  <2> PICK j \in JobIds : Take(r, j)
    BY <1>4
  <2>1. jobs' \in [JobIds -> JobRows] /\ run' \in [Runners -> Runs]
    BY TakeEffect DEF JobsKept
  <2>2. UNCHANGED <<dataVars, idVars, fg, bf, troubles, ghostVars>>
    BY DEF Take
  <2> QED
    BY <2>1, <2>2, TypeOKDef DEF TypeOK, ghostVars, dataVars, idVars, Runs, RunStates, JobRows, JobKinds
<1>5. CASE Read(r)
  <2> DEFINE at == IF run[r].todo \subseteq log
                   THEN IF run[r].kind = "encode" THEN "put" ELSE "mark" ELSE "fail"
  <2>1. at \in RunStates /\ GoTo(r, at)
    BY <1>5 DEF Read, RunStates
  <2>2. run' \in [Runners -> Runs]
    BY <1>1, <2>1, GoToEffect
  <2> QED
    BY <1>5, <2>2 DEF Read, TypeOK, ghostVars, dataVars, idVars, Runs, RunStates, JobKinds
<1>6. CASE ModelFails(r)
  <2>1. run' \in [Runners -> Runs]
    BY <1>1, <1>6, GoToEffect DEF ModelFails, RunStates
  <2>2. troubles' \in 0 .. MaxTroubles
    BY <1>1, <1>6, ConstantsOK DEF ModelFails
  <2> QED
    BY <1>6, <2>1, <2>2 DEF ModelFails, TypeOK, ghostVars, dataVars, idVars, Runs, RunStates, JobKinds
<1>7. CASE \E e \in Episodes : PutEncoding(r, e)
  <2> PICK e \in Episodes : PutEncoding(r, e)
    BY <1>7
  <2> DEFINE at == IF run[r].todo = {e} THEN "ok" ELSE "put"
  <2>1. run' \in [Runners -> Runs] /\ encs' \in SUBSET Episodes
    <3>1. CASE e \in log
      <4>1. SetTodo(r, at, run[r].todo \ {e}) /\ encs' = encs \cup {e}
        BY <3>1 DEF PutEncoding, SetTodo
      <4>2. at \in RunStates /\ run[r].todo \ {e} \in SUBSET Episodes
        BY <1>3 DEF RunStates
      <4> HIDE DEF at
      <4> QED
        BY <1>1, <4>1, <4>2, TodoEffect
    <3>2. CASE e \notin log
      <4>1. GoTo(r, "fail") /\ encs' = encs /\ "fail" \in RunStates
        BY <3>2 DEF PutEncoding, RunStates
      <4> QED
        BY <1>1, <4>1, GoToEffect
    <3> QED
      BY <3>1, <3>2
  <2>2. UNCHANGED <<scope, log, marks, fact, jobs, idVars, fg, bf, troubles, ghostVars>>
    BY DEF PutEncoding
  <2> QED
    BY <2>1, <2>2 DEF TypeOK, ghostVars, idVars, Runs, RunStates, JobKinds
<1>8. CASE Mark(r)
  <2> DEFINE at == IF run[r].todo \subseteq marks THEN "ok" ELSE "write"
  <2>1. CASE run[r].todo \subseteq log
    <3>1. SetNew(r, at, run[r].todo \ marks)
      BY <1>8, <2>1 DEF Mark, SetNew
    <3>2. at \in RunStates /\ run[r].todo \ marks \in SUBSET Episodes
      BY <1>3 DEF RunStates
    <3> HIDE DEF at
    <3>3. run' \in [Runners -> Runs]
      BY <1>1, <3>1, <3>2, MarkerEffect
    <3> QED
      BY <1>8, <3>3 DEF Mark, TypeOK, ghostVars, dataVars, idVars, Runs, RunStates, JobKinds
  <2>2. CASE ~(run[r].todo \subseteq log)
    <3>1. GoTo(r, "fail") /\ "fail" \in RunStates
      BY <1>8, <2>2 DEF Mark, RunStates
    <3>2. run' \in [Runners -> Runs]
      BY <1>1, <3>1, GoToEffect
    <3> QED
      BY <1>8, <3>2 DEF Mark, TypeOK, ghostVars, dataVars, idVars, Runs, RunStates, JobKinds
  <2> QED
    BY <2>1, <2>2
<1>9. CASE Write(r)
  <2>1. run' \in [Runners -> Runs]
    <3>1. SetNew(r, "ok", {})
          /\ "ok" \in RunStates /\ {} \in SUBSET Episodes
      BY <1>9 DEF Write, RunStates, SetNew
    <3> QED
      BY <1>1, <3>1, MarkerEffect
  <2>2. marks' \in SUBSET Episodes
    BY <1>1, <1>3, <1>9 DEF Write
  <2>3. fact' \in [Claims -> SUBSET Episodes]
    BY <1>1, <1>3, <1>9 DEF Write
  <2>4. applied' \in [JobIds -> Nat]
    BY <1>1, <1>2, <1>9 DEF Write, At
  <2> QED
    BY <1>9, <2>1, <2>2, <2>3, <2>4 DEF Write, TypeOK, ghostVars, idVars, Runs, RunStates, JobKinds
<1>10. CASE Succeed(r)
  <2>1. run' \in [Runners -> Runs]
    BY <1>1, <1>10, IdleIsRun DEF Succeed
  <2>2. jobs' \in [JobIds -> JobRows]
    BY <1>2, <1>10, SucceedEffect DEF Succeed, JobsKept, At
  <2> QED
    BY <1>10, <2>1, <2>2 DEF Succeed, TypeOK, ghostVars, dataVars, idVars, Runs, RunStates, JobRows, JobKinds
<1>11. CASE Fail(r)
  <2>1. run' \in [Runners -> Runs]
    BY <1>1, <1>11, IdleIsRun DEF Fail
  <2>2. jobs' \in [JobIds -> JobRows]
    BY <1>2, <1>11, ReleaseEffect DEF Fail, JobsKept, At
  <2> QED
    BY <1>11, <2>1, <2>2 DEF Fail, TypeOK, ghostVars, dataVars, idVars, Runs, RunStates, JobRows, JobKinds
<1>12. CASE Crash(r)
  <2>1. run' \in [Runners -> Runs]
    BY <1>1, <1>12, IdleIsRun DEF Crash
  <2>2. troubles' \in 0 .. MaxTroubles
    BY <1>1, <1>12, ConstantsOK DEF Crash
  <2> QED
    BY <1>12, <2>1, <2>2 DEF Crash, TypeOK, ghostVars, dataVars, idVars, Runs, RunStates, JobKinds
<1>13. CASE Refused(r)
  <2>1. SetNew(r, "fail", {}) /\ "fail" \in RunStates /\ {} \in SUBSET Episodes
    BY <1>13 DEF Refused, RunStates, SetNew
  <2>2. run' \in [Runners -> Runs]
    BY <1>1, <2>1, MarkerEffect
  <2>3. troubles' \in 0 .. MaxTroubles
    BY <1>1, <1>13, ConstantsOK DEF Refused
  <2>4. refused' \subseteq Episodes
    BY <1>1, <1>3, <1>13 DEF Refused
  <2> QED
    BY <1>13, <2>2, <2>3, <2>4 DEF Refused, TypeOK, dataVars, idVars, Runs, RunStates, JobKinds
<1> QED
  BY <1>4, <1>5, <1>6, <1>7, <1>8, <1>9, <1>10, <1>11, <1>12, <1>13 DEF Step

\* An erasure's step keeps the types.
LEMMA ErasureType ==
    ASSUME TypeOK, \/ Erase \/ ForgetInterrupted \/ Rollback
                   \/ \E w \in BOOLEAN, eps \in SUBSET Episodes : ForgetBegin(w, eps)
    PROVE  TypeOK'
<1>1. /\ fg \in Forgets /\ troubles \in 0 .. MaxTroubles /\ partial \in BOOLEAN
      /\ log \subseteq Episodes /\ encs \subseteq Episodes /\ marks \subseteq Episodes
      /\ fact \in [Claims -> SUBSET Episodes] /\ jobs \in [JobIds -> JobRows] /\ scope \in BOOLEAN
  BY TypeOKDef
<1>2. ASSUME fg' \in Forgets, troubles' \in 0 .. MaxTroubles, partial' \in BOOLEAN,
             UNCHANGED <<dataVars, jobs, idVars, run, bf, applied, refused>>
      PROVE  TypeOK'
  BY <1>2 DEF TypeOK, ghostVars, dataVars, idVars, Forgets, ForgetStates
<1>3. CASE Rollback
  BY <1>1, <1>2, <1>3, ForgetTypes DEF Rollback, ghostVars
<1>4. CASE ForgetInterrupted
  BY <1>3, <1>4 DEF ForgetInterrupted
<1>5. CASE \E w \in BOOLEAN, eps \in SUBSET Episodes : ForgetBegin(w, eps)
  <2> PICK w \in BOOLEAN, eps \in SUBSET Episodes : ForgetBegin(w, eps)
    BY <1>5
  <2>1. troubles' \in 0 .. MaxTroubles
    <3>1. troubles < MaxTroubles /\ troubles' = troubles + 1
      BY DEF ForgetBegin
    <3> QED
      BY <1>1, <3>1, ConstantsOK
  <2>2. fg' \in Forgets
    BY ForgetTypes DEF ForgetBegin
  <2>3. partial' \in BOOLEAN
    BY Zenon DEF ForgetBegin
  <2>4. UNCHANGED <<dataVars, jobs, idVars, run, bf, applied, refused>>
    BY Zenon DEF ForgetBegin
  <2> QED
    BY <1>2, <2>1, <2>2, <2>3, <2>4
<1>6. CASE ForgetFacts
  BY <1>1, <1>2, <1>6, FactsEffect DEF ForgetFacts, Delete, ghostVars
<1>7. CASE ForgetMarks
  BY <1>1, <1>2, <1>7, MarksEffect DEF ForgetMarks, Delete, ghostVars
<1>8. CASE ForgetEncodings
  BY <1>1, <1>2, <1>8, EncodingsEffect DEF ForgetEncodings, Delete, ghostVars
<1>9. CASE ForgetJobs
  BY <1>1, <1>2, <1>9, JobsEffect DEF ForgetJobs, Delete, ghostVars
<1>10. CASE ForgetEpisodes
  <2>1. CASE Delete("log", "log", Hit(log), "commit")
    BY <1>1, <1>2, <2>1, EpisodesEffect DEF Delete, ghostVars
  <2> QED
    BY <1>3, <1>10, <2>1 DEF ForgetEpisodes
<1>11. CASE ForgetCommit
  <2>1. CASE Rollback
    BY <1>3, <2>1
  <2>2. CASE /\ scope' = (scope /\ ~fg.whole)
             /\ log' = log \ fg.log
             /\ marks' = marks \ fg.marks
             /\ encs' = encs \ fg.encs
             /\ fact' = FactsLeft
             /\ jobs' = JobsLeft
             /\ fg' = NoForget
             /\ UNCHANGED <<idVars, run, bf, troubles, ghostVars>>
    <3>1. scope' \in BOOLEAN
      BY <2>2, Zenon
    <3>2. fact' \in [Claims -> SUBSET Episodes]
      BY <1>1, <2>2 DEF FactsLeft
    <3>3. NoJob \in JobRows
      BY ConstantsOK DEF NoJob, JobRows, JobKinds
    <3>4. jobs' \in [JobIds -> JobRows]
      BY <1>1, <2>2, <3>3 DEF JobsLeft
    <3>5. fg' \in Forgets
      BY <2>2, ForgetTypes
    <3>6. log' \subseteq Episodes /\ marks' \subseteq Episodes /\ encs' \subseteq Episodes
      BY <1>1, <2>2
    <3> QED
      BY <2>2, <3>1, <3>2, <3>4, <3>5, <3>6
      DEF TypeOK, ghostVars, idVars, Forgets, ForgetStates, JobRows, JobKinds
  <2> QED
    BY <1>11, <2>1, <2>2 DEF ForgetCommit
<1> QED
  BY <1>3, <1>4, <1>5, <1>6, <1>7, <1>8, <1>9, <1>10, <1>11 DEF Erase

\* An erasure names episodes that were appended.
LEMMA PastEpisodes ==
    ASSUME TypeOK
    PROVE  SUBSET (1 .. nextEp - 1) \subseteq SUBSET Episodes
<1>1. 1 .. nextEp - 1 \subseteq Episodes
  BY ConstantsOK DEF TypeOK, Episodes
<1> QED
  BY <1>1

\* Every step keeps the types.
LEMMA TypeStep ==
    ASSUME TypeOK, Engaged, Next
    PROVE  TypeOK'
<1>1. /\ run \in [Runners -> Runs] /\ jobs \in [JobIds -> JobRows]
      /\ log \subseteq Episodes /\ encs \subseteq Episodes /\ marks \subseteq Episodes
  BY TypeOKDef
<1>2. CASE \E n \in 1 .. MaxBatch : Append(n)
  <2> PICK n \in 1 .. MaxBatch : Append(n)
    BY <1>2
  <2>1. /\ nextEp' \in 1 .. MaxEpisodes + 1 /\ applied' \in [JobIds -> Nat]
        /\ log' \subseteq Episodes /\ jobs' \in [JobIds -> JobRows]
    BY <1>1, AppendEffect DEF JobsAdded
  <2>2. scope' = TRUE /\ UNCHANGED <<encs, marks, fact, run, fg, bf, troubles, refused, partial>>
    BY DEF Append
  <2> QED
    BY <2>1, <2>2 DEF TypeOK, JobRows, JobKinds
<1>3. CASE \E kind \in Kinds : BackfillRead(kind)
  <2> PICK kind \in Kinds : BackfillRead(kind)
    BY <1>3
  <2>1. bf' \in [kind : JobKinds, eps : SUBSET Episodes]
    BY <1>1, ConstantsOK DEF BackfillRead, Batch, Pending, JobKinds
  <2> QED
    BY <2>1 DEF BackfillRead, TypeOK, ghostVars, JobKinds
<1>4. CASE BackfillEnqueue
  <2>1. bf' \in [kind : JobKinds, eps : SUBSET Episodes]
    BY <1>4 DEF BackfillEnqueue, NoBackfill, JobKinds
  <2>2. applied' \in [JobIds -> Nat] /\ jobs' \in [JobIds -> JobRows]
    BY <1>4, EnqueueEffect DEF JobsAdded
  <2> QED
    BY <1>4, <2>1, <2>2 DEF BackfillEnqueue, TypeOK, JobRows, JobKinds
<1>5. CASE \E j \in JobIds : Reclaim(j)
  <2> PICK j \in JobIds : Reclaim(j)
    BY <1>5
  <2>1. jobs' \in [JobIds -> JobRows]
    BY ReleaseEffect DEF Reclaim, JobsKept
  <2> QED
    BY <2>1 DEF Reclaim, TypeOK, ghostVars, dataVars, idVars, JobRows, JobKinds
<1>6. CASE \E r \in Runners : Step(r) \/ ModelFails(r) \/ Refused(r) \/ Crash(r)
  BY <1>6, WorkerType
<1>7. CASE DeadlockResolved
  <2> PICK r \in Runners : DeadlockAbortsRunner(r) \/ DeadlockAbortsForget(r)
    BY <1>7 DEF DeadlockResolved
  <2>1. CASE DeadlockAbortsRunner(r)
    <3>1. /\ SetNew(r, "fail", {})
          /\ "fail" \in RunStates /\ {} \in SUBSET Episodes
      BY <2>1 DEF DeadlockAbortsRunner, RunStates, SetNew
    <3>2. run' \in [Runners -> Runs]
      BY <1>1, <3>1, MarkerEffect
    <3> QED
      BY <2>1, <3>2 DEF DeadlockAbortsRunner, TypeOK, ghostVars, dataVars, idVars, Runs, RunStates, JobKinds
  <2>2. CASE DeadlockAbortsForget(r)
    BY <2>2, ErasureType DEF DeadlockAbortsForget
  <2> QED
    BY <2>1, <2>2
<1>8. CASE ForgetBegin(TRUE, {})
  <2>1. \E w \in BOOLEAN, eps \in SUBSET Episodes : ForgetBegin(w, eps)
    BY <1>8
  <2> QED
    BY <2>1, ErasureType
<1>9. CASE \E eps \in SUBSET (1 .. nextEp - 1) \ {{}} : ForgetBegin(FALSE, eps)
  <2>1. \E w \in BOOLEAN, eps \in SUBSET Episodes : ForgetBegin(w, eps)
    BY <1>9, PastEpisodes
  <2> QED
    BY <2>1, ErasureType
<1>10. CASE Erase
  BY <1>10, ErasureType
<1>11. CASE ForgetInterrupted
  BY <1>11, ErasureType
<1> QED
  BY <1>2, <1>3, <1>4, <1>5, <1>6, <1>7, <1>8, <1>9, <1>10, <1>11 DEF Next, Backfill

-----------------------------------------------------------------------------
(* Steps of one worker.  Whatever the step, the other parts of the invariant *)
(* need only what it does to that worker's record and to its job.            *)

\* The tables, the erasure and the counters a step of a worker leaves alone.
Frame == UNCHANGED <<dataVars, idVars, fg, bf, applied>>

\* A worker that stays with its job and its batch, having established what
\* Progress and Marking ask of its new state, keeps the invariant.
LEMMA StaysWithJob ==
    ASSUME IInv, TypeOK', NEW r \in Runners, Frame, jobs' = jobs,
           run[r].at # "idle", run'[r].at # "idle",
           run'[r].job = run[r].job, run'[r].kind = run[r].kind, run'[r].todo = run[r].todo,
           \A x \in Runners : x # r => run'[x] = run[x],
           run'[r].at = "put" => run[r].kind = "encode",
           run'[r].at \in {"mark", "write"} => run[r].kind # "encode",
           run'[r].at = "ok" => run[r].kind # "encode" /\ run[r].todo \cap log \subseteq marks,
           run'[r].at = "write" => run[r].todo \cap log \subseteq marks \cup run'[r].new,
           run'[r].at = "write" <=> run'[r].new # {},
           run'[r].new \subseteq (log \cap run[r].todo) \ marks,
           \A x \in Runners : x # r => run[x].new \cap run'[r].new = {},
           run'[r].new \cap fg.log = {}
    PROVE  IInv'
<1>1. /\ scope' = scope /\ log' = log /\ encs' = encs /\ marks' = marks /\ fact' = fact
      /\ nextEp' = nextEp /\ fg' = fg /\ bf' = bf /\ applied' = applied
  BY DEF Frame, dataVars, idVars
<1>2. Fresh'
  BY <1>1 DEF IInv, Fresh, Past
<1>3. Engaged'
  BY <1>1 DEF IInv, Engaged, Follows
<1>4. Progress'
  BY <1>1 DEF IInv, Progress
<1>5. Marking'
  BY <1>1 DEF IInv, Marking
<1>6. SameBatch'
  BY <1>1 DEF IInv, SameBatch
<1>7. OnceApplied'
  BY <1>1 DEF IInv, OnceApplied
<1>8. Erasing'
  BY <1>1 DEF IInv, Erasing, Hit
<1>9. NothingOutlivesItsSource' /\ DoneMeansProjected'
  BY <1>1 DEF IInv, NothingOutlivesItsSource, DoneMeansProjected, Projected
<1> QED
  BY <1>2, <1>3, <1>4, <1>5, <1>6, <1>7, <1>8, <1>9 DEF IInv

\* A worker that lets go of its job, whose rows keep their episodes, keeps the
\* invariant as long as a job that becomes done has been projected.
LEMMA LetsGo ==
    ASSUME IInv, TypeOK', NEW r \in Runners, Frame, JobsKept,
           run'[r] = Idle, \A x \in Runners : x # r => run'[x] = run[x],
           \A j \in JobIds : jobs'[j].state = "done" =>
               jobs[j].eps \cap log \subseteq Projected(jobs[j].kind)
    PROVE  IInv'
<1>1. /\ scope' = scope /\ log' = log /\ encs' = encs /\ marks' = marks /\ fact' = fact
      /\ nextEp' = nextEp /\ fg' = fg /\ bf' = bf /\ applied' = applied
  BY DEF Frame, dataVars, idVars
<1>2. run'[r].at = "idle" /\ run'[r].todo = {} /\ run'[r].new = {}
  BY DEF Idle
<1>3. \A j \in JobIds : /\ jobs'[j].kind = jobs[j].kind /\ jobs'[j].eps = jobs[j].eps
                        /\ jobs[j] = NoJob => jobs'[j] = NoJob
  BY DEF JobsKept
<1>4. Fresh'
  BY <1>1, <1>2, <1>3 DEF IInv, Fresh, Past
<1>5. Engaged'
  BY <1>1, <1>2, <1>3 DEF IInv, Engaged, Follows
<1>6. Progress'
  BY <1>1, <1>2 DEF IInv, Progress
<1>7. Marking'
  BY <1>1, <1>2 DEF IInv, Marking
<1>8. SameBatch'
  BY <1>1, <1>2 DEF IInv, SameBatch
<1>9. OnceApplied'
  BY <1>1, <1>2, <1>3 DEF IInv, OnceApplied
<1>10. Erasing'
  BY <1>1, <1>2 DEF IInv, Erasing, Hit
<1>11. NothingOutlivesItsSource'
  BY <1>1, <1>3 DEF IInv, NothingOutlivesItsSource
<1>12. DoneMeansProjected'
  BY <1>1, <1>3 DEF DoneMeansProjected, Projected
<1> QED
  BY <1>4, <1>5, <1>6, <1>7, <1>8, <1>9, <1>10, <1>11, <1>12 DEF IInv

\* A worker that leases an owed job takes all its episodes, as do the others
\* still working on it.
LEMMA TakeKeeps ==
    ASSUME IInv, TypeOK', NEW r \in Runners, NEW j \in JobIds, Take(r, j)
    PROVE  IInv'
<1> TypeOK
  BY DEF IInv
<1>1. /\ scope' = scope /\ log' = log /\ encs' = encs /\ marks' = marks /\ fact' = fact
      /\ nextEp' = nextEp /\ fg' = fg /\ bf' = bf /\ applied' = applied
  BY DEF Take, dataVars, idVars, ghostVars
<1>2. /\ run'[r].at = "read" /\ run'[r].job = j /\ run'[r].kind = jobs[j].kind
      /\ run'[r].todo = jobs[j].eps /\ run'[r].new = {}
      /\ \A x \in Runners : x # r => run'[x] = run[x]
  <2>1. run'[r] = Leased(j) /\ \A x \in Runners : x # r => run'[x] = run[x]
    BY TakeEffect
  <2> QED
    BY <2>1 DEF Leased
<1>3. \A i \in JobIds : /\ jobs'[i].kind = jobs[i].kind /\ jobs'[i].eps = jobs[i].eps
                        /\ jobs'[i].state = jobs[i].state
                        /\ jobs[i] = NoJob => jobs'[i] = NoJob
  BY TakeEffect DEF JobsKept
<1>4. jobs[j] # NoJob
  BY TakeEffect
<1>6. Fresh'
  BY <1>1, <1>2, <1>3 DEF IInv, Fresh, Past
<1>7. Engaged'
  BY <1>1, <1>2, <1>3 DEF IInv, Engaged, Follows
<1>8. Progress'
  BY <1>1, <1>2 DEF IInv, Progress
<1>9. Marking'
  BY <1>1, <1>2 DEF IInv, Marking
<1>10. SameBatch'
  <2>1. \A q \in Runners : run[q].at # "idle" /\ run[q].job = j =>
           jobs[j].kind = run[q].kind /\ (run[q].kind # "encode" => jobs[j].eps = run[q].todo)
    BY <1>4 DEF IInv, Engaged, Follows
  <2> QED
    BY <1>2, <2>1 DEF IInv, SameBatch
<1>11. OnceApplied'
  <2>1. applied[j] # 0 => jobs[j].eps \cap log \subseteq marks
    BY DEF IInv, OnceApplied
  <2> QED
    BY <1>1, <1>2, <1>3, <2>1 DEF IInv, OnceApplied
<1>12. Erasing'
  BY <1>1, <1>2 DEF IInv, Erasing, Hit
<1>13. NothingOutlivesItsSource' /\ DoneMeansProjected'
  BY <1>1, <1>3 DEF IInv, NothingOutlivesItsSource, DoneMeansProjected, Projected
<1> QED
  BY <1>6, <1>7, <1>8, <1>9, <1>10, <1>11, <1>12, <1>13 DEF IInv

\* PutEncoding adds the encoding of one episode of the job, or fails because
\* the episode is gone.
LEMMA PutEncodingKeeps ==
    ASSUME IInv, TypeOK', NEW r \in Runners, NEW e \in Episodes, PutEncoding(r, e)
    PROVE  IInv'
<1>1. /\ scope' = scope /\ log' = log /\ marks' = marks /\ fact' = fact /\ jobs' = jobs
      /\ nextEp' = nextEp /\ fg' = fg /\ bf' = bf /\ applied' = applied
  BY DEF PutEncoding, idVars, ghostVars
<1>2. run \in [Runners -> Runs] /\ run[r].todo \in SUBSET Episodes
  BY TypeOKDef DEF IInv, Runs
<1>3. run[r].at = "put" /\ e \in run[r].todo /\ e \notin fg.encs \cup fg.log
  BY DEF PutEncoding, At
<1>4. run[r].kind = "encode" /\ run[r].new = {}
  BY <1>3 DEF IInv, Progress, Marking
<1>5. CASE e \notin log
  <2>1. GoTo(r, "fail") /\ encs' = encs /\ "fail" \in RunStates
    BY <1>5 DEF PutEncoding, RunStates
  <2>2. /\ run'[r].at = "fail" /\ run'[r].job = run[r].job /\ run'[r].kind = run[r].kind
        /\ run'[r].todo = run[r].todo /\ run'[r].new = run[r].new
        /\ \A x \in Runners : x # r => run'[x] = run[x]
    BY <1>2, <2>1, GoToEffect
  <2> QED
    BY <1>1, <1>3, <1>4, <2>1, <2>2, StaysWithJob DEF Frame, dataVars, idVars
<1>6. CASE e \in log
  <2> DEFINE at == IF run[r].todo = {e} THEN "ok" ELSE "put"
  <2>1. SetTodo(r, at, run[r].todo \ {e}) /\ encs' = encs \cup {e}
    BY <1>6 DEF PutEncoding, SetTodo
  <2>2. at \in RunStates /\ run[r].todo \ {e} \in SUBSET Episodes
    BY <1>2 DEF RunStates
  <2>3. at \in {"ok", "put"} /\ (at = "ok" => run[r].todo \ {e} = {})
    OBVIOUS
  <2> HIDE DEF at
  <2>4. /\ run'[r].at = at /\ run'[r].job = run[r].job /\ run'[r].kind = "encode"
        /\ run'[r].todo = run[r].todo \ {e} /\ run'[r].new = {}
        /\ \A x \in Runners : x # r => run'[x] = run[x]
    BY <1>2, <1>4, <2>1, <2>2, TodoEffect
  <2>5. Fresh'
    BY <1>1, <2>4 DEF IInv, Fresh, Past
  <2>6. Engaged'
    <3>1. ASSUME NEW x \in Runners, run'[x].at # "idle"
          PROVE  /\ run'[x].job \in JobIds
                 /\ jobs[run'[x].job] = NoJob \/ Follows(x, jobs[run[x].job])'
      <4>1. /\ run'[x].job = run[x].job /\ run[x].at # "idle"
            /\ run[x].job \in JobIds
            /\ jobs[run[x].job] = NoJob \/ Follows(x, jobs[run[x].job])
        BY <1>3, <2>4, <3>1 DEF IInv, Engaged
      <4>2. CASE x = r
        BY <1>1, <1>4, <2>1, <2>4, <4>1, <4>2 DEF Follows
      <4>3. CASE x # r
        BY <1>1, <2>1, <2>4, <4>1, <4>3 DEF Follows
      <4> QED
        BY <4>1, <4>2, <4>3
    <3>2. \A x \in Runners : run'[x].at # "idle" => run'[x].job = run[x].job
      BY <2>4
    <3> QED
      BY <1>1, <3>1, <3>2, Zenon DEF Engaged
  <2>7. Progress'
    BY <1>1, <2>3, <2>4 DEF IInv, Progress
  <2>8. Marking'
    BY <1>1, <1>4, <2>3, <2>4 DEF IInv, Marking
  <2>9. SameBatch'
    BY <1>3, <1>4, <2>3, <2>4 DEF IInv, SameBatch
  <2>10. OnceApplied'
    BY <1>1, <1>3, <2>4 DEF IInv, OnceApplied
  <2>11. Erasing'
    BY <1>1, <1>3, <2>1, <2>4 DEF IInv, Erasing, Hit
  <2>12. NothingOutlivesItsSource' /\ DoneMeansProjected'
    BY <1>1, <1>6, <2>1 DEF IInv, NothingOutlivesItsSource, DoneMeansProjected, Projected
  <2> QED
    BY <2>5, <2>6, <2>7, <2>8, <2>9, <2>10, <2>11, <2>12 DEF IInv
<1> QED
  BY <1>5, <1>6

\* The commit of an extraction: the first one for its job, and all its markers
\* belong to episodes that exist and that the erasure in flight does not take.
LEMMA WriteKeeps ==
    ASSUME IInv, TypeOK', NEW r \in Runners, Write(r)
    PROVE  IInv'
<1>1. /\ scope' = scope /\ log' = log /\ encs' = encs /\ jobs' = jobs
      /\ nextEp' = nextEp /\ fg' = fg /\ bf' = bf
      /\ marks' = marks \cup run[r].new
  BY DEF Write, idVars
<1>2. run \in [Runners -> Runs] /\ applied \in [JobIds -> Nat]
  BY TypeOKDef DEF IInv
<1>3. run[r].at = "write"
  BY DEF Write, At
<1>4. /\ run'[r].at = "ok" /\ run'[r].job = run[r].job /\ run'[r].kind = run[r].kind
      /\ run'[r].todo = run[r].todo /\ run'[r].new = {}
      /\ \A x \in Runners : x # r => run'[x] = run[x]
  <2>1. SetNew(r, "ok", {})
        /\ "ok" \in RunStates /\ {} \in SUBSET Episodes
    BY DEF Write, RunStates, SetNew
  <2> QED
    BY <1>2, <2>1, MarkerEffect
<1>5. /\ run[r].new # {} /\ run[r].new \subseteq (log \cap run[r].todo) \ marks
      /\ run[r].todo \cap log \subseteq marks \cup run[r].new /\ run[r].kind # "encode"
      /\ run[r].job \in JobIds
      /\ jobs[run[r].job] = NoJob \/ jobs[run[r].job].eps = run[r].todo
  BY <1>3 DEF IInv, Marking, Progress, Engaged, Follows
<1>6. applied[run[r].job] = 0
  BY <1>3, <1>5 DEF IInv, OnceApplied
<1>7. applied' = [applied EXCEPT ![run[r].job] = 1]
  BY <1>2, <1>5, <1>6 DEF Write
<1>8. Fresh'
  BY <1>1, <1>4 DEF IInv, Fresh, Past
<1>9. Engaged'
  BY <1>1, <1>3, <1>4 DEF IInv, Engaged, Follows
<1>10. Progress'
  BY <1>1, <1>4, <1>5 DEF IInv, Progress
<1>11. Marking'
  BY <1>1, <1>4 DEF IInv, Marking
<1>12. SameBatch'
  BY <1>3, <1>4 DEF IInv, SameBatch
<1>13. OnceApplied'
  <2>1. ASSUME NEW x \in Runners, run[x].at # "idle", run[x].job = run[r].job
        PROVE  run[x].todo \cap log \subseteq marks'
    BY <1>1, <1>3, <1>5, <2>1 DEF IInv, SameBatch
  <2>2. jobs[run[r].job].eps \cap log \subseteq marks'
    BY <1>1, <1>5 DEF NoJob
  <2> QED
    BY <1>1, <1>2, <1>3, <1>4, <1>7, <2>1, <2>2 DEF IInv, OnceApplied
<1>14. Erasing'
  BY <1>1, <1>4 DEF IInv, Erasing, Hit
<1>15. NothingOutlivesItsSource'
  <2>1. scope
    BY <1>5 DEF IInv, NothingOutlivesItsSource
  <2> QED
    BY <1>1, <1>5, <2>1 DEF IInv, NothingOutlivesItsSource
<1>16. DoneMeansProjected'
  BY <1>1 DEF IInv, DoneMeansProjected, Projected
<1> QED
  BY <1>8, <1>9, <1>10, <1>11, <1>12, <1>13, <1>14, <1>15, <1>16 DEF IInv

\* Every step of a worker keeps the invariant.
LEMMA WorkerKeeps ==
    ASSUME IInv, TypeOK', NEW r \in Runners, Step(r) \/ ModelFails(r) \/ Refused(r) \/ Crash(r)
    PROVE  IInv'
<1>1. run \in [Runners -> Runs] /\ run[r].todo \in SUBSET Episodes
  BY TypeOKDef DEF IInv, Runs
<1>2. TypeOK
  BY DEF IInv
<1>3. /\ run[r].at = "write" <=> run[r].new # {}
      /\ run[r].new \subseteq (log \cap run[r].todo) \ marks
      /\ run[r].new \cap fg.log = {}
      /\ \A x \in Runners : x # r => run[x].new \cap run[r].new = {}
  BY DEF IInv, Marking, Erasing
<1>4. CASE \E j \in JobIds : Take(r, j)
  BY <1>4, TakeKeeps
<1>5. CASE Read(r)
  <2> DEFINE at == IF run[r].todo \subseteq log
                   THEN IF run[r].kind = "encode" THEN "put" ELSE "mark" ELSE "fail"
  <2>1. at \in RunStates /\ GoTo(r, at) /\ run[r].at = "read"
    BY <1>5 DEF Read, RunStates, At
  <2>2. /\ at \in {"put", "mark", "fail"}
        /\ at = "put" => run[r].kind = "encode"
        /\ at = "mark" => run[r].kind # "encode"
    OBVIOUS
  <2> HIDE DEF at
  <2>3. /\ run'[r].at = at /\ run'[r].job = run[r].job /\ run'[r].kind = run[r].kind
        /\ run'[r].todo = run[r].todo /\ run'[r].new = run[r].new
        /\ \A x \in Runners : x # r => run'[x] = run[x]
    BY <1>1, <2>1, GoToEffect
  <2>4. Frame /\ jobs' = jobs
    BY <1>5 DEF Read, Frame, ghostVars
  <2> QED
    BY <1>3, <2>1, <2>2, <2>3, <2>4, StaysWithJob
<1>6. CASE ModelFails(r)
  <2>1. "fail" \in RunStates /\ GoTo(r, "fail") /\ run[r].at = "read"
    BY <1>6 DEF ModelFails, RunStates, At
  <2>2. /\ run'[r].at = "fail" /\ run'[r].job = run[r].job /\ run'[r].kind = run[r].kind
        /\ run'[r].todo = run[r].todo /\ run'[r].new = run[r].new
        /\ \A x \in Runners : x # r => run'[x] = run[x]
    BY <1>1, <2>1, GoToEffect
  <2>3. Frame /\ jobs' = jobs
    BY <1>6 DEF ModelFails, Frame, ghostVars
  <2> QED
    BY <1>3, <2>1, <2>2, <2>3, StaysWithJob
<1>7. CASE \E e \in Episodes : PutEncoding(r, e)
  BY <1>7, PutEncodingKeeps
<1>8. CASE Mark(r)
  <2>1. /\ run[r].at = "mark" /\ run[r].kind # "encode" /\ Frame /\ jobs' = jobs
        /\ run[r].todo \cap fg.log = {} /\ run[r].todo \cap Uncommitted(r) = {}
    BY <1>8 DEF Mark, At, Frame, ghostVars, IInv, Progress
  <2>2. CASE ~(run[r].todo \subseteq log)
    <3>1. "fail" \in RunStates /\ GoTo(r, "fail")
      BY <1>8, <2>2 DEF Mark, RunStates
    <3>2. /\ run'[r].at = "fail" /\ run'[r].job = run[r].job /\ run'[r].kind = run[r].kind
          /\ run'[r].todo = run[r].todo /\ run'[r].new = run[r].new
          /\ \A x \in Runners : x # r => run'[x] = run[x]
      BY <1>1, <3>1, GoToEffect
    <3> QED
      BY <1>3, <2>1, <3>2, StaysWithJob
  <2>3. CASE run[r].todo \subseteq log
    <3> DEFINE at == IF run[r].todo \subseteq marks THEN "ok" ELSE "write"
    <3>1. SetNew(r, at, run[r].todo \ marks)
      BY <1>8, <2>3 DEF Mark, SetNew
    <3>2. at \in RunStates /\ run[r].todo \ marks \in SUBSET Episodes
      BY <1>1 DEF RunStates
    <3>3. /\ at \in {"ok", "write"}
          /\ at = "ok" <=> run[r].todo \subseteq marks
          /\ at = "write" <=> run[r].todo \ marks # {}
      OBVIOUS
    <3> HIDE DEF at
    <3>4. /\ run'[r].at = at /\ run'[r].job = run[r].job /\ run'[r].kind = run[r].kind
          /\ run'[r].todo = run[r].todo /\ run'[r].new = run[r].todo \ marks
          /\ \A x \in Runners : x # r => run'[x] = run[x]
      BY <1>1, <3>1, <3>2, MarkerEffect
    <3>5. \A x \in Runners : x # r => run[x].new \cap run'[r].new = {}
      BY <2>1, <3>4 DEF Uncommitted
    <3> QED
      BY <2>1, <2>3, <3>3, <3>4, <3>5, StaysWithJob
  <2> QED
    BY <2>2, <2>3
<1>9. CASE Write(r)
  BY <1>9, WriteKeeps
<1>10. CASE Succeed(r)
  <2>1. Frame /\ run'[r] = Idle /\ (\A x \in Runners : x # r => run'[x] = run[x])
    BY <1>1, <1>10 DEF Succeed, Frame, ghostVars
  <2>2. /\ run[r].at = "ok" /\ run[r].job \in JobIds
        /\ jobs[run[r].job] = NoJob \/ Follows(r, jobs[run[r].job])
    BY <1>10 DEF Succeed, At, IInv, Engaged
  <2>3. JobsKept /\ \A i \in JobIds : i # run[r].job => jobs'[i].state = jobs[i].state
    BY <1>2, <1>10, <2>2, SucceedEffect DEF Succeed
  <2>4. jobs[run[r].job].eps \cap log \subseteq Projected(jobs[run[r].job].kind)
    BY <2>2 DEF IInv, Progress, Follows, Projected, NoJob
  <2>5. \A j \in JobIds : jobs'[j].state = "done" =>
               jobs[j].eps \cap log \subseteq Projected(jobs[j].kind)
    BY <2>3, <2>4 DEF IInv, DoneMeansProjected
  <2> QED
    BY <2>1, <2>3, <2>5, LetsGo
<1>11. CASE Fail(r)
  <2>1. Frame /\ run'[r] = Idle /\ (\A x \in Runners : x # r => run'[x] = run[x])
    BY <1>1, <1>11 DEF Fail, Frame, ghostVars
  <2>2. run[r].job \in JobIds
    BY <1>11 DEF Fail, At, IInv, Engaged
  <2>3. JobsKept /\ \A i \in JobIds : jobs'[i].state = "done" => jobs[i].state = "done"
    BY <1>2, <1>11, <2>2, ReleaseEffect DEF Fail
  <2>4. \A j \in JobIds : jobs'[j].state = "done" =>
               jobs[j].eps \cap log \subseteq Projected(jobs[j].kind)
    BY <2>3 DEF IInv, DoneMeansProjected
  <2> QED
    BY <2>1, <2>3, <2>4, LetsGo
<1>12. CASE Crash(r)
  <2>1. Frame /\ run'[r] = Idle /\ (\A x \in Runners : x # r => run'[x] = run[x]) /\ jobs' = jobs
    BY <1>1, <1>12 DEF Crash, Frame, ghostVars
  <2>2. JobsKept
    BY <2>1, <1>2, TypeOKDef DEF JobsKept
  <2>3. \A j \in JobIds : jobs'[j].state = "done" =>
               jobs[j].eps \cap log \subseteq Projected(jobs[j].kind)
    BY <2>1 DEF IInv, DoneMeansProjected
  <2> QED
    BY <2>1, <2>2, <2>3, LetsGo
<1>13. CASE Refused(r)
  <2>1. /\ SetNew(r, "fail", {}) /\ "fail" \in RunStates /\ {} \in SUBSET Episodes
        /\ run[r].at \in {"mark", "write"}
    BY <1>13 DEF Refused, RunStates, SetNew, At
  <2>2. /\ run'[r].at = "fail" /\ run'[r].job = run[r].job /\ run'[r].kind = run[r].kind
        /\ run'[r].todo = run[r].todo /\ run'[r].new = {}
        /\ \A x \in Runners : x # r => run'[x] = run[x]
    BY <1>1, <2>1, MarkerEffect
  <2>3. Frame /\ jobs' = jobs
    BY <1>13 DEF Refused, Frame, ghostVars
  <2> QED
    BY <2>1, <2>2, <2>3, StaysWithJob
<1> QED
  BY <1>4, <1>5, <1>6, <1>7, <1>8, <1>9, <1>10, <1>11, <1>12, <1>13 DEF Step

-----------------------------------------------------------------------------
(* Steps of the callers *)

\* Append: nobody has heard of the new episodes, nobody works on the rows of the
\* new jobs.
LEMMA AppendKeeps ==
    ASSUME IInv, TypeOK', NEW n \in 1 .. MaxBatch, Append(n)
    PROVE  IInv'
<1> DEFINE new == nextEp .. nextEp + n - 1
<1>1. /\ scope' = TRUE /\ encs' = encs /\ marks' = marks /\ fact' = fact /\ run' = run
      /\ fg' = fg /\ bf' = bf
  BY DEF Append
<1>2. log' = log \cup new /\ JobsAdded(new) /\ nextEp' = nextEp + n
  BY AppendEffect DEF IInv
<1>3. new \cap Past = {} /\ Past \subseteq Past' /\ new \subseteq Past'
  BY <1>2, ConstantsOK DEF Past, IInv, TypeOK
<1>4. \A j \in JobIds : \/ jobs'[j] = jobs[j] /\ applied'[j] = applied[j]
                        \/ /\ \A r \in Runners : run[r].job # j
                           /\ jobs'[j].state = "owed" /\ jobs'[j].eps = new
                           /\ applied'[j] = 0
  BY <1>2 DEF JobsAdded
<1> HIDE DEF new
<1>5. \A j \in JobIds : jobs[j].eps \cap log' = jobs[j].eps \cap log
  BY <1>2, <1>3 DEF IInv, Fresh
<1>6. Fresh'
  <2>1. log' \subseteq Past' /\ bf'.eps \subseteq Past'
    BY <1>1, <1>2, <1>3 DEF IInv, Fresh
  <2>2. \A j \in JobIds : jobs'[j].eps \subseteq Past'
    BY <1>3, <1>4 DEF IInv, Fresh
  <2>3. \A r \in Runners : run'[r].todo \subseteq Past'
    BY <1>1, <1>3 DEF IInv, Fresh
  <2> QED
    BY <2>1, <2>2, <2>3 DEF Fresh
<1>8. Engaged'
  <2>1. ASSUME NEW r \in Runners, run[r].at # "idle"
        PROVE  /\ run[r].job \in JobIds /\ jobs'[run[r].job] = jobs[run[r].job]
               /\ jobs[run[r].job] = NoJob \/ Follows(r, jobs[run[r].job])
    BY <1>4, <2>1 DEF IInv, Engaged
  <2>2. ASSUME NEW r \in Runners, run[r].at # "idle", Follows(r, jobs[run[r].job])
        PROVE  Follows(r, jobs[run[r].job])'
    BY <1>1, <1>5, <2>1, <2>2 DEF Follows
  <2> QED
    BY <1>1, <2>1, <2>2 DEF Engaged
<1>9. \A r \in Runners : run[r].todo \cap log' = run[r].todo \cap log
  BY <1>2, <1>3 DEF IInv, Fresh
<1>10. Progress'
  BY <1>1, <1>9 DEF IInv, Progress
<1>11. Marking'
  BY <1>1, <1>2 DEF IInv, Marking
<1>12. SameBatch'
  BY <1>1 DEF IInv, SameBatch
<1>13. OnceApplied'
  <2>1. ASSUME NEW j \in JobIds, applied'[j] # 0
        PROVE  /\ applied'[j] = applied[j] /\ jobs'[j] = jobs[j]
               /\ jobs[j].eps \cap log' \subseteq marks
    BY <1>4, <1>5, <2>1 DEF IInv, OnceApplied
  <2> QED
    BY <1>1, <1>9, <2>1 DEF IInv, OnceApplied
<1>14. Erasing'
  BY <1>1, <1>2 DEF IInv, Erasing, Hit
<1>15. NothingOutlivesItsSource'
  BY <1>1, <1>2 DEF IInv, NothingOutlivesItsSource
<1>16. DoneMeansProjected'
  <2>1. ASSUME NEW j \in JobIds, jobs'[j].state = "done"
        PROVE  jobs'[j] = jobs[j] /\ jobs[j].eps \cap log' = jobs[j].eps \cap log
    BY <1>4, <1>5, <2>1
  <2> QED
    BY <1>1, <2>1 DEF IInv, DoneMeansProjected, Projected
<1> QED
  BY <1>6, <1>8, <1>10, <1>11, <1>12, <1>13, <1>14, <1>15, <1>16 DEF IInv

\* A backfill reads episodes that exist.
LEMMA BackfillReadKeeps ==
    ASSUME IInv, TypeOK', NEW kind \in Kinds, BackfillRead(kind)
    PROVE  IInv'
<1>1. /\ scope' = scope /\ log' = log /\ encs' = encs /\ marks' = marks /\ fact' = fact
      /\ nextEp' = nextEp /\ fg' = fg /\ applied' = applied
      /\ run' = run /\ jobs' = jobs /\ bf'.eps \subseteq log
  BY DEF BackfillRead, Batch, Pending, ghostVars
<1>2. Fresh'
  BY <1>1 DEF IInv, Fresh, Past
<1>3. Engaged' /\ Progress' /\ Marking' /\ SameBatch' /\ OnceApplied'
  BY <1>1 DEF IInv, Engaged, Follows, Progress, Marking, SameBatch, OnceApplied
<1>4. Erasing' /\ NothingOutlivesItsSource' /\ DoneMeansProjected'
  BY <1>1 DEF IInv, Erasing, Hit, NothingOutlivesItsSource, DoneMeansProjected, Projected
<1> QED
  BY <1>2, <1>3, <1>4 DEF IInv

\* A backfill enqueues a job for episodes it has read, in a row nobody works on.
LEMMA BackfillEnqueueKeeps ==
    ASSUME IInv, TypeOK', BackfillEnqueue
    PROVE  IInv'
<1>1. /\ scope' = scope /\ log' = log /\ encs' = encs /\ marks' = marks /\ fact' = fact
      /\ nextEp' = nextEp /\ run' = run /\ fg' = fg /\ bf'.eps = {}
  BY DEF BackfillEnqueue, NoBackfill
<1>2. JobsAdded(bf.eps) /\ (scope \/ jobs' = jobs)
  BY EnqueueEffect DEF IInv
<1>3. \A j \in JobIds : \/ jobs'[j] = jobs[j] /\ applied'[j] = applied[j]
                        \/ /\ \A r \in Runners : run[r].job # j
                           /\ jobs'[j].state = "owed" /\ jobs'[j].eps = bf.eps
                           /\ applied'[j] = 0
  BY <1>2 DEF JobsAdded
<1>4. Fresh'
  <2>1. log' \subseteq Past' /\ bf'.eps \subseteq Past' /\ \A r \in Runners : run'[r].todo \subseteq Past'
    BY <1>1 DEF IInv, Fresh, Past
  <2>2. \A j \in JobIds : jobs'[j].eps \subseteq Past'
    BY <1>1, <1>3 DEF IInv, Fresh, Past
  <2> QED
    BY <2>1, <2>2 DEF Fresh
<1>5. Engaged'
  <2>1. ASSUME NEW r \in Runners, run[r].at # "idle"
        PROVE  run[r].job \in JobIds /\ jobs'[run[r].job] = jobs[run[r].job]
    BY <1>3, <2>1 DEF IInv, Engaged
  <2> QED
    BY <1>1, <2>1 DEF IInv, Engaged, Follows
<1>6. Progress' /\ Marking' /\ SameBatch' /\ Erasing'
  BY <1>1 DEF IInv, Progress, Marking, SameBatch, Erasing, Hit
<1>7. OnceApplied'
  BY <1>1, <1>3 DEF IInv, OnceApplied
<1>8. NothingOutlivesItsSource'
  BY <1>1, <1>2 DEF IInv, NothingOutlivesItsSource
<1>9. DoneMeansProjected'
  BY <1>1, <1>3 DEF IInv, DoneMeansProjected, Projected
<1> QED
  BY <1>4, <1>5, <1>6, <1>7, <1>8, <1>9 DEF IInv

\* A job whose last lease ran out ends as dead; nothing else changes.
LEMMA ReclaimKeeps ==
    ASSUME IInv, TypeOK', NEW j \in JobIds, Reclaim(j)
    PROVE  IInv'
<1>1. /\ scope' = scope /\ log' = log /\ encs' = encs /\ marks' = marks /\ fact' = fact
      /\ nextEp' = nextEp /\ fg' = fg /\ bf' = bf /\ applied' = applied
      /\ run' = run
  BY DEF Reclaim, dataVars, idVars, ghostVars
<1>2. /\ \A i \in JobIds : jobs'[i].state = "done" => jobs[i].state = "done"
      /\ \A i \in JobIds : /\ jobs'[i].kind = jobs[i].kind /\ jobs'[i].eps = jobs[i].eps
                           /\ jobs[i] = NoJob => jobs'[i] = NoJob
  BY ReleaseEffect DEF IInv, Reclaim, JobsKept
<1>3. Fresh'
  BY <1>1, <1>2 DEF IInv, Fresh, Past
<1>4. Engaged'
  BY <1>1, <1>2 DEF IInv, Engaged, Follows
<1>5. Progress' /\ Marking' /\ SameBatch' /\ Erasing'
  BY <1>1 DEF IInv, Progress, Marking, SameBatch, Erasing, Hit
<1>6. OnceApplied'
  BY <1>1, <1>2 DEF IInv, OnceApplied
<1>7. NothingOutlivesItsSource' /\ DoneMeansProjected'
  BY <1>1, <1>2 DEF IInv, NothingOutlivesItsSource, DoneMeansProjected, Projected
<1> QED
  BY <1>3, <1>4, <1>5, <1>6, <1>7 DEF IInv

-----------------------------------------------------------------------------
(* Steps of an erasure *)

\* What an open erasure does is invisible: only Erasing can be disturbed.
LEMMA UnseenKeeps ==
    ASSUME IInv, TypeOK', UNCHANGED <<dataVars, jobs, idVars, run, bf, applied>>, Erasing'
    PROVE  IInv'
<1>1. /\ scope' = scope /\ log' = log /\ encs' = encs /\ marks' = marks /\ fact' = fact
      /\ nextEp' = nextEp /\ bf' = bf /\ applied' = applied
      /\ run' = run /\ jobs' = jobs
  BY DEF dataVars, idVars
<1>2. Fresh' /\ Engaged' /\ Progress' /\ Marking' /\ SameBatch' /\ OnceApplied'
  BY <1>1 DEF IInv, Fresh, Past, Engaged, Follows, Progress, Marking, SameBatch, OnceApplied
<1>3. NothingOutlivesItsSource' /\ DoneMeansProjected'
  BY <1>1 DEF IInv, NothingOutlivesItsSource, DoneMeansProjected, Projected
<1> QED
  BY <1>2, <1>3 DEF IInv

\* An erasure that begins or is rolled back has taken nothing.
LEMMA NothingTaken ==
    ASSUME fg'.marks = {}, fg'.encs = {}, fg'.log = {}
    PROVE  Erasing'
  BY DEF Erasing

\* A transaction that ends without committing leaves everything as it was.
LEMMA RollbackKeeps ==
    ASSUME IInv, TypeOK', Rollback \/ ForgetInterrupted
    PROVE  IInv'
<1>1. /\ UNCHANGED <<dataVars, jobs, idVars, run, bf, applied>>
      /\ fg'.marks = {} /\ fg'.encs = {} /\ fg'.log = {}
  BY ForgetTypes DEF Rollback, ForgetInterrupted, ghostVars
<1> QED
  BY <1>1, NothingTaken, UnseenKeeps

\* So does one that begins.
LEMMA BeginKeeps ==
    ASSUME IInv, TypeOK', NEW w \in BOOLEAN, NEW eps \in SUBSET Episodes, ForgetBegin(w, eps)
    PROVE  IInv'
<1>1. fg'.marks = {} /\ fg'.encs = {} /\ fg'.log = {}
  BY ForgetTypes DEF ForgetBegin
<1>2. UNCHANGED <<dataVars, jobs, idVars, run, bf, applied>>
  BY Zenon DEF ForgetBegin
<1> QED
  BY <1>1, <1>2, NothingTaken, UnseenKeeps

\* The DELETEs of the projections take those of episodes in the log; the one
\* of the episodes, once the foreign keys let it through, all that refers to them.
LEMMA StatementKeeps ==
    ASSUME IInv, TypeOK', \/ ForgetFacts \/ ForgetMarks \/ ForgetEncodings \/ ForgetJobs
                          \/ ForgetEpisodes
    PROVE  IInv'
<1>1. TypeOK /\ Erasing /\ encs \cup marks \subseteq log
  BY DEF IInv, NothingOutlivesItsSource
<1>2. CASE ForgetEpisodes
  <2>1. CASE Rollback
    BY <2>1, RollbackKeeps
  <2>2. CASE /\ Hit(log) \cap ((marks \ fg.marks) \cup (encs \ fg.encs)) = {}
             /\ Delete("log", "log", Hit(log), "commit")
    <3>1. /\ fg'.at = "commit" /\ fg'.log = Hit(log) /\ fg'.whole = fg.whole /\ fg'.eps = fg.eps
          /\ fg'.marks = fg.marks /\ fg'.encs = fg.encs
      BY <1>1, <2>2, EpisodesEffect
    <3>2. UNCHANGED <<dataVars, jobs, idVars, run, bf, applied>>
      BY <2>2 DEF Delete, ghostVars
    <3>3. \A r \in Runners : run[r].new \cap Hit(log) = {}
      BY <1>2 DEF ForgetEpisodes, KeyShared
    <3>4. Erasing'
      BY <1>1, <2>2, <3>1, <3>2, <3>3 DEF Erasing, Hit, dataVars
    <3> QED
      BY <3>2, <3>4, UnseenKeeps
  <2> QED
    BY <1>2, <2>1, <2>2 DEF ForgetEpisodes
<1>3. CASE ForgetFacts
  <2>1. /\ fg'.at = "marks" /\ fg'.whole = fg.whole /\ fg'.eps = fg.eps
        /\ fg'.marks = fg.marks /\ fg'.encs = fg.encs /\ fg'.log = fg.log
    BY <1>1, <1>3, FactsEffect
  <2>2. fg.at = "facts" /\ UNCHANGED <<dataVars, jobs, idVars, run, bf, applied>>
    BY <1>3 DEF ForgetFacts, Delete, ghostVars
  <2>3. Erasing'
    BY <1>1, <2>1, <2>2 DEF Erasing, Hit, dataVars
  <2> QED
    BY <2>2, <2>3, UnseenKeeps
<1>4. CASE ForgetMarks
  <2>1. /\ fg'.at = "encs" /\ fg'.whole = fg.whole /\ fg'.eps = fg.eps
        /\ fg'.marks = Hit(marks) /\ fg'.encs = fg.encs /\ fg'.log = fg.log
    BY <1>1, <1>4, MarksEffect
  <2>2. fg.at = "marks" /\ UNCHANGED <<dataVars, jobs, idVars, run, bf, applied>>
    BY <1>4 DEF ForgetMarks, Delete, ghostVars
  <2>3. Erasing'
    BY <1>1, <2>1, <2>2 DEF Erasing, Hit, dataVars
  <2> QED
    BY <2>2, <2>3, UnseenKeeps
<1>5. CASE ForgetEncodings
  <2>1. /\ fg'.at = "jobs" /\ fg'.whole = fg.whole /\ fg'.eps = fg.eps
        /\ fg'.marks = fg.marks /\ fg'.encs = Hit(encs) /\ fg'.log = fg.log
    BY <1>1, <1>5, EncodingsEffect
  <2>2. fg.at = "encs" /\ UNCHANGED <<dataVars, jobs, idVars, run, bf, applied>>
    BY <1>5 DEF ForgetEncodings, Delete, ghostVars
  <2>3. Erasing'
    BY <1>1, <2>1, <2>2 DEF Erasing, Hit, dataVars
  <2> QED
    BY <2>2, <2>3, UnseenKeeps
<1>6. CASE ForgetJobs
  <2>1. /\ fg'.at = "log" /\ fg'.whole = fg.whole /\ fg'.eps = fg.eps
        /\ fg'.marks = fg.marks /\ fg'.encs = fg.encs /\ fg'.log = fg.log
    BY <1>1, <1>6, JobsEffect
  <2>2. fg.at = "jobs" /\ UNCHANGED <<dataVars, jobs, idVars, run, bf, applied>>
    BY <1>6 DEF ForgetJobs, Delete, ghostVars
  <2>3. Erasing'
    BY <1>1, <2>1, <2>2 DEF Erasing, Hit, dataVars
  <2> QED
    BY <2>2, <2>3, UnseenKeeps
<1> QED
  BY <1>2, <1>3, <1>4, <1>5, <1>6

\* The commit takes episodes together with everything that refers to them.
LEMMA CommitKeeps ==
    ASSUME IInv, TypeOK', ForgetCommit
    PROVE  IInv'
<1>1. CASE Rollback
  BY <1>1, RollbackKeeps
<1>2. CASE /\ ~(fg.whole /\ ScopeReferenced)
           /\ scope' = (scope /\ ~fg.whole)
           /\ log' = log \ fg.log
           /\ marks' = marks \ fg.marks
           /\ encs' = encs \ fg.encs
           /\ fact' = FactsLeft
           /\ jobs' = JobsLeft
           /\ fg' = NoForget
           /\ UNCHANGED <<idVars, run, bf, troubles, ghostVars>>
  <2>1. /\ nextEp' = nextEp /\ run' = run /\ bf' = bf /\ applied' = applied
    BY <1>2 DEF idVars, ghostVars
  <2>2. /\ fg.marks \cup fg.encs \subseteq fg.log
        /\ fg.log \cap ((marks \ fg.marks) \cup (encs \ fg.encs)) = {}
        /\ \A r \in Runners : run[r].new \cap fg.log = {}
    BY DEF IInv, Erasing, ForgetCommit
  <2>3. \A j \in JobIds : jobs'[j] = NoJob \/ jobs'[j] = jobs[j]
    BY <1>2 DEF JobsLeft
  <2>4. NoJob.eps = {} /\ NoJob.state = "absent"
    BY DEF NoJob
  <2>5. \A S : /\ S \cap log \subseteq encs => S \cap log' \subseteq encs'
               /\ S \cap log \subseteq marks => S \cap log' \subseteq marks'
    BY <1>2, <2>2
  <2>6. Fresh'
    BY <1>2, <2>1, <2>3, <2>4 DEF IInv, Fresh, Past
  <2>7. Engaged'
    BY <2>1, <2>3, <2>5 DEF IInv, Engaged, Follows
  <2>8. Progress'
    <3>1. \A r \in Runners : run[r].todo \cap log \subseteq marks \cup run[r].new
                               => run[r].todo \cap log' \subseteq marks' \cup run[r].new
      BY <1>2, <2>2
    <3> QED
      BY <2>1, <2>5, <3>1 DEF IInv, Progress
  <2>9. Marking'
    BY <1>2, <2>1, <2>2 DEF IInv, Marking
  <2>10. SameBatch'
    BY <2>1 DEF IInv, SameBatch
  <2>11. OnceApplied'
    BY <2>1, <2>3, <2>4, <2>5 DEF IInv, OnceApplied
  <2>12. Erasing'
    BY <1>2, ForgetTypes, NothingTaken
  <2>13. NothingOutlivesItsSource'
    <3>1. encs' \cup marks' \subseteq log'
      BY <1>2, <2>2 DEF IInv, NothingOutlivesItsSource
    <3>2. CASE fg.whole
      BY <1>2, <3>1, <3>2 DEF ScopeReferenced, NothingOutlivesItsSource
    <3>3. CASE ~fg.whole
      <4>1. ~scope' => ~scope
        BY <1>2, <3>3
      <4>2. ~scope => (\A c \in Claims : fact'[c] = {}) /\ \A j \in JobIds : jobs'[j] = NoJob
        BY <1>2, <2>3 DEF IInv, NothingOutlivesItsSource, FactsLeft
      <4> QED
        BY <1>2, <3>1, <4>1, <4>2 DEF IInv, NothingOutlivesItsSource
    <3> QED
      BY <3>2, <3>3
  <2>14. DoneMeansProjected'
    BY <2>3, <2>4, <2>5 DEF IInv, DoneMeansProjected, Projected
  <2> QED
    BY <2>6, <2>7, <2>8, <2>9, <2>10, <2>11, <2>12, <2>13, <2>14 DEF IInv
<1> QED
  BY <1>1, <1>2 DEF ForgetCommit

-----------------------------------------------------------------------------
(* The theorems *)

\* The invariant holds at the start.
LEMMA InitIInv == Init => IInv
<1> SUFFICES ASSUME Init PROVE IInv
  OBVIOUS
<1>1. /\ scope = FALSE /\ log = {} /\ encs = {} /\ marks = {} /\ fact = [c \in Claims |-> {}]
      /\ jobs = [j \in JobIds |-> NoJob] /\ nextEp = 1
      /\ run = [r \in Runners |-> Idle] /\ fg = NoForget /\ bf = NoBackfill
      /\ troubles = 0 /\ applied = [j \in JobIds |-> 0] /\ refused = {} /\ partial = FALSE
  BY DEF Init
<1>2. TypeOK
  <2>1. NoJob \in JobRows /\ Idle \in Runs /\ NoForget \in Forgets
    <3>1. NoJob \in JobRows
      BY ConstantsOK DEF NoJob, JobRows, JobKinds
    <3> QED
      BY <3>1, IdleIsRun, ForgetTypes
  <2>2. NoBackfill \in [kind : JobKinds, eps : SUBSET Episodes]
    BY DEF NoBackfill, JobKinds
  <2>3. /\ jobs \in [JobIds -> JobRows] /\ run \in [Runners -> Runs]
        /\ fact \in [Claims -> SUBSET Episodes] /\ applied \in [JobIds -> Nat]
    BY <1>1, <2>1
  <2>4. nextEp \in 1 .. MaxEpisodes + 1 /\ troubles \in 0 .. MaxTroubles
    BY <1>1, ConstantsOK
  <2> QED
    BY <1>1, <2>1, <2>2, <2>3, <2>4, TypeOKDef
<1>3. /\ \A j \in JobIds : jobs[j].eps = {} /\ jobs[j].state = "absent" /\ jobs[j] = NoJob
      /\ \A r \in Runners : run[r].at = "idle" /\ run[r].todo = {} /\ run[r].new = {}
      /\ bf.eps = {} /\ fg.marks = {} /\ fg.encs = {} /\ fg.log = {} /\ fg.at = "none"
      /\ \A j \in JobIds : applied[j] = 0
  BY <1>1, ForgetTypes DEF NoJob, Idle, NoBackfill
<1>4. Fresh
  BY <1>1, <1>3 DEF Fresh
<1>5. Engaged /\ Progress /\ Marking /\ SameBatch /\ OnceApplied /\ Erasing
  BY <1>1, <1>3 DEF Engaged, Progress, Marking, SameBatch, OnceApplied, Erasing, Hit
<1>6. NothingOutlivesItsSource /\ DoneMeansProjected
  BY <1>1, <1>3 DEF NothingOutlivesItsSource, DoneMeansProjected
<1> QED
  BY <1>2, <1>4, <1>5, <1>6 DEF IInv

\* Every step keeps the invariant.
LEMMA NextIInv == IInv /\ [Next]_vars => IInv'
<1> SUFFICES ASSUME IInv, [Next]_vars PROVE IInv'
  OBVIOUS
<1>1. CASE UNCHANGED vars
  <2>1. TypeOK'
    BY <1>1 DEF IInv, TypeOK, vars
  <2>2. UNCHANGED <<dataVars, jobs, idVars, run, bf, applied>> /\ fg' = fg
    BY <1>1 DEF vars, dataVars, idVars
  <2>3. Erasing'
    BY <2>2 DEF IInv, Erasing, Hit, dataVars
  <2> QED
    BY <2>1, <2>2, <2>3, UnseenKeeps
<1>2. CASE Next
  <2>1. TypeOK'
    BY <1>2, TypeStep DEF IInv
  <2>2. CASE \E n \in 1 .. MaxBatch : Append(n)
    BY <2>1, <2>2, AppendKeeps
  <2>3. CASE Backfill
    BY <2>1, <2>3, BackfillReadKeeps, BackfillEnqueueKeeps DEF Backfill
  <2>4. CASE \E j \in JobIds : Reclaim(j)
    BY <2>1, <2>4, ReclaimKeeps
  <2>5. CASE \E r \in Runners : Step(r) \/ ModelFails(r) \/ Refused(r) \/ Crash(r)
    BY <2>1, <2>5, WorkerKeeps
  <2>6. CASE DeadlockResolved
    <3> PICK r \in Runners : DeadlockAbortsRunner(r) \/ DeadlockAbortsForget(r)
      BY <2>6 DEF DeadlockResolved
    <3>1. CASE DeadlockAbortsRunner(r)
      <4>1. /\ SetNew(r, "fail", {}) /\ "fail" \in RunStates /\ {} \in SUBSET Episodes
        BY <3>1 DEF DeadlockAbortsRunner, RunStates, SetNew
      <4>2. /\ run'[r].at = "fail" /\ run'[r].job = run[r].job /\ run'[r].kind = run[r].kind
            /\ run'[r].todo = run[r].todo /\ run'[r].new = {}
            /\ \A x \in Runners : x # r => run'[x] = run[x]
        BY <4>1, MarkerEffect, TypeOKDef DEF IInv
      <4>3. Frame /\ jobs' = jobs /\ run[r].at = "write"
        BY <3>1 DEF DeadlockAbortsRunner, Deadlocked, At, Frame, ghostVars
      <4> QED
        BY <2>1, <4>2, <4>3, StaysWithJob
    <3>2. CASE DeadlockAbortsForget(r)
      BY <2>1, <3>2, RollbackKeeps DEF DeadlockAbortsForget
    <3> QED
      BY <3>1, <3>2
  <2>7. CASE ForgetBegin(TRUE, {})
    BY <2>1, <2>7, BeginKeeps
  <2>8. CASE \E eps \in SUBSET (1 .. nextEp - 1) \ {{}} : ForgetBegin(FALSE, eps)
    BY <2>1, <2>8, BeginKeeps, PastEpisodes DEF IInv
  <2>9. CASE Erase
    BY <2>1, <2>9, StatementKeeps, CommitKeeps DEF Erase
  <2>10. CASE ForgetInterrupted
    BY <2>1, <2>10, RollbackKeeps
  <2> QED
    BY <1>2, <2>2, <2>3, <2>4, <2>5, <2>6, <2>7, <2>8, <2>9, <2>10 DEF Next
<1> QED
  BY <1>1, <1>2

\* The inductive invariant is an invariant.
LEMMA Inductive == Spec => []IInv
<1>1. Init => IInv
  BY InitIInv
<1>2. IInv /\ [Next]_vars => IInv'
  BY NextIInv
<1> QED
  BY <1>1, <1>2, PTL DEF Spec

\* Every variable of the scope, its queue, its workers and its erasure has its
\* type in every behaviour.
THEOREM TypeCorrect == Spec => []TypeOK
<1>1. IInv => TypeOK
  BY DEF IInv
<1> QED
  BY <1>1, Inductive, PTL

\* However erasures, extractions, encodings, crashes and deadlocks interleave,
\* no encoding and no marker outlives its episode and a scope that is gone
\* left nothing behind.
THEOREM ErasureIsComplete == Spec => []NothingOutlivesItsSource
<1>1. IInv => NothingOutlivesItsSource
  BY DEF IInv
<1> QED
  BY <1>1, Inductive, PTL

\* A job recorded as done has projected every episode it names that still
\* exists, whatever was retried, leased twice or erased in between.
THEOREM DoneIsProjected == Spec => []DoneMeansProjected
<1>1. IInv => DoneMeansProjected
  BY DEF IInv
<1> QED
  BY <1>1, Inductive, PTL

\* However many workers run an extraction job at once or again, it is applied
\* at most once.
THEOREM ExtractionAppliedOnce == Spec => []AppliedOnce
<1>1. IInv => AppliedOnce
  BY DEF IInv, OnceApplied, AppliedOnce
<1> QED
  BY <1>1, Inductive, PTL

-----------------------------------------------------------------------------
(* Erasures that take whole scopes only *)

\* A step that commits nothing and lets no worker start to write keeps what
\* whole-scope erasures guarantee.
LEMMA WholeQuiet ==
    ASSUME IInv, WInv, log \subseteq log', marks' = marks, fact' = fact,
           fg'.at # "none" => fg'.whole,
           \A r \in Runners : run'[r].at = "write" =>
               \/ run[r].at = "write" /\ run'[r].todo = run[r].todo
               \/ run'[r].todo \subseteq log
    PROVE  WInv'
  BY DEF WInv, Intact, FactsStandOnEpisodes, MarkersRead

\* With whole-scope erasures, an extraction never commits for an episode that
\* went meanwhile, and an erasure never takes a fact and leaves its marker.
LEMMA WholeKeeps ==
    ASSUME ~partial', IInv, IInv', WInv, [Next]_vars
    PROVE  WInv'
<1>1. /\ run \in [Runners -> Runs] /\ fact \in [Claims -> SUBSET Episodes]
      /\ TypeOK /\ (fg.at # "none" => fg.whole)
  BY TypeOKDef DEF IInv, WInv, Intact
<1>2. ASSUME run' = run, log \subseteq log', marks' = marks, fact' = fact,
             fg'.at # "none" => fg'.whole
      PROVE  WInv'
  BY <1>2, WholeQuiet
<1>3. CASE UNCHANGED vars
  BY <1>1, <1>2, <1>3 DEF vars
<1>4. CASE \E n \in 1 .. MaxBatch : Append(n)
  BY <1>1, <1>2, <1>4 DEF Append
<1>5. CASE Backfill \/ \E j \in JobIds : Reclaim(j)
  BY <1>1, <1>2, <1>5 DEF Backfill, BackfillRead, BackfillEnqueue, Reclaim, dataVars
<1>6. CASE \E r \in Runners : Step(r) \/ ModelFails(r) \/ Refused(r) \/ Crash(r)
  <2> PICK r \in Runners : Step(r) \/ ModelFails(r) \/ Refused(r) \/ Crash(r)
    BY <1>6
  <2>1. ASSUME log' = log, marks' = marks, fact' = fact, fg' = fg,
               run'[r].at # "write", \A x \in Runners : x # r => run'[x] = run[x]
        PROVE  WInv'
    BY <1>1, <2>1, WholeQuiet
  <2>2. CASE \E j \in JobIds : Take(r, j)
    <3> PICK j \in JobIds : Take(r, j)
      BY <2>2
    <3>1. run'[r] = Leased(j) /\ \A x \in Runners : x # r => run'[x] = run[x]
      BY <1>1, TakeEffect
    <3> QED
      BY <2>1, <3>1 DEF Take, Leased, dataVars
  <2>3. CASE Read(r)
    <3> DEFINE at == IF run[r].todo \subseteq log
                     THEN IF run[r].kind = "encode" THEN "put" ELSE "mark" ELSE "fail"
    <3>1. at \in RunStates /\ GoTo(r, at) /\ at # "write"
      BY <2>3 DEF Read, RunStates
    <3> HIDE DEF at
    <3>2. run'[r].at = at /\ \A x \in Runners : x # r => run'[x] = run[x]
      BY <1>1, <3>1, GoToEffect
    <3> QED
      BY <2>1, <2>3, <3>1, <3>2 DEF Read, dataVars
  <2>4. CASE ModelFails(r)
    <3>1. "fail" \in RunStates /\ GoTo(r, "fail")
      BY <2>4 DEF ModelFails, RunStates
    <3>2. run'[r].at = "fail" /\ \A x \in Runners : x # r => run'[x] = run[x]
      BY <1>1, <3>1, GoToEffect
    <3> QED
      BY <2>1, <2>4, <3>2 DEF ModelFails, dataVars
  <2>5. CASE \E e \in Episodes : PutEncoding(r, e)
    <3>1. /\ log' = log /\ marks' = marks /\ fact' = fact /\ fg' = fg /\ run[r].at = "put"
      BY <2>5 DEF PutEncoding, At
    <3>2. \A x \in Runners : x # r => run'[x] = run[x]
      BY <1>1, <2>5 DEF PutEncoding, GoTo
    <3>3. run'[r].at # "write"
      <4>1. run[r].kind = "encode"
        BY <3>1 DEF IInv, Progress
      <4>2. run'[r].kind = run[r].kind
        BY <1>1, <2>5 DEF PutEncoding, GoTo, Runs
      <4> QED
        BY <4>1, <4>2 DEF IInv, Progress
    <3> QED
      BY <2>1, <3>1, <3>2, <3>3
  <2>6. CASE Mark(r)
    <3>1. /\ log' = log /\ marks' = marks /\ fact' = fact /\ fg' = fg
      BY <2>6 DEF Mark, dataVars
    <3>2. CASE ~(run[r].todo \subseteq log)
      <4>1. "fail" \in RunStates /\ GoTo(r, "fail")
        BY <2>6, <3>2 DEF Mark, RunStates
      <4>2. run'[r].at = "fail" /\ \A x \in Runners : x # r => run'[x] = run[x]
        BY <1>1, <4>1, GoToEffect
      <4> QED
        BY <2>1, <3>1, <4>2
    <3>3. CASE run[r].todo \subseteq log
      <4> DEFINE at == IF run[r].todo \subseteq marks THEN "ok" ELSE "write"
      <4>1. SetNew(r, at, run[r].todo \ marks)
        BY <2>6, <3>3 DEF Mark, SetNew
      <4>2. at \in RunStates /\ run[r].todo \ marks \in SUBSET Episodes
        BY <1>1 DEF RunStates, Runs
      <4> HIDE DEF at
      <4>3. /\ run'[r].todo = run[r].todo
            /\ \A x \in Runners : x # r => run'[x] = run[x]
        BY <1>1, <4>1, <4>2, MarkerEffect
      <4> QED
        BY <1>1, <3>1, <3>3, <4>3, WholeQuiet
    <3> QED
      BY <3>2, <3>3
  <2>7. CASE Write(r)
    <3>1. /\ run[r].at = "write" /\ marks' = marks \cup run[r].new
          /\ log' = log /\ fg' = fg
          /\ fact' = [c \in Claims |-> IF c \in Asserted(r)
                                       THEN fact[c] \cup run[r].todo ELSE fact[c]]
      BY <2>7 DEF Write, At
    <3>2. SetNew(r, "ok", {}) /\ "ok" \in RunStates /\ {} \in SUBSET Episodes
      BY <2>7 DEF Write, SetNew, RunStates
    <3>3. run'[r].at = "ok" /\ \A x \in Runners : x # r => run'[x] = run[x]
      BY <1>1, <3>2, MarkerEffect
    <3>4. run[r].todo \subseteq log /\ run[r].new \subseteq run[r].todo
      BY <3>1 DEF WInv, Intact, IInv, Marking
    <3>5. Intact'
      BY <1>1, <3>1, <3>3 DEF WInv, Intact
    <3>6. FactsStandOnEpisodes'
      BY <1>1, <3>1, <3>4 DEF WInv, FactsStandOnEpisodes
    <3>7. MarkersRead'
      <4>1. ASSUME NEW e \in marks', NEW c \in Says[e]
            PROVE  e \in fact'[c]
        <5>1. c \in Claims
          <6>1. e \in Episodes
            BY <4>1 DEF IInv, TypeOK
          <6> QED
            BY <6>1, ConstantsOK
        <5>2. CASE e \in marks
          BY <3>1, <5>1, <5>2 DEF WInv, MarkersRead
        <5>3. CASE e \in run[r].new
          <6>1. c \in Asserted(r)
            BY <3>4, <5>3 DEF Asserted
          <6> QED
            BY <3>1, <3>4, <5>1, <5>3, <6>1
        <5> QED
          BY <3>1, <5>2, <5>3
      <4> QED
        BY <4>1 DEF MarkersRead
    <3> QED
      BY <3>5, <3>6, <3>7 DEF WInv
  <2>9. CASE Refused(r)
    <3>1. SetNew(r, "fail", {}) /\ "fail" \in RunStates /\ {} \in SUBSET Episodes
      BY <2>9 DEF Refused, SetNew, RunStates
    <3>2. run'[r].at = "fail" /\ \A x \in Runners : x # r => run'[x] = run[x]
      BY <1>1, <3>1, MarkerEffect
    <3> QED
      BY <2>1, <2>9, <3>2 DEF Refused, dataVars
  <2>8. CASE Succeed(r) \/ Fail(r) \/ Crash(r)
    BY <1>1, <2>1, <2>8 DEF Succeed, Fail, Crash, Idle, dataVars
  <2> QED
    BY <2>2, <2>3, <2>4, <2>5, <2>6, <2>7, <2>8, <2>9 DEF Step
<1>7. CASE Rollback \/ ForgetInterrupted
  BY <1>2, <1>7, ForgetTypes DEF Rollback, ForgetInterrupted, dataVars
<1>8. CASE DeadlockResolved
  <2> PICK r \in Runners : DeadlockAbortsRunner(r) \/ DeadlockAbortsForget(r)
    BY <1>8 DEF DeadlockResolved
  <2>1. CASE DeadlockAbortsRunner(r)
    <3>1. SetNew(r, "fail", {}) /\ "fail" \in RunStates /\ {} \in SUBSET Episodes
      BY <2>1 DEF DeadlockAbortsRunner, SetNew, RunStates
    <3>2. run'[r].at = "fail" /\ \A x \in Runners : x # r => run'[x] = run[x]
      BY <1>1, <3>1, MarkerEffect
    <3>3. log' = log /\ marks' = marks /\ fact' = fact /\ fg' = fg
      BY <2>1 DEF DeadlockAbortsRunner, dataVars
    <3> QED
      BY <1>1, <3>2, <3>3, WholeQuiet
  <2>2. CASE DeadlockAbortsForget(r)
    BY <1>7, <2>2 DEF DeadlockAbortsForget
  <2> QED
    BY <2>1, <2>2
<1>9. CASE ForgetBegin(TRUE, {})
  <2>1. fg'.whole = TRUE
    BY <1>9, ForgetTypes DEF ForgetBegin
  <2>2. run' = run /\ log' = log /\ marks' = marks /\ fact' = fact
    BY <1>9, Zenon DEF ForgetBegin, dataVars
  <2> QED
    BY <1>2, <2>1, <2>2
<1>10. CASE ForgetFacts \/ ForgetMarks \/ ForgetEncodings \/ ForgetJobs \/ ForgetEpisodes
  <2>1. CASE Rollback
    BY <1>7, <2>1
  <2>2. CASE ~Rollback
    <3>1. run' = run /\ log' = log /\ marks' = marks /\ fact' = fact /\ fg.at # "none"
      BY <1>10, <2>2, Zenon
      DEF ForgetFacts, ForgetMarks, ForgetEncodings, ForgetJobs, ForgetEpisodes, Delete, dataVars
    <3>2. fg'.whole = fg.whole
      BY <1>1, <1>10, <2>2, FactsEffect, MarksEffect, EncodingsEffect, JobsEffect, EpisodesEffect
      DEF ForgetEpisodes
    <3> QED
      BY <1>1, <1>2, <3>1, <3>2
  <2> QED
    BY <2>1, <2>2
<1>11. CASE ForgetCommit
  <2>1. CASE Rollback
    BY <1>7, <2>1
  <2>2. CASE ~Rollback
    <3>1. /\ fg.whole /\ ~ScopeReferenced /\ KeyShared = {} /\ run' = run
          /\ marks' = marks \ fg.marks /\ fact' = FactsLeft /\ fg' = NoForget
      BY <1>1, <1>11, <2>2 DEF ForgetCommit
    <3>2. marks' = {} /\ \A c \in Claims : fact'[c] = {}
      BY <3>1 DEF ScopeReferenced
    <3>3. \A r \in Runners : run[r].at # "write"
      BY <3>1 DEF KeyShared, IInv, Marking
    <3> QED
      BY <3>1, <3>2, <3>3, ForgetTypes DEF WInv, Intact, FactsStandOnEpisodes, MarkersRead
  <2> QED
    BY <2>1, <2>2
<1>12. CASE \E eps \in SUBSET (1 .. nextEp - 1) \ {{}} : ForgetBegin(FALSE, eps)
  BY <1>12, Zenon DEF ForgetBegin
<1> QED
  BY <1>3, <1>4, <1>5, <1>6, <1>7, <1>8, <1>9, <1>10, <1>11, <1>12 DEF Next, Erase

\* No step takes back that an erasure named single episodes.
LEMMA PartialStays ==
    ASSUME [Next]_vars, partial
    PROVE  partial'
<1>1. CASE UNCHANGED vars
  BY <1>1 DEF vars
<1>2. CASE (\E n \in 1 .. MaxBatch : Append(n)) \/ Backfill \/ \E j \in JobIds : Reclaim(j)
  BY <1>2 DEF Append, Backfill, BackfillRead, BackfillEnqueue, Reclaim, ghostVars
<1>3. CASE \E r \in Runners : Step(r) \/ ModelFails(r) \/ Refused(r) \/ Crash(r)
  BY <1>3 DEF Step, Take, Read, PutEncoding, Mark, Write, Succeed, Fail, ModelFails, Refused,
              Crash, ghostVars
<1>4. CASE DeadlockResolved \/ ForgetInterrupted
  BY <1>4 DEF DeadlockResolved, DeadlockAbortsRunner, DeadlockAbortsForget, ForgetInterrupted,
              Rollback, ghostVars
<1>5. CASE ForgetBegin(TRUE, {}) \/ \E eps \in SUBSET (1 .. nextEp - 1) \ {{}} : ForgetBegin(FALSE, eps)
  BY <1>5, Zenon DEF ForgetBegin
<1>6. CASE Erase
  BY <1>6, Zenon DEF Erase, ForgetFacts, ForgetMarks, ForgetEncodings, ForgetJobs, ForgetEpisodes,
                     ForgetCommit, Delete, Rollback, ghostVars
<1> QED
  BY <1>1, <1>2, <1>3, <1>4, <1>5, <1>6 DEF Next

\* Both parts of the invariant together, the second until an erasure names
\* single episodes.
LEMMA WholeInductive == Spec => [](IInv /\ (~partial => WInv))
<1>1. Init => IInv /\ (~partial => WInv)
  <2>1. Init => WInv
    <3> SUFFICES ASSUME Init PROVE WInv
      OBVIOUS
    <3>1. fg.at = "none" /\ marks = {} /\ \A c \in Claims : fact[c] = {}
      BY ForgetTypes DEF Init
    <3>2. \A r \in Runners : run[r].at = "idle"
      BY DEF Init, Idle
    <3> QED
      BY <3>1, <3>2 DEF WInv, Intact, FactsStandOnEpisodes, MarkersRead
  <2> QED
    BY <2>1, InitIInv
<1>2. IInv /\ (~partial => WInv) /\ [Next]_vars => (IInv /\ (~partial => WInv))'
  BY NextIInv, WholeKeeps, PartialStays
<1> QED
  BY <1>1, <1>2, PTL DEF Spec

\* As long as erasures take whole scopes, no fact names an erased episode,
\* even one whose extraction was under way when the erasure began.
THEOREM FactsStand == Spec => []WholeErasureIsWhole
<1>1. IInv /\ (~partial => WInv) => WholeErasureIsWhole
  BY DEF WInv, WholeErasureIsWhole
<1> QED
  BY <1>1, WholeInductive, PTL

\* Until an erasure names single episodes, an episode with a marker is in the
\* provenance of every claim it makes: no backfill has to read it again.
THEOREM MarkersAreTrue == Spec => []MarkedMeansRead
<1>1. IInv /\ (~partial => WInv) => MarkedMeansRead
  BY DEF WInv, MarkersRead, MarkedMeansRead
<1> QED
  BY <1>1, WholeInductive, PTL
=============================================================================
