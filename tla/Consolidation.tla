---------------------------- MODULE Consolidation ----------------------------
(***************************************************************************)
(* One scope of memory: the append-only log of episodes (L0), the          *)
(* projections workers derive from it (encodings, and facts with their     *)
(* extraction markers), the jobs that ask for the deriving, and Forget,    *)
(* which erases episodes and everything derived from them.                 *)
(*                                                                         *)
(* Forget and ApplyExtraction are transactions of several statements under *)
(* READ COMMITTED: each statement is a step, what it deletes or inserts is *)
(* invisible to others until the commit, and the row locks it takes make   *)
(* others wait.  The queue is the one WorkList promises: an owed job may   *)
(* be run by any worker, by several at once, and more than once.           *)
(***************************************************************************)
EXTENDS Integers, FiniteSets

CONSTANTS
    MaxEpisodes,  \* bound: episodes ever appended
    MaxJobs,      \* bound: rows of mempher.jobs at any one time
    Kinds,        \* job kinds an Append enqueues: encode, and extract if configured
    Claims,       \* identities of facts
    Says,         \* Says[e]: the claims an extractor reads out of episode e
    Runners,      \* workers
    MaxAttempts,  \* attempts per job
    MaxBatch,     \* bound: episodes per append and per backfill job
    MaxTroubles   \* bound: crashes, failed model calls, refused extractions,
                  \* erasures

Episodes == 1 .. MaxEpisodes
JobIds == 1 .. MaxJobs

ASSUME ConstantsOK ==
    /\ MaxEpisodes \in Nat /\ MaxJobs \in Nat /\ MaxBatch \in Nat \ {0}
    /\ MaxAttempts \in Nat \ {0}
    /\ MaxTroubles \in Nat
    /\ Kinds \subseteq {"encode", "extract"}
    /\ Says \in [Episodes -> SUBSET Claims]

VARIABLES
    scope,     \* whether mempher.scopes has the row
    log,       \* the episodes in mempher.episodes
    encs,      \* the episodes with a row in episode_encodings
    marks,     \* the episodes with a row in fact_extractions
    fact,      \* fact[c]: episode_ids of the fact c, {} if there is none
    jobs,      \* jobs[j]: the row of mempher.jobs
    nextEp,    \* the next episode's Seq
    run,       \* run[r]: the job runner r is in, and how far it is
    fg,        \* the Forget transaction
    bf,        \* what a backfill read and has not enqueued yet
    troubles,  \* crashes, failures, refusals and erasures so far
    applied,   \* applied[j]: how often an extraction for job j was applied
    refused,   \* the episodes of extractions the store refused
    partial    \* whether some erasure named episodes instead of the scope

ghostVars == <<applied, refused, partial>>
vars == <<scope, log, encs, marks, fact, jobs, nextEp, run, fg, bf,
          troubles, applied, refused, partial>>

NoJob == [state |-> "absent", kind |-> "none", eps |-> {}, left |-> 0]
Idle == [at |-> "idle", job |-> 0, kind |-> "none", todo |-> {}, new |-> {}]
NoForget == [at |-> "none", whole |-> FALSE, eps |-> {}, facts |-> {}, marks |-> {},
             encs |-> {}, jobs |-> {}, log |-> {}]
NoBackfill == [kind |-> "none", eps |-> {}]

-----------------------------------------------------------------------------
(* Append: one statement inserts the scope, a run of episodes and one job  *)
(* per kind naming all of them.                                            *)

\* Faulty: a dead job counts as outstanding.
OwedOrDead(kind, eps) == {j \in JobIds : /\ jobs[j].state \in {"owed", "dead"}
                                         /\ jobs[j].kind = kind /\ jobs[j].eps = eps}

Owed(kind, eps) == {j \in JobIds : /\ jobs[j].state = "owed"
                                   /\ jobs[j].kind = kind /\ jobs[j].eps = eps}

NewJob(kind, eps) == [state |-> "owed", kind |-> kind, eps |-> eps, left |-> MaxAttempts]

\* The rows a new job may take: never used, erased, or finished and pruned by
\* an operator just then.  Nobody is running the job that was there.
FreeJobs == {j \in JobIds : /\ jobs[j].state # "owed" /\ j \notin fg.jobs
                            /\ \A r \in Runners : run[r].job # j}

\* ids are the first n free rows, those without history first.
Sooner(i, j) == \/ jobs[i] = NoJob /\ jobs[j] # NoJob
                \/ (jobs[i] = NoJob <=> jobs[j] = NoJob) /\ i < j
FirstFree(ids) == ids \subseteq FreeJobs /\ \A i \in ids, j \in FreeJobs \ ids : Sooner(i, j)

\* One new job of every kind k, at the row id[k].
Insert(id, eps) ==
    /\ FirstFree({id[k] : k \in DOMAIN id})
    /\ \A k, l \in DOMAIN id : k # l => id[k] # id[l]
    /\ jobs' = [j \in JobIds |-> IF \E k \in DOMAIN id : id[k] = j
                                 THEN NewJob(CHOOSE k \in DOMAIN id : id[k] = j, eps)
                                 ELSE jobs[j]]
    /\ applied' = [j \in JobIds |-> IF \E k \in DOMAIN id : id[k] = j THEN 0 ELSE applied[j]]

Append(n) ==
    /\ nextEp + n - 1 <= MaxEpisodes
    /\ LET eps == nextEp .. nextEp + n - 1 IN
       /\ log' = log \cup eps
       /\ \E id \in [Kinds -> JobIds] : /\ \A k, l \in Kinds : k = "encode" => id[k] <= id[l]
                                        /\ Insert(id, eps)
    /\ scope' = TRUE
    /\ nextEp' = nextEp + n
    /\ UNCHANGED <<encs, marks, fact, run, fg, bf, troubles, refused, partial>>

-----------------------------------------------------------------------------
(* Backfill: read what a projection is missing, then enqueue it.           *)

Projected(kind) == IF kind = "encode" THEN encs ELSE marks
Pending(kind) == log \ Projected(kind)

\* The first MaxBatch pending episodes in Seq order.
Batch(kind) == {e \in Pending(kind) : Cardinality({x \in Pending(kind) : x <= e}) <= MaxBatch}

BackfillRead(kind) ==
    /\ bf = NoBackfill
    /\ Pending(kind) # {}
    /\ bf' = [kind |-> kind, eps |-> Batch(kind)]
    /\ UNCHANGED <<scope, log, encs, marks, fact, jobs, nextEp, run, fg,
                   troubles, ghostVars>>

\* Enqueue: inserted, collapsed onto the owed job, or refused without a scope.
\* It waits for an owed job an erasure has locked.
BackfillEnqueue ==
    /\ bf # NoBackfill
    /\ Owed(bf.kind, bf.eps) \cap fg.jobs = {}
    /\ bf' = NoBackfill
    /\ IF scope /\ Owed(bf.kind, bf.eps) = {}
       THEN \E j \in JobIds : Insert([k \in {bf.kind} |-> j], bf.eps)
       ELSE UNCHANGED <<jobs, applied>>
    /\ UNCHANGED <<scope, log, encs, marks, fact, nextEp, run, fg, troubles, refused, partial>>

-----------------------------------------------------------------------------
(* A worker on one job *)

At(r, at) == run[r].at = at
GoTo(r, at) == run' = [run EXCEPT ![r].at = at]

dataVars == <<scope, log, encs, marks, fact>>
idVars == <<nextEp>>

\* Faulty: jobs out of attempts are leased too.
TakeSpent(r, j) ==
    /\ At(r, "idle")
    /\ jobs[j].state = "owed" /\ j \notin fg.jobs
    /\ jobs' = [jobs EXCEPT ![j].left = @ - 1]
    /\ run' = [run EXCEPT ![r] = [at |-> "read", job |-> j, kind |-> jobs[j].kind,
                                      todo |-> jobs[j].eps, new |-> {}]]
    /\ UNCHANGED <<dataVars, idVars, fg, bf, troubles, ghostVars>>

\* Lease counts the attempt and skips rows the erasure has locked.  The job
\* may be in another worker's hands still, whose lease ran out.
Take(r, j) ==
    /\ At(r, "idle")
    /\ jobs[j].state = "owed" /\ jobs[j].left > 0 /\ j \notin fg.jobs
    /\ jobs' = [jobs EXCEPT ![j].left = @ - 1]
    /\ run' = [run EXCEPT ![r] = [at |-> "read", job |-> j, kind |-> jobs[j].kind,
                                      todo |-> jobs[j].eps, new |-> {}]]
    /\ UNCHANGED <<dataVars, idVars, fg, bf, troubles, ghostVars>>

\* Read the episodes and call the model.  A missing episode fails the job.
Read(r) ==
    /\ At(r, "read")
    /\ GoTo(r, IF run[r].todo \subseteq log
               THEN IF run[r].kind = "encode" THEN "put" ELSE "mark"
               ELSE "fail")
    /\ UNCHANGED <<dataVars, jobs, idVars, fg, bf, troubles, ghostVars>>

\* The model call fails.
ModelFails(r) ==
    /\ At(r, "read") /\ troubles < MaxTroubles
    /\ GoTo(r, "fail")
    /\ troubles' = troubles + 1
    /\ UNCHANGED <<dataVars, jobs, idVars, fg, bf, ghostVars>>

\* Faulty: the job ends with its first encoding.
PutEncodingFirst(r, e) ==
    /\ At(r, "put") /\ e \in run[r].todo
    /\ e \notin fg.encs \cup fg.log
    /\ IF e \in log
       THEN encs' = encs \cup {e} /\ GoTo(r, "ok")
       ELSE GoTo(r, "fail") /\ UNCHANGED encs
    /\ UNCHANGED <<scope, log, marks, fact, jobs, idVars, fg, bf, troubles, ghostVars>>

\* PutEncoding of one episode of the job; waits for rows being erased.
PutEncoding(r, e) ==
    /\ At(r, "put") /\ e \in run[r].todo
    /\ e \notin fg.encs \cup fg.log
    /\ IF e \in log
       THEN /\ encs' = encs \cup {e}
            /\ run' = [run EXCEPT ![r].todo = @ \ {e},
                                  ![r].at = IF run[r].todo = {e} THEN "ok" ELSE "put"]
       ELSE GoTo(r, "fail") /\ UNCHANGED encs
    /\ UNCHANGED <<scope, log, marks, fact, jobs, idVars, fg, bf, troubles, ghostVars>>

\* Markers another transaction has inserted and not committed.
Uncommitted(r) == UNION {run[x].new : x \in Runners \ {r}}

\* Faulty: a batch whose markers all exist is not declined.
MarkAgain(r) ==
    /\ At(r, "mark")
    /\ LET eps == run[r].todo IN
       /\ eps \cap (fg.marks \cup fg.log \cup Uncommitted(r)) = {}
       /\ IF eps \subseteq log
          THEN run' = [run EXCEPT ![r].at = "write", ![r].new = eps \ marks]
          ELSE GoTo(r, "fail")
    /\ UNCHANGED <<dataVars, jobs, idVars, fg, bf, troubles, ghostVars>>

\* markExtractionSQL: the first statement of ApplyExtraction.  It waits for
\* the markers and episodes an erasure or another extraction has locked.
Mark(r) ==
    /\ At(r, "mark")
    /\ LET eps == run[r].todo IN
       /\ eps \cap (fg.marks \cup fg.log \cup Uncommitted(r)) = {}
       /\ IF eps \subseteq log
          THEN run' = [run EXCEPT ![r].at = IF eps \subseteq marks THEN "ok" ELSE "write",
                                  ![r].new = eps \ marks]
          ELSE GoTo(r, "fail")
    /\ UNCHANGED <<dataVars, jobs, idVars, fg, bf, troubles, ghostVars>>

Asserted(r) == UNION {Says[e] : e \in run[r].todo}

\* Faulty: a fact names one episode of the batch.
WriteOneSource(r) ==
    /\ At(r, "write")
    /\ Asserted(r) \cap fg.facts = {}
    /\ marks' = marks \cup run[r].new
    /\ fact' = [c \in Claims |-> IF c \in Asserted(r)
                                 THEN fact[c] \cup {CHOOSE e \in run[r].todo : TRUE}
                                 ELSE fact[c]]
    /\ applied' = [applied EXCEPT ![run[r].job] = @ + 1]
    /\ run' = [run EXCEPT ![r].at = "ok", ![r].new = {}]
    /\ UNCHANGED <<scope, log, encs, jobs, idVars, fg, bf, troubles, refused, partial>>

\* The assertions and the commit.  They wait for facts an erasure has locked.
Write(r) ==
    /\ At(r, "write")
    /\ Asserted(r) \cap fg.facts = {}
    /\ marks' = marks \cup run[r].new
    /\ fact' = [c \in Claims |-> IF c \in Asserted(r)
                                 THEN fact[c] \cup run[r].todo ELSE fact[c]]
    /\ applied' = [applied EXCEPT ![run[r].job] = @ + 1]
    /\ run' = [run EXCEPT ![r].at = "ok", ![r].new = {}]
    /\ UNCHANGED <<scope, log, encs, jobs, idVars, fg, bf, troubles, refused, partial>>

\* The store refuses the extraction: it contradicts itself, retracts a fact
\* that is gone or began later, or overlaps a window.  Which it does depends on
\* the windows, which Facts models; here it may happen to any extraction.
Refused(r) ==
    /\ At(r, "mark") \/ At(r, "write")
    /\ troubles < MaxTroubles
    /\ run' = [run EXCEPT ![r].at = "fail", ![r].new = {}]
    /\ troubles' = troubles + 1
    /\ refused' = refused \cup run[r].todo
    /\ UNCHANGED <<dataVars, jobs, idVars, fg, bf, applied, partial>>

\* Succeed: the row is done, if it still exists and is owed.
Succeed(r) ==
    /\ At(r, "ok") /\ run[r].job \notin fg.jobs
    /\ jobs' = [jobs EXCEPT ![run[r].job].state = IF @ = "owed" THEN "done" ELSE @]
    /\ run' = [run EXCEPT ![r] = Idle]
    /\ UNCHANGED <<dataVars, idVars, fg, bf, troubles, ghostVars>>

\* An attempt that failed: the job is owed while it has attempts left.
Released(j) == [jobs[j] EXCEPT !.state = IF @ = "owed" /\ jobs[j].left = 0 THEN "dead" ELSE @]

Fail(r) ==
    /\ At(r, "fail") /\ run[r].job \notin fg.jobs
    /\ jobs' = [jobs EXCEPT ![run[r].job] = Released(run[r].job)]
    /\ run' = [run EXCEPT ![r] = Idle]
    /\ UNCHANGED <<dataVars, idVars, fg, bf, troubles, ghostVars>>

\* The lease of a job's last attempt runs out.
Reclaim(j) ==
    /\ jobs[j].state = "owed" /\ jobs[j].left = 0 /\ j \notin fg.jobs
    /\ jobs' = [jobs EXCEPT ![j] = Released(j)]
    /\ UNCHANGED <<dataVars, idVars, run, fg, bf, troubles, ghostVars>>

\* The process dies; an open transaction rolls back.
Crash(r) ==
    /\ ~At(r, "idle") /\ troubles < MaxTroubles
    /\ run' = [run EXCEPT ![r] = Idle]
    /\ troubles' = troubles + 1
    /\ UNCHANGED <<dataVars, jobs, idVars, fg, bf, ghostVars>>

-----------------------------------------------------------------------------
(* Forget: the statements of erasureSteps, in their order.                 *)

ForgetBegin(whole, eps) ==
    /\ fg.at = "none" /\ troubles < MaxTroubles
    /\ fg' = [NoForget EXCEPT !.at = "facts", !.whole = whole, !.eps = eps]
    /\ troubles' = troubles + 1
    /\ partial' = (partial \/ ~whole)
    /\ UNCHANGED <<dataVars, jobs, idVars, run, bf, applied, refused>>

\* The episodes of S the erasure is about.
Hit(S) == IF fg.whole THEN S ELSE S \cap fg.eps

\* One DELETE: what it removes, and the table that comes next.
Delete(at, field, rows, then) ==
    /\ fg.at = at
    /\ fg' = [fg EXCEPT ![field] = rows, !.at = then]
    /\ UNCHANGED <<dataVars, jobs, idVars, run, bf, troubles, ghostVars>>

ForgetFacts == Delete("facts", "facts", {c \in Claims : Hit(fact[c]) # {}}, "marks")
ForgetMarks == Delete("marks", "marks", Hit(marks), "encs")
ForgetEncodings == Delete("encs", "encs", Hit(encs), "jobs")
ForgetJobs == Delete("jobs", "jobs", {j \in JobIds : Hit(jobs[j].eps) # {}}, "log")

Rollback ==
    /\ fg' = NoForget
    /\ UNCHANGED <<dataVars, jobs, idVars, run, bf, troubles, ghostVars>>

\* Episodes locked by the foreign key of a marker not committed yet.
KeyShared == UNION {run[r].new : r \in Runners}

\* Faulty: no foreign key protects the projections.
ForgetEpisodesUnchecked ==
    /\ Hit(log) \cap KeyShared = {}
    /\ Delete("log", "log", Hit(log), "commit")

\* Faulty: an erasure the foreign key refused goes on waiting.
ForgetEpisodesInsists ==
    /\ fg.at = "log"
    /\ Hit(log) \cap KeyShared = {}
    /\ Hit(log) \cap ((marks \ fg.marks) \cup (encs \ fg.encs)) = {}
    /\ Delete("log", "log", Hit(log), "commit")

\* A marker or an encoding that appeared since its own DELETE makes the
\* foreign key refuse this one.
ForgetEpisodes ==
    /\ fg.at = "log"
    /\ Hit(log) \cap KeyShared = {}
    /\ IF Hit(log) \cap ((marks \ fg.marks) \cup (encs \ fg.encs)) = {}
       THEN Delete("log", "log", Hit(log), "commit")
       ELSE Rollback

\* What is left once the transaction's deletes are visible.
FactsLeft == [c \in Claims |-> IF c \in fg.facts THEN {} ELSE fact[c]]
JobsLeft == [j \in JobIds |-> IF j \in fg.jobs THEN NoJob ELSE jobs[j]]

\* Faulty: facts have no foreign key on the scope.
UnreferencedByFacts == \/ log \ fg.log # {} \/ marks \ fg.marks # {} \/ encs \ fg.encs # {}
                       \/ \E j \in JobIds : JobsLeft[j] # NoJob

\* Rows the foreign keys on the scope would find.
ScopeReferenced == \/ log \ fg.log # {} \/ marks \ fg.marks # {} \/ encs \ fg.encs # {}
                   \/ \E c \in Claims : FactsLeft[c] # {}
                   \/ \E j \in JobIds : JobsLeft[j] # NoJob

\* The scope row, when the whole scope goes, and the commit.
ForgetCommit ==
    /\ fg.at = "commit"
    /\ fg.whole => KeyShared = {}
    /\ IF fg.whole /\ ScopeReferenced
       THEN Rollback
       ELSE /\ scope' = (scope /\ ~fg.whole)
            /\ log' = log \ fg.log
            /\ marks' = marks \ fg.marks
            /\ encs' = encs \ fg.encs
            /\ fact' = FactsLeft
            /\ jobs' = JobsLeft
            /\ fg' = NoForget
            /\ UNCHANGED <<idVars, run, bf, troubles, ghostVars>>

\* The connection or the caller goes away: the transaction rolls back.
ForgetInterrupted ==
    /\ fg.at # "none"
    /\ Rollback

\* The extraction waits for facts the erasure deleted, the erasure for
\* episodes the extraction's markers lock: PostgreSQL aborts one of the two.
Deadlocked(r) ==
    /\ At(r, "write") /\ Asserted(r) \cap fg.facts # {}
    /\ \/ fg.at = "log" /\ Hit(log) \cap run[r].new # {}
       \/ fg.at = "commit" /\ fg.whole /\ run[r].new # {}

DeadlockAbortsRunner(r) ==
    /\ Deadlocked(r)
    /\ run' = [run EXCEPT ![r].at = "fail", ![r].new = {}]
    /\ UNCHANGED <<dataVars, jobs, idVars, fg, bf, troubles, ghostVars>>

DeadlockAbortsForget(r) == Deadlocked(r) /\ Rollback

-----------------------------------------------------------------------------
Init ==
    /\ scope = FALSE
    /\ log = {} /\ encs = {} /\ marks = {}
    /\ fact = [c \in Claims |-> {}]
    /\ jobs = [j \in JobIds |-> NoJob]
    /\ nextEp = 1
    /\ run = [r \in Runners |-> Idle]
    /\ fg = NoForget /\ bf = NoBackfill
    /\ troubles = 0
    /\ applied = [j \in JobIds |-> 0]
    /\ refused = {} /\ partial = FALSE

Step(r) == \/ \E j \in JobIds : Take(r, j)
           \/ Read(r)
           \/ \E e \in Episodes : PutEncoding(r, e)
           \/ Mark(r)
           \/ Write(r)
           \/ Succeed(r)
           \/ Fail(r)

Erase == \/ ForgetFacts \/ ForgetMarks \/ ForgetEncodings \/ ForgetJobs
         \/ ForgetEpisodes \/ ForgetCommit

DeadlockResolved == \E r \in Runners : DeadlockAbortsRunner(r) \/ DeadlockAbortsForget(r)

Backfill == (\E kind \in Kinds : BackfillRead(kind)) \/ BackfillEnqueue

Next ==
    \/ \E n \in 1 .. MaxBatch : Append(n)
    \/ Backfill
    \/ \E j \in JobIds : Reclaim(j)
    \/ \E r \in Runners : Step(r) \/ ModelFails(r) \/ Refused(r) \/ Crash(r)
    \/ DeadlockResolved
    \/ ForgetBegin(TRUE, {})
    \/ \E eps \in SUBSET (1 .. nextEp - 1) \ {{}} : ForgetBegin(FALSE, eps)
    \/ Erase
    \/ ForgetInterrupted

Spec == Init /\ [][Next]_vars

(***************************************************************************)
(* Workers loop for ever and reclaim as they do, an erasure runs its       *)
(* statements to the end, the deadlock detector always fires, and someone  *)
(* runs backfill now and then, as the operations documentation asks.  An   *)
(* erasure that waits for a lock gets its turn when the holder ends, even  *)
(* if another would take it next: PostgreSQL queues the waiters of a lock. *)
(***************************************************************************)
FairSpec ==
    /\ Spec
    /\ \A r \in Runners : WF_vars(Step(r))
    /\ WF_vars(\E j \in JobIds : Reclaim(j))
    /\ SF_vars(Erase)
    /\ WF_vars(DeadlockResolved)
    /\ WF_vars(Backfill)

-----------------------------------------------------------------------------
(* Properties *)

\* Every variable has its type.
TypeOK ==
    /\ scope \in BOOLEAN
    /\ log \subseteq Episodes /\ encs \subseteq Episodes /\ marks \subseteq Episodes
    /\ fact \in [Claims -> SUBSET Episodes]
    /\ jobs \in [JobIds -> [state : {"absent", "owed", "done", "dead"},
                            kind : {"none", "encode", "extract"}, eps : SUBSET Episodes,
                            left : 0 .. MaxAttempts]]
    /\ nextEp \in 1 .. MaxEpisodes + 1
    /\ run \in [Runners -> [at : {"idle", "read", "put", "mark", "write", "ok", "fail"},
                            job : 0 .. MaxJobs, kind : {"none", "encode", "extract"},
                            todo : SUBSET Episodes, new : SUBSET Episodes]]
    /\ fg \in [at : {"none", "facts", "marks", "encs", "jobs", "log", "commit"},
               whole : BOOLEAN, eps : SUBSET Episodes, facts : SUBSET Claims,
               marks : SUBSET Episodes, encs : SUBSET Episodes, jobs : SUBSET JobIds,
               log : SUBSET Episodes]
    /\ bf \in [kind : {"none", "encode", "extract"}, eps : SUBSET Episodes]
    /\ troubles \in 0 .. MaxTroubles
    /\ applied \in [JobIds -> Nat]
    /\ refused \subseteq Episodes /\ partial \in BOOLEAN

\* However an erasure interleaves with the workers, no encoding and no marker
\* outlives its episode, and a scope that is gone left nothing behind: no
\* episode, projection, fact or job.
NothingOutlivesItsSource ==
    /\ encs \cup marks \subseteq log
    /\ ~scope => /\ log = {}
                 /\ \A c \in Claims : fact[c] = {}
                 /\ \A j \in JobIds : jobs[j] = NoJob

\* A job that is done has projected every episode it names that still exists,
\* whatever crashed, was retried or was erased in between.
DoneMeansProjected ==
    \A j \in JobIds : jobs[j].state = "done" =>
        jobs[j].eps \cap log \subseteq Projected(jobs[j].kind)

\* The extraction of one job is applied at most once, however many workers
\* run it: the first to commit its markers stands, the others are declined.
AppliedOnce == \A j \in JobIds : applied[j] <= 1

\* An episode with a marker is in the provenance of every claim it makes, so
\* skipping it in the next backfill loses nothing.  An erasure of single
\* episodes may take a fact that others support too, so the promise ends with
\* the first of those.
MarkedMeansRead ==
    ~partial => \A e \in marks : \A c \in Says[e] : e \in fact[c]

\* No fact names an erased episode.
FactsStandOnEpisodes == \A c \in Claims : fact[c] \subseteq log

\* As long as erasures take the whole scope, no fact names an erased episode:
\* the foreign key on the scope refuses to leave one behind.
WholeErasureIsWhole == ~partial => FactsStandOnEpisodes

\* Every episode that is not erased is eventually encoded, and extracted unless
\* the store refused what was read out of it or out of an episode read with it:
\* what a lost, dead or partly erased job missed, backfill finds.
EveryEpisodeProjected ==
    \A e \in Episodes :
        e \in log ~> \/ e \notin log
                     \/ \A k \in Kinds : \/ e \in Projected(k)
                                         \/ k = "extract" /\ e \in refused

\* An erasure ends, locks and deadlocks with extractions notwithstanding.
ForgetEnds == fg.at # "none" ~> fg.at = "none"

\* A claim an episode makes is in the store some time after, unless the
\* episode is erased; in particular a claim another erasure took with it is
\* derived again from the episodes that remain.
ClaimsAreDerived ==
    \A e \in Episodes, c \in Claims :
        e \in log /\ c \in Says[e] ~> e \notin log \/ e \in refused \/ fact[c] # {}
=============================================================================
