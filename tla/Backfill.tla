------------------------------ MODULE Backfill ------------------------------
(***************************************************************************)
(* ops.Backfill: the walk over the log that enqueues the work the          *)
(* projections are missing, one page per call, and the caller that loops   *)
(* on Done, passing NextScope and NextSeq back.  Workers drain and lose    *)
(* jobs, episodes are appended and erased while it walks.                  *)
(***************************************************************************)
EXTENDS Integers, Sequences, FiniteSets, FiniteSetsExt

CONSTANTS
    NumScopes,   \* scopes, numbered in id order
    MaxSeq,      \* bound: episodes per scope
    KindOrder,   \* the kinds this Ops enqueues, in its order
    Target,      \* BackfillRequest.Scope of the first call; 0 walks every scope
    Limit,       \* BackfillRequest.Limit
    BatchSize,   \* BackfillRequest.BatchSize
    ScopePage,   \* backfillScopePage
    MaxEvents    \* bound: appends, erasures, drained and lost jobs, failed calls

Scopes == 1 .. NumScopes
Seqs == 1 .. MaxSeq
Kinds == {KindOrder[i] : i \in 1 .. Len(KindOrder)}
Work == Kinds \X Scopes \X Seqs

ASSUME ConstantsOK ==
    /\ NumScopes \in Nat /\ MaxSeq \in Nat /\ Target \in 0 .. NumScopes
    /\ Limit \in Nat \ {0} /\ BatchSize \in Nat \ {0} /\ ScopePage \in Nat \ {0}
    /\ MaxEvents \in Nat /\ KindOrder \in Seq({"encode", "extract"})

VARIABLES
    last,      \* last[s]: scopes.last_seq, 0 while the scope has no row
    log,       \* log[s]: the seqs of the episodes in s
    done,      \* the work whose projection exists
    jobs,      \* outstanding backfill jobs
    req,       \* the request of the call: where it starts
    call,      \* the call in progress
    owed,      \* the work that was missing when the walk began and that no
               \* page has enqueued yet
    events

vars == <<last, log, done, jobs, req, call, owed, events>>
world == <<last, log, done, events>>

\* The first n of S, and S cut into batches, in Seq order.
Rank(e, S) == Cardinality({x \in S : x <= e})
First(S, n) == {e \in S : Rank(e, S) <= n}
Batches(S) == {{e \in S : (Rank(e, S) - 1) \div BatchSize = n} : n \in 0 .. Cardinality(S) - 1}
                \ {{}}

Pending(k, s) == {e \in log[s] : <<k, s, e>> \notin done}

-----------------------------------------------------------------------------
(* The call *)

\* A call: where it stands in the walk, and each kind's cursor.
Calls ==
    [at : {"idle", "list", "cursor", "enqueue", "done"}, after : 0 .. NumScopes,
     listed : SUBSET Scopes,
     cursors : [Kinds -> [seq : 0 .. MaxSeq, remaining : 0 .. Limit, exhausted : BOOLEAN]],
     i : 1 .. Len(KindOrder) + 1, progressed : BOOLEAN, page : SUBSET Seqs]

FreshCursors == [k \in Kinds |-> [seq |-> 0, remaining |-> Limit, exhausted |-> FALSE]]

NoCall == [at |-> "idle", after |-> 0, listed |-> {}, cursors |-> FreshCursors,
           i |-> 1, progressed |-> FALSE, page |-> {}]

Kind == KindOrder[call.i]
Cursor == call.cursors[Kind]
Scope == Min(call.listed)
SpentBudget == \E k \in Kinds : call.cursors[k].remaining = 0

\* Faulty: the furthest progress instead of the least.
ResumeFurthest ==
    LET seqs == {call.cursors[k].seq : k \in {x \in Kinds : ~call.cursors[x].exhausted}}
    IN  IF seqs = {} THEN 0 ELSE Max(seqs)

\* Faulty: every call starts its scope over.
ResumeFromStart == 0

\* The least progress of a kind that still has work in the scope.
ResumeSeq ==
    LET seqs == {call.cursors[k].seq : k \in {x \in Kinds : ~call.cursors[x].exhausted}}
    IN  IF seqs = {} THEN 0 ELSE Min(seqs)

\* Enter the first of the listed scopes ss, in id order: only the one the caller resumed into
\* starts part-way through.
Entering(ss) ==
    [call EXCEPT !.at = "cursor", !.listed = ss, !.i = 1, !.progressed = FALSE,
                 !.cursors = [k \in Kinds |-> [call.cursors[k] EXCEPT
                     !.seq = IF Min(ss) = req.scope THEN req.seq ELSE 0,
                     !.exhausted = FALSE]]]

Begin ==
    /\ call.at = "idle"
    /\ call' = [NoCall EXCEPT !.at = "list"]
    /\ UNCHANGED <<world, jobs, req, owed>>

\* The requested scope, or the next page of the catalogue; an empty page
\* ends the walk.
ListScopes ==
    /\ call.at = "list"
    /\ LET found == {s \in Scopes : last[s] > 0 /\ s > call.after}
           listed == First(found, ScopePage)
       IN  call' = IF req.scope # 0 THEN Entering({req.scope})
                   ELSE IF found = {} THEN [NoCall EXCEPT !.at = "done"]
                   ELSE [Entering(listed) EXCEPT !.after = Max(listed)]
    /\ UNCHANGED <<world, jobs, req, owed>>

\* Faulty: a page of the limit, whatever the budget has left.
ReadPageUncapped ==
    /\ call.at = "cursor" /\ call.i <= Len(KindOrder)
    /\ LET ids == First({e \in Pending(Kind, Scope) : e > Cursor.seq}, Limit)
       IN  call' = IF Cursor.exhausted \/ Cursor.remaining = 0
                   THEN [call EXCEPT !.i = @ + 1]
                   ELSE IF ids = {}
                   THEN [call EXCEPT !.i = @ + 1, !.cursors[Kind].exhausted = TRUE]
                   ELSE [call EXCEPT !.at = "enqueue", !.page = ids]
    /\ UNCHANGED <<world, jobs, req, owed>>

\* One kind's turn in backfillScope: a page of what is pending after its
\* cursor, up to what is left of its budget.
ReadPage ==
    /\ call.at = "cursor" /\ call.i <= Len(KindOrder)
    /\ LET ids == First({e \in Pending(Kind, Scope) : e > Cursor.seq}, Cursor.remaining)
       IN  call' = IF Cursor.exhausted \/ Cursor.remaining = 0
                   THEN [call EXCEPT !.i = @ + 1]
                   ELSE IF ids = {}
                   THEN [call EXCEPT !.i = @ + 1, !.cursors[Kind].exhausted = TRUE]
                   ELSE [call EXCEPT !.at = "enqueue", !.page = ids]
    /\ UNCHANGED <<world, jobs, req, owed>>

\* Jobs for the episodes eps, one per batch.
Enqueue(eps) ==
    /\ jobs' = jobs \cup {[kind |-> Kind, scope |-> Scope, eps |-> b] : b \in Batches(eps)}
    /\ owed' = owed \ {<<Kind, Scope, e>> : e \in eps}

\* enqueueBatches, duplicates collapsing onto outstanding jobs; then the last
\* episode of the page is read to place the cursor, and the call fails if it
\* has been erased.
EnqueuePage ==
    /\ call.at = "enqueue"
    /\ Enqueue(call.page)
    /\ call' = IF Max(call.page) \in log[Scope]
               THEN [call EXCEPT !.at = "cursor", !.page = {}, !.i = @ + 1,
                                 !.progressed = TRUE,
                                 !.cursors[Kind].seq = Max(call.page),
                                 !.cursors[Kind].remaining = @ - Cardinality(call.page)]
               ELSE NoCall
    /\ UNCHANGED <<world, req>>

RoundOver == call.at = "cursor" /\ call.i > Len(KindOrder)

\* Another round in the same scope.
NextRound ==
    /\ RoundOver /\ call.progressed /\ ~SpentBudget
    /\ call' = [call EXCEPT !.i = 1, !.progressed = FALSE]
    /\ UNCHANGED <<world, jobs, req, owed>>

\* The budget is spent: the call returns NextScope and NextSeq, and the
\* caller passes them to the next one.
PageDone ==
    /\ RoundOver /\ SpentBudget
    /\ req' = [scope |-> Scope, seq |-> ResumeSeq]
    /\ call' = NoCall
    /\ UNCHANGED <<world, jobs, owed>>

\* Nothing left in this scope.
LeaveScope ==
    /\ RoundOver /\ ~call.progressed /\ ~SpentBudget
    /\ call' = IF call.listed # {Scope} THEN Entering(call.listed \ {Scope})
               ELSE IF req.scope # 0 THEN [NoCall EXCEPT !.at = "done"]
               ELSE [call EXCEPT !.at = "list", !.listed = {}]
    /\ UNCHANGED <<world, jobs, req, owed>>

Walk == Begin \/ ListScopes \/ ReadPage \/ EnqueuePage \/ NextRound \/ PageDone \/ LeaveScope

-----------------------------------------------------------------------------
(* The live system around it *)

Event == events < MaxEvents /\ call.at # "done" /\ events' = events + 1

\* A query or the Enqueue of the batch after the first n fails: the call
\* returns the error, and the caller asks again for the same page.
CallFails(n) ==
    /\ Event
    /\ \/ call.at \in {"list", "cursor"} /\ n = 0 /\ UNCHANGED <<jobs, owed>>
       \/ call.at = "enqueue" /\ Enqueue(First(call.page, n * BatchSize))
    /\ call' = NoCall
    /\ UNCHANGED <<last, log, done, req>>

AppendEpisode(s) ==
    /\ Event /\ last[s] < MaxSeq
    /\ last' = [last EXCEPT ![s] = @ + 1]
    /\ log' = [log EXCEPT ![s] = @ \cup {last[s] + 1}]
    /\ UNCHANGED <<done, jobs, req, call, owed>>

\* Forget of one episode: with its projections and the jobs that name it.
Erase(s, e) ==
    /\ Event /\ e \in log[s]
    /\ log' = [log EXCEPT ![s] = @ \ {e}]
    /\ done' = {w \in done : ~(w[2] = s /\ w[3] = e)}
    /\ jobs' = {b \in jobs : ~(b.scope = s /\ e \in b.eps)}
    /\ UNCHANGED <<last, req, call, owed>>

\* A worker finishes a job.
Drain(b) ==
    /\ Event
    /\ done' = done \cup {w \in {b.kind} \X {b.scope} \X b.eps : w[3] \in log[b.scope]}
    /\ jobs' = jobs \ {b}
    /\ UNCHANGED <<last, log, req, call, owed>>

\* A job dies.
Die(b) ==
    /\ Event
    /\ jobs' = jobs \ {b}
    /\ UNCHANGED <<last, log, done, req, call, owed>>

\* Any part of the projections may be missing: jobs were lost, the model
\* changed, or a table was truncated.
Init ==
    /\ last \in [Scopes -> 0 .. MaxSeq]
    /\ log = [s \in Scopes |-> 1 .. last[s]]
    /\ done \in SUBSET {w \in Work : w[3] <= last[w[2]]}
    /\ jobs = {}
    /\ req = [scope |-> Target, seq |-> 0]
    /\ call = NoCall
    /\ owed = {w \in Work : w[3] <= last[w[2]] /\ w \notin done /\ Target \in {0, w[2]}}
    /\ events = 0

Next ==
    \/ Walk
    \/ \E n \in 0 .. Limit : CallFails(n)
    \/ \E s \in Scopes : AppendEpisode(s) \/ \E e \in Seqs : Erase(s, e)
    \/ \E b \in jobs : Drain(b) \/ Die(b)

Spec == Init /\ [][Next]_vars /\ WF_vars(Walk)

-----------------------------------------------------------------------------
(* Properties *)

\* Every variable has its type.
TypeOK ==
    /\ last \in [Scopes -> 0 .. MaxSeq]
    /\ log \in [Scopes -> SUBSET Seqs]
    /\ done \subseteq Work /\ owed \subseteq Work
    /\ jobs \subseteq [kind : Kinds, scope : Scopes, eps : SUBSET Seqs]
    /\ req \in [scope : 0 .. NumScopes, seq : 0 .. MaxSeq]
    /\ call \in Calls
    /\ events \in 0 .. MaxEvents

\* Everything that was missing in scope s when the walk began has had a job
\* enqueued, or was done or erased meanwhile.
Covered(s) == \A w \in owed : w[2] = s => w[3] \notin log[s] \/ w \in done

\* A caller that loops until Done has covered every scope up to the one it
\* was resumed into, all of them if it never was: no page boundary, spent
\* budget, turn of the other kind or failed call skips an episode.
EnteredScopesCovered ==
    call.at = "done" => \A s \in Scopes : req.scope \in {0, Target} \/ s <= req.scope
                                             => Covered(s)

\* A caller that loops until Done has covered every scope it asked for.
WalkCovers == call.at = "done" => \A s \in Scopes : Covered(s)

\* The caller's loop ends.
WalkEnds == <>(call.at = "done")
=============================================================================
