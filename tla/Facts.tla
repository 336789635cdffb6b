------------------------------- MODULE Facts -------------------------------
(***************************************************************************)
(* The fact store (L1) of one scope, and the extractions that write to it. *)
(* A fact is a claim with the window of event time it holds over, the      *)
(* system time it was learned at and the episodes it stands on.  Workers   *)
(* read episodes and the facts known when those arrived, ask a model, drop *)
(* what the store would refuse, and apply the rest in one transaction:     *)
(* markers, retractions, assertions.  Jobs are run at least once, in any   *)
(* order and by several workers at a time.  Forget of one episode runs     *)
(* beside them, each of its statements a step.                             *)
(***************************************************************************)
EXTENDS Integers, FiniteSets, FiniteSetsExt

CONSTANTS
    Runners,       \* workers running extract jobs
    Extractors,    \* extractor ids
    Claims,        \* triples
    Vocabulary,    \* the claims whose predicate the extractor may use
    MaxEpisode,    \* bound: episodes, numbered by Seq
    Occurred,      \* Occurred[e]: the event time of episode e
    Batches,       \* the sets of episodes a job may name
    MaxNow,        \* bound: system time
    MaxEvent,      \* bound: event time
    Utterances,    \* what a model may assert in one reply
    Says,          \* Says[e]: the claim in episode e, for a faithful model
    Contradicts,   \* pairs of claims that cannot both hold
    Faithful,      \* the model answers exactly what the episodes say
    Serial,        \* one extraction at a time, in Seq order
    KnownLimit,    \* WorkerConfig.KnownFactLimit
    MaxAssertions, \* Options.MaxAssertions
    MaxRuns,       \* bound: job bodies started
    MaxErasures    \* bound: erasures

Episodes == 1 .. MaxEpisode
Instants == 1 .. MaxEvent
Open == MaxEvent + 1   \* the upper end of a window that is still open
Ends == 1 .. Open

ASSUME ConstantsOK ==
    /\ Extractors # {} /\ Vocabulary \subseteq Claims /\ Contradicts \subseteq Claims \X Claims
    /\ Occurred \in [Episodes -> Instants] /\ Says \in [Episodes -> Claims]
    /\ Batches \subseteq (SUBSET Episodes) \ {{}}
    /\ \A u \in Utterances :
          IsFiniteSet(u) /\ u \subseteq [claim : Claims, from : Instants, to : Ends]
    /\ Faithful \in BOOLEAN /\ Serial \in BOOLEAN
    /\ {MaxEpisode, MaxEvent, KnownLimit, MaxAssertions, MaxRuns, MaxErasures} \subseteq Nat
    /\ MaxNow \in Nat \ {0}

VARIABLES
    now,      \* the clock
    ingested, \* ingested[e]: when e was appended, 0 before
    erased,   \* episodes that were erased
    rows,     \* mempher.facts: by id
    nextRow,  \* ids are never used twice
    marks,    \* mempher.fact_extractions: <<extractor, episode>>
    w,        \* w[r]: the job body runner r is in
    er,       \* the erasure under way: what its statements have deleted
    applied,  \* ghost: what extractions committed
    runs

vars == <<now, ingested, erased, rows, nextRow, marks, w, er, applied, runs>>
store == <<rows, nextRow, marks, applied>>
world == <<now, ingested, erased>>

NoKnown == [i \in {} |-> i]
Idle == [at |-> "idle", x |-> CHOOSE x \in Extractors : TRUE, eps |-> {}, known |-> NoKnown,
         asserts |-> {}, retracts |-> {}, fresh |-> {}, closes |-> NoKnown, snap |-> {}]
NoErasure == [at |-> "none", e |-> 0, rows |-> {}, marks |-> {}]

Log == {e \in Episodes : ingested[e] > 0} \ erased
At(r, at) == w[r].at = at
Leave(r) == w' = [w EXCEPT ![r] = Idle]

-----------------------------------------------------------------------------
(* Windows: half-open, [from, to) *)

Valid(v) == v.from < v.to
Contains(v, t) == v.from <= t /\ t < v.to

Overlaps(u, v) == u.from < v.to /\ v.from < u.to

\* Store.Facts: what extractor x believed of instant at, having learned it by
\* asOf.
FactsOf(x, asOf, at) ==
    {i \in DOMAIN rows : rows[i].x = x /\ rows[i].asserted <= asOf /\ Contains(rows[i], at)}

-----------------------------------------------------------------------------
(* The body of an extract job up to the transaction *)

\* Read the episodes, then the facts known when the latest of them arrived.
\* Relevance to the episodes decides which survive the limit.
Read(r, x, eps) ==
    LET latest == Max(eps)
        found == FactsOf(x, ingested[latest], Occurred[latest]) IN
    /\ At(r, "idle") /\ runs < MaxRuns
    /\ eps \subseteq Log
    /\ Serial => /\ \A q \in Runners : At(q, "idle")
                 /\ \A e \in 1 .. Min(eps) - 1 : <<x, e>> \in marks
    /\ \E k \in kSubset(Min({KnownLimit, Cardinality(found)}), found) :
          w' = [w EXCEPT ![r] = [Idle EXCEPT !.at = "asking", !.x = x, !.eps = eps,
                    !.known = [i \in k |-> [claim |-> rows[i].claim, from |-> rows[i].from]]]]
    /\ runs' = runs + 1
    /\ UNCHANGED <<world, store, er>>

\* What a model that reads well and knows what it was shown would say.
FaithfulReply(r) ==
    LET said == {[claim |-> Says[e], from |-> Occurred[e], to |-> Open] : e \in w[r].eps}
        known == w[r].known IN
    [assert |-> {a \in said : \A i \in DOMAIN known : known[i].claim # a.claim},
     retract |-> {[fact |-> p[1], at |-> p[2].from] :
                     p \in {q \in (DOMAIN known) \X said :
                               /\ <<q[2].claim, known[q[1]].claim>> \in Contradicts
                               /\ q[2].from > known[q[1]].from}}]

\* Any other model asserts what it likes and names facts by guesswork.
Replies(r) ==
    IF Faithful THEN {FaithfulReply(r)}
    ELSE [assert : Utterances,
          retract : {{}} \cup {{[fact |-> i, at |-> t]} : i \in 1 .. nextRow, t \in Instants}]

\* Faulty: a fact that was not shown can be named.
RetractableAny(r, t) == t.fact \in DOMAIN w[r].known => t.at >= w[r].known[t.fact].from

\* retraction: only a known fact, and not before it began.
Retractable(r, t) == t.fact \in DOMAIN w[r].known /\ t.at >= w[r].known[t.fact].from

\* assertion: within the vocabulary, over a window that is not empty.
Assertable(a) == a.claim \in Vocabulary /\ Valid(a)

\* dedupeAssertions: one claim over two windows that overlap.
SelfContradicts(as) ==
    \E a, b \in as : a # b /\ a.claim = b.claim /\ Overlaps(a, b)

\* assertions: what a FactStore would refuse is dropped, and what is over the
\* cap.
Kept(reply) ==
    LET good == {a \in reply.assert : Assertable(a)} IN
    kSubset(Min({MaxAssertions, Cardinality(good)}), good)

\* Extract: the model call, with whatever of the known facts a first pass chose
\* to show it, and validate; ApplyExtraction refuses a reply at odds with itself.
Answer(r) ==
    /\ At(r, "asking")
    /\ \E reply \in Replies(r) : \E kept \in Kept(reply) :
          IF SelfContradicts(kept) THEN Leave(r)
          ELSE w' = [w EXCEPT ![r].at = "answered", ![r].asserts = kept,
                              ![r].retracts = {t \in reply.retract : Retractable(r, t)}]
    /\ UNCHANGED <<world, store, er, runs>>

-----------------------------------------------------------------------------
(* ApplyExtraction: one transaction of three statements *)

InTransaction(q) == At(q, "marked") \/ At(q, "retracted")

\* The facts the erasure has deleted, which nobody else sees yet.
Deleted == IF er.at \in {"marks", "episode"} THEN er.rows ELSE {}

LockedByOthers(r) == Deleted \cup UNION {DOMAIN w[q].closes : q \in Runners \ {r}}

\* Faulty: the episode the batch is named after stands for all of it.
FreshLatest(r) == {e \in {Max(w[r].eps)} : <<w[r].x, e>> \notin marks}

Fresh(r) == {e \in w[r].eps : <<w[r].x, e>> \notin marks}

\* markExtractionSQL: a marker another transaction is inserting, or an erasure
\* is deleting, is waited for.  An episode that is gone refuses the
\* extraction; no new marker declines it.
MarkExtraction(r) ==
    /\ At(r, "answered")
    /\ \A q \in Runners \ {r} :
          InTransaction(q) /\ w[q].x = w[r].x => w[q].fresh \cap w[r].eps = {}
    /\ \A e \in w[r].eps : <<w[r].x, e>> \notin er.marks
    /\ IF w[r].eps \subseteq Log /\ Fresh(r) # {}
       THEN w' = [w EXCEPT ![r].at = "marked", ![r].fresh = Fresh(r)]
       ELSE Leave(r)
    /\ UNCHANGED <<world, store, er, runs>>

\* Faulty: a retraction at the fact's beginning empties its window.
UnretractableGone(t) == t.fact \notin DOMAIN rows

\* explainRetraction: the fact is absent, or would end no later than it began.
Unretractable(t) == t.fact \notin DOMAIN rows \/ t.at <= rows[t.fact].from

\* Faulty: the window is set to end at the instant, whatever its end was.
ClosesAnyway(r) ==
    [i \in {t.fact : t \in w[r].retracts} |-> Max({t.at : t \in {u \in w[r].retracts : u.fact = i}})]

\* retractSQL: a window that has ended by then is left alone.
Closes(r) ==
    [i \in {t.fact : t \in {u \in w[r].retracts : u.at < rows[u.fact].to}} |->
        Min({t.at : t \in {u \in w[r].retracts : u.fact = i}})]

\* applyRetractions: the rows it updates stay locked, and what it wrote is
\* seen by nobody else until the commit.  The next statement has its snapshot
\* from here.
ApplyRetractions(r) ==
    /\ At(r, "marked")
    /\ \A t \in w[r].retracts : t.fact \notin LockedByOthers(r)
    /\ IF \E t \in w[r].retracts : Unretractable(t) THEN Leave(r)
       ELSE w' = [w EXCEPT ![r].at = "retracted", ![r].closes = Closes(r),
                           ![r].snap = DOMAIN rows]
    /\ UNCHANGED <<world, store, er, runs>>

\* The rows as the transaction of r sees them.
Own(r) == [i \in DOMAIN rows |-> IF i \in DOMAIN w[r].closes
                                 THEN [rows[i] EXCEPT !.to = w[r].closes[i]] ELSE rows[i]]

SameClaim(r, i, a) == rows[i].x = w[r].x /\ rows[i].claim = a.claim

\* The row an UPDATE with the exact window finds in its snapshot.
Matches(r, i, a) ==
    LET v == Own(r)[i] IN i \in w[r].snap /\ SameClaim(r, i, a) /\ v.from = a.from /\ v.to = a.to

\* What is asserted and nothing of whose claim was updated.
ToInsert(r) ==
    LET updated == {b.claim : b \in {a \in w[r].asserts : \E i \in DOMAIN rows : Matches(r, i, a)}} IN
    {a \in w[r].asserts : a.claim \notin updated}

\* facts_pkey: WITHOUT OVERLAPS.
Collides(r, i, a) == SameClaim(r, i, a) /\ Overlaps(Own(r)[i], a)

\* Faulty: provenance is replaced rather than added to.
RefreshedNarrowed(r, i) ==
    IF \E a \in w[r].asserts : Matches(r, i, a)
    THEN [Own(r)[i] EXCEPT !.eps = w[r].eps] ELSE Own(r)[i]

Refreshed(r, i) ==
    IF \E a \in w[r].asserts : Matches(r, i, a)
    THEN [Own(r)[i] EXCEPT !.eps = @ \cup w[r].eps] ELSE Own(r)[i]

NewRow(r, a) == [x |-> w[r].x, claim |-> a.claim, from |-> a.from, to |-> a.to,
                 eps |-> w[r].eps, asserted |-> now]

\* applyAssertions and the commit.  A row of the claim that another
\* transaction is closing or deleting is waited for; an overlap refuses
\* everything.
ApplyAssertions(r) ==
    LET new == ToInsert(r)
        order == CHOOSE f \in [nextRow .. nextRow + Cardinality(new) - 1 -> new] :
                    \A a \in new : \E n \in DOMAIN f : f[n] = a IN
    /\ At(r, "retracted")
    /\ \A i \in LockedByOthers(r) \cap DOMAIN rows, a \in w[r].asserts : ~Collides(r, i, a)
    /\ IF \E a \in new, i \in DOMAIN rows : Collides(r, i, a) THEN UNCHANGED store
       ELSE /\ rows' = [i \in DOMAIN rows \cup DOMAIN order |->
                           IF i \in DOMAIN rows THEN Refreshed(r, i) ELSE NewRow(r, order[i])]
            /\ nextRow' = nextRow + Cardinality(new)
            /\ marks' = marks \cup {<<w[r].x, e>> : e \in w[r].fresh}
            /\ applied' = applied \cup {[x |-> w[r].x, eps |-> w[r].eps,
                                         claims |-> {a.claim : a \in w[r].asserts}]}
    /\ Leave(r)
    /\ UNCHANGED <<world, er, runs>>

\* A call or a statement fails, a deadlock is broken, or the process dies:
\* the transaction rolls back, and the job is run again some time.
Fails(r) ==
    /\ ~At(r, "idle")
    /\ Leave(r)
    /\ UNCHANGED <<world, store, er, runs>>

-----------------------------------------------------------------------------
(* Around the extractions *)

Append(e) ==
    /\ ingested[e] = 0 /\ \A f \in 1 .. e - 1 : ingested[f] > 0
    /\ ingested' = [ingested EXCEPT ![e] = now]
    /\ UNCHANGED <<now, erased, store, w, er, runs>>

\* Forget of one episode.  Its first DELETE finds the facts that name the
\* episode as the statement starts.
EraseBegin(e) ==
    /\ er.at = "none" /\ e \in Log /\ Cardinality(erased) < MaxErasures
    /\ er' = [NoErasure EXCEPT !.at = "facts", !.e = e,
                               !.rows = {i \in DOMAIN rows : e \in rows[i].eps}]
    /\ UNCHANGED <<world, store, w, runs>>

\* It waits for those an extraction is closing.
EraseFacts ==
    /\ er.at = "facts" /\ \A r \in Runners : DOMAIN w[r].closes \cap er.rows = {}
    /\ er' = [er EXCEPT !.at = "marks"]
    /\ UNCHANGED <<world, store, w, runs>>

\* The markers that are committed by now.
EraseMarks ==
    /\ er.at = "marks"
    /\ er' = [er EXCEPT !.at = "episode", !.marks = {m \in marks : m[2] = er.e}]
    /\ UNCHANGED <<world, store, w, runs>>

\* The episode and the commit.  A marker not committed yet holds the episode's
\* key; one committed since the last statement makes the foreign key refuse.
EraseEpisode ==
    /\ er.at = "episode"
    /\ \A r \in Runners : InTransaction(r) => er.e \notin w[r].fresh
    /\ IF \E m \in marks \ er.marks : m[2] = er.e
       THEN UNCHANGED <<erased, rows, marks>>
       ELSE /\ erased' = erased \cup {er.e}
            /\ rows' = [i \in DOMAIN rows \ er.rows |-> rows[i]]
            /\ marks' = marks \ er.marks
    /\ er' = NoErasure
    /\ UNCHANGED <<now, ingested, nextRow, w, applied, runs>>

\* A statement fails or a deadlock is broken: nothing was deleted.
EraseFails ==
    /\ er.at # "none"
    /\ er' = NoErasure
    /\ UNCHANGED <<world, store, w, runs>>

Tick ==
    /\ now < MaxNow
    /\ now' = now + 1
    /\ UNCHANGED <<ingested, erased, store, w, er, runs>>

Init ==
    /\ now = 1 /\ ingested = [e \in Episodes |-> 0] /\ erased = {}
    /\ rows = NoKnown /\ nextRow = 1 /\ marks = {}
    /\ w = [r \in Runners |-> Idle]
    /\ er = NoErasure /\ applied = {} /\ runs = 0

Next ==
    \/ \E r \in Runners :
          \/ \E x \in Extractors, eps \in Batches : Read(r, x, eps)
          \/ Answer(r)
          \/ MarkExtraction(r)
          \/ ApplyRetractions(r)
          \/ ApplyAssertions(r)
          \/ Fails(r)
    \/ \E e \in Episodes : Append(e) \/ EraseBegin(e)
    \/ EraseFacts \/ EraseMarks \/ EraseEpisode \/ EraseFails
    \/ Tick

Spec == Init /\ [][Next]_vars

-----------------------------------------------------------------------------
(* Properties *)

\* Every variable has its type, every window an instant in it, and of one
\* extractor's rows for one claim no two hold at the same instant.
TypeOK ==
    /\ now \in 1 .. MaxNow /\ ingested \in [Episodes -> 0 .. MaxNow] /\ erased \subseteq Episodes
    /\ DOMAIN rows \subseteq 1 .. nextRow - 1
    /\ \A i \in DOMAIN rows :
          /\ rows[i].x \in Extractors /\ rows[i].claim \in Vocabulary
          /\ rows[i].from \in Instants /\ rows[i].to \in Ends /\ Valid(rows[i])
          /\ rows[i].eps \subseteq Episodes /\ rows[i].asserted \in 1 .. MaxNow
    /\ \A i, j \in DOMAIN rows :
          i # j /\ rows[i].x = rows[j].x /\ rows[i].claim = rows[j].claim =>
             \A t \in Instants : ~(Contains(rows[i], t) /\ Contains(rows[j], t))
    /\ marks \subseteq Extractors \X Episodes
    /\ \A r \in Runners : w[r].at \in {"idle", "asking", "answered", "marked", "retracted"}
    /\ er.at \in {"none", "facts", "marks", "episode"} /\ er.e \in Episodes \cup {0}
    /\ er.rows \subseteq DOMAIN rows /\ er.marks \subseteq marks

\* A fact never stands without the marker of an episode that is still there,
\* however extractions and erasures overlap: otherwise that episode would be
\* read and the fact asserted again.  An episode that was erased may be named
\* still, by a fact whose extraction began before.
FactsAreMarked ==
    \A i \in DOMAIN rows : \A e \in rows[i].eps \ erased : <<rows[i].x, e>> \in marks

\* A marker never stands without what was read: every claim of an extraction
\* that committed has a row that names all its episodes, whoever asserted or
\* closed it before or after.  Only an erasure takes it away, and the erased
\* episode then supported the claim.
ReadClaimsStand ==
    /\ \A m \in marks : \E p \in applied : p.x = m[1] /\ m[2] \in p.eps
    /\ \A p \in applied : \A c \in p.claims :
          \/ \E i \in DOMAIN rows : rows[i].x = p.x /\ rows[i].claim = c /\ p.eps \subseteq rows[i].eps
          \/ \E q \in applied : q.x = p.x /\ c \in q.claims /\ q.eps \cap erased # {}

\* Facts are only closed: what held at an instant is never unsaid but for the
\* instants from a closing on, a closed window never opens again, and the
\* claim, its beginning and when it was learned never change.  A row goes only
\* with an episode it stands on.
HistoryOnlyCloses ==
    [][\A i \in DOMAIN rows :
          IF i \in DOMAIN rows'
          THEN /\ rows'[i].to <= rows[i].to /\ rows[i].eps \subseteq rows'[i].eps
               /\ rows'[i] = [rows[i] EXCEPT !.to = rows'[i].to, !.eps = rows'[i].eps]
          ELSE rows[i].eps \cap (erased' \ erased) # {}]_vars

\* An extraction closes only a fact it was shown, of its own extractor, that
\* was learned before its episodes arrived: a guessed id closes nothing.
OnlyShownFactsClose ==
    [][\A i \in DOMAIN rows \cap DOMAIN rows' :
          rows'[i].to # rows[i].to =>
             \E r \in Runners :
                /\ At(r, "retracted") /\ i \in DOMAIN w[r].known /\ rows[i].x = w[r].x
                /\ rows[i].asserted <= ingested[Max(w[r].eps)]]_vars

Beliefs(x) == {[claim |-> rows[i].claim, from |-> rows[i].from, to |-> rows[i].to] :
                  i \in {j \in DOMAIN rows : rows[j].x = x}}

\* A replay of the log through an extractor that answers alike reproduces the
\* facts: two extractors that have read the same episodes, each in Seq order,
\* believe the same windows.
ReplayReproduces ==
    (\A x \in Extractors, e \in Episodes : <<x, e>> \in marks) =>
        \A x, y \in Extractors : Beliefs(x) = Beliefs(y)

=============================================================================
