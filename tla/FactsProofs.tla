---------------------------- MODULE FactsProofs ----------------------------
(* Proofs about Facts, for every number of workers, extractors, claims,     *)
(* episodes and instants, and for whatever a model may answer.              *)
EXTENDS Facts, IntegerSets

\* The rows of mempher.facts, and what a job body holds.
FactRows == [x : Extractors, claim : Vocabulary, from : Instants, to : Ends,
             eps : SUBSET Episodes, asserted : 1 .. MaxNow]
Steps == {"idle", "asking", "answered", "marked", "retracted"}
Assertions == [claim : Vocabulary, from : Instants, to : Ends]
Retractions == [fact : Nat, at : Instants]
ShownFacts == UNION {[K -> [claim : Vocabulary, from : Instants]] : K \in SUBSET Nat}
Closings == UNION {[K -> Instants] : K \in SUBSET Nat}
Bodies == [at : Steps, x : Extractors, eps : SUBSET Episodes, known : ShownFacts,
           asserts : SUBSET Assertions, retracts : SUBSET Retractions, fresh : SUBSET Episodes,
           closes : Closings, snap : SUBSET Nat]
Erasures == [at : {"none", "facts", "marks", "episode"}, e : Episodes \cup {0}, rows : SUBSET Nat,
             marks : SUBSET (Extractors \X Episodes)]

-----------------------------------------------------------------------------
(* The inductive invariant *)

\* Job bodies and rows have their fields.
Shaped ==
    /\ w \in [Runners -> Bodies] /\ er \in Erasures /\ nextRow \in Nat \ {0}
    /\ \A i \in DOMAIN rows : rows[i] \in FactRows

\* What validate lets through: finitely many assertions, none over an empty
\* window, none at odds with another, and retractions of known facts.
Validated(r) ==
    /\ IsFiniteSet(w[r].asserts) /\ \A a \in w[r].asserts : Valid(a)
    /\ ~SelfContradicts(w[r].asserts)
    /\ \A t \in w[r].retracts : t.fact \in DOMAIN w[r].known

\* A body is about episodes that were appended; in its transaction each of them
\* has a marker, committed or its own, unless it was erased since.
Marked(r) ==
    /\ w[r].at # "idle" => w[r].eps # {} /\ \A e \in w[r].eps : ingested[e] > 0
    /\ w[r].fresh \subseteq w[r].eps
    /\ w[r].at \in {"marked", "retracted"} =>
          \A e \in w[r].eps : e \in w[r].fresh \/ <<w[r].x, e>> \in marks \/ e \in erased

\* A fact the model was shown is of the body's extractor and was learned by the
\* time its episodes arrived, for as long as the row exists.
WasShown(r) ==
    \A i \in DOMAIN w[r].known :
        /\ i < nextRow /\ w[r].at # "idle"
        /\ i \in DOMAIN rows =>
              rows[i].x = w[r].x /\ rows[i].asserted <= ingested[Max(w[r].eps)]

\* The rows a transaction is closing stay as it found them until it commits.
Closing(r) ==
    \A i \in DOMAIN w[r].closes :
        /\ w[r].at = "retracted" /\ i \in DOMAIN rows /\ i \in DOMAIN w[r].known
        /\ rows[i].from < w[r].closes[i] /\ w[r].closes[i] < rows[i].to

\* What every job body relies on.
BodyOK(r) == Validated(r) /\ Marked(r) /\ WasShown(r) /\ Closing(r)

\* No two transactions close the same row.
ClosesApart ==
    \A r, q \in Runners : r # q => DOMAIN w[r].closes \cap DOMAIN w[q].closes = {}

\* An erasure is of an episode that is there.  It deletes facts that name the
\* episode and its markers, and none that a transaction is closing.
Erasing ==
    /\ er.at # "none" => er.e \in Episodes \ erased
    /\ \A i \in er.rows : i \in DOMAIN rows /\ er.e \in rows[i].eps
    /\ \A m \in er.marks : m[2] = er.e
    /\ \A r \in Runners : DOMAIN w[r].closes \cap Deleted = {}

\* Every episode a fact stands on was read by an extraction that asserted it.
Supported ==
    \A i \in DOMAIN rows : \A e \in rows[i].eps :
        \E p \in applied : p.x = rows[i].x /\ rows[i].claim \in p.claims /\ e \in p.eps

\* The inductive invariant.
IInv == /\ TypeOK /\ Shaped /\ (\A r \in Runners : BodyOK(r)) /\ ClosesApart /\ Erasing
        /\ Supported /\ FactsAreMarked /\ ReadClaimsStand

-----------------------------------------------------------------------------
(* Steps that leave the store alone *)

\* A worker without a job holds nothing.
LEMMA IdleHoldsNothing ==
    /\ Idle \in Bodies /\ Idle.at = "idle" /\ Idle.eps = {} /\ DOMAIN Idle.known = {}
    /\ Idle.asserts = {} /\ Idle.retracts = {} /\ Idle.fresh = {} /\ DOMAIN Idle.closes = {}
<1>1. NoKnown \in ShownFacts /\ NoKnown \in Closings /\ DOMAIN NoKnown = {}
  <2>1. NoKnown \in [{} -> [claim : Vocabulary, from : Instants]] /\ NoKnown \in [{} -> Instants]
    BY DEF NoKnown
  <2>2. {} \in SUBSET Nat
    OBVIOUS
  <2> QED
    BY <2>1, <2>2 DEF ShownFacts, Closings, NoKnown
<1>2. (CHOOSE x \in Extractors : TRUE) \in Extractors
  BY ConstantsOK
<1> QED
  BY <1>1, <1>2 DEF Idle, Bodies, Steps

\* A body that holds nothing is in order.
LEMMA NothingHeld ==
    ASSUME NEW r \in Runners, w'[r] = Idle
    PROVE  BodyOK(r)' /\ w'[r] \in Bodies /\ DOMAIN w'[r].closes = {}
<1>1. IsFiniteSet({}) /\ ~SelfContradicts({})
  BY FS_EmptySet DEF SelfContradicts
<1>2. Validated(r)'
  BY <1>1, IdleHoldsNothing DEF Validated
<1>3. Marked(r)' /\ WasShown(r)' /\ Closing(r)'
  BY IdleHoldsNothing DEF Marked, WasShown, Closing
<1> QED
  BY <1>2, <1>3, IdleHoldsNothing DEF BodyOK

\* A step of one body that leaves the log and the store alone keeps the
\* invariant if that body stays in order and closes nobody else's rows and
\* none that is being deleted.
LEMMA BodyStep ==
    ASSUME IInv, NEW r \in Runners, UNCHANGED <<world, store, er>>,
           w' \in [Runners -> Bodies], \A q \in Runners : q # r => w'[q] = w[q],
           BodyOK(r)',
           \A q \in Runners : q # r => DOMAIN w'[r].closes \cap DOMAIN w[q].closes = {},
           DOMAIN w'[r].closes \cap Deleted = {}
    PROVE  IInv'
<1>1. /\ now' = now /\ ingested' = ingested /\ erased' = erased /\ er' = er
      /\ rows' = rows /\ nextRow' = nextRow /\ marks' = marks /\ applied' = applied
  BY DEF world, store
<1>2. TypeOK'
  <2>1. \A q \in Runners : w'[q].at \in Steps
    BY DEF Bodies
  <2> QED
    BY <1>1, <2>1 DEF IInv, TypeOK, Steps
<1>3. Shaped'
  BY <1>1 DEF IInv, Shaped
<1>4. ASSUME NEW q \in Runners
      PROVE  BodyOK(q)'
  <2>1. CASE q = r
    BY <2>1
  <2>2. CASE q # r
    <3>1. w'[q] = w[q] /\ BodyOK(q)
      BY <2>2 DEF IInv
    <3> QED
      BY <1>1, <3>1 DEF BodyOK, Validated, Marked, WasShown, Closing
  <2> QED
    BY <2>1, <2>2
<1>5. ClosesApart' /\ Erasing'
  <2>1. ClosesApart'
    BY DEF IInv, ClosesApart
  <2>2. Deleted' = Deleted
    BY <1>1 DEF Deleted
  <2>3. \A q \in Runners : DOMAIN w'[q].closes \cap Deleted' = {}
    BY <2>2 DEF IInv, Erasing
  <2> QED
    BY <1>1, <2>1, <2>3 DEF IInv, Erasing
<1>6. Supported' /\ FactsAreMarked' /\ ReadClaimsStand'
  BY <1>1 DEF IInv, Supported, FactsAreMarked, ReadClaimsStand
<1> QED
  BY <1>2, <1>3, <1>4, <1>5, <1>6 DEF IInv

\* A body that ends without a commit.
LEMMA LeaveKeeps ==
    ASSUME IInv, NEW r \in Runners, Leave(r), UNCHANGED <<world, store, er>>
    PROVE  IInv'
<1>1. w \in [Runners -> Bodies]
  BY DEF IInv, Shaped
<1>2. w'[r] = Idle /\ (\A q \in Runners : q # r => w'[q] = w[q]) /\ w' \in [Runners -> Bodies]
  BY <1>1, IdleHoldsNothing DEF Leave
<1> QED
  BY <1>2, NothingHeld, BodyStep

\* The job body reads its episodes and the facts known when they arrived.
LEMMA ReadKeeps ==
    ASSUME IInv, NEW r \in Runners, NEW x \in Extractors, NEW eps \in Batches, Read(r, x, eps)
    PROVE  IInv'
<1> DEFINE found == FactsOf(x, ingested[Max(eps)], Occurred[Max(eps)])
           shown(k) == [i \in k |-> [claim |-> rows[i].claim, from |-> rows[i].from]]
           body(k) == [Idle EXCEPT !.at = "asking", !.x = x, !.eps = eps, !.known = shown(k)]
<1>1. /\ eps \subseteq Log /\ UNCHANGED <<world, store, er>>
      /\ \E k \in kSubset(Min({KnownLimit, Cardinality(found)}), found) :
            w' = [w EXCEPT ![r] = body(k)]
  BY Zenon DEF Read
<1>2. PICK k \in SUBSET found : w' = [w EXCEPT ![r] = body(k)]
  BY <1>1 DEF kSubset
<1>3. eps \in SUBSET Episodes /\ eps # {} /\ \A e \in eps : ingested[e] > 0
  <2>1. eps \in SUBSET Episodes /\ eps # {}
    BY ConstantsOK
  <2>2. \A e \in eps : ingested[e] > 0
    BY <1>1 DEF Log
  <2> QED
    BY <2>1, <2>2
<1>4. /\ w \in [Runners -> Bodies] /\ nextRow \in Nat
      /\ DOMAIN rows \subseteq 1 .. nextRow - 1 /\ \A i \in DOMAIN rows : rows[i] \in FactRows
  BY DEF IInv, Shaped, TypeOK
<1>5. k \subseteq DOMAIN rows
  BY DEF FactsOf
<1>6. shown(k) \in ShownFacts /\ DOMAIN shown(k) = k
  <2>1. shown(k) \in [k -> [claim : Vocabulary, from : Instants]]
    BY <1>4, <1>5 DEF FactRows
  <2>2. k \in SUBSET Nat
    BY <1>4, <1>5
  <2> QED
    BY <2>1, <2>2 DEF ShownFacts
<1>7. \A i \in k : i < nextRow /\ rows[i].x = x /\ rows[i].asserted <= ingested[Max(eps)]
  BY <1>4, <1>5 DEF FactsOf
<1> HIDE DEF found, shown
<1>8. /\ body(k) \in Bodies /\ body(k).at = "asking" /\ body(k).x = x /\ body(k).eps = eps
      /\ body(k).known = shown(k) /\ body(k).asserts = {} /\ body(k).retracts = {}
      /\ body(k).fresh = {} /\ DOMAIN body(k).closes = {}
  BY <1>3, <1>6, IdleHoldsNothing DEF Bodies, Steps
<1> HIDE DEF body
<1>9. /\ w'[r] = body(k) /\ w' \in [Runners -> Bodies]
      /\ \A q \in Runners : q # r => w'[q] = w[q]
  BY <1>2, <1>4, <1>8
<1>10. /\ now' = now /\ ingested' = ingested /\ erased' = erased
       /\ rows' = rows /\ nextRow' = nextRow /\ marks' = marks /\ applied' = applied
  BY <1>1 DEF world, store
<1>11. BodyOK(r)'
  <2>1. Validated(r)'
    <3>1. IsFiniteSet({}) /\ ~SelfContradicts({})
      BY FS_EmptySet DEF SelfContradicts
    <3> QED
      BY <1>8, <1>9, <3>1 DEF Validated
  <2>2. Marked(r)' /\ Closing(r)'
    BY <1>3, <1>8, <1>9, <1>10 DEF Marked, Closing
  <2>3. WasShown(r)'
    BY <1>6, <1>7, <1>8, <1>9, <1>10 DEF WasShown
  <2> QED
    BY <2>1, <2>2, <2>3 DEF BodyOK
<1> QED
  BY <1>1, <1>8, <1>9, <1>11, BodyStep

\* Whatever a model asserts is a finite set of claims over windows.
LEMMA RepliesAreFinite ==
    ASSUME IInv, NEW r \in Runners, NEW reply \in Replies(r)
    PROVE  /\ IsFiniteSet(reply.assert) /\ reply.assert \subseteq [claim : Claims, from : Instants, to : Ends]
           /\ \A t \in reply.retract : t \in Retractions
<1>1. /\ w[r] \in Bodies /\ w[r].eps \in SUBSET Episodes /\ w[r].known \in ShownFacts
      /\ nextRow \in Nat
  BY DEF IInv, Shaped, Bodies
<1>2. CASE Faithful
  <2> DEFINE said == {[claim |-> Says[e], from |-> Occurred[e], to |-> Open] : e \in w[r].eps}
             known == w[r].known
             pairs == {q \in (DOMAIN known) \X said :
                               /\ <<q[2].claim, known[q[1]].claim>> \in Contradicts
                               /\ q[2].from > known[q[1]].from}
  <2>1. /\ reply.assert = {a \in said : \A i \in DOMAIN known : known[i].claim # a.claim}
        /\ reply.retract = {[fact |-> p[1], at |-> p[2].from] : p \in pairs}
    <3>1. reply = FaithfulReply(r)
      BY <1>2 DEF Replies
    <3> QED
      BY <3>1 DEF FaithfulReply
  <2>2. Open \in Ends
    BY ConstantsOK DEF Open, Ends
  <2>3. said \subseteq [claim : Claims, from : Instants, to : Ends]
    BY <1>1, <2>2, ConstantsOK
  <2>4. IsFiniteSet(said)
    <3>1. IsFiniteSet(w[r].eps)
      <4>1. IsFiniteSet(Episodes)
        BY FS_Interval, ConstantsOK DEF Episodes
      <4> QED
        BY <1>1, <4>1, FS_Subset
    <3> DEFINE f == [e \in w[r].eps |-> [claim |-> Says[e], from |-> Occurred[e], to |-> Open]]
    <3>2. f \in Surjection(w[r].eps, said)
      BY DEF Surjection
    <3> QED
      BY <3>1, <3>2, FS_Surjection
  <2>5. IsFiniteSet(reply.assert) /\ reply.assert \subseteq said
    BY <2>1, <2>4, FS_Subset
  <2>6. PICK K \in SUBSET Nat : known \in [K -> [claim : Vocabulary, from : Instants]]
    BY <1>1 DEF ShownFacts
  <2>7. \A p \in pairs : p[1] \in Nat /\ p[2].from \in Instants
    BY <2>3, <2>6
  <2> HIDE DEF pairs
  <2>8. \A t \in reply.retract : t \in Retractions
    <3> TAKE t \in reply.retract
    <3>1. PICK p \in pairs : t = [fact |-> p[1], at |-> p[2].from]
      BY <2>1
    <3> QED
      BY <2>7, <3>1 DEF Retractions
  <2> QED
    BY <2>3, <2>5, <2>8
<1>3. CASE ~Faithful
  <2>1. /\ reply.assert \in Utterances
        /\ reply.retract \in {{}} \cup {{[fact |-> i, at |-> t]} : i \in 1 .. nextRow, t \in Instants}
    BY <1>3 DEF Replies
  <2>2. \A t \in reply.retract : t \in Retractions
    BY <1>1, <2>1 DEF Retractions
  <2> QED
    BY <2>1, <2>2, ConstantsOK
<1> QED
  BY <1>2, <1>3

\* The model's answer, with what validate drops.
LEMMA AnswerKeeps ==
    ASSUME IInv, NEW r \in Runners, Answer(r)
    PROVE  IInv'
<1>1. /\ w[r].at = "asking" /\ UNCHANGED <<world, store, er>>
      /\ w \in [Runners -> Bodies] /\ w[r] \in Bodies /\ BodyOK(r)
  BY DEF IInv, Shaped, Answer, At
<1>2. PICK reply \in Replies(r) : \E kept \in Kept(reply) :
          IF SelfContradicts(kept) THEN Leave(r)
          ELSE w' = [w EXCEPT ![r].at = "answered", ![r].asserts = kept,
                              ![r].retracts = {t \in reply.retract : Retractable(r, t)}]
  BY DEF Answer
<1>3. PICK kept \in Kept(reply) :
          IF SelfContradicts(kept) THEN Leave(r)
          ELSE w' = [w EXCEPT ![r].at = "answered", ![r].asserts = kept,
                              ![r].retracts = {t \in reply.retract : Retractable(r, t)}]
  BY <1>2
<1>4. CASE SelfContradicts(kept)
  BY <1>1, <1>3, <1>4, LeaveKeeps
<1>5. CASE ~SelfContradicts(kept)
  <2> DEFINE retracts == {t \in reply.retract : Retractable(r, t)}
             body == [w[r] EXCEPT !.at = "answered", !.asserts = kept, !.retracts = retracts]
  <2>1. /\ IsFiniteSet(reply.assert) /\ reply.assert \subseteq [claim : Claims, from : Instants, to : Ends]
        /\ \A t \in reply.retract : t \in Retractions
    BY RepliesAreFinite
  <2>2. kept \subseteq {a \in reply.assert : Assertable(a)}
    BY DEF Kept, kSubset
  <2>3. IsFiniteSet(kept) /\ kept \in SUBSET Assertions /\ \A a \in kept : Valid(a)
    <3>1. IsFiniteSet(kept)
      BY <2>1, <2>2, FS_Subset
    <3>2. \A a \in kept : a \in Assertions /\ Valid(a)
      BY <2>1, <2>2 DEF Assertable, Assertions
    <3> QED
      BY <3>1, <3>2
  <2>4. retracts \in SUBSET Retractions /\ \A t \in retracts : t.fact \in DOMAIN w[r].known
    BY <2>1 DEF Retractable
  <2>5. w' = [w EXCEPT ![r] = body]
    BY <1>1, <1>3, <1>5
  <2> HIDE DEF retracts
  <2>6. /\ body \in Bodies /\ body.at = "answered" /\ body.asserts = kept /\ body.retracts = retracts
        /\ body.x = w[r].x /\ body.eps = w[r].eps /\ body.known = w[r].known
        /\ body.fresh = w[r].fresh /\ body.closes = w[r].closes
    BY <1>1, <2>3, <2>4 DEF Bodies, Steps
  <2> HIDE DEF body
  <2>7. /\ w'[r] = body /\ w' \in [Runners -> Bodies]
        /\ \A q \in Runners : q # r => w'[q] = w[q]
    BY <1>1, <2>5, <2>6
  <2>8. /\ now' = now /\ ingested' = ingested /\ erased' = erased
        /\ rows' = rows /\ nextRow' = nextRow /\ marks' = marks /\ applied' = applied
    BY <1>1 DEF world, store
  <2>9. DOMAIN w[r].closes = {}
    BY <1>1 DEF BodyOK, Closing
  <2>10. BodyOK(r)'
    <3>1. Validated(r)'
      BY <1>5, <2>3, <2>4, <2>6, <2>7 DEF Validated
    <3>2. Marked(r)' /\ WasShown(r)' /\ Closing(r)'
      BY <1>1, <2>6, <2>7, <2>8, <2>9 DEF BodyOK, Marked, WasShown, Closing
    <3> QED
      BY <3>1, <3>2 DEF BodyOK
  <2> QED
    BY <1>1, <2>6, <2>7, <2>9, <2>10, BodyStep
<1> QED
  BY <1>4, <1>5

\* markExtractionSQL: the new markers, and no transaction's markers are missing.
LEMMA MarkExtractionKeeps ==
    ASSUME IInv, NEW r \in Runners, MarkExtraction(r)
    PROVE  IInv'
<1>1. /\ w[r].at = "answered" /\ UNCHANGED <<world, store, er>>
      /\ w \in [Runners -> Bodies] /\ w[r] \in Bodies /\ BodyOK(r)
  BY DEF IInv, Shaped, MarkExtraction, At
<1>2. CASE Leave(r)
  BY <1>1, <1>2, LeaveKeeps
<1>3. CASE w' = [w EXCEPT ![r].at = "marked", ![r].fresh = Fresh(r)]
  <2> DEFINE body == [w[r] EXCEPT !.at = "marked", !.fresh = Fresh(r)]
  <2>1. w' = [w EXCEPT ![r] = body]
    BY <1>1, <1>3
  <2>2. /\ Fresh(r) \in SUBSET w[r].eps /\ w[r].eps \in SUBSET Episodes
        /\ \A e \in w[r].eps : e \in Fresh(r) \/ <<w[r].x, e>> \in marks
    BY <1>1 DEF Fresh, Bodies
  <2>3. /\ body \in Bodies /\ body.at = "marked" /\ body.fresh = Fresh(r)
        /\ body.x = w[r].x /\ body.eps = w[r].eps /\ body.known = w[r].known
        /\ body.asserts = w[r].asserts /\ body.retracts = w[r].retracts /\ body.closes = w[r].closes
    <3>1. Fresh(r) \in SUBSET Episodes
      BY <2>2
    <3> QED
      BY <1>1, <3>1 DEF Bodies, Steps
  <2> HIDE DEF body
  <2>4. /\ w'[r] = body /\ w' \in [Runners -> Bodies]
        /\ \A q \in Runners : q # r => w'[q] = w[q]
    BY <1>1, <2>1, <2>3
  <2>5. /\ now' = now /\ ingested' = ingested /\ erased' = erased
        /\ rows' = rows /\ nextRow' = nextRow /\ marks' = marks /\ applied' = applied
    BY <1>1 DEF world, store
  <2>6. DOMAIN w[r].closes = {}
    BY <1>1 DEF BodyOK, Closing
  <2>7. BodyOK(r)'
    <3>1. Validated(r)'
      BY <1>1, <2>3, <2>4 DEF BodyOK, Validated
    <3>2. Marked(r)'
      BY <1>1, <2>2, <2>3, <2>4, <2>5 DEF BodyOK, Marked
    <3>3. WasShown(r)' /\ Closing(r)'
      BY <1>1, <2>3, <2>4, <2>5, <2>6 DEF BodyOK, WasShown, Closing
    <3> QED
      BY <3>1, <3>2, <3>3 DEF BodyOK
  <2> QED
    BY <1>1, <2>3, <2>4, <2>6, <2>7, BodyStep
<1> QED
  BY <1>2, <1>3 DEF MarkExtraction

\* retractSQL closes windows within what they were, at the earliest instant it
\* was given.
LEMMA ClosesWithin ==
    ASSUME IInv, NEW r \in Runners, \A t \in w[r].retracts : ~Unretractable(t)
    PROVE  /\ Closes(r) \in Closings
           /\ \A i \in DOMAIN Closes(r) :
                 /\ i \in DOMAIN rows /\ \E t \in w[r].retracts : t.fact = i
                 /\ rows[i].from < Closes(r)[i] /\ Closes(r)[i] < rows[i].to
<1>1. w[r].retracts \subseteq Retractions
  BY DEF IInv, Shaped, Bodies
<1>2. \A i \in DOMAIN rows : rows[i].from \in Nat /\ rows[i].to \in Nat
  BY ConstantsOK DEF IInv, Shaped, FactRows, Instants, Ends, Open
<1> DEFINE D == {t.fact : t \in {u \in w[r].retracts : u.at < rows[u.fact].to}}
           Given(i) == {t.at : t \in {u \in w[r].retracts : u.fact = i}}
<1>3. Closes(r) = [i \in D |-> Min(Given(i))]
  BY DEF Closes
<1>4. ASSUME NEW i \in D
      PROVE  /\ i \in DOMAIN rows /\ (\E t \in w[r].retracts : t.fact = i) /\ i \in Nat
             /\ Min(Given(i)) \in Instants /\ rows[i].from < Min(Given(i)) /\ Min(Given(i)) < rows[i].to
  <2>1. PICK t \in w[r].retracts : t.fact = i /\ t.at < rows[i].to
    OBVIOUS
  <2>2. Given(i) \in SUBSET Instants /\ t.at \in Given(i)
    BY <1>1, <2>1 DEF Retractions
  <2>3. Instants \subseteq Nat
    BY ConstantsOK DEF Instants
  <2>4. \A y \in Given(i) : y > rows[i].from
    <3> TAKE y \in Given(i)
    <3>1. PICK u \in w[r].retracts : u.fact = i /\ u.at = y
      OBVIOUS
    <3>2. i \in DOMAIN rows /\ ~(y <= rows[i].from)
      BY <3>1 DEF Unretractable
    <3>3. y \in Nat /\ rows[i].from \in Nat
      BY <1>2, <2>2, <2>3, <3>2
    <3> QED
      BY <3>2, <3>3
  <2> HIDE DEF Given, D
  <2>5. Min(Given(i)) \in Given(i) /\ Min(Given(i)) <= t.at
    BY <2>2, <2>3, MinIsLeast
  <2>6. i \in DOMAIN rows /\ i \in Nat
    BY <1>1, <2>1 DEF Unretractable, Retractions
  <2>7. Min(Given(i)) \in Nat /\ t.at \in Nat /\ rows[i].from \in Nat /\ rows[i].to \in Nat
    BY <1>2, <2>2, <2>3, <2>5, <2>6
  <2>8. Min(Given(i)) < rows[i].to /\ rows[i].from < Min(Given(i))
    BY <2>1, <2>4, <2>5, <2>7
  <2> QED
    BY <2>1, <2>2, <2>5, <2>6, <2>8
<1> HIDE DEF D, Given
<1>5. D \in SUBSET Nat /\ Closes(r) \in [D -> Instants]
  BY <1>3, <1>4
<1> QED
  BY <1>3, <1>4, <1>5 DEF Closings

\* applyRetractions: the rows it will close are its own until the commit.
LEMMA ApplyRetractionsKeeps ==
    ASSUME IInv, NEW r \in Runners, ApplyRetractions(r)
    PROVE  IInv'
<1>1. /\ w[r].at = "marked" /\ UNCHANGED <<world, store, er>>
      /\ w \in [Runners -> Bodies] /\ w[r] \in Bodies /\ BodyOK(r)
      /\ \A t \in w[r].retracts : t.fact \notin LockedByOthers(r)
  BY DEF IInv, Shaped, ApplyRetractions, At
<1>2. CASE \E t \in w[r].retracts : Unretractable(t)
  BY <1>1, <1>2, LeaveKeeps DEF ApplyRetractions
<1>3. CASE ~\E t \in w[r].retracts : Unretractable(t)
  <2> DEFINE body == [w[r] EXCEPT !.at = "retracted", !.closes = Closes(r), !.snap = DOMAIN rows]
  <2>1. w' = [w EXCEPT ![r] = body]
    BY <1>1, <1>3 DEF ApplyRetractions
  <2>2. /\ Closes(r) \in Closings
        /\ \A i \in DOMAIN Closes(r) :
              /\ i \in DOMAIN rows /\ \E t \in w[r].retracts : t.fact = i
              /\ rows[i].from < Closes(r)[i] /\ Closes(r)[i] < rows[i].to
    BY <1>3, ClosesWithin
  <2>3. DOMAIN rows \in SUBSET Nat
    BY DEF IInv, TypeOK, Shaped
  <2>4. /\ body \in Bodies /\ body.at = "retracted" /\ body.closes = Closes(r)
        /\ body.x = w[r].x /\ body.eps = w[r].eps /\ body.known = w[r].known
        /\ body.asserts = w[r].asserts /\ body.retracts = w[r].retracts /\ body.fresh = w[r].fresh
    BY <1>1, <2>2, <2>3 DEF Bodies, Steps
  <2> HIDE DEF body
  <2>5. /\ w'[r] = body /\ w' \in [Runners -> Bodies]
        /\ \A q \in Runners : q # r => w'[q] = w[q]
    BY <1>1, <2>1, <2>4
  <2>6. /\ now' = now /\ ingested' = ingested /\ erased' = erased
        /\ rows' = rows /\ nextRow' = nextRow /\ marks' = marks /\ applied' = applied
    BY <1>1 DEF world, store
  <2>7. BodyOK(r)'
    <3>1. Validated(r)'
      BY <1>1, <2>4, <2>5 DEF BodyOK, Validated
    <3>2. Marked(r)'
      BY <1>1, <2>4, <2>5, <2>6 DEF BodyOK, Marked
    <3>3. WasShown(r)'
      BY <1>1, <2>4, <2>5, <2>6 DEF BodyOK, WasShown
    <3>4. \A i \in DOMAIN Closes(r) : i \in DOMAIN w[r].known
      BY <1>1, <2>2 DEF BodyOK, Validated
    <3>5. Closing(r)'
      BY <2>2, <2>4, <2>5, <2>6, <3>4 DEF Closing
    <3> QED
      BY <3>1, <3>2, <3>3, <3>5 DEF BodyOK
  <2>8. \A q \in Runners : q # r => DOMAIN w'[r].closes \cap DOMAIN w[q].closes = {}
    <3>1. \A q \in Runners : q # r => DOMAIN w[q].closes \subseteq LockedByOthers(r)
      BY DEF LockedByOthers
    <3>2. \A i \in DOMAIN Closes(r) : i \notin LockedByOthers(r)
      BY <1>1, <2>2
    <3> QED
      BY <2>4, <2>5, <3>1, <3>2
  <2>9. DOMAIN w'[r].closes \cap Deleted = {}
    BY <1>1, <2>2, <2>4, <2>5 DEF LockedByOthers
  <2> QED
    BY <1>1, <2>5, <2>7, <2>8, <2>9, BodyStep
<1> QED
  BY <1>2, <1>3

-----------------------------------------------------------------------------
(* The commit of an extraction *)

\* A row that exists keeps what it says; its window may be closed and its
\* provenance may grow.
LEMMA RefreshedKeeps ==
    ASSUME IInv, NEW r \in Runners, NEW i \in DOMAIN rows
    PROVE  /\ Refreshed(r, i).x = rows[i].x /\ Refreshed(r, i).claim = rows[i].claim
           /\ Refreshed(r, i).from = rows[i].from /\ Refreshed(r, i).asserted = rows[i].asserted
           /\ Refreshed(r, i).to = Own(r)[i].to /\ Own(r)[i].from = rows[i].from
           /\ Own(r)[i].to = IF i \in DOMAIN w[r].closes THEN w[r].closes[i] ELSE rows[i].to
           /\ Refreshed(r, i).eps = IF \E a \in w[r].asserts : Matches(r, i, a)
                                    THEN rows[i].eps \cup w[r].eps ELSE rows[i].eps
           /\ Refreshed(r, i) \in FactRows /\ Valid(Refreshed(r, i))
           /\ Refreshed(r, i).to <= rows[i].to
           /\ Refreshed(r, i) = [rows[i] EXCEPT !.to = Refreshed(r, i).to, !.eps = Refreshed(r, i).eps]
<1>1. /\ rows[i] \in FactRows /\ Valid(rows[i]) /\ w[r] \in Bodies /\ Closing(r)
      /\ w[r].eps \in SUBSET Episodes /\ w[r].closes \in Closings
  BY DEF IInv, Shaped, TypeOK, BodyOK, Bodies
<1>2. rows[i].from \in Nat /\ rows[i].to \in Nat
  BY <1>1, ConstantsOK DEF FactRows, Instants, Ends, Open
<1> DEFINE to == IF i \in DOMAIN w[r].closes THEN w[r].closes[i] ELSE rows[i].to
           eps == IF \E a \in w[r].asserts : Matches(r, i, a)
                  THEN rows[i].eps \cup w[r].eps ELSE rows[i].eps
<1>3. to \in Ends /\ to \in Nat /\ rows[i].from < to /\ to <= rows[i].to
  <2>1. CASE i \in DOMAIN w[r].closes
    <3>1. PICK K \in SUBSET Nat : w[r].closes \in [K -> Instants]
      BY <1>1 DEF Closings
    <3>2. w[r].closes[i] \in Instants /\ rows[i].from < w[r].closes[i] /\ w[r].closes[i] < rows[i].to
      BY <1>1, <2>1, <3>1 DEF Closing
    <3>3. \A t \in Instants : t \in Ends /\ t \in Nat
      BY ConstantsOK DEF Instants, Ends, Open
    <3> QED
      BY <1>2, <2>1, <3>2, <3>3
  <2>2. CASE i \notin DOMAIN w[r].closes
    BY <1>1, <1>2, <2>2 DEF FactRows, Valid
  <2> QED
    BY <2>1, <2>2
<1>4. eps \in SUBSET Episodes
  BY <1>1 DEF FactRows
<1>5. /\ Own(r)[i].to = to /\ Own(r)[i].eps = rows[i].eps
      /\ Own(r)[i].from = rows[i].from /\ Own(r)[i] = [rows[i] EXCEPT !.to = to]
  BY <1>1 DEF Own, FactRows
<1>6. Refreshed(r, i) = [rows[i] EXCEPT !.to = to, !.eps = eps]
  BY <1>1, <1>5 DEF Refreshed, FactRows
<1> HIDE DEF to, eps
<1>7. /\ Refreshed(r, i).x = rows[i].x /\ Refreshed(r, i).claim = rows[i].claim
      /\ Refreshed(r, i).from = rows[i].from /\ Refreshed(r, i).asserted = rows[i].asserted
      /\ Refreshed(r, i).to = to /\ Refreshed(r, i).eps = eps /\ Refreshed(r, i) \in FactRows
  BY <1>1, <1>3, <1>4, <1>6 DEF FactRows
<1>8. Valid(Refreshed(r, i))
  BY <1>3, <1>7 DEF Valid
<1> QED
  BY <1>3, <1>5, <1>6, <1>7, <1>8 DEF to, eps

\* What a commit writes: every row that exists is kept as above, and each
\* assertion that updated nothing has one new row.
LEMMA CommitWrites ==
    ASSUME IInv, NEW r \in Runners, ApplyAssertions(r),
           ~\E a \in ToInsert(r), i \in DOMAIN rows : Collides(r, i, a)
    PROVE  /\ nextRow' \in Nat /\ nextRow' >= nextRow
           /\ DOMAIN rows' = DOMAIN rows \cup (nextRow .. nextRow' - 1)
           /\ \A i \in DOMAIN rows : rows'[i] = Refreshed(r, i)
           /\ \E f \in [nextRow .. nextRow' - 1 -> ToInsert(r)] :
                 /\ \A i \in nextRow .. nextRow' - 1 : rows'[i] = NewRow(r, f[i])
                 /\ \A a \in ToInsert(r) : \E i \in nextRow .. nextRow' - 1 : f[i] = a
                 /\ \A i, j \in nextRow .. nextRow' - 1 : f[i] = f[j] => i = j
<1> DEFINE new == ToInsert(r)
           order == CHOOSE f \in [nextRow .. nextRow + Cardinality(new) - 1 -> new] :
                       \A a \in new : \E n \in DOMAIN f : f[n] = a
<1>1. /\ rows' = [i \in DOMAIN rows \cup DOMAIN order |->
                     IF i \in DOMAIN rows THEN Refreshed(r, i) ELSE NewRow(r, order[i])]
      /\ nextRow' = nextRow + Cardinality(new)
  BY DEF ApplyAssertions
<1>2. nextRow \in Nat /\ DOMAIN rows \subseteq 1 .. nextRow - 1 /\ IsFiniteSet(w[r].asserts)
  BY DEF IInv, Shaped, TypeOK, BodyOK, Validated
<1>3. IsFiniteSet(new)
  BY <1>2, FS_Subset DEF ToInsert
<1> HIDE DEF new
<1>4. /\ Cardinality(new) \in Nat
      /\ order \in [nextRow .. nextRow + Cardinality(new) - 1 -> new]
      /\ \A a \in new : \E n \in DOMAIN order : order[n] = a
      /\ \A m, n \in DOMAIN order : order[m] = order[n] => m = n
  <2>1. nextRow \in Int
    BY <1>2
  <2>2. /\ Cardinality(new) \in Nat
        /\ \E f \in [nextRow .. nextRow + Cardinality(new) - 1 -> new] :
              \A a \in new : \E n \in DOMAIN f : f[n] = a
        /\ \A f \in [nextRow .. nextRow + Cardinality(new) - 1 -> new] :
              (\A a \in new : \E n \in DOMAIN f : f[n] = a) =>
                  \A m, n \in DOMAIN f : f[m] = f[n] => m = n
    BY <1>3, <2>1, Numbering
  <2>3. /\ order \in [nextRow .. nextRow + Cardinality(new) - 1 -> new]
        /\ \A a \in new : \E n \in DOMAIN order : order[n] = a
    BY <2>2, Zenon
  <2> QED
    BY <2>2, <2>3
<1> HIDE DEF order
<1>5. nextRow' \in Nat /\ nextRow' >= nextRow /\ DOMAIN order = nextRow .. nextRow' - 1
  BY <1>1, <1>2, <1>4
<1>6. /\ DOMAIN rows' = DOMAIN rows \cup (nextRow .. nextRow' - 1)
      /\ \A i \in DOMAIN rows : rows'[i] = Refreshed(r, i)
  BY <1>1, <1>5
<1>7. \A i \in nextRow .. nextRow' - 1 : rows'[i] = NewRow(r, order[i])
  BY <1>1, <1>2, <1>5
<1>8. order \in [nextRow .. nextRow' - 1 -> new]
  BY <1>4, <1>5, Zenon
<1> QED
  BY <1>4, <1>5, <1>6, <1>7, <1>8 DEF new

\* A row that a commit inserts.
LEMMA NewRowFits ==
    ASSUME IInv, NEW r \in Runners, NEW a \in ToInsert(r)
    PROVE  /\ a \in w[r].asserts /\ NewRow(r, a) \in FactRows /\ Valid(NewRow(r, a))
           /\ NewRow(r, a).x = w[r].x /\ NewRow(r, a).claim = a.claim /\ NewRow(r, a).eps = w[r].eps
           /\ NewRow(r, a).from = a.from /\ NewRow(r, a).to = a.to
<1>1. a \in w[r].asserts
  BY DEF ToInsert
<1>2. w[r].x \in Extractors /\ w[r].eps \in SUBSET Episodes /\ a \in Assertions /\ now \in 1 .. MaxNow
  BY <1>1 DEF IInv, Shaped, Bodies, TypeOK
<1>3. Valid(a)
  BY <1>1 DEF IInv, BodyOK, Validated
<1> QED
  BY <1>1, <1>2, <1>3 DEF NewRow, FactRows, Assertions, Valid

\* Of the rows a commit leaves, no two of one claim hold at one instant: the
\* exclusion constraint refuses what would overlap a row, and validate what
\* would overlap its like.
LEMMA CommitKeepsApart ==
    ASSUME IInv, NEW r \in Runners, ApplyAssertions(r),
           ~\E a \in ToInsert(r), i \in DOMAIN rows : Collides(r, i, a),
           NEW i \in DOMAIN rows', NEW j \in DOMAIN rows', i # j,
           rows'[i].x = rows'[j].x, rows'[i].claim = rows'[j].claim, NEW t \in Instants
    PROVE  ~(Contains(rows'[i], t) /\ Contains(rows'[j], t))
<1> DEFINE N == nextRow .. nextRow' - 1
<1>1. /\ DOMAIN rows' = DOMAIN rows \cup N
      /\ \A k \in DOMAIN rows : rows'[k] = Refreshed(r, k)
  BY CommitWrites
<1>2. PICK f \in [N -> ToInsert(r)] :
            /\ \A k \in N : rows'[k] = NewRow(r, f[k])
            /\ \A k, l \in N : f[k] = f[l] => k = l
  BY CommitWrites
<1> HIDE DEF N
<1>3. t \in Int
  BY ConstantsOK DEF Instants
<1>4. \A row \in FactRows : row.from \in Int /\ row.to \in Int
  BY ConstantsOK DEF FactRows, Instants, Ends, Open
<1>5. ASSUME NEW k \in DOMAIN rows
      PROVE  /\ rows[k] \in FactRows /\ rows'[k] \in FactRows
             /\ rows'[k].x = rows[k].x /\ rows'[k].claim = rows[k].claim
             /\ rows'[k].from = rows[k].from /\ rows'[k].to <= rows[k].to
             /\ Own(r)[k].from = rows'[k].from /\ Own(r)[k].to = rows'[k].to
  <2>1. rows[k] \in FactRows
    BY DEF IInv, Shaped
  <2>2. /\ Refreshed(r, k).x = rows[k].x /\ Refreshed(r, k).claim = rows[k].claim
        /\ Refreshed(r, k).from = rows[k].from /\ Refreshed(r, k).to <= rows[k].to
        /\ Refreshed(r, k).to = Own(r)[k].to /\ Own(r)[k].from = rows[k].from
        /\ Refreshed(r, k) \in FactRows
    BY RefreshedKeeps, Zenon
  <2>3. rows'[k] = Refreshed(r, k)
    BY <1>1
  <2> QED
    BY <2>1, <2>2, <2>3, Zenon
<1>6. ASSUME NEW k \in N
      PROVE  /\ f[k] \in ToInsert(r) /\ f[k] \in w[r].asserts /\ rows'[k] \in FactRows
             /\ rows'[k].x = w[r].x /\ rows'[k].claim = f[k].claim
             /\ rows'[k].from = f[k].from /\ rows'[k].to = f[k].to
  <2>1. f[k] \in ToInsert(r)
    BY <1>2
  <2> QED
    BY <1>2, <2>1, NewRowFits
<1>7. ASSUME NEW k \in DOMAIN rows, NEW l \in N,
             rows'[k].x = rows'[l].x, rows'[k].claim = rows'[l].claim
      PROVE  ~(Contains(rows'[k], t) /\ Contains(rows'[l], t))
  <2>1. SameClaim(r, k, f[l])
    BY <1>5, <1>6, <1>7 DEF SameClaim
  <2>2. ~Overlaps(Own(r)[k], f[l])
    BY <1>6, <2>1 DEF Collides
  <2>3. ~(rows'[k].from < rows'[l].to /\ rows'[l].from < rows'[k].to)
    BY <1>5, <1>6, <2>2 DEF Overlaps
  <2>4. /\ rows'[k].from \in Int /\ rows'[k].to \in Int
        /\ rows'[l].from \in Int /\ rows'[l].to \in Int
    BY <1>4, <1>5, <1>6
  <2> QED
    BY <1>3, <2>3, <2>4 DEF Contains
<1>8. CASE i \in DOMAIN rows /\ j \in DOMAIN rows
  <2>1. ~(Contains(rows[i], t) /\ Contains(rows[j], t))
    BY <1>5, <1>8 DEF IInv, TypeOK
  <2>2. /\ rows[i].from \in Int /\ rows[i].to \in Int /\ rows'[i].to \in Int
        /\ rows[j].from \in Int /\ rows[j].to \in Int /\ rows'[j].to \in Int
    BY <1>4, <1>5, <1>8
  <2>3. /\ rows'[i].from = rows[i].from /\ rows'[i].to <= rows[i].to
        /\ rows'[j].from = rows[j].from /\ rows'[j].to <= rows[j].to
    BY <1>5, <1>8
  <2> QED
    BY <1>3, <2>1, <2>2, <2>3 DEF Contains
<1>9. CASE i \in DOMAIN rows /\ j \in N
  BY <1>7, <1>9
<1>10. CASE i \in N /\ j \in DOMAIN rows
  BY <1>7, <1>10
<1>11. CASE i \in N /\ j \in N
  <2>1. f[i] # f[j] /\ f[i].claim = f[j].claim
    BY <1>2, <1>6, <1>11
  <2>2. ~SelfContradicts(w[r].asserts)
    BY DEF IInv, BodyOK, Validated
  <2>3. ~Overlaps(f[i], f[j])
    BY <1>6, <1>11, <2>1, <2>2 DEF SelfContradicts
  <2>4. ~(rows'[i].from < rows'[j].to /\ rows'[j].from < rows'[i].to)
    BY <1>6, <1>11, <2>3 DEF Overlaps
  <2>5. /\ rows'[i].from \in Int /\ rows'[i].to \in Int
        /\ rows'[j].from \in Int /\ rows'[j].to \in Int
    BY <1>4, <1>6, <1>11
  <2> QED
    BY <1>3, <2>4, <2>5 DEF Contains
<1> QED
  BY <1>1, <1>8, <1>9, <1>10, <1>11

\* applyAssertions and the commit.
LEMMA ApplyAssertionsKeeps ==
    ASSUME IInv, NEW r \in Runners, ApplyAssertions(r)
    PROVE  IInv'
<1>1. /\ w[r].at = "retracted" /\ Leave(r) /\ UNCHANGED <<world, er>>
      /\ w \in [Runners -> Bodies] /\ BodyOK(r) /\ TypeOK
  BY DEF IInv, Shaped, ApplyAssertions, At
<1>2. CASE \E a \in ToInsert(r), i \in DOMAIN rows : Collides(r, i, a)
  <2>1. UNCHANGED store
    BY <1>2 DEF ApplyAssertions
  <2> QED
    BY <1>1, <2>1, LeaveKeeps
<1>3. CASE ~\E a \in ToInsert(r), i \in DOMAIN rows : Collides(r, i, a)
  <2> DEFINE N == nextRow .. nextRow' - 1
             done == [x |-> w[r].x, eps |-> w[r].eps, claims |-> {a.claim : a \in w[r].asserts}]
  <2>1. /\ nextRow' \in Nat /\ nextRow' >= nextRow
        /\ DOMAIN rows' = DOMAIN rows \cup N
        /\ \A i \in DOMAIN rows : rows'[i] = Refreshed(r, i)
    BY <1>3, CommitWrites
  <2>2. PICK f \in [N -> ToInsert(r)] :
              /\ \A i \in N : rows'[i] = NewRow(r, f[i])
              /\ \A a \in ToInsert(r) : \E i \in N : f[i] = a
    BY <1>3, CommitWrites
  <2>3. /\ marks' = marks \cup {<<w[r].x, e>> : e \in w[r].fresh} /\ applied' = applied \cup {done}
        /\ now' = now /\ ingested' = ingested /\ erased' = erased /\ er' = er
    BY <1>1, <1>3 DEF ApplyAssertions, world
  <2>4. w'[r] = Idle /\ (\A q \in Runners : q # r => w'[q] = w[q]) /\ w' \in [Runners -> Bodies]
    BY <1>1, IdleHoldsNothing DEF Leave
  <2>5. /\ nextRow \in Nat \ {0} /\ DOMAIN rows \subseteq 1 .. nextRow - 1
        /\ w[r].x \in Extractors /\ w[r].eps \in SUBSET Episodes /\ w[r].fresh \subseteq w[r].eps
        /\ \A e \in w[r].eps : e \in w[r].fresh \/ <<w[r].x, e>> \in marks \/ e \in erased
    BY <1>1 DEF IInv, Shaped, TypeOK, Bodies, BodyOK, Marked
  <2>6. ASSUME NEW i \in DOMAIN rows
        PROVE  /\ rows'[i] \in FactRows /\ Valid(rows'[i])
               /\ rows'[i].x = rows[i].x /\ rows'[i].claim = rows[i].claim
               /\ rows'[i].from = rows[i].from /\ rows'[i].asserted = rows[i].asserted
               /\ rows'[i].to = IF i \in DOMAIN w[r].closes THEN w[r].closes[i] ELSE rows[i].to
               /\ rows'[i].eps = IF \E a \in w[r].asserts : Matches(r, i, a)
                                 THEN rows[i].eps \cup w[r].eps ELSE rows[i].eps
    <3>1. rows'[i] = Refreshed(r, i)
      BY <2>1
    <3>2. Refreshed(r, i).to = Own(r)[i].to
      BY RefreshedKeeps, Zenon
    <3>3. /\ Refreshed(r, i) \in FactRows /\ Valid(Refreshed(r, i))
          /\ Refreshed(r, i).x = rows[i].x /\ Refreshed(r, i).claim = rows[i].claim
          /\ Refreshed(r, i).from = rows[i].from /\ Refreshed(r, i).asserted = rows[i].asserted
          /\ Own(r)[i].to = IF i \in DOMAIN w[r].closes THEN w[r].closes[i] ELSE rows[i].to
          /\ Refreshed(r, i).eps = IF \E a \in w[r].asserts : Matches(r, i, a)
                                   THEN rows[i].eps \cup w[r].eps ELSE rows[i].eps
      BY RefreshedKeeps, Zenon
    <3> QED
      BY <3>1, <3>2, <3>3
  <2>7. ASSUME NEW i \in N
        PROVE  /\ f[i] \in w[r].asserts /\ rows'[i] \in FactRows /\ Valid(rows'[i])
               /\ rows'[i].x = w[r].x /\ rows'[i].claim = f[i].claim /\ rows'[i].eps = w[r].eps
    <3>1. f[i] \in ToInsert(r) /\ rows'[i] = NewRow(r, f[i])
      BY <2>2
    <3> QED
      BY <3>1, NewRowFits, Zenon
  <2>8. done.x = w[r].x /\ done.eps = w[r].eps /\ done.claims = {a.claim : a \in w[r].asserts}
    OBVIOUS
  <2> HIDE DEF done
  <2>9. DOMAIN rows' \subseteq 1 .. nextRow' - 1
    BY <2>1, <2>5
  <2>10. \A i \in N : i \notin DOMAIN rows /\ ~(i < nextRow)
    BY <2>5
  <2> HIDE DEF N
  <2>11. \A i \in DOMAIN rows' : rows'[i] \in FactRows /\ Valid(rows'[i])
    BY <2>1, <2>6, <2>7
  <2>12. TypeOK'
    <3>1. \A i, j \in DOMAIN rows' :
             i # j /\ rows'[i].x = rows'[j].x /\ rows'[i].claim = rows'[j].claim =>
                \A t \in Instants : ~(Contains(rows'[i], t) /\ Contains(rows'[j], t))
      BY <1>3, CommitKeepsApart
    <3>2. \A i \in DOMAIN rows' :
             /\ rows'[i].x \in Extractors /\ rows'[i].claim \in Vocabulary
             /\ rows'[i].from \in Instants /\ rows'[i].to \in Ends /\ Valid(rows'[i])
             /\ rows'[i].eps \subseteq Episodes /\ rows'[i].asserted \in 1 .. MaxNow
      BY <2>11 DEF FactRows
    <3>3. marks' \subseteq Extractors \X Episodes
      BY <1>1, <2>3, <2>5 DEF TypeOK
    <3>4. \A q \in Runners : w'[q].at \in Steps
      BY <2>4 DEF Bodies
    <3>5. er'.rows \subseteq DOMAIN rows' /\ er'.marks \subseteq marks'
      BY <1>1, <2>1, <2>3 DEF TypeOK
    <3> QED
      BY <1>1, <2>3, <2>9, <3>1, <3>2, <3>3, <3>4, <3>5 DEF TypeOK, Steps
  <2>13. Shaped'
    <3>1. nextRow' \in Nat \ {0}
      BY <2>1, <2>5
    <3> QED
      BY <2>3, <2>4, <2>11, <3>1 DEF IInv, Shaped
  <2>14. ASSUME NEW q \in Runners, q # r
         PROVE  BodyOK(q)'
    <3>1. w'[q] = w[q] /\ BodyOK(q) /\ w[q] \in Bodies
      BY <1>1, <2>4, <2>14 DEF IInv
    <3>2. Validated(q)'
      BY <3>1 DEF BodyOK, Validated
    <3>3. Marked(q)'
      BY <2>3, <3>1 DEF BodyOK, Marked
    <3>4. WasShown(q)'
      <4> SUFFICES ASSUME NEW i \in DOMAIN w[q].known
                   PROVE  /\ i < nextRow' /\ w[q].at # "idle"
                          /\ i \in DOMAIN rows' =>
                                rows'[i].x = w[q].x /\ rows'[i].asserted <= ingested[Max(w[q].eps)]
        BY <2>3, <3>1 DEF WasShown
      <4>1. /\ i < nextRow /\ w[q].at # "idle"
            /\ i \in DOMAIN rows =>
                  rows[i].x = w[q].x /\ rows[i].asserted <= ingested[Max(w[q].eps)]
        BY <3>1 DEF BodyOK, WasShown
      <4>2. i \in Nat
        BY <3>1 DEF Bodies, ShownFacts
      <4>3. i < nextRow'
        BY <2>1, <2>5, <4>1, <4>2
      <4>4. i \in DOMAIN rows' => i \in DOMAIN rows
        BY <2>1, <2>10, <4>1
      <4> QED
        BY <2>6, <4>1, <4>3, <4>4
    <3>5. Closing(q)'
      <4> SUFFICES ASSUME NEW i \in DOMAIN w[q].closes
                   PROVE  /\ w[q].at = "retracted" /\ i \in DOMAIN rows' /\ i \in DOMAIN w[q].known
                          /\ rows'[i].from < w[q].closes[i] /\ w[q].closes[i] < rows'[i].to
        BY <3>1 DEF Closing
      <4>1. /\ w[q].at = "retracted" /\ i \in DOMAIN rows /\ i \in DOMAIN w[q].known
            /\ rows[i].from < w[q].closes[i] /\ w[q].closes[i] < rows[i].to
        BY <3>1 DEF BodyOK, Closing
      <4>2. i \notin DOMAIN w[r].closes
        BY <2>14 DEF IInv, ClosesApart
      <4>3. rows'[i].from = rows[i].from /\ rows'[i].to = rows[i].to
        BY <2>6, <4>1, <4>2
      <4> QED
        BY <2>1, <4>1, <4>3
    <3> QED
      BY <3>2, <3>3, <3>4, <3>5 DEF BodyOK
  <2>15. \A q \in Runners : BodyOK(q)'
    BY <2>4, <2>14, NothingHeld
  <2>16. ClosesApart'
    <3>1. DOMAIN w'[r].closes = {}
      BY <2>4, IdleHoldsNothing
    <3> QED
      BY <2>4, <3>1 DEF IInv, ClosesApart
  <2>17. ASSUME NEW i \in DOMAIN rows', NEW e \in rows'[i].eps
         PROVE  \/ i \in DOMAIN rows /\ e \in rows[i].eps
                \/ /\ e \in w[r].eps /\ rows'[i].x = w[r].x
                   /\ \E a \in w[r].asserts : rows'[i].claim = a.claim
    <3>1. CASE i \in N
      BY <2>7, <3>1
    <3>2. CASE i \in DOMAIN rows /\ \E a \in w[r].asserts : Matches(r, i, a)
      <4>1. PICK a \in w[r].asserts : Matches(r, i, a)
        BY <3>2
      <4>2. rows[i].x = w[r].x /\ rows[i].claim = a.claim
        BY <4>1 DEF Matches, SameClaim
      <4> QED
        BY <2>6, <3>2, <4>1, <4>2
    <3>3. CASE i \in DOMAIN rows /\ ~\E a \in w[r].asserts : Matches(r, i, a)
      BY <2>6, <3>3
    <3> QED
      BY <2>1, <3>1, <3>2, <3>3
  <2>18. Supported'
    <3> SUFFICES ASSUME NEW i \in DOMAIN rows', NEW e \in rows'[i].eps
                 PROVE  \E p \in applied' : p.x = rows'[i].x /\ rows'[i].claim \in p.claims /\ e \in p.eps
      BY DEF Supported
    <3>1. CASE i \in DOMAIN rows /\ e \in rows[i].eps
      BY <2>3, <2>6, <3>1 DEF IInv, Supported
    <3>2. CASE /\ e \in w[r].eps /\ rows'[i].x = w[r].x
               /\ \E a \in w[r].asserts : rows'[i].claim = a.claim
      BY <2>3, <2>8, <3>2
    <3> QED
      BY <2>17, <3>1, <3>2
  <2>19. FactsAreMarked'
    <3> SUFFICES ASSUME NEW i \in DOMAIN rows', NEW e \in rows'[i].eps, e \notin erased
                 PROVE  <<rows'[i].x, e>> \in marks'
      BY <2>3 DEF FactsAreMarked
    <3>1. CASE i \in DOMAIN rows /\ e \in rows[i].eps
      BY <2>3, <2>6, <3>1 DEF IInv, FactsAreMarked
    <3>2. CASE e \in w[r].eps /\ rows'[i].x = w[r].x
      BY <2>3, <2>5, <3>2
    <3> QED
      BY <2>17, <3>1, <3>2
  <2>20. ReadClaimsStand'
    <3>1. \A m \in marks' : \E p \in applied' : p.x = m[1] /\ m[2] \in p.eps
      <4> TAKE m \in marks'
      <4>1. CASE m \in marks
        BY <2>3, <4>1 DEF IInv, ReadClaimsStand
      <4>2. CASE m \in {<<w[r].x, e>> : e \in w[r].fresh}
        BY <2>3, <2>5, <2>8, <4>2
      <4> QED
        BY <2>3, <4>1, <4>2
    <3>2. ASSUME NEW p \in applied, NEW c \in p.claims
          PROVE  \/ \E i \in DOMAIN rows' :
                       rows'[i].x = p.x /\ rows'[i].claim = c /\ p.eps \subseteq rows'[i].eps
                 \/ \E q \in applied' : q.x = p.x /\ c \in q.claims /\ q.eps \cap erased' # {}
      <4>1. CASE \E q \in applied : q.x = p.x /\ c \in q.claims /\ q.eps \cap erased # {}
        BY <2>3, <4>1
      <4>2. CASE \E i \in DOMAIN rows :
                    rows[i].x = p.x /\ rows[i].claim = c /\ p.eps \subseteq rows[i].eps
        <5>1. PICK i \in DOMAIN rows :
                    rows[i].x = p.x /\ rows[i].claim = c /\ p.eps \subseteq rows[i].eps
          BY <4>2
        <5>2. i \in DOMAIN rows' /\ rows[i].eps \subseteq rows'[i].eps
          BY <2>1, <2>6
        <5> QED
          BY <2>6, <5>1, <5>2
      <4> QED
        BY <4>1, <4>2 DEF IInv, ReadClaimsStand
    <3>3. ASSUME NEW c \in done.claims
          PROVE  \E i \in DOMAIN rows' :
                    rows'[i].x = done.x /\ rows'[i].claim = c /\ done.eps \subseteq rows'[i].eps
      <4>1. PICK a \in w[r].asserts : c = a.claim
        BY <2>8
      <4>2. CASE a \in ToInsert(r)
        <5>1. PICK i \in N : f[i] = a
          BY <2>2, <4>2
        <5> QED
          BY <2>1, <2>7, <2>8, <4>1, <5>1
      <4>3. CASE a \notin ToInsert(r)
        <5>1. PICK b \in w[r].asserts : b.claim = a.claim /\ \E i \in DOMAIN rows : Matches(r, i, b)
          BY <4>3 DEF ToInsert
        <5>2. PICK i \in DOMAIN rows : Matches(r, i, b)
          BY <5>1
        <5>3. rows[i].x = w[r].x /\ rows[i].claim = b.claim
          BY <5>2 DEF Matches, SameClaim
        <5>4. i \in DOMAIN rows' /\ w[r].eps \subseteq rows'[i].eps
          BY <2>1, <2>6, <5>2
        <5> QED
          BY <2>6, <2>8, <4>1, <5>1, <5>3, <5>4
      <4> QED
        BY <4>2, <4>3
    <3>4. \A p \in applied' : \A c \in p.claims :
              \/ \E i \in DOMAIN rows' :
                    rows'[i].x = p.x /\ rows'[i].claim = c /\ p.eps \subseteq rows'[i].eps
              \/ \E q \in applied' : q.x = p.x /\ c \in q.claims /\ q.eps \cap erased' # {}
      BY <2>3, <3>2, <3>3
    <3> QED
      BY <3>1, <3>4 DEF ReadClaimsStand
  <2>21. Erasing'
    <3>1. Erasing
      BY DEF IInv
    <3>2. \A i \in er.rows : i \in DOMAIN rows' /\ er.e \in rows'[i].eps
      <4> TAKE i \in er.rows
      <4>1. i \in DOMAIN rows /\ er.e \in rows[i].eps
        BY <3>1 DEF Erasing
      <4>2. rows[i].eps \subseteq rows'[i].eps
        BY <2>6, <4>1
      <4> QED
        BY <2>1, <4>1, <4>2
    <3>3. \A q \in Runners : DOMAIN w'[q].closes \cap Deleted' = {}
      <4>1. Deleted' = Deleted
        BY <2>3 DEF Deleted
      <4>2. DOMAIN w'[r].closes = {}
        BY <2>4, IdleHoldsNothing
      <4> QED
        BY <2>4, <3>1, <4>1, <4>2 DEF Erasing
    <3> QED
      BY <2>3, <3>1, <3>2, <3>3 DEF Erasing
  <2> QED
    BY <2>12, <2>13, <2>15, <2>16, <2>18, <2>19, <2>20, <2>21 DEF IInv
<1> QED
  BY <1>2, <1>3

-----------------------------------------------------------------------------
(* Around the extractions *)

\* An append changes when no episode arrived that a body is about.
LEMMA AppendKeeps ==
    ASSUME IInv, NEW e \in Episodes, Append(e)
    PROVE  IInv'
<1>1. /\ ingested[e] = 0 /\ ingested' = [ingested EXCEPT ![e] = now] /\ now' = now
      /\ erased' = erased /\ rows' = rows /\ nextRow' = nextRow /\ marks' = marks
      /\ applied' = applied /\ w' = w /\ er' = er
  BY DEF Append, store
<1>2. TypeOK /\ now \in 1 .. MaxNow /\ ingested \in [Episodes -> 0 .. MaxNow]
  BY DEF IInv, TypeOK
<1>3. ingested' \in [Episodes -> 0 .. MaxNow]
  <2>1. now \in 0 .. MaxNow
    BY <1>2
  <2> QED
    BY <1>1, <1>2, <2>1
<1>4. /\ \A d \in Episodes : ingested[d] > 0 => ingested'[d] = ingested[d]
      /\ \A d \in Episodes : ingested[d] > 0 => ingested'[d] > 0
  BY <1>1, <1>2
<1>5. TypeOK'
  BY <1>1, <1>2, <1>3 DEF TypeOK
<1>6. Shaped' /\ ClosesApart' /\ Erasing' /\ Supported' /\ FactsAreMarked' /\ ReadClaimsStand'
  BY <1>1 DEF IInv, Shaped, ClosesApart, Erasing, Deleted, Supported, FactsAreMarked, ReadClaimsStand
<1>7. ASSUME NEW r \in Runners
      PROVE  BodyOK(r)'
  <2>1. BodyOK(r) /\ w[r].eps \in SUBSET Episodes
    BY DEF IInv, Shaped, Bodies
  <2>2. Validated(r)' /\ Closing(r)'
    BY <1>1, <2>1 DEF BodyOK, Validated, Closing
  <2>3. Marked(r)'
    BY <1>1, <1>4, <2>1 DEF BodyOK, Marked
  <2>4. WasShown(r)'
    <3>1. CASE w[r].at = "idle"
      BY <1>1, <2>1, <3>1 DEF BodyOK, WasShown
    <3>2. CASE w[r].at # "idle"
      <4>1. w[r].eps # {} /\ \A d \in w[r].eps : ingested[d] > 0
        BY <2>1, <3>2 DEF BodyOK, Marked
      <4>2. Max(w[r].eps) \in w[r].eps
        <5>1. MaxEpisode \in Nat /\ w[r].eps \in SUBSET (0 .. MaxEpisode)
          BY <2>1, ConstantsOK DEF Episodes
        <5> QED
          BY <4>1, <5>1, MaxIsGreatest
      <4>3. ingested'[Max(w[r].eps)] = ingested[Max(w[r].eps)]
        BY <1>4, <2>1, <4>1, <4>2
      <4> QED
        BY <1>1, <2>1, <4>3 DEF BodyOK, WasShown
    <3> QED
      BY <3>1, <3>2
  <2> QED
    BY <2>2, <2>3, <2>4 DEF BodyOK
<1> QED
  BY <1>5, <1>6, <1>7 DEF IInv

\* Until its commit an erasure changes nothing that anyone else sees.
LEMMA ErasurePrepares ==
    ASSUME IInv, UNCHANGED <<world, store, w>>, er' \in Erasures,
           er'.at # "none" => er'.e \in Episodes \ erased,
           \A i \in er'.rows : i \in DOMAIN rows /\ er'.e \in rows[i].eps,
           \A m \in er'.marks : m \in marks /\ m[2] = er'.e,
           \A r \in Runners : DOMAIN w[r].closes \cap Deleted' = {}
    PROVE  IInv'
<1>1. /\ now' = now /\ ingested' = ingested /\ erased' = erased /\ w' = w
      /\ rows' = rows /\ nextRow' = nextRow /\ marks' = marks /\ applied' = applied
  BY DEF world, store
<1>2. TypeOK'
  <2>1. /\ er'.at \in {"none", "facts", "marks", "episode"} /\ er'.e \in Episodes \cup {0}
        /\ er'.rows \subseteq DOMAIN rows /\ er'.marks \subseteq marks
    BY DEF Erasures
  <2> QED
    BY <1>1, <2>1 DEF IInv, TypeOK
<1>3. \A r \in Runners : BodyOK(r)'
  BY <1>1 DEF IInv, BodyOK, Validated, Marked, WasShown, Closing
<1>4. Shaped' /\ ClosesApart' /\ Supported' /\ FactsAreMarked' /\ ReadClaimsStand'
  BY <1>1 DEF IInv, Shaped, ClosesApart, Supported, FactsAreMarked, ReadClaimsStand
<1>5. Erasing'
  BY <1>1 DEF Erasing
<1> QED
  BY <1>2, <1>3, <1>4, <1>5 DEF IInv

\* The statements of an erasure but the last, and its failure.
LEMMA EraseStatementsKeep ==
    ASSUME IInv,
           (\E e \in Episodes : EraseBegin(e)) \/ EraseFacts \/ EraseMarks \/ EraseFails
    PROVE  IInv'
<1>1. er \in Erasures /\ Erasing /\ TypeOK /\ DOMAIN rows \in SUBSET Nat
  BY DEF IInv, Shaped, TypeOK
<1>2. /\ NoErasure \in Erasures /\ NoErasure.at = "none" /\ NoErasure.rows = {}
      /\ NoErasure.marks = {}
  BY DEF NoErasure, Erasures
<1>3. ASSUME NEW e \in Episodes, EraseBegin(e)
      PROVE  IInv'
  <2> DEFINE named == {i \in DOMAIN rows : e \in rows[i].eps}
  <2>1. /\ er' = [NoErasure EXCEPT !.at = "facts", !.e = e, !.rows = named]
        /\ e \notin erased /\ UNCHANGED <<world, store, w>>
    BY <1>3 DEF EraseBegin, Log
  <2>2. named \in SUBSET Nat /\ \A i \in named : i \in DOMAIN rows /\ e \in rows[i].eps
    BY <1>1
  <2> HIDE DEF named
  <2>3. /\ er' \in Erasures /\ er'.at = "facts" /\ er'.e = e /\ er'.rows = named
        /\ er'.marks = {}
    BY <2>1, <2>2 DEF NoErasure, Erasures
  <2>4. Deleted' = {}
    BY <2>3 DEF Deleted
  <2> QED
    BY <2>1, <2>2, <2>3, <2>4, ErasurePrepares
<1>4. CASE EraseFacts
  <2>1. /\ er.at = "facts" /\ er' = [er EXCEPT !.at = "marks"] /\ UNCHANGED <<world, store, w>>
        /\ \A r \in Runners : DOMAIN w[r].closes \cap er.rows = {}
    BY <1>4 DEF EraseFacts
  <2>2. /\ er' \in Erasures /\ er'.at = "marks" /\ er'.e = er.e /\ er'.rows = er.rows
        /\ er'.marks = er.marks
    BY <1>1, <2>1 DEF Erasures
  <2>3. Deleted' = er.rows
    BY <2>2 DEF Deleted
  <2>4. er.marks \subseteq marks
    BY <1>1 DEF TypeOK
  <2> QED
    BY <1>1, <2>1, <2>2, <2>3, <2>4, ErasurePrepares DEF Erasing
<1>5. CASE EraseMarks
  <2> DEFINE gone == {m \in marks : m[2] = er.e}
  <2>1. /\ er.at = "marks" /\ er' = [er EXCEPT !.at = "episode", !.marks = gone]
        /\ UNCHANGED <<world, store, w>>
    BY <1>5 DEF EraseMarks
  <2>2. gone \in SUBSET (Extractors \X Episodes) /\ \A m \in gone : m \in marks /\ m[2] = er.e
    BY <1>1 DEF TypeOK
  <2> HIDE DEF gone
  <2>3. /\ er' \in Erasures /\ er'.at = "episode" /\ er'.e = er.e /\ er'.rows = er.rows
        /\ er'.marks = gone
    BY <1>1, <2>1, <2>2 DEF Erasures
  <2>4. Deleted' = Deleted
    BY <2>1, <2>3 DEF Deleted
  <2> QED
    BY <1>1, <2>1, <2>2, <2>3, <2>4, ErasurePrepares DEF Erasing
<1>6. CASE EraseFails
  <2>1. er' = NoErasure /\ UNCHANGED <<world, store, w>>
    BY <1>6 DEF EraseFails
  <2>2. Deleted' = {}
    BY <1>2, <2>1 DEF Deleted
  <2> QED
    BY <1>2, <2>1, <2>2, ErasurePrepares
<1> QED
  BY <1>3, <1>4, <1>5, <1>6

\* The commit of an erasure takes the facts it deleted and the episode's
\* markers, and what a transaction is closing is not among them.
LEMMA EraseEpisodeKeeps ==
    ASSUME IInv, EraseEpisode
    PROVE  IInv'
<1>1. er \in Erasures /\ Erasing /\ TypeOK /\ er.at = "episode" /\ er' = NoErasure
  BY DEF IInv, Shaped, EraseEpisode
<1>2. /\ NoErasure \in Erasures /\ NoErasure.at = "none" /\ NoErasure.e = 0
      /\ NoErasure.rows = {} /\ NoErasure.marks = {}
  BY DEF NoErasure, Erasures
<1>3. Deleted' = {} /\ Deleted = er.rows
  BY <1>1, <1>2 DEF Deleted
<1>4. CASE \E m \in marks \ er.marks : m[2] = er.e
  <2>1. UNCHANGED <<world, store, w>>
    BY <1>4 DEF EraseEpisode, world, store
  <2> QED
    BY <1>1, <1>2, <1>3, <2>1, ErasurePrepares
<1>5. CASE ~\E m \in marks \ er.marks : m[2] = er.e
  <2> DEFINE e == er.e
             gone == er.rows
  <2>1. /\ erased' = erased \cup {e} /\ marks' = marks \ er.marks
        /\ now' = now /\ ingested' = ingested /\ nextRow' = nextRow /\ applied' = applied /\ w' = w
    BY <1>5 DEF EraseEpisode
  <2>2. DOMAIN rows' = DOMAIN rows \ gone /\ \A i \in DOMAIN rows' : rows'[i] = rows[i]
    BY <1>5 DEF EraseEpisode
  <2>3. \A i \in DOMAIN rows' : i \in DOMAIN rows
    BY <2>2
  <2>4. /\ e \in Episodes \ erased
        /\ \A i \in gone : i \in DOMAIN rows /\ e \in rows[i].eps
        /\ \A m \in er.marks : m[2] = e
        /\ \A r \in Runners : DOMAIN w[r].closes \cap gone = {}
    BY <1>1, <1>3 DEF Erasing
  <2>5. \A x \in Extractors, d \in Episodes : d # e /\ <<x, d>> \in marks => <<x, d>> \in marks'
    BY <2>1, <2>4
  <2> HIDE DEF e, gone
  <2>6. TypeOK'
    <3>1. /\ DOMAIN rows' \subseteq 1 .. nextRow - 1 /\ marks' \subseteq Extractors \X Episodes
          /\ erased' \subseteq Episodes
      BY <1>1, <2>1, <2>2, <2>4 DEF TypeOK
    <3> QED
      BY <1>1, <1>2, <2>1, <2>2, <2>3, <3>1 DEF TypeOK
  <2>7. Shaped' /\ ClosesApart'
    BY <1>1, <1>2, <2>1, <2>2, <2>3 DEF IInv, Shaped, ClosesApart
  <2>8. ASSUME NEW r \in Runners
        PROVE  BodyOK(r)'
    <3>1. BodyOK(r) /\ w[r].x \in Extractors /\ w[r].eps \in SUBSET Episodes
      BY DEF IInv, Shaped, Bodies
    <3>2. Validated(r)'
      BY <2>1, <3>1 DEF BodyOK, Validated
    <3>3. Marked(r)'
      BY <2>1, <2>5, <3>1 DEF BodyOK, Marked
    <3>4. WasShown(r)'
      BY <2>1, <2>2, <2>3, <3>1 DEF BodyOK, WasShown
    <3>5. Closing(r)'
      <4>1. \A i \in DOMAIN w[r].closes : i \in DOMAIN rows => i \in DOMAIN rows'
        BY <2>2, <2>4
      <4> QED
        BY <2>1, <2>2, <3>1, <4>1 DEF BodyOK, Closing
    <3> QED
      BY <3>2, <3>3, <3>4, <3>5 DEF BodyOK
  <2>9. Erasing'
    BY <1>1, <1>2, <1>3 DEF Erasing
  <2>10. Supported'
    BY <2>1, <2>2, <2>3 DEF IInv, Supported
  <2>11. FactsAreMarked'
    <3> SUFFICES ASSUME NEW i \in DOMAIN rows', NEW d \in rows'[i].eps, d \notin erased'
                 PROVE  <<rows'[i].x, d>> \in marks'
      BY DEF FactsAreMarked
    <3>1. i \in DOMAIN rows /\ rows'[i] = rows[i] /\ d # e /\ d \notin erased
      BY <2>1, <2>2
    <3>2. rows[i].x \in Extractors /\ d \in Episodes
      BY <1>1, <3>1 DEF TypeOK
    <3> QED
      BY <2>5, <3>1, <3>2 DEF IInv, FactsAreMarked
  <2>12. ReadClaimsStand'
    <3>1. \A m \in marks' : \E p \in applied' : p.x = m[1] /\ m[2] \in p.eps
      BY <2>1 DEF IInv, ReadClaimsStand
    <3>2. ASSUME NEW p \in applied, NEW c \in p.claims
          PROVE  \/ \E i \in DOMAIN rows' :
                       rows'[i].x = p.x /\ rows'[i].claim = c /\ p.eps \subseteq rows'[i].eps
                 \/ \E q \in applied : q.x = p.x /\ c \in q.claims /\ q.eps \cap erased' # {}
      <4>1. CASE \E q \in applied : q.x = p.x /\ c \in q.claims /\ q.eps \cap erased # {}
        BY <2>1, <4>1
      <4>2. CASE \E i \in DOMAIN rows :
                    rows[i].x = p.x /\ rows[i].claim = c /\ p.eps \subseteq rows[i].eps
        <5>1. PICK i \in DOMAIN rows :
                    rows[i].x = p.x /\ rows[i].claim = c /\ p.eps \subseteq rows[i].eps
          BY <4>2
        <5>2. CASE i \in gone
          <6>1. PICK q \in applied : q.x = rows[i].x /\ rows[i].claim \in q.claims /\ e \in q.eps
            BY <2>4, <5>2 DEF IInv, Supported
          <6> QED
            BY <2>1, <5>1, <6>1
        <5>3. CASE i \notin gone
          BY <2>2, <5>1, <5>3
        <5> QED
          BY <5>2, <5>3
      <4> QED
        BY <4>1, <4>2 DEF IInv, ReadClaimsStand
    <3> QED
      BY <2>1, <3>1, <3>2 DEF ReadClaimsStand
  <2> QED
    BY <2>6, <2>7, <2>8, <2>9, <2>10, <2>11, <2>12 DEF IInv
<1> QED
  BY <1>4, <1>5

\* The clock, and a step that changes nothing.
LEMMA TickKeeps ==
    ASSUME IInv, Tick \/ UNCHANGED vars
    PROVE  IInv'
<1>1. /\ ingested' = ingested /\ erased' = erased /\ rows' = rows /\ nextRow' = nextRow
      /\ marks' = marks /\ applied' = applied /\ w' = w /\ er' = er
  BY DEF Tick, vars, store
<1>2. now' \in 1 .. MaxNow
  BY ConstantsOK DEF IInv, TypeOK, Tick, vars
<1>3. TypeOK'
  BY <1>1, <1>2 DEF IInv, TypeOK
<1>4. \A r \in Runners : BodyOK(r)'
  BY <1>1 DEF IInv, BodyOK, Validated, Marked, WasShown, Closing
<1>5. Shaped' /\ ClosesApart' /\ Erasing' /\ Supported' /\ FactsAreMarked' /\ ReadClaimsStand'
  BY <1>1 DEF IInv, Shaped, ClosesApart, Erasing, Deleted, Supported, FactsAreMarked, ReadClaimsStand
<1> QED
  BY <1>3, <1>4, <1>5 DEF IInv

-----------------------------------------------------------------------------
(* The theorems *)

\* The invariant holds at the start.
LEMMA InitEstablishes == Init => IInv
<1> SUFFICES ASSUME Init
             PROVE  IInv
  OBVIOUS
<1>1. DOMAIN rows = {} /\ nextRow = 1 /\ marks = {} /\ applied = {} /\ erased = {}
  BY DEF Init, NoKnown
<1>2. /\ w \in [Runners -> Bodies]
      /\ \A r \in Runners : w[r] = Idle
  BY IdleHoldsNothing DEF Init
<1>0. er \in Erasures /\ er.at = "none" /\ er.e = 0 /\ er.rows = {} /\ er.marks = {}
  BY DEF Init, NoErasure, Erasures
<1>3. TypeOK
  <2>1. now \in 1 .. MaxNow /\ ingested \in [Episodes -> 0 .. MaxNow]
    BY ConstantsOK DEF Init
  <2> QED
    BY <1>1, <1>2, <1>0, <2>1, IdleHoldsNothing DEF TypeOK
<1>4. IsFiniteSet({}) /\ ~SelfContradicts({})
  BY FS_EmptySet DEF SelfContradicts
<1>5. ASSUME NEW r \in Runners
      PROVE  BodyOK(r)
  <2>1. Validated(r)
    BY <1>2, <1>4, IdleHoldsNothing DEF Validated
  <2>2. Marked(r) /\ WasShown(r) /\ Closing(r)
    BY <1>2, IdleHoldsNothing DEF Marked, WasShown, Closing
  <2> QED
    BY <2>1, <2>2 DEF BodyOK
<1>6. ClosesApart /\ Erasing
  BY <1>2, <1>0, IdleHoldsNothing DEF ClosesApart, Erasing
<1>7. Shaped /\ Supported /\ FactsAreMarked /\ ReadClaimsStand
  BY <1>1, <1>2, <1>0 DEF Shaped, Supported, FactsAreMarked, ReadClaimsStand
<1> QED
  BY <1>3, <1>5, <1>6, <1>7 DEF IInv

\* Every step keeps it.
LEMMA StepKeeps == IInv /\ [Next]_vars => IInv'
<1> SUFFICES ASSUME IInv, [Next]_vars
             PROVE  IInv'
  OBVIOUS
<1>1. ASSUME NEW r \in Runners, \E x \in Extractors, eps \in Batches : Read(r, x, eps)
      PROVE  IInv'
  BY <1>1, ReadKeeps
<1>2. ASSUME NEW r \in Runners, Answer(r)
      PROVE  IInv'
  BY <1>2, AnswerKeeps
<1>3. ASSUME NEW r \in Runners, MarkExtraction(r)
      PROVE  IInv'
  BY <1>3, MarkExtractionKeeps
<1>4. ASSUME NEW r \in Runners, ApplyRetractions(r)
      PROVE  IInv'
  BY <1>4, ApplyRetractionsKeeps
<1>5. ASSUME NEW r \in Runners, ApplyAssertions(r)
      PROVE  IInv'
  BY <1>5, ApplyAssertionsKeeps
<1>6. ASSUME NEW r \in Runners, Fails(r)
      PROVE  IInv'
  BY <1>6, LeaveKeeps DEF Fails
<1>7. ASSUME NEW e \in Episodes, Append(e)
      PROVE  IInv'
  BY <1>7, AppendKeeps
<1>8. (\E e \in Episodes : EraseBegin(e)) \/ EraseFacts \/ EraseMarks \/ EraseFails => IInv'
  BY EraseStatementsKeep
<1>9. CASE Tick \/ UNCHANGED vars
  BY <1>9, TickKeeps
<1>10. EraseEpisode => IInv'
  BY EraseEpisodeKeeps
<1> QED
  BY <1>1, <1>2, <1>3, <1>4, <1>5, <1>6, <1>7, <1>8, <1>9, <1>10 DEF Next

\* The invariant always holds.
LEMMA InvariantHolds == Spec => []IInv
  BY InitEstablishes, StepKeeps, PTL DEF Spec

\* The store is well formed for whatever a model answers and however many
\* extractions run at once: every window has an instant in it, and of one
\* extractor's rows for one claim no two hold at the same instant (facts_pkey).
THEOREM TypeCorrect == Spec => []TypeOK
<1>1. IInv => TypeOK
  BY DEF IInv
<1> QED
  BY <1>1, InvariantHolds, PTL

\* No fact ever stands without the marker of an episode it names that is still
\* there: what ApplyExtraction writes and what Forget takes, one DELETE at a
\* time, leave none to be derived again.
THEOREM FactsHaveMarkers == Spec => []FactsAreMarked
<1>1. IInv => FactsAreMarked
  BY DEF IInv
<1> QED
  BY <1>1, InvariantHolds, PTL

\* No marker ever stands without what was read: whatever another extraction
\* asserted or closed, a claim that was committed has its row until an episode
\* that supported it is erased.
THEOREM MarkersHaveFacts == Spec => []ReadClaimsStand
<1>1. IInv => ReadClaimsStand
  BY DEF IInv
<1> QED
  BY <1>1, InvariantHolds, PTL

\* What one step does to the rows: most leave them alone.
LEMMA RowsChange ==
    ASSUME IInv, [Next]_vars, rows' # rows
    PROVE  \/ \E r \in Runners : ApplyAssertions(r) /\ ~\E a \in ToInsert(r), i \in DOMAIN rows : Collides(r, i, a)
           \/ EraseEpisode
<1>1. ASSUME NEW r \in Runners, \E x \in Extractors, eps \in Batches : Read(r, x, eps)
      PROVE  rows' = rows
  BY <1>1 DEF Read, store
<1>2. ASSUME NEW r \in Runners, Answer(r) \/ MarkExtraction(r) \/ ApplyRetractions(r) \/ Fails(r)
      PROVE  rows' = rows
  BY <1>2 DEF Answer, MarkExtraction, ApplyRetractions, Fails, store
<1>3. ASSUME NEW r \in Runners, ApplyAssertions(r),
             \E a \in ToInsert(r), i \in DOMAIN rows : Collides(r, i, a)
      PROVE  rows' = rows
  BY <1>3 DEF ApplyAssertions, store
<1>4. ASSUME NEW e \in Episodes, Append(e)
      PROVE  rows' = rows
  BY <1>4 DEF Append, store
<1>5. (\E e \in Episodes : EraseBegin(e)) \/ EraseFacts \/ EraseMarks \/ EraseFails => rows' = rows
  BY DEF EraseBegin, EraseFacts, EraseMarks, EraseFails, store
<1>6. Tick \/ UNCHANGED vars => rows' = rows
  BY DEF Tick, vars, store
<1> QED
  BY <1>1, <1>2, <1>3, <1>4, <1>5, <1>6 DEF Next

\* The action inside HistoryOnlyCloses.
LEMMA StepOnlyCloses ==
    ASSUME IInv, [Next]_vars, NEW i \in DOMAIN rows
    PROVE  IF i \in DOMAIN rows'
           THEN /\ rows'[i].to <= rows[i].to /\ rows[i].eps \subseteq rows'[i].eps
                /\ rows'[i] = [rows[i] EXCEPT !.to = rows'[i].to, !.eps = rows'[i].eps]
           ELSE rows[i].eps \cap (erased' \ erased) # {}
<1>1. rows[i] \in FactRows
  BY DEF IInv, Shaped
<1>2. rows[i].to <= rows[i].to /\ rows[i] = [rows[i] EXCEPT !.to = rows[i].to, !.eps = rows[i].eps]
  <2>1. rows[i].to \in Int
    BY <1>1, ConstantsOK DEF FactRows, Ends, Open
  <2>2. ASSUME NEW v \in FactRows
        PROVE  v = [v EXCEPT !.to = v.to, !.eps = v.eps]
    BY DEF FactRows
  <2>3. rows[i].to <= rows[i].to
    BY <2>1
  <2>4. rows[i] = [rows[i] EXCEPT !.to = rows[i].to, !.eps = rows[i].eps]
    BY <1>1, <2>2, Zenon
  <2> QED
    BY <2>3, <2>4, Zenon
<1>3. CASE rows' = rows
  BY <1>2, <1>3
<1>4. ASSUME NEW r \in Runners, ApplyAssertions(r),
             ~\E a \in ToInsert(r), k \in DOMAIN rows : Collides(r, k, a)
      PROVE  /\ i \in DOMAIN rows' /\ rows'[i].to <= rows[i].to /\ rows[i].eps \subseteq rows'[i].eps
             /\ rows'[i] = [rows[i] EXCEPT !.to = rows'[i].to, !.eps = rows'[i].eps]
  <2>1. i \in DOMAIN rows' /\ rows'[i] = Refreshed(r, i)
    BY <1>4, CommitWrites
  <2>2. /\ Refreshed(r, i).to <= rows[i].to
        /\ Refreshed(r, i) = [rows[i] EXCEPT !.to = Refreshed(r, i).to, !.eps = Refreshed(r, i).eps]
    BY RefreshedKeeps, Zenon
  <2>3. rows[i].eps \subseteq Refreshed(r, i).eps
    BY RefreshedKeeps
  <2> QED
    BY <2>1, <2>2, <2>3, Zenon
<1>5. ASSUME EraseEpisode
      PROVE  IF i \in DOMAIN rows' THEN rows'[i] = rows[i]
             ELSE rows[i].eps \cap (erased' \ erased) # {}
  BY <1>5 DEF IInv, Erasing, EraseEpisode
<1>6. CASE rows' # rows
  BY <1>2, <1>4, <1>5, <1>6, RowsChange
<1> QED
  BY <1>3, <1>6

\* Facts are only closed: ApplyExtraction, Forget and everything else leave
\* what was believed of an instant as it was but for the instants from a closing
\* on, and only an erasure of its episodes removes a fact.
THEOREM HistoryIsKept == Spec => HistoryOnlyCloses
<1>1. IInv /\ [Next]_vars =>
        \A i \in DOMAIN rows :
          IF i \in DOMAIN rows'
          THEN /\ rows'[i].to <= rows[i].to /\ rows[i].eps \subseteq rows'[i].eps
               /\ rows'[i] = [rows[i] EXCEPT !.to = rows'[i].to, !.eps = rows'[i].eps]
          ELSE rows[i].eps \cap (erased' \ erased) # {}
  BY StepOnlyCloses
<1> QED
  BY <1>1, InvariantHolds, PTL DEF Spec, HistoryOnlyCloses

\* An extraction closes only a fact its model was shown, of its own extractor
\* and learned before its episodes arrived, whatever ids the model makes up.
THEOREM OnlyKnownFactsClose == Spec => OnlyShownFactsClose
<1>1. ASSUME IInv, [Next]_vars, NEW i \in DOMAIN rows \cap DOMAIN rows', rows'[i].to # rows[i].to
      PROVE  \E r \in Runners :
                /\ At(r, "retracted") /\ i \in DOMAIN w[r].known /\ rows[i].x = w[r].x
                /\ rows[i].asserted <= ingested[Max(w[r].eps)]
  <2>1. rows' # rows /\ i \in DOMAIN rows
    BY <1>1
  <2>2. ~EraseEpisode
    BY <1>1 DEF EraseEpisode
  <2>3. PICK r \in Runners : ApplyAssertions(r) /\ ~\E a \in ToInsert(r), k \in DOMAIN rows : Collides(r, k, a)
    BY <1>1, <2>1, <2>2, RowsChange
  <2>4. rows'[i] = Refreshed(r, i)
    BY <1>1, <2>1, <2>3, CommitWrites
  <2>5. /\ Refreshed(r, i).to = Own(r)[i].to
        /\ Own(r)[i].to = IF i \in DOMAIN w[r].closes THEN w[r].closes[i] ELSE rows[i].to
    BY <1>1, <2>1, RefreshedKeeps, Zenon
  <2>6. i \in DOMAIN w[r].closes
    BY <1>1, <2>4, <2>5
  <2>7. Closing(r) /\ WasShown(r)
    BY <1>1 DEF IInv, BodyOK
  <2> QED
    BY <2>1, <2>6, <2>7 DEF Closing, WasShown, At
<1>2. IInv /\ [Next]_vars =>
        \A i \in DOMAIN rows \cap DOMAIN rows' :
          rows'[i].to # rows[i].to =>
             \E r \in Runners :
                /\ At(r, "retracted") /\ i \in DOMAIN w[r].known /\ rows[i].x = w[r].x
                /\ rows[i].asserted <= ingested[Max(w[r].eps)]
  BY <1>1
<1> QED
  BY <1>2, InvariantHolds, PTL DEF Spec, OnlyShownFactsClose
=============================================================================
