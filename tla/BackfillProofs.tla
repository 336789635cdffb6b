--------------------------- MODULE BackfillProofs ---------------------------
(* Proofs about Backfill, for every number of scopes and episodes, every   *)
(* budget and page size, and whatever happens to the log meanwhile.        *)
EXTENDS Backfill, IntegerSets

-----------------------------------------------------------------------------
(* The inductive invariant *)

\* What is still missing of the work the walk began with.
Uncovered == {w \in owed : w[3] \in log[w[2]] /\ w \notin done}

\* A call that is inside a scope.
Inside == call.at \in {"cursor", "enqueue"}

\* What was owed was in the log, whose sequence numbers only grow; a caller
\* that named a scope is owed nothing of the others.
Bounded ==
    /\ \A s \in Scopes : log[s] \subseteq 1 .. last[s]
    /\ \A w \in owed : w[3] <= last[w[2]]
    /\ Target # 0 => req.scope = Target /\ \A w \in owed : w[2] = Target

\* The scopes a call has listed and not left: the one it was resumed into, or
\* those up to where its page of the catalogue ends.
Listing ==
    /\ Inside => /\ call.listed # {}
                 /\ req.scope # 0 => call.listed = {req.scope}
                 /\ req.scope = 0 => \A s \in call.listed : s <= call.after
    /\ call.at = "list" => call.listed = {}

\* The page a kind is to enqueue fits its budget.
Paging ==
    call.at = "enqueue" =>
        /\ call.i <= Len(KindOrder)
        /\ call.page # {} /\ Cardinality(call.page) <= Cursor.remaining

\* A request that resumes leaves nothing behind: not in the scopes before, nor
\* below NextSeq in its own.
Resuming ==
    req.scope # 0 =>
        \A w \in Uncovered : w[2] >= req.scope /\ (w[2] = req.scope => w[3] > req.seq)

\* A call leaves nothing in the scopes it has been through.
Passing ==
    call.at \in {"list", "cursor", "enqueue"} /\ req.scope = 0 =>
        \A w \in Uncovered : w[2] > call.after \/ w[2] \in call.listed

\* Behind a kind's cursor, and in a scope it has exhausted, nothing is missing;
\* what a page that was read does not hold comes after it.
Reading ==
    Inside => \A w \in Uncovered : w[2] = Scope =>
        /\ ~call.cursors[w[1]].exhausted
        /\ w[3] > call.cursors[w[1]].seq
        /\ call.at = "enqueue" /\ w[1] = Kind =>
              w[3] \in call.page \/ \A e \in call.page : w[3] > e

\* In a round without progress the kinds that had their turn have nothing left
\* to do or nothing left to spend.
Turns ==
    Inside /\ ~call.progressed =>
        \A n \in 1 .. Len(KindOrder) :
            n < call.i => \/ call.cursors[KindOrder[n]].exhausted
                          \/ call.cursors[KindOrder[n]].remaining = 0

\* The inductive invariant: no page boundary and no resume point leaves behind
\* what is missing in a scope the walk is past.
IInv ==
    /\ TypeOK /\ Bounded /\ Listing /\ Paging
    /\ Resuming /\ Passing /\ Reading /\ Turns /\ EnteredScopesCovered

-----------------------------------------------------------------------------
(* The operators of the walk *)

\* First(S, n) is the part of S up to some member, of at most n members, and
\* holds something if S and n do.
LEMMA FirstIsPrefix ==
    ASSUME NEW m \in Nat, NEW S \in SUBSET (0 .. m), NEW n \in Nat
    PROVE  /\ First(S, n) \subseteq S
           /\ \A e \in First(S, n), x \in S : x <= e => x \in First(S, n)
           /\ n > 0 /\ S # {} => First(S, n) # {}
           /\ IsFiniteSet(First(S, n)) /\ Cardinality(First(S, n)) <= n
<1> DEFINE Upto(e) == {x \in S : x <= e}
           F == First(S, n)
<1>0. \A x \in S : x \in Nat
  OBVIOUS
<1>1. IsFiniteSet(S)
  <2>1. IsFiniteSet(0 .. m)
    BY FS_Interval
  <2> QED
    BY <2>1, FS_Subset
<1>2. \A e : IsFiniteSet(Upto(e)) /\ Cardinality(Upto(e)) \in Nat
  <2> TAKE e
  <2>1. IsFiniteSet(Upto(e))
    BY <1>1, FS_Subset
  <2> QED
    BY <2>1, FS_CardinalityType
<1>3. F = {e \in S : Cardinality(Upto(e)) <= n}
  BY DEF First, Rank
<1>4. F \subseteq S
  BY <1>3
<1>5. ASSUME NEW e \in F, NEW x \in S, x <= e
      PROVE  x \in F
  <2>1. e \in Nat /\ x \in Nat
    BY <1>0, <1>4, <1>5
  <2>2. Upto(x) \subseteq Upto(e)
    <3> SUFFICES ASSUME NEW y \in S, y <= x
                 PROVE  y <= e
      OBVIOUS
    <3>1. y \in Nat
      BY <1>0
    <3> QED
      BY <1>5, <2>1, <3>1
  <2>3. Cardinality(Upto(x)) <= Cardinality(Upto(e))
    BY <1>2, <2>2, FS_Subset
  <2> HIDE DEF Upto, F
  <2>4. Cardinality(Upto(x)) <= n
    BY <1>2, <1>3, <2>3
  <2> QED
    BY <1>3, <2>4
<1>6. ASSUME n > 0, S # {}
      PROVE  F # {}
  <2>1. S \in SUBSET Nat
    OBVIOUS
  <2>2. Min(S) \in S /\ \A y \in S : Min(S) <= y
    BY <1>6, <2>1, MinIsLeast
  <2>3. Upto(Min(S)) = {Min(S)}
    <3>1. Min(S) \in Nat
      BY <1>0, <2>2
    <3>2. \A y \in S : y <= Min(S) => y = Min(S)
      BY <1>0, <2>2, <3>1
    <3> QED
      BY <2>2, <3>1, <3>2
  <2>4. Cardinality(Upto(Min(S))) = 1
    BY <2>3, FS_Singleton
  <2> HIDE DEF Upto, F
  <2>5. Min(S) \in F
    BY <1>3, <1>6, <2>2, <2>4
  <2> QED
    BY <2>5
<1>7. IsFiniteSet(F)
  BY <1>1, <1>4, FS_Subset
<1>8. Cardinality(F) <= n
  <2>1. CASE F = {}
    BY <2>1, FS_EmptySet
  <2>2. CASE F # {}
    <3>1. F \in SUBSET (0 .. m)
      BY <1>4
    <3> HIDE DEF F
    <3>2. Max(F) \in F /\ \A y \in F : Max(F) >= y
      BY <2>2, <3>1, MaxIsGreatest
    <3>3. F \subseteq Upto(Max(F))
      BY <1>4, <3>1, <3>2
    <3>4. Cardinality(F) <= Cardinality(Upto(Max(F)))
      BY <1>2, <3>3, FS_Subset
    <3>5. Cardinality(Upto(Max(F))) <= n
      BY <1>3, <3>2
    <3>6. Cardinality(F) \in Nat
      BY <1>7, FS_CardinalityType
    <3> HIDE DEF Upto
    <3> QED
      BY <1>2, <3>4, <3>5, <3>6
  <2> QED
    BY <2>1, <2>2
<1> QED
  BY <1>4, <1>5, <1>6, <1>7, <1>8

\* A scope is covered when none of its work is among what is uncovered.
LEMMA CoveredMeans ==
    ASSUME TypeOK, NEW s \in Scopes
    PROVE  Covered(s) <=> \A w \in Uncovered : w[2] # s
  BY DEF Covered, Uncovered

\* The parts of a piece of work, and of a call.
LEMMA WorkParts ==
    ASSUME TypeOK, NEW w \in Uncovered
    PROVE  /\ w \in owed /\ w \notin done /\ w[3] \in log[w[2]]
           /\ w[1] \in Kinds /\ w[2] \in Scopes /\ w[3] \in Seqs /\ w = <<w[1], w[2], w[3]>>
           /\ w[2] \in Nat \ {0} /\ w[3] \in Nat \ {0}
<1>1. w \in owed /\ w \notin done /\ w[3] \in log[w[2]]
  BY DEF Uncovered
<1>2. w \in Kinds \X Scopes \X Seqs
  BY <1>1 DEF TypeOK, Work
<1> QED
  BY <1>1, <1>2, ConstantsOK DEF Scopes, Seqs

\* The fields of a call, and the bounds the constants give.
LEMMA CallFields ==
    ASSUME TypeOK
    PROVE  /\ call.at \in {"idle", "list", "cursor", "enqueue", "done"} /\ call.after \in 0 .. NumScopes
           /\ call.listed \in SUBSET Scopes /\ call.i \in 1 .. Len(KindOrder) + 1
           /\ call.progressed \in BOOLEAN /\ call.page \in SUBSET Seqs
           /\ \A k \in Kinds : /\ call.cursors[k].seq \in 0 .. MaxSeq
                               /\ call.cursors[k].remaining \in 0 .. Limit
                               /\ call.cursors[k].exhausted \in BOOLEAN
           /\ Len(KindOrder) \in Nat /\ \A n \in 1 .. Len(KindOrder) : KindOrder[n] \in Kinds
           /\ req.scope \in 0 .. NumScopes /\ req.seq \in 0 .. MaxSeq
           /\ Scopes \subseteq Nat \ {0} /\ Seqs \subseteq Nat \ {0}
<1>1. call \in Calls /\ req \in [scope : 0 .. NumScopes, seq : 0 .. MaxSeq]
  BY DEF TypeOK
<1>2. call.cursors \in [Kinds -> [seq : 0 .. MaxSeq, remaining : 0 .. Limit, exhausted : BOOLEAN]]
  BY <1>1 DEF Calls
<1>3. Len(KindOrder) \in Nat /\ \A n \in 1 .. Len(KindOrder) : KindOrder[n] \in Kinds
  BY ConstantsOK DEF Kinds
<1>4. Scopes \subseteq Nat \ {0} /\ Seqs \subseteq Nat \ {0}
  BY ConstantsOK DEF Scopes, Seqs
<1> QED
  BY <1>1, <1>2, <1>3, <1>4 DEF Calls

\* Inside a scope, it is the first one that is listed.
LEMMA ScopeIsFirst ==
    ASSUME TypeOK, Listing, Inside
    PROVE  /\ Scope \in call.listed /\ Scope \in Scopes /\ \A s \in call.listed : Scope <= s
           /\ req.scope # 0 => Scope = req.scope
<1>1. call.listed \in SUBSET Nat /\ call.listed \in SUBSET Scopes /\ call.listed # {}
  BY CallFields DEF Listing
<1>2. Scope \in call.listed /\ \A s \in call.listed : Scope <= s
  BY <1>1, MinIsLeast DEF Scope
<1> QED
  BY <1>1, <1>2 DEF Listing

-----------------------------------------------------------------------------
(* What steps have in common *)

\* Whatever is done, lost, erased or appended around a call, it stands where it
\* stood, as long as nothing is missing again.
LEMMA CallStands ==
    ASSUME IInv, TypeOK', Bounded', call' = call, req' = req, Uncovered' \subseteq Uncovered
    PROVE  IInv'
<1>1. Listing' /\ Paging' /\ Turns'
  BY DEF IInv, Listing, Paging, Turns, Inside, Cursor, Kind
<1>2. Resuming' /\ Passing'
  BY DEF IInv, Resuming, Passing
<1>3. Scope' = Scope /\ Kind' = Kind
  BY DEF Scope, Kind
<1>4. Reading'
  BY <1>3 DEF IInv, Reading, Inside
<1>5. EnteredScopesCovered'
  <2> SUFFICES ASSUME call.at = "done", NEW s \in Scopes, req.scope \in {0, Target} \/ s <= req.scope
               PROVE  Covered(s)'
    BY DEF EnteredScopesCovered
  <2>1. TypeOK /\ Covered(s)
    BY DEF IInv, EnteredScopesCovered
  <2>2. \A w \in Uncovered : w[2] # s
    BY <2>1, CoveredMeans
  <2> QED
    BY <2>2 DEF Covered, Uncovered
<1> QED
  BY <1>1, <1>2, <1>4, <1>5 DEF IInv

\* A step of the walk leaves the log and the projections alone.
LEMMA WalkTypes ==
    ASSUME TypeOK, Bounded, UNCHANGED <<world, jobs, owed>>, call' \in Calls,
           req' \in [scope : 0 .. NumScopes, seq : 0 .. MaxSeq], Target # 0 => req'.scope = Target
    PROVE  TypeOK' /\ Bounded' /\ Uncovered' = Uncovered
<1>1. last' = last /\ log' = log /\ done' = done /\ events' = events /\ jobs' = jobs /\ owed' = owed
  BY DEF world
<1>2. TypeOK'
  BY <1>1 DEF TypeOK
<1>3. Bounded'
  BY <1>1 DEF Bounded
<1> QED
  BY <1>1, <1>2, <1>3 DEF Uncovered

\* No call is a call.
LEMMA NoCallIsACall ==
    /\ NoCall \in Calls /\ NoCall.at = "idle" /\ NoCall.after = 0 /\ NoCall.listed = {}
    /\ \A at \in {"list", "done"} :
          /\ [NoCall EXCEPT !.at = at] \in Calls /\ [NoCall EXCEPT !.at = at].at = at
          /\ [NoCall EXCEPT !.at = at].after = 0 /\ [NoCall EXCEPT !.at = at].listed = {}
<1>1. FreshCursors \in [Kinds -> [seq : 0 .. MaxSeq, remaining : 0 .. Limit, exhausted : BOOLEAN]]
  BY ConstantsOK DEF FreshCursors
<1>2. Len(KindOrder) \in Nat /\ 1 \in 1 .. Len(KindOrder) + 1 /\ 0 \in 0 .. NumScopes
  BY ConstantsOK
<1> HIDE DEF FreshCursors
<1>3. /\ NoCall \in Calls /\ NoCall.at = "idle" /\ NoCall.after = 0 /\ NoCall.listed = {}
  BY <1>1, <1>2 DEF NoCall, Calls
<1>4. ASSUME NEW at \in {"list", "done"}
      PROVE  /\ [NoCall EXCEPT !.at = at] \in Calls /\ [NoCall EXCEPT !.at = at].at = at
             /\ [NoCall EXCEPT !.at = at].after = 0 /\ [NoCall EXCEPT !.at = at].listed = {}
  BY <1>1, <1>2 DEF NoCall, Calls
<1> QED
  BY <1>3, <1>4

\* A call that has ended owes only what the next request must know.
LEMMA CallEnded ==
    ASSUME TypeOK', Bounded', Resuming', call' = NoCall
    PROVE  IInv'
<1>1. call'.at = "idle"
  BY NoCallIsACall
<1> QED
  BY <1>1 DEF IInv, Listing, Paging, Passing, Reading, Turns, Inside, EnteredScopesCovered

\* The next request still holds when no more is missing.
LEMMA RequestStands ==
    ASSUME Resuming, req' = req, Uncovered' \subseteq Uncovered
    PROVE  Resuming'
  BY DEF Resuming

\* A call that enters the first of ss, of a page of the catalogue that ends
\* with after.
Entered(ss, after) == [Entering(ss) EXCEPT !.after = after]

\* A call enters a scope at the cursor its request names.
LEMMA EnteringFields ==
    ASSUME TypeOK, NEW ss \in SUBSET Scopes, NEW after \in 0 .. NumScopes, NEW c,
           c = Entered(ss, after)
    PROVE  /\ c \in Calls /\ c.at = "cursor" /\ c.listed = ss /\ c.after = after /\ c.i = 1
           /\ ~c.progressed
           /\ \A k \in Kinds : /\ ~c.cursors[k].exhausted
                               /\ c.cursors[k].seq = IF Min(ss) = req.scope THEN req.seq ELSE 0
<1> DEFINE seed == IF Min(ss) = req.scope THEN req.seq ELSE 0
           Cursors == [Kinds -> [seq : 0 .. MaxSeq, remaining : 0 .. Limit, exhausted : BOOLEAN]]
           cs == [k \in Kinds |-> [call.cursors[k] EXCEPT !.seq = seed, !.exhausted = FALSE]]
<1>1. call \in Calls /\ call.cursors \in Cursors /\ seed \in 0 .. MaxSeq
  <2>1. call \in Calls /\ call.cursors \in Cursors
    BY DEF TypeOK, Calls
  <2>2. req.seq \in 0 .. MaxSeq /\ 0 \in 0 .. MaxSeq
    BY CallFields, ConstantsOK
  <2> QED
    BY <2>1, <2>2
<1>2. /\ cs \in Cursors
      /\ \A k \in Kinds : cs[k].seq = seed /\ cs[k].exhausted = FALSE
  <2> HIDE DEF seed
  <2>1. \A k \in Kinds : call.cursors[k] \in [seq : 0 .. MaxSeq, remaining : 0 .. Limit, exhausted : BOOLEAN]
    BY <1>1
  <2>2. ASSUME NEW k \in Kinds
        PROVE  /\ cs[k] \in [seq : 0 .. MaxSeq, remaining : 0 .. Limit, exhausted : BOOLEAN]
               /\ cs[k].seq = seed /\ cs[k].exhausted = FALSE
    BY <1>1, <2>1
  <2> QED
    BY <2>2
<1>3. c = [[call EXCEPT !.at = "cursor", !.listed = ss, !.i = 1, !.progressed = FALSE,
                        !.cursors = cs] EXCEPT !.after = after]
  BY DEF Entered, Entering
<1> HIDE DEF cs
<1>4. Len(KindOrder) \in Nat /\ 1 \in 1 .. Len(KindOrder) + 1
  BY ConstantsOK
<1>5. /\ c \in Calls /\ c.at = "cursor" /\ c.listed = ss /\ c.after = after /\ c.i = 1
      /\ c.progressed = FALSE /\ c.cursors = cs
  BY <1>1, <1>2, <1>3, <1>4 DEF Calls
<1> QED
  BY <1>2, <1>5

\* Entering a scope keeps the invariant, when the scopes left out are covered.
LEMMA EnteringKeeps ==
    ASSUME IInv, UNCHANGED <<world, jobs, req, owed>>,
           NEW ss \in SUBSET Scopes, ss # {}, NEW after \in 0 .. NumScopes,
           call' = Entered(ss, after),
           req.scope # 0 => ss = {req.scope},
           req.scope = 0 => /\ \A s \in ss : s <= after
                            /\ \A w \in Uncovered : w[2] > after \/ w[2] \in ss
    PROVE  IInv'
<1>1. TypeOK /\ Bounded /\ Resuming
  BY DEF IInv
<1>2. /\ call' \in Calls /\ call'.at = "cursor" /\ call'.listed = ss /\ call'.after = after
      /\ call'.i = 1 /\ ~call'.progressed
      /\ \A k \in Kinds : /\ ~call'.cursors[k].exhausted
                          /\ call'.cursors[k].seq = IF Min(ss) = req.scope THEN req.seq ELSE 0
  BY <1>1, EnteringFields
<1>3. TypeOK' /\ Bounded' /\ Uncovered' = Uncovered
  BY <1>1, <1>2, WalkTypes DEF TypeOK, Bounded
<1>4. Scope' = Min(ss) /\ Min(ss) \in ss
  <2>1. ss \in SUBSET Nat
    BY <1>1, CallFields
  <2> QED
    BY <1>2, <2>1, MinIsLeast DEF Scope
<1>5. Listing' /\ Paging' /\ Turns' /\ EnteredScopesCovered'
  <2>1. Turns'
    <3>1. \A n \in 1 .. Len(KindOrder) : ~(n < 1)
      BY <1>1, CallFields
    <3> QED
      BY <1>2, <3>1 DEF Turns
  <2> QED
    BY <1>2, <2>1 DEF Listing, Paging, Inside, EnteredScopesCovered
<1>6. Resuming' /\ Passing'
  BY <1>1, <1>2, <1>3 DEF Resuming, Passing
<1>7. Reading'
  <2> SUFFICES ASSUME NEW w \in Uncovered, w[2] = Min(ss)
               PROVE  ~call'.cursors[w[1]].exhausted /\ w[3] > call'.cursors[w[1]].seq
    BY <1>2, <1>3, <1>4 DEF Reading
  <2>1. w[1] \in Kinds /\ w[2] \in Nat \ {0} /\ w[3] \in Nat \ {0}
    BY <1>1, WorkParts
  <2>2. CASE Min(ss) = req.scope
    <3>1. req.scope # 0 /\ w[3] > req.seq
      BY <1>1, <2>1, <2>2 DEF Resuming
    <3> QED
      BY <1>2, <2>1, <2>2, <3>1
  <2>3. CASE Min(ss) # req.scope
    BY <1>2, <2>1, <2>3
  <2> QED
    BY <2>2, <2>3
<1> QED
  BY <1>3, <1>5, <1>6, <1>7 DEF IInv

\* Entering leaves the catalogue's page as it is.
LEMMA EnteringIsEntered ==
    ASSUME TypeOK, NEW ss
    PROVE  Entering(ss) = Entered(ss, call.after)
<1> DEFINE cs == [k \in Kinds |-> [call.cursors[k] EXCEPT
                     !.seq = IF Min(ss) = req.scope THEN req.seq ELSE 0, !.exhausted = FALSE]]
<1>1. call \in Calls
  BY DEF TypeOK
<1>2. Entering(ss) = [call EXCEPT !.at = "cursor", !.listed = ss, !.i = 1, !.progressed = FALSE,
                                  !.cursors = cs]
  BY DEF Entering
<1> HIDE DEF cs
<1> QED
  BY <1>1, <1>2 DEF Entered, Calls

-----------------------------------------------------------------------------
(* The steps of the walk *)

\* A walk begins, or begins again, with its request.
LEMMA BeginKeeps == ASSUME IInv, Begin PROVE IInv'
<1>1. TypeOK /\ Bounded /\ Resuming
  BY DEF IInv
<1>2. call' \in Calls /\ call'.at = "list" /\ call'.after = 0 /\ call'.listed = {} /\ req' = req
  BY NoCallIsACall DEF Begin
<1>3. TypeOK' /\ Bounded' /\ Uncovered' = Uncovered
  BY <1>1, <1>2, WalkTypes DEF Begin, TypeOK, Bounded
<1>4. Resuming'
  BY <1>1, <1>2, <1>3, RequestStands
<1>5. Passing'
  <2>1. \A w \in Uncovered : w[2] > 0
    BY <1>1, WorkParts
  <2> QED
    BY <1>2, <1>3, <2>1 DEF Passing
<1> QED
  BY <1>2, <1>3, <1>4, <1>5 DEF IInv, Listing, Paging, Reading, Turns, Inside, EnteredScopesCovered

\* The walk is done, with nothing left of the scopes it has been through.
LEMMA DoneKeeps ==
    ASSUME IInv, UNCHANGED <<world, jobs, req, owed>>, call' = [NoCall EXCEPT !.at = "done"],
           \A w \in Uncovered : req.scope \notin {0, Target} /\ w[2] > req.scope
    PROVE  IInv'
<1>1. TypeOK /\ Bounded /\ Resuming
  BY DEF IInv
<1>2. call' \in Calls /\ call'.at = "done" /\ req' = req
  BY NoCallIsACall
<1>3. TypeOK' /\ Bounded' /\ Uncovered' = Uncovered
  BY <1>1, <1>2, WalkTypes DEF TypeOK, Bounded
<1>4. Resuming'
  BY <1>1, <1>2, <1>3, RequestStands
<1>5. EnteredScopesCovered'
  <2> SUFFICES ASSUME NEW s \in Scopes, req.scope \in {0, Target} \/ s <= req.scope
               PROVE  Covered(s)'
    BY <1>2 DEF EnteredScopesCovered
  <2>1. \A w \in Uncovered : w[2] # s
    <3> SUFFICES ASSUME NEW w \in Uncovered, w[2] = s
                 PROVE  FALSE
      OBVIOUS
    <3>1. s <= req.scope /\ s > req.scope
      OBVIOUS
    <3>2. s \in Nat /\ req.scope \in Nat
      BY <1>1, CallFields
    <3> QED
      BY <3>1, <3>2
  <2>2. Covered(s)
    BY <1>1, <2>1, CoveredMeans
  <2> QED
    BY <2>2 DEF Covered, world
<1> QED
  BY <1>2, <1>3, <1>4, <1>5 DEF IInv, Listing, Paging, Passing, Reading, Turns, Inside

\* A page of the catalogue, the resumed scope, or the end of the catalogue.
LEMMA ListScopesKeeps == ASSUME IInv, ListScopes PROVE IInv'
<1> DEFINE found == {s \in Scopes : last[s] > 0 /\ s > call.after}
           listed == First(found, ScopePage)
<1>1. TypeOK /\ Bounded /\ Listing /\ Passing
  BY DEF IInv
<1>2. /\ call.at = "list" /\ UNCHANGED <<world, jobs, req, owed>>
      /\ call' = IF req.scope # 0 THEN Entering({req.scope})
                 ELSE IF found = {} THEN [NoCall EXCEPT !.at = "done"]
                 ELSE Entered(listed, Max(listed))
  BY DEF ListScopes, Entered
<1>3. req.scope = 0 => \A w \in Uncovered : w[2] \in found
  <2> SUFFICES ASSUME req.scope = 0, NEW w \in Uncovered
               PROVE  w[2] \in found
    OBVIOUS
  <2>1. w[2] > call.after
    BY <1>1, <1>2 DEF Listing, Passing
  <2>2. w[2] \in Scopes /\ w[3] \in Nat \ {0} /\ w[3] <= last[w[2]]
    BY <1>1, WorkParts DEF Bounded
  <2>3. last[w[2]] \in Nat
    BY <1>1, <2>2, ConstantsOK DEF TypeOK
  <2> QED
    BY <2>1, <2>2, <2>3
<1>4. found \in SUBSET (0 .. NumScopes) /\ found \in SUBSET Scopes /\ NumScopes \in Nat /\ ScopePage \in Nat \ {0}
  BY ConstantsOK DEF Scopes
<1> HIDE DEF found
<1>5. CASE req.scope # 0
  <2>1. req.scope \in Scopes
    BY <1>1, <1>5, CallFields, ConstantsOK DEF Scopes
  <2>2. call' = Entered({req.scope}, call.after) /\ call.after \in 0 .. NumScopes
    BY <1>1, <1>2, <1>5, EnteringIsEntered, CallFields
  <2> QED
    BY <1>2, <1>5, <2>1, <2>2, EnteringKeeps
<1>6. CASE req.scope = 0 /\ found = {}
  BY <1>2, <1>3, <1>6, DoneKeeps
<1>7. CASE req.scope = 0 /\ found # {}
  <2>1. /\ listed \subseteq found /\ listed # {}
        /\ \A e \in listed, x \in found : x <= e => x \in listed
    <3>1. ScopePage \in Nat /\ ScopePage > 0
      BY <1>4
    <3> QED
      BY <1>4, <1>7, <3>1, FirstIsPrefix
  <2> HIDE DEF listed
  <2>2. listed \in SUBSET (0 .. NumScopes)
    BY <1>4, <2>1
  <2>3. Max(listed) \in listed /\ \A y \in listed : Max(listed) >= y
    BY <1>4, <2>1, <2>2, MaxIsGreatest
  <2>4. Max(listed) \in 0 .. NumScopes /\ listed \in SUBSET Scopes
    BY <1>4, <2>1, <2>2, <2>3
  <2>5. \A s \in listed : s <= Max(listed)
    BY <1>4, <2>2, <2>3
  <2>6. ASSUME NEW w \in Uncovered
        PROVE  w[2] > Max(listed) \/ w[2] \in listed
    <3>1. w[2] \in found /\ w[2] \in Nat
      BY <1>1, <1>3, <1>7, WorkParts
    <3>2. w[2] <= Max(listed) => w[2] \in listed
      BY <2>1, <2>3, <3>1
    <3> QED
      BY <2>4, <3>1, <3>2
  <2>7. call' = Entered(listed, Max(listed))
    BY <1>2, <1>7
  <2> QED
    BY <1>2, <1>7, <2>1, <2>4, <2>5, <2>6, <2>7, EnteringKeeps
<1> QED
  BY <1>5, <1>6, <1>7

\* A scope is left when every kind has exhausted it.
LEMMA LeaveScopeKeeps == ASSUME IInv, LeaveScope PROVE IInv'
<1>1. TypeOK /\ Bounded /\ Listing /\ Resuming /\ Passing /\ Reading /\ Turns
  BY DEF IInv
<1>2. /\ Inside /\ call.at = "cursor" /\ call.i > Len(KindOrder) /\ ~call.progressed
      /\ UNCHANGED <<world, jobs, req, owed>> /\ ~SpentBudget
      /\ call' = IF call.listed # {Scope} THEN Entering(call.listed \ {Scope})
                 ELSE IF req.scope # 0 THEN [NoCall EXCEPT !.at = "done"]
                 ELSE [call EXCEPT !.at = "list", !.listed = {}]
  BY DEF LeaveScope, RoundOver, Inside
<1>3. /\ Scope \in call.listed /\ Scope \in Scopes /\ \A s \in call.listed : Scope <= s
      /\ req.scope # 0 => Scope = req.scope
  BY <1>1, <1>2, ScopeIsFirst
<1>4. \A k \in Kinds : call.cursors[k].exhausted
  <2> SUFFICES ASSUME NEW k \in Kinds
               PROVE  call.cursors[k].exhausted
    OBVIOUS
  <2>1. PICK n \in 1 .. Len(KindOrder) : k = KindOrder[n]
    BY DEF Kinds
  <2>2. n < call.i
    BY <1>1, <1>2, CallFields
  <2>3. call.cursors[k].exhausted \/ call.cursors[k].remaining = 0
    BY <1>1, <1>2, <2>1, <2>2 DEF Turns
  <2> QED
    BY <1>2, <2>3 DEF SpentBudget
<1>5. \A w \in Uncovered : w[2] # Scope
  BY <1>1, <1>2, <1>4, WorkParts DEF Reading
<1>6. CASE call.listed # {Scope}
  <2> DEFINE ss == call.listed \ {Scope}
  <2>1. call' = Entered(ss, call.after) /\ call.after \in 0 .. NumScopes
    BY <1>1, <1>2, <1>6, EnteringIsEntered, CallFields
  <2>2. ss \in SUBSET Scopes /\ ss # {}
    BY <1>1, <1>3, <1>6, CallFields
  <2>3. req.scope = 0
    BY <1>1, <1>2, <1>3, <1>6 DEF Listing
  <2>4. /\ \A s \in ss : s <= call.after
        /\ \A w \in Uncovered : w[2] > call.after \/ w[2] \in ss
    BY <1>1, <1>2, <1>5, <2>3 DEF Listing, Passing, Inside
  <2> HIDE DEF ss
  <2> QED
    BY <1>2, <2>1, <2>2, <2>3, <2>4, EnteringKeeps
<1>7. CASE call.listed = {Scope} /\ req.scope # 0
  <2>1. ASSUME NEW w \in Uncovered
        PROVE  w[2] > req.scope /\ req.scope \notin {0, Target}
    <3>1. w[2] \in Nat /\ w[2] # Scope /\ w \in owed /\ Scope \in Nat
      BY <1>1, <1>3, <1>5, WorkParts, CallFields
    <3>2. w[2] >= req.scope /\ req.scope = Scope
      BY <1>1, <1>3, <1>7 DEF Resuming
    <3>3. req.scope # Target
      BY <1>1, <1>7, <3>1, <3>2 DEF Bounded
    <3> QED
      BY <1>7, <3>1, <3>2, <3>3
  <2> QED
    BY <1>2, <1>7, <2>1, DoneKeeps
<1>8. CASE call.listed = {Scope} /\ req.scope = 0
  <2>1. call' = [call EXCEPT !.at = "list", !.listed = {}] /\ call \in Calls
    BY <1>1, <1>2, <1>8 DEF TypeOK
  <2>2. call' \in Calls /\ call'.at = "list" /\ call'.listed = {} /\ call'.after = call.after /\ req' = req
    BY <1>2, <2>1 DEF Calls
  <2>3. TypeOK' /\ Bounded' /\ Uncovered' = Uncovered
    BY <1>1, <1>2, <2>2, WalkTypes DEF TypeOK, Bounded
  <2>4. Resuming'
    BY <1>1, <2>2, <2>3, RequestStands
  <2>5. Passing'
    <3>1. \A w \in Uncovered : w[2] > call.after \/ w[2] \in call.listed
      BY <1>1, <1>2, <1>8 DEF Passing
    <3> QED
      BY <1>5, <1>8, <2>2, <2>3, <3>1 DEF Passing
  <2> QED
    BY <2>2, <2>3, <2>4, <2>5 DEF IInv, Listing, Paging, Reading, Turns, Inside, EnteredScopesCovered
<1> QED
  BY <1>6, <1>7, <1>8

\* A step within a scope that changes neither where the call is nor what is
\* missing.
LEMMA InsideKeeps ==
    ASSUME IInv, Inside, UNCHANGED <<world, jobs, req, owed>>,
           call' \in Calls, Inside', call'.after = call.after, call'.listed = call.listed,
           Paging', Reading', Turns'
    PROVE  IInv'
<1>1. TypeOK /\ Bounded /\ Listing /\ Resuming /\ Passing
  BY DEF IInv
<1>2. TypeOK' /\ Bounded' /\ Uncovered' = Uncovered
  BY <1>1, WalkTypes DEF TypeOK, Bounded
<1>3. Resuming'
  BY <1>1, <1>2, RequestStands
<1>4. Listing' /\ Passing' /\ EnteredScopesCovered'
  BY <1>1, <1>2 DEF Listing, Passing, Inside, EnteredScopesCovered
<1> QED
  BY <1>2, <1>3, <1>4 DEF IInv

\* One kind's turn: its page, or nothing to read, or nothing to spend.
LEMMA ReadPageKeeps == ASSUME IInv, ReadPage PROVE IInv'
<1> DEFINE after == {e \in Pending(Kind, Scope) : e > Cursor.seq}
           ids == First(after, Cursor.remaining)
<1>1. TypeOK /\ Listing /\ Reading /\ Turns
  BY DEF IInv
<1>2. /\ Inside /\ call.at = "cursor" /\ call.i <= Len(KindOrder)
      /\ UNCHANGED <<world, jobs, req, owed>>
      /\ call' = IF Cursor.exhausted \/ Cursor.remaining = 0
                 THEN [call EXCEPT !.i = @ + 1]
                 ELSE IF ids = {}
                 THEN [call EXCEPT !.i = @ + 1, !.cursors[Kind].exhausted = TRUE]
                 ELSE [call EXCEPT !.at = "enqueue", !.page = ids]
  BY DEF ReadPage, Inside
<1>3. call.i \in 1 .. Len(KindOrder) /\ Len(KindOrder) \in Nat /\ Kind \in Kinds
  BY <1>1, <1>2, CallFields DEF Kind
<1>4. /\ Cursor.seq \in 0 .. MaxSeq /\ Cursor.remaining \in 0 .. Limit
      /\ Cursor.remaining \in Nat /\ Limit \in Nat /\ MaxSeq \in Nat
  <2>1. Limit \in Nat /\ MaxSeq \in Nat
    BY ConstantsOK
  <2> QED
    BY <1>1, <1>3, <2>1, CallFields DEF Cursor
<1>5. call \in Calls /\ call.i + 1 \in 1 .. Len(KindOrder) + 1
  BY <1>1, <1>3 DEF TypeOK
<1>6. /\ log' = log /\ done' = done /\ owed' = owed /\ Uncovered' = Uncovered
  BY <1>2 DEF world, Uncovered
<1>7. Scope \in Scopes
  BY <1>1, <1>2, ScopeIsFirst
<1>8. after \in SUBSET (0 .. MaxSeq) /\ after \in SUBSET Seqs
  <2>1. log[Scope] \in SUBSET Seqs
    BY <1>1, <1>7 DEF TypeOK
  <2> QED
    BY <1>4, <2>1 DEF Pending, Seqs
\* What is missing of this kind in this scope is what the page is read from.
<1>9. \A w \in Uncovered : w[2] = Scope /\ w[1] = Kind => w[3] \in after
  <2> SUFFICES ASSUME NEW w \in Uncovered, w[2] = Scope, w[1] = Kind
               PROVE  w[3] \in after
    OBVIOUS
  <2>1. w[3] \in log[Scope] /\ <<Kind, Scope, w[3]>> \notin done
    BY <1>1, WorkParts
  <2>2. w[3] > Cursor.seq
    BY <1>1, <1>2 DEF Reading, Cursor
  <2> QED
    BY <2>1, <2>2 DEF Pending
<1> HIDE DEF after
<1>10. /\ ids \subseteq after /\ Cardinality(ids) <= Cursor.remaining
       /\ \A e \in ids, x \in after : x <= e => x \in ids
       /\ Cursor.remaining > 0 /\ after # {} => ids # {}
  BY <1>4, <1>8, FirstIsPrefix
<1> HIDE DEF ids
<1>11. CASE Cursor.exhausted \/ Cursor.remaining = 0
  <2>1. call' = [call EXCEPT !.i = call.i + 1]
    BY <1>2, <1>11
  <2>2. /\ call' \in Calls /\ call'.at = "cursor" /\ call'.after = call.after /\ call'.listed = call.listed
        /\ call'.i = call.i + 1 /\ call'.progressed = call.progressed /\ call'.cursors = call.cursors
    BY <1>2, <1>5, <2>1 DEF Calls
  <2>3. Turns'
    <3> SUFFICES ASSUME ~call.progressed, NEW n \in 1 .. Len(KindOrder), n < call.i + 1
                 PROVE  \/ call.cursors[KindOrder[n]].exhausted
                        \/ call.cursors[KindOrder[n]].remaining = 0
      BY <2>2 DEF Turns
    <3>1. n < call.i \/ n = call.i
      BY <1>3
    <3> QED
      BY <1>1, <1>2, <1>11, <3>1 DEF Turns, Cursor, Kind
  <2>4. Reading'
    BY <1>1, <1>2, <1>6, <2>2 DEF Reading, Inside, Scope
  <2> QED
    BY <1>2, <2>2, <2>3, <2>4, InsideKeeps DEF Paging, Inside
<1>12. CASE ~Cursor.exhausted /\ Cursor.remaining # 0 /\ ids = {}
  <2> DEFINE cs == [call.cursors EXCEPT ![Kind].exhausted = TRUE]
  <2>1. call' = [call EXCEPT !.i = call.i + 1, !.cursors = cs]
    BY <1>2, <1>5, <1>12 DEF Calls
  <2>2. /\ cs \in [Kinds -> [seq : 0 .. MaxSeq, remaining : 0 .. Limit, exhausted : BOOLEAN]]
        /\ cs[Kind].exhausted = TRUE
        /\ \A k \in Kinds : cs[k].seq = call.cursors[k].seq /\ cs[k].remaining = call.cursors[k].remaining
        /\ \A k \in Kinds \ {Kind} : cs[k] = call.cursors[k]
    <3>1. call.cursors \in [Kinds -> [seq : 0 .. MaxSeq, remaining : 0 .. Limit, exhausted : BOOLEAN]]
      BY <1>5 DEF Calls
    <3> QED
      BY <1>3, <3>1
  <2> HIDE DEF cs
  <2>3. /\ call' \in Calls /\ call'.at = "cursor" /\ call'.after = call.after /\ call'.listed = call.listed
        /\ call'.i = call.i + 1 /\ call'.progressed = call.progressed /\ call'.cursors = cs
    BY <1>2, <1>5, <2>1, <2>2 DEF Calls
  <2>4. after = {}
    BY <1>4, <1>10, <1>12
  <2>5. Turns'
    <3> SUFFICES ASSUME ~call.progressed, NEW n \in 1 .. Len(KindOrder), n < call.i + 1
                 PROVE  cs[KindOrder[n]].exhausted \/ cs[KindOrder[n]].remaining = 0
      BY <2>3 DEF Turns
    <3>1. CASE KindOrder[n] = Kind
      BY <2>2, <3>1
    <3>2. CASE KindOrder[n] # Kind
      <4>1. n < call.i /\ KindOrder[n] \in Kinds
        BY <1>1, <1>3, <3>2, CallFields DEF Kind
      <4> QED
        BY <1>1, <1>2, <2>2, <3>2, <4>1 DEF Turns
    <3> QED
      BY <3>1, <3>2
  <2>6. Reading'
    <3> SUFFICES ASSUME NEW w \in Uncovered, w[2] = Scope
                 PROVE  ~cs[w[1]].exhausted /\ w[3] > cs[w[1]].seq
      BY <1>6, <2>3 DEF Reading, Scope
    <3>1. w[1] \in Kinds /\ w[1] # Kind
      BY <1>1, <1>9, <2>4, WorkParts
    <3> QED
      BY <1>1, <1>2, <2>2, <3>1 DEF Reading
  <2> QED
    BY <1>2, <2>3, <2>5, <2>6, InsideKeeps DEF Paging, Inside
<1>13. CASE ~Cursor.exhausted /\ Cursor.remaining # 0 /\ ids # {}
  <2>1. call' = [call EXCEPT !.at = "enqueue", !.page = ids] /\ ids \in SUBSET Seqs
    BY <1>2, <1>8, <1>10, <1>13
  <2>2. /\ call' \in Calls /\ call'.at = "enqueue" /\ call'.after = call.after /\ call'.listed = call.listed
        /\ call'.i = call.i /\ call'.progressed = call.progressed /\ call'.cursors = call.cursors
        /\ call'.page = ids
    BY <1>5, <2>1 DEF Calls
  <2>3. Kind' = Kind /\ Scope' = Scope /\ Cursor' = Cursor
    BY <2>2 DEF Kind, Scope, Cursor
  <2>4. Paging'
    BY <1>2, <1>10, <1>13, <2>2, <2>3 DEF Paging
  <2>5. Turns'
    BY <1>1, <1>2, <2>2 DEF Turns
  <2>6. Reading'
    <3> SUFFICES ASSUME NEW w \in Uncovered, w[2] = Scope
                 PROVE  /\ ~call.cursors[w[1]].exhausted /\ w[3] > call.cursors[w[1]].seq
                        /\ w[1] = Kind => w[3] \in ids \/ \A e \in ids : w[3] > e
      BY <1>6, <2>2, <2>3 DEF Reading
    <3>1. ~call.cursors[w[1]].exhausted /\ w[3] > call.cursors[w[1]].seq
      BY <1>1, <1>2 DEF Reading
    <3>2. ASSUME w[1] = Kind, w[3] \notin ids, NEW e \in ids
          PROVE  w[3] > e
      <4>1. w[3] \in after /\ ~(w[3] <= e)
        BY <1>9, <1>10, <3>2
      <4>2. w[3] \in Nat /\ e \in Nat
        BY <1>1, <1>8, <1>10, WorkParts, CallFields
      <4> QED
        BY <4>1, <4>2
    <3> QED
      BY <3>1, <3>2
  <2> QED
    BY <1>2, <2>2, <2>4, <2>5, <2>6, InsideKeeps DEF Inside
<1> QED
  BY <1>11, <1>12, <1>13

\* Another round starts every kind's turn over.
LEMMA NextRoundKeeps == ASSUME IInv, NextRound PROVE IInv'
<1>1. TypeOK /\ Reading
  BY DEF IInv
<1>2. /\ Inside /\ call.at = "cursor" /\ UNCHANGED <<world, jobs, req, owed>>
      /\ call' = [call EXCEPT !.i = 1, !.progressed = FALSE]
  BY DEF NextRound, RoundOver, Inside
<1>3. call \in Calls /\ Len(KindOrder) \in Nat /\ 1 \in 1 .. Len(KindOrder) + 1
  BY <1>1, CallFields DEF TypeOK
<1>4. /\ call' \in Calls /\ call'.at = "cursor" /\ call'.after = call.after /\ call'.listed = call.listed
      /\ call'.i = 1 /\ call'.cursors = call.cursors
  BY <1>2, <1>3 DEF Calls
<1>5. Turns'
  <2>1. \A n \in 1 .. Len(KindOrder) : ~(n < 1)
    BY <1>3
  <2> QED
    BY <1>4, <2>1 DEF Turns
<1>6. Uncovered' = Uncovered
  BY <1>2 DEF Uncovered, world
<1>7. Reading'
  BY <1>1, <1>2, <1>4, <1>6 DEF Reading, Inside, Scope
<1> QED
  BY <1>2, <1>4, <1>5, <1>7, InsideKeeps DEF Paging, Inside

\* A spent budget: the request that continues starts where the kind with the
\* least progress stands.
LEMMA PageDoneKeeps == ASSUME IInv, PageDone PROVE IInv'
<1>1. TypeOK /\ Bounded /\ Listing /\ Resuming /\ Passing /\ Reading
  BY DEF IInv
<1>2. /\ Inside /\ UNCHANGED <<world, jobs, owed>> /\ call' = NoCall
      /\ req' = [scope |-> Scope, seq |-> ResumeSeq]
  BY DEF PageDone, RoundOver, Inside
<1>3. /\ Scope \in call.listed /\ Scope \in Scopes /\ \A s \in call.listed : Scope <= s
      /\ req.scope # 0 => Scope = req.scope
  BY <1>1, <1>2, ScopeIsFirst
<1> DEFINE seqs == {call.cursors[k].seq : k \in {x \in Kinds : ~call.cursors[x].exhausted}}
<1>4. seqs \in SUBSET (0 .. MaxSeq) /\ seqs \in SUBSET Nat /\ 0 \in 0 .. MaxSeq
  BY <1>1, CallFields, ConstantsOK
<1>5. ResumeSeq = IF seqs = {} THEN 0 ELSE Min(seqs)
  BY DEF ResumeSeq
<1>6. \A k \in Kinds : ~call.cursors[k].exhausted => call.cursors[k].seq \in seqs
  OBVIOUS
<1> HIDE DEF seqs
<1>7. seqs # {} => Min(seqs) \in seqs /\ \A x \in seqs : Min(seqs) <= x
  BY <1>4, MinIsLeast
<1>8. req' \in [scope : 0 .. NumScopes, seq : 0 .. MaxSeq] /\ req'.scope = Scope /\ req'.seq = ResumeSeq
  <2>1. ResumeSeq \in 0 .. MaxSeq
    BY <1>4, <1>5, <1>7
  <2>2. Scope \in 0 .. NumScopes
    BY <1>3, ConstantsOK DEF Scopes
  <2> QED
    BY <1>2, <2>1, <2>2
<1>9. TypeOK' /\ Bounded' /\ Uncovered' = Uncovered
  <2>1. Target # 0 => req'.scope = Target
    BY <1>1, <1>3, <1>8 DEF Bounded
  <2>2. call' \in Calls
    BY <1>2, NoCallIsACall
  <2> QED
    BY <1>1, <1>2, <1>8, <2>1, <2>2, WalkTypes
<1>10. ASSUME NEW w \in Uncovered
       PROVE  w[2] >= Scope /\ (w[2] = Scope => w[3] > ResumeSeq)
  <2>1. w[1] \in Kinds /\ w[2] \in Nat /\ w[3] \in Nat /\ Scope \in Nat
    BY <1>1, <1>3, WorkParts, CallFields
  <2>2. w[2] >= Scope
    <3>1. CASE req.scope = 0
      <4>1. w[2] > call.after \/ w[2] \in call.listed
        BY <1>1, <1>2, <3>1 DEF Passing, Inside
      <4>2. Scope <= call.after /\ call.after \in Nat
        BY <1>1, <1>2, <1>3, <3>1, CallFields DEF Listing
      <4> QED
        BY <1>3, <2>1, <4>1, <4>2
    <3>2. CASE req.scope # 0
      BY <1>1, <1>3, <3>2 DEF Resuming
    <3> QED
      BY <3>1, <3>2
  <2>3. ASSUME w[2] = Scope
        PROVE  w[3] > ResumeSeq
    <3>1. ~call.cursors[w[1]].exhausted /\ w[3] > call.cursors[w[1]].seq
      BY <1>1, <1>2, <2>3 DEF Reading
    <3>2. call.cursors[w[1]].seq \in seqs
      BY <1>6, <2>1, <3>1
    <3>3. ResumeSeq \in Nat /\ ResumeSeq <= call.cursors[w[1]].seq /\ call.cursors[w[1]].seq \in Nat
      BY <1>4, <1>5, <1>7, <3>2
    <3> QED
      BY <2>1, <3>1, <3>3
  <2> QED
    BY <2>2, <2>3
<1>11. Resuming'
  BY <1>8, <1>9, <1>10 DEF Resuming
<1> QED
  BY <1>2, <1>9, <1>11, CallEnded

\* Enqueueing a part of the page takes it from what is owed.
LEMMA EnqueueCovers ==
    ASSUME IInv, call.at = "enqueue", NEW eps \in SUBSET call.page, Enqueue(eps),
           last' = last, log' = log, done' = done, events' \in 0 .. MaxEvents,
           req' = req, call' \in Calls
    PROVE  /\ TypeOK' /\ Bounded' /\ Uncovered' \subseteq Uncovered
           /\ \A w \in Uncovered' : w[1] = Kind /\ w[2] = Scope => w[3] \notin eps
<1>1. TypeOK /\ Bounded /\ Listing /\ Paging
  BY DEF IInv
<1>2. Kind \in Kinds /\ Scope \in Scopes /\ eps \in SUBSET Seqs
  <2>1. call.i \in 1 .. Len(KindOrder)
    BY <1>1, CallFields DEF Paging
  <2>2. Kind \in Kinds
    BY <1>1, <2>1, CallFields DEF Kind
  <2> QED
    BY <1>1, <2>2, CallFields, ScopeIsFirst DEF Inside
<1>3. /\ jobs' = jobs \cup {[kind |-> Kind, scope |-> Scope, eps |-> b] : b \in Batches(eps)}
      /\ owed' = owed \ {<<Kind, Scope, e>> : e \in eps}
  BY DEF Enqueue
<1>4. jobs' \subseteq [kind : Kinds, scope : Scopes, eps : SUBSET Seqs]
  <2>1. \A b \in Batches(eps) : b \in SUBSET Seqs
    BY <1>2 DEF Batches
  <2>2. \A b \in Batches(eps) :
           [kind |-> Kind, scope |-> Scope, eps |-> b] \in [kind : Kinds, scope : Scopes, eps : SUBSET Seqs]
    BY <1>2, <2>1
  <2> QED
    BY <1>1, <1>3, <2>2 DEF TypeOK
<1>5. owed' \subseteq owed
  BY <1>3
<1>6. TypeOK'
  BY <1>1, <1>4, <1>5 DEF TypeOK
<1>7. Bounded'
  BY <1>1, <1>5 DEF Bounded
<1>8. Uncovered' \subseteq Uncovered
  BY <1>5 DEF Uncovered
<1>9. ASSUME NEW w \in Uncovered', w[1] = Kind, w[2] = Scope, w[3] \in eps
      PROVE  FALSE
  <2>1. w \in owed' /\ w \in Uncovered
    BY <1>8, <1>9 DEF Uncovered
  <2>2. w = <<Kind, Scope, w[3]>>
    BY <1>1, <1>9, <2>1, WorkParts
  <2> QED
    BY <1>3, <1>9, <2>1, <2>2
<1> QED
  BY <1>6, <1>7, <1>8, <1>9

\* The page is enqueued and the kind's cursor placed behind it; or the episode
\* that would place it is gone, and the call fails.
LEMMA EnqueuePageKeeps == ASSUME IInv, EnqueuePage PROVE IInv'
<1> DEFINE last1 == Max(call.page)
           left == Cursor.remaining - Cardinality(call.page)
           new == [call.cursors[Kind] EXCEPT !.seq = last1, !.remaining = left]
           cs == [call.cursors EXCEPT ![Kind] = new]
<1>1. TypeOK /\ Bounded /\ Listing /\ Paging /\ Resuming /\ Passing /\ Reading
  BY DEF IInv
<1>2. /\ call.at = "enqueue" /\ Inside /\ Enqueue(call.page) /\ call.i \in 1 .. Len(KindOrder)
      /\ last' = last /\ log' = log /\ done' = done /\ events' = events /\ req' = req
  BY <1>1, CallFields DEF EnqueuePage, Inside, Paging, world
<1>3. /\ call \in Calls /\ Kind \in Kinds /\ call.page # {} /\ events' \in 0 .. MaxEvents
      /\ call.page \in SUBSET Seqs /\ Cardinality(call.page) <= Cursor.remaining
  BY <1>1, <1>2, CallFields DEF TypeOK, Kind, Paging
<1>4. CASE last1 \notin log[Scope]
  <2>1. call' = NoCall /\ call' \in Calls
    BY <1>4, NoCallIsACall DEF EnqueuePage
  <2>2. TypeOK' /\ Bounded' /\ Uncovered' \subseteq Uncovered
    BY <1>2, <1>3, <2>1, EnqueueCovers
  <2>3. Resuming'
    BY <1>1, <1>2, <2>2, RequestStands
  <2> QED
    BY <2>1, <2>2, <2>3, CallEnded
<1>5. CASE last1 \in log[Scope]
  <2>1. call.cursors \in [Kinds -> [seq : 0 .. MaxSeq, remaining : 0 .. Limit, exhausted : BOOLEAN]]
    BY <1>3 DEF Calls
  <2>2. /\ last1 \in call.page /\ last1 \in 0 .. MaxSeq /\ last1 \in Nat /\ \A e \in call.page : last1 >= e
    <3>1. call.page \in SUBSET (0 .. MaxSeq) /\ MaxSeq \in Nat
      BY <1>3, ConstantsOK DEF Seqs
    <3>2. last1 \in call.page /\ \A e \in call.page : last1 >= e
      BY <1>3, <3>1, MaxIsGreatest
    <3> QED
      BY <3>1, <3>2
  <2>3. left \in 0 .. Limit
    <3>1. IsFiniteSet(Seqs)
      BY ConstantsOK, FS_Interval DEF Seqs
    <3>2. Cardinality(call.page) \in Nat
      BY <1>3, <3>1, FS_Subset, FS_CardinalityType
    <3>3. Cursor.remaining \in 0 .. Limit /\ Limit \in Nat
      BY <1>1, <1>3, CallFields, ConstantsOK DEF Cursor
    <3> QED
      BY <1>3, <3>2, <3>3
  <2>4. call' = [call EXCEPT !.at = "cursor", !.page = {}, !.i = call.i + 1, !.progressed = TRUE,
                             !.cursors = cs]
    <3>1. call' = [call EXCEPT !.at = "cursor", !.page = {}, !.i = @ + 1, !.progressed = TRUE,
                               !.cursors[Kind].seq = last1,
                               !.cursors[Kind].remaining = @ - Cardinality(call.page)]
      BY <1>5 DEF EnqueuePage
    <3>2. [call.cursors EXCEPT ![Kind].seq = last1, ![Kind].remaining = @ - Cardinality(call.page)] = cs
      <4> HIDE DEF last1
      <4> QED
        BY <1>3, <2>1 DEF Cursor
    <3> HIDE DEF last1, left, new, cs
    <3> QED
      BY <1>3, <3>1, <3>2 DEF Calls
  <2>5. /\ cs \in [Kinds -> [seq : 0 .. MaxSeq, remaining : 0 .. Limit, exhausted : BOOLEAN]]
        /\ cs[Kind].seq = last1 /\ \A k \in Kinds : cs[k].exhausted = call.cursors[k].exhausted
        /\ \A k \in Kinds \ {Kind} : cs[k] = call.cursors[k]
    <3>1. cs = [call.cursors EXCEPT ![Kind] = new]
      OBVIOUS
    <3>2. /\ new \in [seq : 0 .. MaxSeq, remaining : 0 .. Limit, exhausted : BOOLEAN]
          /\ new.seq = last1 /\ new.exhausted = call.cursors[Kind].exhausted
      <4> HIDE DEF last1, left
      <4>1. call.cursors[Kind] \in [seq : 0 .. MaxSeq, remaining : 0 .. Limit, exhausted : BOOLEAN]
        BY <1>3, <2>1
      <4> QED
        BY <2>2, <2>3, <4>1
    <3> HIDE DEF new, cs
    <3> QED
      BY <1>3, <2>1, <3>1, <3>2
  <2> HIDE DEF cs
  <2>6. /\ call' \in Calls /\ call'.at = "cursor" /\ call'.after = call.after /\ call'.listed = call.listed
        /\ call'.progressed = TRUE /\ call'.cursors = cs
    <3>1. call.i + 1 \in 1 .. Len(KindOrder) + 1
      BY <1>1, <1>2, CallFields
    <3> QED
      BY <1>3, <2>4, <2>5, <3>1 DEF Calls
  <2>7. /\ TypeOK' /\ Bounded' /\ Uncovered' \subseteq Uncovered
        /\ \A w \in Uncovered' : w[1] = Kind /\ w[2] = Scope => w[3] \notin call.page
    BY <1>2, <1>3, <2>6, EnqueueCovers
  <2>8. Resuming'
    BY <1>1, <1>2, <2>7, RequestStands
  <2>9. Listing' /\ Passing' /\ Paging' /\ Turns' /\ EnteredScopesCovered'
    BY <1>1, <1>2, <2>6, <2>7 DEF Listing, Passing, Paging, Turns, Inside, EnteredScopesCovered
  <2>10. Reading'
    <3> SUFFICES ASSUME NEW w \in Uncovered', w[2] = Scope
                 PROVE  ~cs[w[1]].exhausted /\ w[3] > cs[w[1]].seq
      BY <2>6 DEF Reading, Scope
    <3>1. /\ w \in Uncovered /\ ~call.cursors[w[1]].exhausted /\ w[3] > call.cursors[w[1]].seq
          /\ w[1] = Kind => w[3] \in call.page \/ \A e \in call.page : w[3] > e
      BY <1>1, <1>2, <2>7 DEF Reading
    <3>2. w[1] \in Kinds
      BY <1>1, <3>1, WorkParts
    <3>3. CASE w[1] = Kind
      BY <2>2, <2>5, <2>7, <3>1, <3>2, <3>3
    <3>4. CASE w[1] # Kind
      BY <2>5, <3>1, <3>2, <3>4
    <3> QED
      BY <3>3, <3>4
  <2> QED
    BY <2>7, <2>8, <2>9, <2>10 DEF IInv
<1> QED
  BY <1>4, <1>5

-----------------------------------------------------------------------------
(* The steps of the live system *)

\* Every event is counted.
LEMMA EventCounted ==
    ASSUME TypeOK, Event
    PROVE  events' \in 0 .. MaxEvents
  BY ConstantsOK DEF TypeOK, Event

\* A failed call leaves what it has enqueued, and the request to ask again.
LEMMA CallFailsKeeps == ASSUME IInv, NEW n \in 0 .. Limit, CallFails(n) PROVE IInv'
<1>1. TypeOK /\ Bounded /\ Resuming
  BY DEF IInv
<1>2. /\ call' = NoCall /\ call' \in Calls /\ last' = last /\ log' = log /\ done' = done /\ req' = req
      /\ events' \in 0 .. MaxEvents
  BY <1>1, EventCounted, NoCallIsACall DEF CallFails
<1>3. CASE UNCHANGED <<jobs, owed>>
  <2>1. TypeOK' /\ Bounded' /\ Uncovered' \subseteq Uncovered
    BY <1>1, <1>2, <1>3 DEF TypeOK, Bounded, Uncovered
  <2>2. Resuming'
    BY <1>1, <1>2, <2>1, RequestStands
  <2> QED
    BY <1>2, <2>1, <2>2, CallEnded
<1>4. CASE call.at = "enqueue" /\ Enqueue(First(call.page, n * BatchSize))
  <2>1. First(call.page, n * BatchSize) \in SUBSET call.page
    BY DEF First
  <2>2. TypeOK' /\ Bounded' /\ Uncovered' \subseteq Uncovered
    BY <1>2, <1>4, <2>1, EnqueueCovers
  <2>3. Resuming'
    BY <1>1, <1>2, <2>2, RequestStands
  <2> QED
    BY <1>2, <2>2, <2>3, CallEnded
<1> QED
  BY <1>3, <1>4 DEF CallFails

\* An episode appended meanwhile is not of what the walk began with.
LEMMA AppendEpisodeKeeps == ASSUME IInv, NEW s \in Scopes, AppendEpisode(s) PROVE IInv'
<1>1. TypeOK /\ Bounded
  BY DEF IInv
<1>2. /\ last[s] < MaxSeq /\ last' = [last EXCEPT ![s] = last[s] + 1]
      /\ log' = [log EXCEPT ![s] = log[s] \cup {last[s] + 1}]
      /\ done' = done /\ jobs' = jobs /\ req' = req /\ call' = call /\ owed' = owed
      /\ events' \in 0 .. MaxEvents
  BY <1>1, EventCounted DEF AppendEpisode
<1>3. /\ last \in [Scopes -> 0 .. MaxSeq] /\ log \in [Scopes -> SUBSET Seqs] /\ MaxSeq \in Nat
      /\ last[s] \in Nat /\ last[s] + 1 \in 0 .. MaxSeq /\ last[s] + 1 \in Seqs
  BY <1>1, <1>2, ConstantsOK DEF TypeOK, Seqs
<1>4. /\ last' \in [Scopes -> 0 .. MaxSeq] /\ log' \in [Scopes -> SUBSET Seqs]
      /\ last'[s] = last[s] + 1 /\ log'[s] = log[s] \cup {last[s] + 1}
      /\ \A t \in Scopes \ {s} : last'[t] = last[t] /\ log'[t] = log[t]
  BY <1>2, <1>3
<1>5. TypeOK'
  BY <1>1, <1>2, <1>4 DEF TypeOK
<1>6. \A w \in owed : w[2] \in Scopes /\ w[3] \in Seqs /\ w[3] \in Nat /\ w[3] <= last[w[2]]
  <2>1. owed \subseteq Kinds \X Scopes \X Seqs
    BY <1>1 DEF TypeOK, Work
  <2> QED
    BY <1>1, <2>1, ConstantsOK DEF Bounded, Seqs
<1>7. \A w \in owed : w[3] <= last'[w[2]]
  <2> TAKE w \in owed
  <2>1. CASE w[2] = s
    BY <1>3, <1>4, <1>6, <2>1
  <2>2. CASE w[2] # s
    BY <1>4, <1>6, <2>2
  <2> QED
    BY <2>1, <2>2
<1>8. \A t \in Scopes : log'[t] \subseteq 1 .. last'[t]
  <2> TAKE t \in Scopes
  <2>1. log[t] \subseteq 1 .. last[t]
    BY <1>1 DEF Bounded
  <2>2. CASE t = s
    BY <1>3, <1>4, <2>1, <2>2
  <2>3. CASE t # s
    BY <1>4, <2>1, <2>3
  <2> QED
    BY <2>2, <2>3
<1>9. Bounded'
  BY <1>1, <1>2, <1>7, <1>8 DEF Bounded
<1>10. Uncovered' \subseteq Uncovered
  <2> SUFFICES ASSUME NEW w \in owed, w[3] \in log'[w[2]], w \notin done
               PROVE  w[3] \in log[w[2]]
    BY <1>2 DEF Uncovered
  <2>1. CASE w[2] = s
    <3>1. w[3] # last[s] + 1
      BY <1>3, <1>6, <2>1
    <3> QED
      BY <1>4, <2>1, <3>1
  <2>2. CASE w[2] # s
    BY <1>4, <1>6, <2>2
  <2> QED
    BY <2>1, <2>2
<1> QED
  BY <1>2, <1>5, <1>9, <1>10, CallStands

\* What is erased is not missing any more.
LEMMA EraseKeeps == ASSUME IInv, NEW s \in Scopes, NEW e \in Seqs, Erase(s, e) PROVE IInv'
<1>1. TypeOK /\ Bounded
  BY DEF IInv
<1>2. /\ log' = [log EXCEPT ![s] = log[s] \ {e}] /\ last' = last
      /\ done' = {w \in done : ~(w[2] = s /\ w[3] = e)}
      /\ jobs' \subseteq jobs /\ req' = req /\ call' = call /\ owed' = owed
      /\ events' \in 0 .. MaxEvents
  BY <1>1, EventCounted DEF Erase
<1>3. /\ log' \in [Scopes -> SUBSET Seqs] /\ log'[s] = log[s] \ {e}
      /\ \A t \in Scopes : log'[t] \subseteq log[t]
  BY <1>1, <1>2 DEF TypeOK
<1>4. TypeOK'
  BY <1>1, <1>2, <1>3 DEF TypeOK
<1>5. Bounded'
  BY <1>1, <1>2, <1>3 DEF Bounded
<1>6. Uncovered' \subseteq Uncovered
  <2> SUFFICES ASSUME NEW w \in owed, w[3] \in log'[w[2]], w \notin done'
               PROVE  w[3] \in log[w[2]] /\ w \notin done
    BY <1>2 DEF Uncovered
  <2>1. w[2] \in Scopes
    BY <1>1 DEF TypeOK, Work
  <2>2. w[3] \in log[w[2]] /\ ~(w[2] = s /\ w[3] = e)
    BY <1>3, <2>1
  <2> QED
    BY <1>2, <2>2
<1> QED
  BY <1>2, <1>4, <1>5, <1>6, CallStands

\* A job that is done covers more, and one that dies has covered already.
LEMMA JobEndKeeps == ASSUME IInv, NEW b \in jobs, Drain(b) \/ Die(b) PROVE IInv'
<1>1. TypeOK /\ Bounded
  BY DEF IInv
<1>2. /\ log' = log /\ last' = last /\ jobs' \subseteq jobs /\ req' = req /\ call' = call /\ owed' = owed
      /\ events' \in 0 .. MaxEvents
  BY <1>1, EventCounted DEF Drain, Die
<1>3. done \subseteq done' /\ done' \subseteq Work
  <2>1. b.kind \in Kinds /\ b.scope \in Scopes /\ b.eps \in SUBSET Seqs
    BY <1>1 DEF TypeOK
  <2>2. {b.kind} \X {b.scope} \X b.eps \subseteq Work
    BY <2>1 DEF Work
  <2>3. done \subseteq Work
    BY <1>1 DEF TypeOK
  <2> QED
    BY <2>2, <2>3 DEF Drain, Die
<1>4. TypeOK' /\ Bounded'
  BY <1>1, <1>2, <1>3 DEF TypeOK, Bounded
<1>5. Uncovered' \subseteq Uncovered
  BY <1>2, <1>3 DEF Uncovered
<1> QED
  BY <1>2, <1>4, <1>5, CallStands

-----------------------------------------------------------------------------
(* The theorems *)

\* The walk begins with everything missing ahead of it.
LEMMA InitEstablishes == Init => IInv
<1> SUFFICES ASSUME Init
             PROVE  IInv
  OBVIOUS
<1> USE ConstantsOK
<1>1. call = NoCall /\ req = [scope |-> Target, seq |-> 0] /\ last \in [Scopes -> 0 .. MaxSeq]
  BY DEF Init
<1>2. call \in Calls /\ call.at = "idle"
  BY <1>1, NoCallIsACall
<1>3. log \in [Scopes -> SUBSET Seqs]
  <2>1. \A s \in Scopes : 1 .. last[s] \subseteq Seqs
    BY <1>1 DEF Seqs
  <2> QED
    BY <2>1 DEF Init
<1>4. TypeOK
  <2>1. done \subseteq Work /\ owed \subseteq Work /\ jobs = {} /\ events \in 0 .. MaxEvents
    BY DEF Init
  <2>2. req \in [scope : 0 .. NumScopes, seq : 0 .. MaxSeq]
    BY <1>1
  <2> QED
    BY <1>1, <1>2, <1>3, <2>1, <2>2 DEF TypeOK
<1>5. Bounded
  <2>1. \A w \in owed : w[3] <= last[w[2]] /\ Target \in {0, w[2]}
    BY DEF Init
  <2>2. \A s \in Scopes : log[s] = 1 .. last[s]
    BY DEF Init
  <2> QED
    BY <1>1, <2>1, <2>2 DEF Bounded
<1>6. Resuming
  <2> SUFFICES ASSUME Target # 0, NEW w \in Uncovered
               PROVE  w[2] >= Target /\ w[3] > 0
    BY <1>1 DEF Resuming
  <2>1. w[2] = Target /\ w[2] \in Nat /\ w[3] \in Nat \ {0}
    BY <1>4, <1>5, WorkParts DEF Bounded
  <2> QED
    BY <2>1
<1> QED
  BY <1>2, <1>4, <1>5, <1>6 DEF IInv, Listing, Paging, Passing, Reading, Turns, Inside,
                                EnteredScopesCovered

\* Every step keeps the invariant.
LEMMA StepKeeps == IInv /\ [Next]_vars => IInv'
<1> SUFFICES ASSUME IInv, [Next]_vars
             PROVE  IInv'
  OBVIOUS
<1>1. CASE Walk
  BY <1>1, BeginKeeps, ListScopesKeeps, ReadPageKeeps, EnqueuePageKeeps, NextRoundKeeps, PageDoneKeeps,
     LeaveScopeKeeps DEF Walk
<1>2. CASE \E n \in 0 .. Limit : CallFails(n)
  BY <1>2, CallFailsKeeps
<1>3. CASE \E s \in Scopes : AppendEpisode(s) \/ \E e \in Seqs : Erase(s, e)
  BY <1>3, AppendEpisodeKeeps, EraseKeeps
<1>4. CASE \E b \in jobs : Drain(b) \/ Die(b)
  BY <1>4, JobEndKeeps
<1>5. CASE UNCHANGED vars
  <2>1. /\ last' = last /\ log' = log /\ done' = done /\ jobs' = jobs /\ req' = req /\ call' = call
        /\ owed' = owed /\ events' = events
    BY <1>5 DEF vars
  <2>2. TypeOK' /\ Bounded' /\ Uncovered' \subseteq Uncovered
    BY <2>1 DEF IInv, TypeOK, Bounded, Uncovered
  <2> QED
    BY <2>1, <2>2, CallStands
<1> QED
  BY <1>1, <1>2, <1>3, <1>4, <1>5 DEF Next

\* It always holds; no fairness is needed.
LEMMA InvariantHolds == Spec => []IInv
  BY InitEstablishes, StepKeeps, PTL DEF Spec

\* Type correctness of the walk; in particular no kind overdraws its budget.
THEOREM TypeCorrect == Spec => []TypeOK
<1>1. IInv => TypeOK
  BY DEF IInv
<1> QED
  BY <1>1, InvariantHolds, PTL

\* A caller that loops until Done has covered every scope up to the one it was
\* resumed into, and all of them if it never was, whatever the budget, the
\* batches and pages, whichever calls fail, and whatever is appended, erased,
\* done or lost meanwhile.
THEOREM EnteredAreCovered == Spec => []EnteredScopesCovered
<1>1. IInv => EnteredScopesCovered
  BY DEF IInv
<1> QED
  BY <1>1, InvariantHolds, PTL
=============================================================================
