--------------------------- MODULE MigrateProofs ---------------------------
(* Proofs about Migrate, for every number of processes, builds, calls and  *)
(* faults.                                                                 *)
EXTENDS Migrate, FiniteSetTheorems, TLAPS

-----------------------------------------------------------------------------
(* Ledgers and calls *)

\* A ledger with one more row is a ledger: what it had and the new row.
LEMMA PlusType ==
    ASSUME NEW f \in Ledgers, NEW v \in Versions, NEW x \in Checksums
    PROVE  /\ Plus(f, v, x) \in Ledgers
           /\ DOMAIN Plus(f, v, x) = DOMAIN f \cup {v}
           /\ Plus(f, v, x)[v] = x
           /\ \A w \in DOMAIN f : w # v => Plus(f, v, x)[w] = f[w]
<1>1. PICK D \in SUBSET Versions : f \in [D -> Checksums]
  BY DEF Ledgers
<1>2. Plus(f, v, x) \in [D \cup {v} -> Checksums]
  BY <1>1 DEF Plus
<1>3. D \cup {v} \in SUBSET Versions
  OBVIOUS
<1> HIDE DEF Versions, Checksums
<1>4. Plus(f, v, x) \in Ledgers
  BY <1>2, <1>3 DEF Ledgers
<1> QED
  BY <1>1, <1>4 DEF Plus

\* The ledger before the first migration.
LEMMA EmptyLedger == <<>> \in Ledgers /\ DOMAIN <<>> = {}
<1>1. <<>> \in [{} -> Checksums] /\ DOMAIN <<>> = {}
  OBVIOUS
<1> QED
  BY <1>1 DEF Ledgers

\* A build embeds versions from 1 on without gaps, with a checksum for each.
LEMMA BuildType ==
    ASSUME NEW r \in Requests
    PROVE  /\ \E n \in Versions : DOMAIN r.sums = 1 .. n
           /\ \A v \in DOMAIN r.sums : v \in Versions /\ r.sums[v] \in Checksums
           /\ r.dims \in Nat
           /\ r.ext \in Schemas \cup {Unset}
<1>1. r \in Request
  BY ConstantsOK
<1>2. PICK n \in Versions : r.sums \in [1 .. n -> Checksums]
  BY <1>1 DEF Request
<1>3. n \in 1 .. 4
  BY DEF Versions, MaxVersion
<1>4. DOMAIN r.sums = 1 .. n /\ \A v \in 1 .. n : r.sums[v] \in Checksums
  BY <1>2
<1>5. \A v \in 1 .. n : v \in Versions
  BY <1>3 DEF Versions, MaxVersion
<1>6. r.dims \in Nat /\ r.ext \in Schemas \cup {Unset}
  BY <1>1 DEF Request
<1> QED
  BY <1>4, <1>5, <1>6

\* The record of a process that is in no call.
LEMMA IdleType == Idle \in Calls /\ NoRequest \in Requests
<1>1. NoRequest \in Requests
  BY ConstantsOK, Zenon DEF NoRequest
<1>2. ASSUME NEW q \in Requests, NEW f \in Ledgers
      PROVE  [at |-> "idle", req |-> q, schema |-> Unset, missing |-> {}, applied |-> f,
              err |-> None] \in Calls
  BY DEF Calls, Errors
<1> QED
  BY <1>1, <1>2, EmptyLedger, Zenon DEF Idle

\* What a step of the loop applies is the least version that is missing.
LEMMA NextPendingIsLeast ==
    ASSUME NEW p \in Procs, call[p].req \in Requests, Pending(p) # {}
    PROVE  /\ NextPending(p) \in Pending(p)
           /\ \A w \in Pending(p) : NextPending(p) <= w
           /\ NextPending(p) \in DOMAIN call[p].req.sums
           /\ NextPending(p) \in Versions
<1>1. Pending(p) \subseteq 1 .. 4
  BY BuildType DEF Pending, Versions, MaxVersion
<1>2. \E v \in Pending(p) : \A w \in Pending(p) : v <= w
  <2>1. CASE 1 \in Pending(p)
    BY <1>1, <2>1
  <2>2. CASE 1 \notin Pending(p) /\ 2 \in Pending(p)
    BY <1>1, <2>2
  <2>3. CASE 1 \notin Pending(p) /\ 2 \notin Pending(p) /\ 3 \in Pending(p)
    BY <1>1, <2>3
  <2>4. CASE 1 \notin Pending(p) /\ 2 \notin Pending(p) /\ 3 \notin Pending(p)
    BY <1>1, <2>4
  <2> QED
    BY <2>1, <2>2, <2>3, <2>4
<1>3. NextPending(p) \in Pending(p) /\ \A w \in Pending(p) : NextPending(p) <= w
  BY <1>2, Zenon DEF NextPending
<1> QED
  BY <1>1, <1>3 DEF Pending, Versions, MaxVersion

-----------------------------------------------------------------------------
(* Type correctness *)

\* Calls that are past validate carry options that passed it, and from the
\* lock on the server has their text search configuration.
Validated ==
    \A p \in Procs :
        /\ ~At(p, "idle") => Valid(call[p].req)
        /\ call[p].at \in {"lock", "bootstrap", "ledger", "apply"} =>
              call[p].req.text \in TextConfigs

\* Every step keeps every variable in its type, and options are validated
\* before anything else is done with them.
LEMMA TypeStep == TypeOK /\ Validated /\ [Next]_vars => TypeOK' /\ Validated'
<1> SUFFICES ASSUME TypeOK, Validated, [Next]_vars PROVE TypeOK' /\ Validated'
  OBVIOUS
<1> USE DEF TypeOK, Validated, At, dbVars
<1>i. Idle \in Calls /\ Idle.at = "idle"
  BY IdleType DEF Idle
<1>r. ASSUME NEW p \in Procs, NEW err \in Errors, Return(p, err), ~At(p, "idle")
      PROVE  call' \in [Procs -> Calls] /\ Validated'
  <2>1. [Idle EXCEPT !.at = "finish", !.req = call[p].req, !.err = err] \in Calls
    BY <1>i DEF Calls
  <2> QED
    BY <1>r, <2>1 DEF Return, Idle
<1>l. ASSUME NEW p \in Procs, NEW err, Leave(p, err)
      PROVE  call' \in [Procs -> Calls] /\ Validated' /\ succeeded' \subseteq Requests
  BY <1>l, <1>i DEF Leave, Calls
<1>1. ASSUME NEW p \in Procs, NEW r \in Requests, Begin(p, r) PROVE TypeOK' /\ Validated'
  <2>1. [Idle EXCEPT !.at = "inspect", !.req = r] \in Calls
    BY <1>i DEF Calls
  <2>2. call' \in [Procs -> Calls] /\ Validated'
    BY <1>1, <1>i, <2>1 DEF Begin, Idle
  <2>3. calls' \in 0 .. MaxCalls
    BY <1>1, ConstantsOK DEF Begin
  <2> QED
    BY <1>1, <2>2, <2>3 DEF Begin
<1>2. ASSUME NEW p \in Procs, Inspect(p) PROVE TypeOK' /\ Validated'
  <2>1. ResolveExtensionSchema(call[p].req) \in Schemas \cup {Unset}
    BY BuildType, ConstantsOK DEF ResolveExtensionSchema, Calls, Extensions
  <2>2. call' \in [Procs -> Calls] /\ Validated'
    <3>1. CASE Return(p, "config_mismatch") \/ Return(p, "invalid_config")
      BY <1>2, <1>r, <3>1 DEF Inspect, Errors
    <3>2. ASSUME ~(Return(p, "config_mismatch") \/ Return(p, "invalid_config"))
          PROVE  call' \in [Procs -> Calls] /\ Validated'
      <4> DEFINE m == {x \in Extensions : ext[x] = Unset}
                 c == [call[p] EXCEPT !.at = "lock", !.schema = ResolveExtensionSchema(call[p].req),
                                      !.missing = m]
      <4>1. call[p].req.text \in TextConfigs /\ call' = [call EXCEPT ![p] = c]
        BY <1>2, <3>2 DEF Inspect
      <4>2. m \in SUBSET Extensions
        OBVIOUS
      <4> HIDE DEF m
      <4>3. c \in Calls /\ c.at = "lock" /\ c.req = call[p].req
        BY <2>1, <4>2 DEF Calls
      <4> HIDE DEF c
      <4> QED
        BY <1>2, <4>1, <4>3 DEF Inspect
    <3> QED
      BY <3>1, <3>2
  <2> QED
    BY <1>2, <2>2 DEF Inspect
<1>3. ASSUME NEW p \in Procs, TryLock(p) PROVE TypeOK' /\ Validated'
  BY <1>3 DEF TryLock, Calls
<1>4. ASSUME NEW p \in Procs, LockTimeout(p) PROVE TypeOK' /\ Validated'
  BY <1>4, <1>r DEF LockTimeout, Errors
<1>5. ASSUME NEW p \in Procs, Bootstrap(p) PROVE TypeOK' /\ Validated'
  BY <1>5 DEF Bootstrap, Calls
<1>6. ASSUME NEW p \in Procs, ReadLedger(p) PROVE TypeOK' /\ Validated'
  <2>1. CheckHistory(call[p].req) \in Errors
    BY DEF CheckHistory, Errors
  <2>2. call' \in [Procs -> Calls] /\ Validated'
    <3>1. CASE Return(p, CheckHistory(call[p].req))
      BY <1>6, <1>r, <2>1, <3>1 DEF ReadLedger
    <3>2. CASE call' = [call EXCEPT ![p].at = "apply", ![p].applied = ledger]
      <4> DEFINE c == [call[p] EXCEPT !.at = "apply", !.applied = ledger]
      <4>1. c \in Calls /\ c.req = call[p].req /\ c.at = "apply"
        BY DEF Calls
      <4>2. call' = [call EXCEPT ![p] = c] /\ At(p, "ledger")
        BY <1>6, <3>2 DEF ReadLedger
      <4> HIDE DEF c
      <4> QED
        BY <4>1, <4>2
    <3> QED
      BY <1>6, <3>1, <3>2 DEF ReadLedger
  <2> QED
    BY <1>6, <2>2 DEF ReadLedger
<1>7. ASSUME NEW p \in Procs, ApplyMigration(p) PROVE TypeOK' /\ Validated'
  <2> DEFINE r == call[p].req
             v == NextPending(p)
  <2>1. r \in Requests /\ call[p].applied \in Ledgers /\ call[p].schema \in Schemas \cup {Unset}
    BY DEF Calls
  <2>2. v \in Versions /\ v \in DOMAIN r.sums /\ r.sums[v] \in Checksums
    BY <1>7, <2>1, NextPendingIsLeast, BuildType DEF ApplyMigration
  <2>3. CASE Return(p, "error") /\ UNCHANGED dbVars
    BY <1>7, <1>r, <2>3 DEF ApplyMigration, Errors
  <2>4. CASE v \notin DOMAIN ledger
    <3>1. Plus(ledger, v, r.sums[v]) \in Ledgers /\ Plus(call[p].applied, v, r.sums[v]) \in Ledgers
      BY <2>1, <2>2, PlusType
    <3>2. call' = [call EXCEPT ![p].applied = Plus(call[p].applied, v, r.sums[v])]
      BY <1>7, <2>4 DEF ApplyMigration
    <3>3. call' \in [Procs -> Calls] /\ Validated'
      <4> HIDE DEF v, r
      <4> QED
        BY <3>1, <3>2 DEF Calls
    <3>4. ext' \in [Extensions -> Schemas \cup {Unset}]
      BY <1>7, <2>1, <2>4 DEF ApplyMigration
    <3>5. config' \in Configs
      <4>1. Valid(r) /\ r.text \in TextConfigs
        BY <1>7 DEF ApplyMigration
      <4> QED
        BY <1>7, <2>4, <4>1 DEF ApplyMigration, Valid, Configs
    <3>6. baked' \in TextConfigs \cup {Unset}
      <4>1. r.text \in TextConfigs
        BY <1>7 DEF ApplyMigration
      <4> QED
        BY <1>7, <2>4, <4>1 DEF ApplyMigration
    <3>7. objects' \subseteq Versions /\ ledger' \in Ledgers
      BY <1>7, <2>2, <2>4, <3>1 DEF ApplyMigration
    <3> QED
      BY <1>7, <2>4, <3>3, <3>4, <3>5, <3>6, <3>7 DEF ApplyMigration
  <2> QED
    BY <1>7, <2>3, <2>4 DEF ApplyMigration
<1>8. ASSUME NEW p \in Procs, CheckSchemaConfig(p) PROVE TypeOK' /\ Validated'
  <2>1. \E err \in Errors : Return(p, err)
    BY <1>8 DEF CheckSchemaConfig, Errors
  <2> QED
    BY <1>8, <1>r, <2>1 DEF CheckSchemaConfig
<1>9. ASSUME NEW p \in Procs, Finish(p) PROVE TypeOK' /\ Validated'
  BY <1>9, <1>l DEF Finish
<1>10. ASSUME NEW p \in Procs, ApplyMigrationFails(p) PROVE TypeOK' /\ Validated'
  <2>1. \E err \in Errors : Return(p, err)
    BY <1>10 DEF ApplyMigrationFails, Errors
  <2>2. faults' \in 0 .. MaxFaults
    BY <1>10, ConstantsOK DEF ApplyMigrationFails
  <2> QED
    BY <1>10, <1>r, <2>1, <2>2 DEF ApplyMigrationFails
<1>11. ASSUME NEW p \in Procs, StatementFails(p) PROVE TypeOK' /\ Validated'
  <2>1. faults' \in 0 .. MaxFaults /\ "error" \in Errors
    BY <1>11, ConstantsOK DEF StatementFails, Errors
  <2> QED
    BY <1>11, <1>r, <2>1 DEF StatementFails
<1>12. ASSUME NEW p \in Procs, FinishDiscards(p) PROVE TypeOK' /\ Validated'
  <2>1. faults' \in 0 .. MaxFaults
    BY <1>12, ConstantsOK DEF FinishDiscards
  <2> QED
    BY <1>12, <1>l, <2>1 DEF FinishDiscards
<1>13. ASSUME NEW p \in Procs, Crash(p) PROVE TypeOK' /\ Validated'
  <2>1. faults' \in 0 .. MaxFaults
    BY <1>13, ConstantsOK DEF Crash
  <2>2. call' \in [Procs -> Calls] /\ Validated'
    BY <1>13, <1>i DEF Crash
  <2> QED
    BY <1>13, <2>1, <2>2 DEF Crash
<1>14. CASE NewInspect
  <2>1. ext["vector"] \in Schemas \cup {Unset}
    BY DEF Extensions
  <2>2. store' = [at |-> "config", ext |-> ext["vector"], dims |-> 0, text |-> Unset]
    BY <1>14 DEF NewInspect, NoStore
  <2>3. 0 \in 0 .. MaxDims
    BY ConstantsOK
  <2>4. store' \in [at : {"none", "config", "open"}, ext : Schemas \cup {Unset},
                    dims : 0 .. MaxDims, text : TextConfigs \cup {Unset}]
    BY <2>1, <2>2, <2>3
  <2> QED
    BY <1>14, <2>4 DEF NewInspect
<1>15. CASE ReadSchemaConfig
  <2>1. store' = NoStore \/ store' = [store EXCEPT !.at = "open", !.dims = config.dims,
                                                   !.text = config.text]
    BY <1>15 DEF ReadSchemaConfig
  <2>2. config.dims \in 0 .. MaxDims /\ config.text \in TextConfigs \cup {Unset}
    BY ConstantsOK DEF Configs, NoConfig
  <2>3. 0 \in 0 .. MaxDims
    BY ConstantsOK
  <2> QED
    BY <1>15, <2>1, <2>2, <2>3 DEF ReadSchemaConfig, NoStore
<1>16. CASE UNCHANGED vars
  BY <1>16 DEF vars
<1> QED
  BY <1>1, <1>2, <1>3, <1>4, <1>5, <1>6, <1>7, <1>8, <1>9, <1>10, <1>11, <1>12, <1>13, <1>14,
     <1>15, <1>16 DEF Next, Step, Open

\* The initial states have the types: nothing is applied, nobody is in a call.
LEMMA TypeInit == Init => TypeOK /\ Validated
<1> SUFFICES ASSUME Init PROVE TypeOK /\ Validated
  OBVIOUS
<1>1. call \in [Procs -> Calls] /\ \A p \in Procs : call[p].at = "idle"
  BY IdleType DEF Init, Idle
<1>2. ledger \in Ledgers
  BY EmptyLedger DEF Init
<1>3. ext \in [Extensions -> Schemas \cup {Unset}]
  BY DEF Init
<1>4. 0 \in 0 .. MaxCalls /\ 0 \in 0 .. MaxFaults /\ 0 \in 0 .. MaxDims
  BY ConstantsOK
<1>5. store \in [at : {"none", "config", "open"}, ext : Schemas \cup {Unset},
                 dims : 0 .. MaxDims, text : TextConfigs \cup {Unset}]
  BY <1>4 DEF Init, NoStore
<1> QED
  BY <1>1, <1>2, <1>3, <1>4, <1>5 DEF Init, TypeOK, Validated, At, Configs

\* Every variable keeps its type, whatever processes do.
THEOREM TypeCorrect == Spec => []TypeOK
  BY TypeInit, TypeStep, PTL DEF Spec

-----------------------------------------------------------------------------
(* The ledger *)

\* The history a build embeds: what is applied is the beginning of it.
Embeds(r) ==
    /\ DOMAIN ledger \subseteq DOMAIN r.sums
    /\ \A v \in DOMAIN ledger : ledger[v] = r.sums[v]

\* The ledger has the migrations of request r, and schema_config its options.
Has(r) ==
    /\ DOMAIN r.sums \subseteq DOMAIN ledger
    /\ \A v \in DOMAIN r.sums : ledger[v] = r.sums[v]
    /\ config = [dims |-> r.dims, text |-> r.text]

\* The ledger has no gaps, and tells what is in the database.
Contiguous ==
    /\ \E n \in 0 .. MaxVersion : DOMAIN ledger = 1 .. n
    /\ DOMAIN ledger = objects
    /\ (config # NoConfig) = (objects # {})
    /\ objects # {} => schema

\* Who is past the lock holds it, and past bootstrap finds the schema.  Who
\* applies migrations has read the ledger, and its build embeds all of it.
UnderLock ==
    \A p \in Procs :
        /\ call[p].at \in {"bootstrap", "ledger", "apply"} => Held(p)
        /\ call[p].at \in {"ledger", "apply"} => schema
        /\ At(p, "apply") => call[p].applied = ledger /\ Embeds(call[p].req)

\* Who is about to return without an error, or has, has what it asked for.
Won ==
    /\ \A p \in Procs : At(p, "finish") /\ call[p].err = None => Has(call[p].req)
    /\ \A r \in succeeded : Has(r)

\* A Store that has inspected the database knows the extensions' schema, and
\* an open one the options.
Opened ==
    /\ store.at # "none" => store.ext = ext["vector"] /\ ext["vector"] # Unset
    /\ store.at = "open" => config # NoConfig /\ config = [dims |-> store.dims, text |-> store.text]

\* The inductive invariant.
IInv == TypeOK /\ Validated /\ Contiguous /\ UnderLock /\ Won /\ Opened

\* What applying a migration does to the database: the version after those
\* that are there gets its row, its objects and, if it is the first, its
\* options.  Nothing is applied a second time.
Applied(p, v) ==
    /\ Held(p) /\ Embeds(call[p].req)
    /\ v \in Versions /\ v \in DOMAIN call[p].req.sums
    /\ DOMAIN ledger = 1 .. (v - 1)
    /\ ledger' = Plus(ledger, v, call[p].req.sums[v])
    /\ objects' = objects \cup {v}
    /\ config' = IF v = 1 THEN [dims |-> call[p].req.dims, text |-> call[p].req.text] ELSE config
    /\ \A x \in Extensions : ext[x] # Unset => ext'[x] = ext[x]
    /\ call' = [call EXCEPT ![p].applied = ledger']
    /\ schema' = schema /\ schema /\ lock' = lock

\* The step that runs one migration is such an application.
LEMMA ApplyMigrationApplies ==
    ASSUME IInv, NEW p \in Procs, ApplyMigration(p)
    PROVE  \E v \in Versions : Applied(p, v)
<1> DEFINE r == call[p].req
           v == NextPending(p)
<1>1. At(p, "apply") /\ Pending(p) # {} /\ r \in Requests
  BY DEF ApplyMigration, IInv, TypeOK, Calls
<1>2. Held(p) /\ Embeds(r) /\ call[p].applied = ledger /\ schema
  BY <1>1 DEF IInv, UnderLock, At
<1>3. v \in Versions /\ v \in DOMAIN r.sums /\ v \notin DOMAIN ledger
      /\ \A w \in DOMAIN r.sums \ DOMAIN ledger : v <= w
  BY <1>1, <1>2, NextPendingIsLeast DEF Pending
<1>4. DOMAIN ledger = 1 .. (v - 1)
  <2>1. PICK n \in 0 .. MaxVersion : DOMAIN ledger = 1 .. n
    BY DEF IInv, Contiguous
  <2>2. PICK m \in Versions : DOMAIN r.sums = 1 .. m
    BY <1>1, BuildType
  <2>3. v \in 1 .. m /\ ~(v \in 1 .. n)
    BY <1>3, <2>1, <2>2
  <2>4. n + 1 \in DOMAIN r.sums \ DOMAIN ledger
    BY <2>1, <2>2, <2>3 DEF Versions, MaxVersion
  <2>5. v <= n + 1
    BY <1>3, <2>4
  <2> HIDE DEF v
  <2>6. v = n + 1
    BY <2>1, <2>2, <2>3, <2>5 DEF Versions, MaxVersion
  <2> QED
    BY <2>1, <2>6 DEF MaxVersion
<1>5. /\ ledger' = Plus(ledger, v, r.sums[v])
      /\ objects' = objects \cup {v}
      /\ config' = IF v = 1 THEN [dims |-> r.dims, text |-> r.text] ELSE config
      /\ call' = [call EXCEPT ![p].applied = Plus(call[p].applied, v, r.sums[v])]
      /\ schema' = schema /\ lock' = lock
  BY <1>3 DEF ApplyMigration
<1>6. \A x \in Extensions : ext[x] # Unset => ext'[x] = ext[x]
  BY <1>3 DEF ApplyMigration
<1>7. call' = [call EXCEPT ![p].applied = ledger']
  BY <1>2, <1>5
<1> HIDE DEF v
<1> QED
  BY <1>2, <1>3, <1>4, <1>5, <1>6, <1>7 DEF Applied

\* The ledger after a migration: what it had, and the new row.
LEMMA AppliedLedger ==
    ASSUME IInv, NEW p \in Procs, NEW v \in Versions, Applied(p, v)
    PROVE  /\ DOMAIN ledger' = 1 .. v
           /\ DOMAIN ledger' = DOMAIN ledger \cup {v}
           /\ v \notin DOMAIN ledger
           /\ ledger'[v] = call[p].req.sums[v]
           /\ \A w \in DOMAIN ledger : ledger'[w] = ledger[w]
<1> DEFINE x == call[p].req.sums[v]
<1>1. ledger \in Ledgers /\ x \in Checksums
  BY BuildType DEF IInv, TypeOK, Calls, Applied
<1>2. ledger' = Plus(ledger, v, x) /\ DOMAIN ledger = 1 .. (v - 1)
  BY DEF Applied
<1> HIDE DEF x
<1>3. /\ DOMAIN ledger' = DOMAIN ledger \cup {v}
      /\ ledger'[v] = x
      /\ \A w \in DOMAIN ledger : w # v => ledger'[w] = ledger[w]
  BY <1>1, <1>2, PlusType
<1>4. v \notin 1 .. (v - 1) /\ 1 .. v = 1 .. (v - 1) \cup {v}
  BY DEF Versions, MaxVersion
<1> QED
  BY <1>2, <1>3, <1>4 DEF x

\* Nothing else touches the ledger, the objects, the options or the extensions.
LEMMA DatabaseStep ==
    ASSUME IInv, [Next]_vars
    PROVE  \/ UNCHANGED <<ledger, objects, ext, config>> /\ (schema => schema')
           \/ \E p \in Procs, v \in Versions : ApplyMigration(p) /\ Applied(p, v)
<1> USE DEF dbVars
<1>1. ASSUME NEW p \in Procs, NEW r \in Requests, Begin(p, r)
      PROVE  UNCHANGED <<ledger, objects, ext, config, schema>>
  BY <1>1 DEF Begin
<1>2. ASSUME NEW p \in Procs, Step(p), ~ApplyMigration(p)
      PROVE  UNCHANGED <<ledger, objects, ext, config>> /\ (schema => schema')
  BY <1>2 DEF Step, Inspect, TryLock, LockTimeout, Bootstrap, ReadLedger, CheckSchemaConfig, Finish
<1>3. ASSUME NEW p \in Procs,
             ApplyMigrationFails(p) \/ StatementFails(p) \/ FinishDiscards(p) \/ Crash(p)
      PROVE  UNCHANGED <<ledger, objects, ext, config, schema>>
  BY <1>3 DEF ApplyMigrationFails, StatementFails, FinishDiscards, Crash
<1>4. CASE Open
  BY <1>4 DEF Open, NewInspect, ReadSchemaConfig
<1>5. CASE UNCHANGED vars
  BY <1>5 DEF vars
<1> QED
  BY <1>1, <1>2, <1>3, <1>4, <1>5, ApplyMigrationApplies DEF Next

\* A database that has what a build asks for goes on having it.
LEMMA HasStays ==
    ASSUME IInv, [Next]_vars, NEW r \in Requests, Has(r)
    PROVE  Has(r)'
<1>1. CASE UNCHANGED <<ledger, objects, ext, config>>
  BY <1>1 DEF Has
<1>2. ASSUME NEW p \in Procs, NEW v \in Versions, Applied(p, v)
      PROVE  Has(r)'
  <2>1. 1 \in DOMAIN ledger
    BY BuildType DEF Has, Versions, MaxVersion
  <2>2. v # 1 /\ v \notin DOMAIN ledger
    BY <1>2, <2>1 DEF Applied, Versions
  <2>3. /\ DOMAIN ledger' = DOMAIN ledger \cup {v}
        /\ \A w \in DOMAIN ledger : ledger'[w] = ledger[w]
    BY <1>2, <2>2, AppliedLedger
  <2> QED
    BY <1>2, <2>2, <2>3 DEF Has, Applied
<1> QED
  BY <1>1, <1>2, DatabaseStep

\* The ledger goes on telling the schema.
LEMMA ContiguousStep == IInv /\ [Next]_vars => Contiguous'
<1> SUFFICES ASSUME IInv, [Next]_vars PROVE Contiguous'
  OBVIOUS
<1>1. CASE UNCHANGED <<ledger, objects, ext, config>> /\ (schema => schema')
  BY <1>1 DEF IInv, Contiguous
<1>2. ASSUME NEW p \in Procs, NEW v \in Versions, ApplyMigration(p), Applied(p, v)
      PROVE  Contiguous'
  <2>1. DOMAIN ledger' = 1 .. v /\ DOMAIN ledger' = objects'
    BY <1>2, AppliedLedger DEF Applied, IInv, Contiguous
  <2>2. v \in 0 .. MaxVersion
    BY DEF Versions, MaxVersion
  <2>3. Valid(call[p].req) /\ call[p].req \in Requests
    BY <1>2 DEF ApplyMigration, IInv, Validated, TypeOK, Calls, At
  <2>4. config' # NoConfig
    <3>1. CASE v = 1
      BY <1>2, <2>3, <3>1, BuildType DEF Applied, Valid, NoConfig
    <3>2. CASE v # 1
      <4>1. 1 \in DOMAIN ledger
        BY <1>2, <3>2 DEF Applied, Versions, MaxVersion
      <4> QED
        BY <1>2, <3>2, <4>1 DEF Applied, IInv, Contiguous
    <3> QED
      BY <3>1, <3>2
  <2> QED
    BY <1>2, <2>1, <2>2, <2>4 DEF Contiguous, Applied
<1> QED
  BY <1>1, <1>2, DatabaseStep

\* Who is past the lock goes on holding it, and nobody else applies anything.
LEMMA UnderLockStep == IInv /\ [Next]_vars => UnderLock'
<1> SUFFICES ASSUME IInv, [Next]_vars PROVE UnderLock'
  OBVIOUS
<1> USE DEF IInv, UnderLock, At, Held, dbVars
<1>t. call \in [Procs -> Calls] /\ Idle.at = "idle" /\ None \notin Procs
  BY ConstantsOK DEF TypeOK, Idle, None
<1>e. ASSUME UNCHANGED <<ledger, schema, lock>>, NEW p \in Procs,
             \A q \in Procs \ {p} : call'[q] = call[q],
             call'[p].at \notin {"bootstrap", "ledger", "apply"}
      PROVE  UnderLock'
  BY <1>e DEF Embeds
<1>f. ASSUME NEW p \in Procs, NEW c, call' = [call EXCEPT ![p] = c]
      PROVE  call'[p] = c /\ \A q \in Procs \ {p} : call'[q] = call[q]
  BY <1>f, <1>t
<1>r. ASSUME NEW p \in Procs, NEW err, Return(p, err), UNCHANGED <<ledger, schema, lock>>
      PROVE  UnderLock'
  <2> DEFINE c == [Idle EXCEPT !.at = "finish", !.req = call[p].req, !.err = err]
  <2>1. c.at = "finish" /\ call' = [call EXCEPT ![p] = c]
    BY <1>r DEF Return, Idle
  <2> HIDE DEF c
  <2> QED
    BY <1>r, <1>e, <1>f, <2>1
<1>l. ASSUME NEW p \in Procs, call' = [call EXCEPT ![p] = Idle], UNCHANGED <<ledger, schema>>,
             lock' = IF Held(p) THEN None ELSE lock
      PROVE  UnderLock'
  BY <1>l, <1>t DEF Embeds
<1>1. ASSUME NEW p \in Procs, NEW r \in Requests, Begin(p, r) PROVE UnderLock'
  <2> DEFINE c == IF Valid(r) THEN [Idle EXCEPT !.at = "inspect", !.req = r] ELSE Idle
  <2>1. c.at \in {"idle", "inspect"} /\ call' = [call EXCEPT ![p] = c]
    BY <1>1 DEF Begin, Idle
  <2> HIDE DEF c
  <2> QED
    BY <1>1, <1>e, <1>f, <2>1 DEF Begin
<1>2. ASSUME NEW p \in Procs, Inspect(p) PROVE UnderLock'
  <2>1. CASE Return(p, "config_mismatch") \/ Return(p, "invalid_config")
    BY <1>2, <1>r, <2>1 DEF Inspect
  <2>2. ASSUME ~(Return(p, "config_mismatch") \/ Return(p, "invalid_config"))
        PROVE  UnderLock'
    <3>1. call'[p].at = "lock" /\ \A q \in Procs \ {p} : call'[q] = call[q]
      BY <1>2, <1>t, <2>2 DEF Inspect, Calls
    <3> QED
      BY <1>2, <1>e, <3>1 DEF Inspect
  <2> QED
    BY <2>1, <2>2
<1>3. ASSUME NEW p \in Procs, TryLock(p) PROVE UnderLock'
  BY <1>3, <1>t DEF TryLock, Calls, Embeds
<1>4. ASSUME NEW p \in Procs, LockTimeout(p) PROVE UnderLock'
  BY <1>4, <1>r DEF LockTimeout
<1>5. ASSUME NEW p \in Procs, Bootstrap(p) PROVE UnderLock'
  BY <1>5, <1>t DEF Bootstrap, Calls, Embeds
<1>6. ASSUME NEW p \in Procs, ReadLedger(p) PROVE UnderLock'
  <2>1. CASE CheckHistory(call[p].req) # None
    BY <1>6, <1>r, <2>1 DEF ReadLedger
  <2>2. CASE CheckHistory(call[p].req) = None
    <3>1. Embeds(call[p].req)
      BY <2>2 DEF CheckHistory, Embeds, None
    <3>2. /\ call'[p].at = "apply" /\ call'[p].applied = ledger /\ call'[p].req = call[p].req
          /\ \A q \in Procs \ {p} : call'[q] = call[q]
      BY <1>6, <1>t, <2>2 DEF ReadLedger, Calls
    <3> QED
      BY <1>6, <3>1, <3>2 DEF ReadLedger, Embeds
  <2> QED
    BY <2>1, <2>2
<1>7. ASSUME NEW p \in Procs, ApplyMigration(p) PROVE UnderLock'
  <2>1. PICK v \in Versions : Applied(p, v)
    BY <1>7, ApplyMigrationApplies
  <2>2. /\ call'[p].at = "apply" /\ call'[p].applied = ledger' /\ call'[p].req = call[p].req
        /\ \A q \in Procs \ {p} : call'[q] = call[q]
    BY <1>7, <1>t, <2>1 DEF ApplyMigration, Applied, Calls
  <2>3. Embeds(call[p].req)'
    <3>1. /\ DOMAIN ledger' = DOMAIN ledger \cup {v} /\ ledger'[v] = call[p].req.sums[v]
          /\ \A w \in DOMAIN ledger : ledger'[w] = ledger[w]
      BY <2>1, AppliedLedger
    <3>2. Embeds(call[p].req) /\ v \in DOMAIN call[p].req.sums
      BY <2>1 DEF Applied
    <3> QED
      BY <2>2, <3>1, <3>2 DEF Embeds
  <2>4. \A q \in Procs \ {p} : call[q].at \notin {"bootstrap", "ledger", "apply"}
    BY <1>7 DEF ApplyMigration
  <2> QED
    BY <2>1, <2>2, <2>3, <2>4 DEF Applied, Embeds
<1>8. ASSUME NEW p \in Procs, CheckSchemaConfig(p) PROVE UnderLock'
  BY <1>8, <1>r DEF CheckSchemaConfig
<1>9. ASSUME NEW p \in Procs, Finish(p) PROVE UnderLock'
  BY <1>9, <1>l DEF Finish, Leave
<1>10. ASSUME NEW p \in Procs, ApplyMigrationFails(p) PROVE UnderLock'
  BY <1>10, <1>r DEF ApplyMigrationFails
<1>11. ASSUME NEW p \in Procs, StatementFails(p) PROVE UnderLock'
  BY <1>11, <1>r DEF StatementFails
<1>12. ASSUME NEW p \in Procs, FinishDiscards(p) PROVE UnderLock'
  BY <1>12, <1>l DEF FinishDiscards, Leave
<1>13. ASSUME NEW p \in Procs, Crash(p) PROVE UnderLock'
  BY <1>13, <1>l DEF Crash
<1>14. CASE Open
  BY <1>14 DEF Open, NewInspect, ReadSchemaConfig, Embeds
<1>15. CASE UNCHANGED vars
  BY <1>15 DEF vars, Embeds
<1> QED
  BY <1>1, <1>2, <1>3, <1>4, <1>5, <1>6, <1>7, <1>8, <1>9, <1>10, <1>11, <1>12, <1>13, <1>14,
     <1>15 DEF Next, Step

\* Success is told only of a database that has what was asked for.
LEMMA WonStep == IInv /\ [Next]_vars => Won'
<1> SUFFICES ASSUME IInv, [Next]_vars PROVE Won'
  OBVIOUS
<1> USE DEF Won, At, dbVars
<1>t. /\ call \in [Procs -> Calls] /\ succeeded \subseteq Requests
      /\ \A p \in Procs : call[p].req \in Requests
      /\ Idle.at = "idle"
  BY DEF IInv, TypeOK, Idle, Calls
<1>h. \A r \in Requests : Has(r) => Has(r)'
  BY HasStays
\* Processes that neither come to finish nor leave it successfully.
<1>n. ASSUME NEW p \in Procs, \A q \in Procs \ {p} : call'[q] = call[q], succeeded' = succeeded,
             call'[p].at # "finish" \/ call'[p].err # None
      PROVE  Won'
  BY <1>n, <1>t, <1>h DEF IInv
<1>f. ASSUME NEW p \in Procs, NEW c, call' = [call EXCEPT ![p] = c]
      PROVE  call'[p] = c /\ \A q \in Procs \ {p} : call'[q] = call[q]
  BY <1>f, <1>t
<1>r. ASSUME NEW p \in Procs, NEW err, Return(p, err)
      PROVE  /\ call'[p].at = "finish" /\ call'[p].err = err /\ call'[p].req = call[p].req
             /\ \A q \in Procs \ {p} : call'[q] = call[q]
  <2> DEFINE c == [Idle EXCEPT !.at = "finish", !.req = call[p].req, !.err = err]
  <2>1. c.at = "finish" /\ c.err = err /\ c.req = call[p].req /\ call' = [call EXCEPT ![p] = c]
    BY <1>r DEF Return, Idle
  <2> HIDE DEF c
  <2> QED
    BY <1>f, <2>1
<1>l. ASSUME NEW p \in Procs, NEW err, Leave(p, err), At(p, "finish"),
             err = None => call[p].err = None
      PROVE  Won'
  <2>1. call'[p] = Idle /\ \A q \in Procs \ {p} : call'[q] = call[q]
    BY <1>l, <1>f DEF Leave
  <2>2. \A r \in succeeded' : r \in Requests /\ Has(r)
    BY <1>l, <1>t DEF Leave, IInv
  <2> QED
    BY <1>t, <1>h, <2>1, <2>2 DEF IInv
<1>1. ASSUME NEW p \in Procs, NEW r \in Requests, Begin(p, r) PROVE Won'
  <2> DEFINE c == IF Valid(r) THEN [Idle EXCEPT !.at = "inspect", !.req = r] ELSE Idle
  <2>1. c.at \in {"idle", "inspect"} /\ call' = [call EXCEPT ![p] = c]
    BY <1>1 DEF Begin, Idle
  <2> HIDE DEF c
  <2> QED
    BY <1>1, <1>n, <1>f, <2>1 DEF Begin
<1>2. ASSUME NEW p \in Procs, Inspect(p) PROVE Won'
  <2>1. CASE Return(p, "config_mismatch") \/ Return(p, "invalid_config")
    BY <1>2, <1>r, <1>n, <2>1 DEF Inspect, None
  <2>2. ASSUME ~(Return(p, "config_mismatch") \/ Return(p, "invalid_config"))
        PROVE  Won'
    <3>1. call'[p].at = "lock" /\ \A q \in Procs \ {p} : call'[q] = call[q]
      BY <1>2, <1>t, <2>2 DEF Inspect, Calls
    <3> QED
      BY <1>2, <1>n, <3>1 DEF Inspect
  <2> QED
    BY <2>1, <2>2
<1>3. ASSUME NEW p \in Procs, TryLock(p) \/ Bootstrap(p) PROVE Won'
  <2>1. call'[p].at # "finish" /\ \A q \in Procs \ {p} : call'[q] = call[q]
    BY <1>3, <1>t DEF TryLock, Bootstrap, Calls
  <2> QED
    BY <1>3, <1>n, <2>1 DEF TryLock, Bootstrap
<1>4. ASSUME NEW p \in Procs, LockTimeout(p) \/ ApplyMigrationFails(p) \/ StatementFails(p)
      PROVE  Won'
  <2>1. \E err : err # None /\ Return(p, err)
    BY <1>4 DEF LockTimeout, ApplyMigrationFails, StatementFails, None
  <2> QED
    BY <1>4, <1>r, <1>n, <2>1 DEF LockTimeout, ApplyMigrationFails, StatementFails
<1>5. ASSUME NEW p \in Procs, ReadLedger(p) PROVE Won'
  <2>1. CASE CheckHistory(call[p].req) # None
    BY <1>5, <1>r, <1>n, <2>1 DEF ReadLedger
  <2>2. CASE CheckHistory(call[p].req) = None
    <3>1. call'[p].at = "apply" /\ \A q \in Procs \ {p} : call'[q] = call[q]
      BY <1>5, <1>t, <2>2 DEF ReadLedger, Calls
    <3> QED
      BY <1>5, <1>n, <3>1 DEF ReadLedger
  <2> QED
    BY <2>1, <2>2
<1>6. ASSUME NEW p \in Procs, ApplyMigration(p) PROVE Won'
  <2>1. PICK v \in Versions : Applied(p, v)
    BY <1>6, ApplyMigrationApplies
  <2>2. call'[p].at = "apply" /\ \A q \in Procs \ {p} : call'[q] = call[q]
    BY <1>6, <1>t, <2>1 DEF ApplyMigration, Applied, Calls
  <2> QED
    BY <1>6, <1>n, <2>2 DEF ApplyMigration
<1>7. ASSUME NEW p \in Procs, CheckSchemaConfig(p) PROVE Won'
  <2>1. CASE config = [dims |-> call[p].req.dims, text |-> call[p].req.text] /\ config # NoConfig
    <3>1. DOMAIN call[p].req.sums \subseteq DOMAIN ledger /\ Embeds(call[p].req)
      BY <1>7 DEF CheckSchemaConfig, IInv, UnderLock, Pending
    <3>2. Has(call[p].req)
      BY <2>1, <3>1 DEF Has, Embeds
    <3>3. call'[p].req = call[p].req /\ \A q \in Procs \ {p} : call'[q] = call[q]
      BY <1>7, <1>r DEF CheckSchemaConfig
    <3> QED
      BY <1>7, <1>t, <1>h, <3>2, <3>3 DEF CheckSchemaConfig, IInv
  <2>2. CASE ~(config = [dims |-> call[p].req.dims, text |-> call[p].req.text] /\ config # NoConfig)
    <3>1. \E err : err # None /\ Return(p, err)
      BY <1>7, <2>2 DEF CheckSchemaConfig, None
    <3> QED
      BY <1>7, <1>r, <1>n, <3>1 DEF CheckSchemaConfig
  <2> QED
    BY <2>1, <2>2
<1>8. ASSUME NEW p \in Procs, Finish(p) PROVE Won'
  BY <1>8, <1>l DEF Finish
<1>9. ASSUME NEW p \in Procs, FinishDiscards(p) PROVE Won'
  BY <1>9, <1>l DEF FinishDiscards, None
<1>10. ASSUME NEW p \in Procs, Crash(p) PROVE Won'
  BY <1>10, <1>t, <1>f, <1>n DEF Crash
<1>11. CASE Open
  BY <1>11, <1>t, <1>h DEF Open, NewInspect, ReadSchemaConfig, IInv
<1>12. CASE UNCHANGED vars
  BY <1>12, <1>t, <1>h DEF vars, IInv
<1> QED
  BY <1>1, <1>2, <1>3, <1>4, <1>5, <1>6, <1>7, <1>8, <1>9, <1>10, <1>11, <1>12 DEF Next, Step

\* What a Store has read stays right.
LEMMA OpenedStep == IInv /\ [Next]_vars => Opened'
<1> SUFFICES ASSUME IInv, [Next]_vars PROVE Opened'
  OBVIOUS
<1>d. /\ \A x \in Extensions : ext[x] # Unset => ext'[x] = ext[x]
      /\ config # NoConfig => config' = config
  <2>1. ASSUME NEW p \in Procs, NEW v \in Versions, Applied(p, v)
        PROVE  config # NoConfig => config' = config
    <3>1. config # NoConfig => 1 .. (v - 1) # {}
      BY <2>1 DEF Applied, IInv, Contiguous
    <3> QED
      BY <2>1, <3>1 DEF Applied, Versions
  <2> QED
    BY <2>1, DatabaseStep DEF Applied
<1>v. "vector" \in Extensions
  BY DEF Extensions
<1>1. CASE store' = store
  BY <1>1, <1>d, <1>v DEF IInv, Opened
<1>2. CASE NewInspect
  <2>1. store' = [at |-> "config", ext |-> ext["vector"], dims |-> 0, text |-> Unset]
        /\ ext["vector"] # Unset
    BY <1>2, <1>v DEF NewInspect, NoStore
  <2> QED
    BY <1>d, <1>v, <2>1 DEF Opened
<1>3. CASE ReadSchemaConfig
  <2>1. CASE config = NoConfig
    BY <1>3, <2>1 DEF ReadSchemaConfig, NoStore, Opened
  <2>2. CASE config # NoConfig
    <3>1. config \in [dims : 1 .. MaxDims, text : TextConfigs]
      BY <2>2 DEF IInv, TypeOK, Configs
    <3>2. /\ store'.at = "open" /\ store'.ext = store.ext
          /\ store'.dims = config.dims /\ store'.text = config.text
      BY <1>3, <2>2 DEF ReadSchemaConfig, IInv, TypeOK
    <3>3. store.ext = ext["vector"] /\ ext["vector"] # Unset
      BY <1>3 DEF ReadSchemaConfig, IInv, Opened
    <3> QED
      BY <1>d, <1>v, <2>2, <3>1, <3>2, <3>3 DEF Opened
  <2> QED
    BY <2>1, <2>2
<1>4. store' = store \/ NewInspect \/ ReadSchemaConfig
  BY DEF Next, vars, Begin, Step, Open, Inspect, TryLock, LockTimeout, Bootstrap, ReadLedger,
         ApplyMigration, CheckSchemaConfig, Finish, ApplyMigrationFails, StatementFails,
         FinishDiscards, Crash
<1> QED
  BY <1>1, <1>2, <1>3, <1>4

-----------------------------------------------------------------------------
(* Theorems *)

\* The invariant holds initially and every step preserves it.
LEMMA Inductive == Spec => []IInv
<1>1. Init => IInv
  <2> SUFFICES ASSUME Init PROVE IInv
    OBVIOUS
  <2>1. Contiguous
    <3>1. DOMAIN ledger = 1 .. 0 /\ objects = {} /\ config = NoConfig
      BY EmptyLedger DEF Init
    <3>2. 0 \in 0 .. MaxVersion
      BY DEF MaxVersion
    <3> QED
      BY <3>1, <3>2 DEF Contiguous
  <2>2. UnderLock /\ Won /\ Opened
    BY DEF Init, UnderLock, Won, Opened, At, Idle, NoStore
  <2> QED
    BY <2>1, <2>2, TypeInit DEF IInv
<1>2. IInv /\ [Next]_vars => IInv'
  BY TypeStep, ContiguousStep, UnderLockStep, WonStep, OpenedStep DEF IInv
<1> QED
  BY <1>1, <1>2, PTL DEF Spec

\* Whatever crashes or fails between two migrations, or between the DDL of one
\* and its row in the ledger, the ledger tells exactly what is in the database.
THEOREM LedgerIsTrue == Spec => []LedgerTellsTheSchema
<1>1. IInv => LedgerTellsTheSchema
  <2> SUFFICES ASSUME IInv PROVE LedgerTellsTheSchema
    OBVIOUS
  <2>1. PICK n \in 0 .. MaxVersion : DOMAIN ledger = 1 .. n
    BY DEF IInv, Contiguous
  <2>2. Cardinality(1 .. n) = n
    <3>1. n \in Int /\ 1 \in Int /\ n >= 0
      BY DEF MaxVersion
    <3>2. Cardinality(1 .. n) = IF 1 > n THEN 0 ELSE n - 1 + 1
      BY <3>1, FS_Interval
    <3> QED
      BY <3>1, <3>2
  <2> QED
    BY <2>1, <2>2 DEF IInv, Contiguous, LedgerTellsTheSchema
<1> QED
  BY <1>1, Inductive, PTL

\* What a process read from the ledger is the ledger until it leaves, so that
\* no migration is tried twice, however many processes start at once.
THEOREM SnapshotIsCurrent == Spec => []SnapshotStaysCurrent
<1>1. IInv => SnapshotStaysCurrent
  BY DEF IInv, UnderLock, SnapshotStaysCurrent, At
<1> QED
  BY <1>1, Inductive, PTL

\* After a call of Migrate that returned without an error the ledger goes on
\* holding all its migrations with its checksums, and schema_config its width
\* and text search configuration, whatever other builds try.
THEOREM SuccessLasts == Spec => []SuccessHolds
<1>1. IInv => SuccessHolds
  BY DEF IInv, Won, Has, SuccessHolds
<1> QED
  BY <1>1, Inductive, PTL

\* A Store opened at any moment of anybody's migration fits the database and
\* every process that migrated it.
THEOREM StoresFit == Spec => []StoreFits
<1>1. IInv => StoreFits
  BY DEF IInv, Won, Has, Opened, Contiguous, StoreFits, VerifyEmbedder
<1> QED
  BY <1>1, Inductive, PTL

\* Only a build that embeds the whole applied history adds to it.
THEOREM HistoryIsOwned == Spec => OnlyOwnHistoryGrows
<1> DEFINE Own == \A v \in DOMAIN ledger' \ DOMAIN ledger :
                     \E p \in Procs : /\ Held(p)
                                      /\ DOMAIN ledger \subseteq DOMAIN call[p].req.sums
                                      /\ \A w \in DOMAIN ledger : ledger[w] = call[p].req.sums[w]
<1>1. IInv /\ [Next]_vars => Own
  BY DatabaseStep DEF Applied, Embeds
<1>2. IInv /\ [Next]_vars => [Own]_vars
  BY <1>1
<1> QED
  BY <1>2, Inductive, PTL DEF Spec, OnlyOwnHistoryGrows
=============================================================================
