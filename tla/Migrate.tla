------------------------------ MODULE Migrate ------------------------------
(***************************************************************************)
(* Processes that bring one database up to the schema they embed, as every *)
(* instance of an application does when it starts, and Stores opened on    *)
(* it.  Builds differ in how many migrations they embed and may hold an    *)
(* edited one; calls differ in their options.  The advisory lock belongs   *)
(* to a session: it goes when the session does.                            *)
(***************************************************************************)
EXTENDS Integers, FiniteSets

CONSTANTS
    Procs,       \* processes that call Migrate
    Requests,    \* builds and options a call may come with, see Request
    MaxCalls,    \* bound: calls of Migrate
    MaxFaults,   \* bound: crashes, failed statements, failed releases
    MaxDims,     \* MaxVectorDimensions
    TextConfigs, \* the text search configurations the server has
    Schemas      \* schemas extensions may live in; "public" is the default

\* MaxVersion bounds the embedded set: 0001 to 0004 at this commit.
MaxVersion == 4
Versions == 1 .. MaxVersion

Checksums == {"h", "edited"}
Unset == "unset"  \* the empty string of an option, or of what is not there

\* A build is the checksums of what it embeds: loadMigrations insists on
\* versions contiguous from 1, so the index is the version.
Request == [sums : UNION {[1 .. n -> Checksums] : n \in Versions}, dims : Nat,
            text : STRING, ext : Schemas \cup {Unset}]

ASSUME ConstantsOK ==
    /\ Requests \subseteq Request /\ Requests # {} /\ "none" \notin Procs
    /\ MaxCalls \in Nat /\ MaxFaults \in Nat /\ MaxDims \in Nat
    /\ "public" \in Schemas /\ Unset \notin Schemas

VARIABLES
    lock,      \* the session holding the advisory lock, or None
    schema,    \* whether bootstrap has created the schema and the ledger
    ledger,    \* schema_migrations: checksum by version
    objects,   \* versions whose DDL is in the database
    ext,       \* ext[x]: the schema extension x is installed in, Unset if none
    config,    \* the row of schema_config, or NoConfig
    baked,     \* the text search configuration in facts.statement_tsv
    call,      \* call[p]: the call process p is in
    succeeded, \* requests whose call returned without error
    store,     \* the Store being opened or open
    calls, faults

vars == <<lock, schema, ledger, objects, ext, config, baked, call, succeeded, store, calls, faults>>
dbVars == <<schema, ledger, objects, ext, config, baked>>

None == "none"
Extensions == {"vector", "btree_gin", "btree_gist"}  \* requiredExtensions
NoRequest == CHOOSE r \in Requests : TRUE
Idle == [at |-> "idle", req |-> NoRequest, schema |-> Unset, missing |-> {}, applied |-> <<>>,
         err |-> None]
NoConfig == [dims |-> 0, text |-> Unset]
NoStore == [at |-> "none", ext |-> Unset, dims |-> 0, text |-> Unset]

At(p, at) == call[p].at = at
Held(p) == lock = p

\* Leave the body of the call with an error, or with None for success; the
\* deferred finishMigrationSession comes next.
Return(p, err) ==
    call' = [call EXCEPT ![p] = [Idle EXCEPT !.at = "finish", !.req = call[p].req, !.err = err]]

-----------------------------------------------------------------------------
(* The call up to the lock *)

\* Faulty: off by one.
ValidOneMore(r) == r.dims \in 1 .. MaxDims + 1

\* MigrateOptions.validate, and the limit pgvector has.
Valid(r) == r.dims \in 1 .. MaxDims

\* validate, loadMigrations and the connection.  What is refused here never
\* gets a session.
Begin(p, r) ==
    /\ At(p, "idle") /\ calls < MaxCalls
    /\ calls' = calls + 1
    /\ call' = [call EXCEPT ![p] = IF Valid(r)
                                   THEN [Idle EXCEPT !.at = "inspect", !.req = r]
                                   ELSE Idle]
    /\ UNCHANGED <<lock, dbVars, succeeded, store, faults>>

\* resolveExtensionSchema: what the database does wins over what was assumed.
ResolveExtensionSchema(r) ==
    CASE ext["vector"] = Unset -> IF r.ext = Unset THEN "public" ELSE r.ext
      [] OTHER -> ext["vector"]

\* inspect, resolveExtensionSchema and checkTextSearchConfig, all before the
\* lock: what they read can be old when it is used.
Inspect(p) ==
    LET r == call[p].req IN
    /\ At(p, "inspect")
    /\ CASE ext["vector"] # Unset /\ r.ext # Unset /\ r.ext # ext["vector"] ->
              Return(p, "config_mismatch")
         [] r.text \notin TextConfigs -> Return(p, "invalid_config")
         [] OTHER -> call' = [call EXCEPT ![p].at = "lock",
                                          ![p].schema = ResolveExtensionSchema(r),
                                          ![p].missing = {x \in Extensions : ext[x] = Unset}]
    /\ UNCHANGED <<lock, dbVars, succeeded, store, calls, faults>>

\* Faulty: the poll's answer is not looked at.
TryLockAnyway(p) ==
    /\ At(p, "lock")
    /\ lock' = p
    /\ call' = [call EXCEPT ![p].at = "bootstrap"]
    /\ UNCHANGED <<dbVars, succeeded, store, calls, faults>>

\* A poll with pg_try_advisory_lock that gets the lock.
TryLock(p) ==
    /\ At(p, "lock") /\ lock = None
    /\ lock' = p
    /\ call' = [call EXCEPT ![p].at = "bootstrap"]
    /\ UNCHANGED <<dbVars, succeeded, store, calls, faults>>

\* A poll that did not, and the next would be past the deadline.
LockTimeout(p) ==
    /\ At(p, "lock") /\ lock # None
    /\ Return(p, "lock_timeout")
    /\ UNCHANGED <<lock, dbVars, succeeded, store, calls, faults>>

-----------------------------------------------------------------------------
(* Under the lock *)

Bootstrap(p) ==
    /\ At(p, "bootstrap")
    /\ schema' = TRUE
    /\ call' = [call EXCEPT ![p].at = "ledger"]
    /\ UNCHANGED <<lock, ledger, objects, ext, config, baked, succeeded, store, calls, faults>>

\* Faulty: the versions are compared, not their checksums.
CheckHistoryVersions(r) ==
    IF DOMAIN ledger \subseteq DOMAIN r.sums THEN None ELSE "database_ahead"

\* checkHistory: every applied version is embedded, with the same checksum.
CheckHistory(r) ==
    CASE ~(DOMAIN ledger \subseteq DOMAIN r.sums) -> "database_ahead"
      [] \E v \in DOMAIN ledger \cap DOMAIN r.sums : ledger[v] # r.sums[v] -> "checksum_mismatch"
      [] OTHER -> None

\* appliedMigrations and checkHistory.
ReadLedger(p) ==
    /\ At(p, "ledger")
    /\ IF CheckHistory(call[p].req) = None
       THEN call' = [call EXCEPT ![p].at = "apply", ![p].applied = ledger]
       ELSE Return(p, CheckHistory(call[p].req))
    /\ UNCHANGED <<lock, dbVars, succeeded, store, calls, faults>>

Pending(p) == DOMAIN call[p].req.sums \ DOMAIN call[p].applied

\* The loop walks the embedded set in version order.
NextPending(p) == CHOOSE v \in Pending(p) : \A w \in Pending(p) : v <= w

\* The extensions a migration creates if they are missing, in the first
\* schema of the search_path.
Creates(v) == CASE v = 1 -> {"vector", "btree_gin"} [] v = 2 -> {"btree_gist"} [] OTHER -> {}

Plus(f, v, x) == [w \in DOMAIN f \cup {v} |-> IF w = v THEN x ELSE f[w]]

\* Faulty: the ledger row is written after the commit, and can be missed.
ApplyMigrationInTwo(p) ==
    LET r == call[p].req
        v == NextPending(p) IN
    /\ At(p, "apply") /\ Pending(p) # {}
    /\ v \notin DOMAIN ledger
    /\ objects' = objects \cup {v}
    /\ config' = IF v = 1 THEN [dims |-> r.dims, text |-> r.text] ELSE config
    /\ baked' = IF v = 2 THEN r.text ELSE baked
    /\ \/ /\ ledger' = Plus(ledger, v, r.sums[v])
          /\ call' = [call EXCEPT ![p].applied = Plus(@, v, r.sums[v])]
       \/ UNCHANGED ledger /\ Return(p, "error")
    /\ UNCHANGED <<lock, schema, ext, succeeded, store, calls, faults>>

\* applyMigration: search_path, DDL and ledger row in one transaction.  0001
\* records the options, 0002 renders the caller's text search configuration
\* without a look at them.  A version another session has applied meanwhile
\* fails on what exists.
ApplyMigration(p) ==
    LET r == call[p].req
        v == NextPending(p) IN
    /\ At(p, "apply") /\ Pending(p) # {}
    /\ IF v \in DOMAIN ledger
       THEN Return(p, "error") /\ UNCHANGED dbVars
       ELSE /\ ledger' = Plus(ledger, v, r.sums[v])
            /\ objects' = objects \cup {v}
            /\ ext' = [x \in Extensions |-> IF x \in Creates(v) /\ ext[x] = Unset
                                            THEN call[p].schema ELSE ext[x]]
            /\ config' = IF v = 1 THEN [dims |-> r.dims, text |-> r.text] ELSE config
            /\ baked' = IF v = 2 THEN r.text ELSE baked
            /\ call' = [call EXCEPT ![p].applied = Plus(@, v, r.sums[v])]
            /\ UNCHANGED schema
    /\ UNCHANGED <<lock, succeeded, store, calls, faults>>

\* The transaction fails and rolls back.  annotateMigrationError names the
\* extensions inspect missed when it was a privilege that the role lacked.
ApplyMigrationFails(p) ==
    /\ At(p, "apply") /\ Pending(p) # {} /\ faults < MaxFaults
    /\ \/ Return(p, "error")
       \/ call[p].missing # {} /\ Return(p, "missing_extension")
    /\ faults' = faults + 1
    /\ UNCHANGED <<lock, dbVars, succeeded, store, calls>>

\* Faulty: only the width is compared.
CheckSchemaConfigDims(p) ==
    /\ At(p, "apply") /\ Pending(p) = {}
    /\ Return(p, IF config.dims = call[p].req.dims THEN None ELSE "config_mismatch")
    /\ UNCHANGED <<lock, dbVars, succeeded, store, calls, faults>>

\* checkSchemaConfig, once nothing is pending.
CheckSchemaConfig(p) ==
    /\ At(p, "apply") /\ Pending(p) = {}
    /\ Return(p, CASE config = NoConfig -> "schema_not_ready"
                   [] config # [dims |-> call[p].req.dims, text |-> call[p].req.text] ->
                         "config_mismatch"
                   [] OTHER -> None)
    /\ UNCHANGED <<lock, dbVars, succeeded, store, calls, faults>>

-----------------------------------------------------------------------------
(* The end of the call *)

\* A statement fails: the context is cancelled, or the connection is gone.
StatementFails(p) ==
    /\ \E at \in {"inspect", "lock", "bootstrap", "ledger"} : At(p, at)
    /\ faults < MaxFaults
    /\ Return(p, "error")
    /\ faults' = faults + 1
    /\ UNCHANGED <<lock, dbVars, succeeded, store, calls>>

Leave(p, err) ==
    /\ call' = [call EXCEPT ![p] = Idle]
    /\ succeeded' = IF err = None THEN succeeded \cup {call[p].req} ELSE succeeded

\* Faulty: a failed call hands its connection back as it is.
FinishUnlocked(p) ==
    /\ At(p, "finish")
    /\ lock' = IF Held(p) /\ call[p].err = None THEN None ELSE lock
    /\ Leave(p, call[p].err)
    /\ UNCHANGED <<dbVars, store, calls, faults>>

\* finishMigrationSession releases the lock and the connection.
Finish(p) ==
    /\ At(p, "finish")
    /\ lock' = IF Held(p) THEN None ELSE lock
    /\ Leave(p, call[p].err)
    /\ UNCHANGED <<dbVars, store, calls, faults>>

\* The release fails: the connection is closed, and the lock goes with it.
FinishDiscards(p) ==
    /\ At(p, "finish") /\ Held(p) /\ faults < MaxFaults
    /\ lock' = None
    /\ Leave(p, "error")
    /\ faults' = faults + 1
    /\ UNCHANGED <<dbVars, store, calls>>

\* The process dies.  The server rolls back and frees the session's lock.
Crash(p) ==
    /\ ~At(p, "idle") /\ faults < MaxFaults
    /\ lock' = IF Held(p) THEN None ELSE lock
    /\ call' = [call EXCEPT ![p] = Idle]
    /\ faults' = faults + 1
    /\ UNCHANGED <<dbVars, succeeded, store, calls>>

-----------------------------------------------------------------------------
(* New opens a Store: inspect first, schema_config second, no lock. *)

\* Faulty: an extension that is not there yet is assumed to go to the default.
NewInspectAssumes ==
    /\ store.at = "none"
    /\ store' = [NoStore EXCEPT !.at = "config",
                                !.ext = IF ext["vector"] = Unset THEN "public" ELSE ext["vector"]]
    /\ UNCHANGED <<lock, dbVars, call, succeeded, calls, faults>>

\* A missing extension is ErrMissingExtension, and there is no Store.
NewInspect ==
    /\ store.at = "none" /\ \A x \in Extensions : ext[x] # Unset
    /\ store' = [NoStore EXCEPT !.at = "config", !.ext = ext["vector"]]
    /\ UNCHANGED <<lock, dbVars, call, succeeded, calls, faults>>

ReadSchemaConfig ==
    /\ store.at = "config"
    /\ store' = IF config = NoConfig THEN NoStore
                ELSE [store EXCEPT !.at = "open", !.dims = config.dims, !.text = config.text]
    /\ UNCHANGED <<lock, dbVars, call, succeeded, calls, faults>>

\* VerifyEmbedder: the width of the caller's embedder against the width read.
VerifyEmbedder(dims) == store.dims = dims

-----------------------------------------------------------------------------

Init ==
    /\ lock = None /\ schema = FALSE
    /\ ledger = <<>> /\ objects = {}
    \* nothing, pgvector or everything was installed by a privileged role
    /\ \E given \in {{}, {"vector"}, Extensions}, s \in Schemas :
          ext = [x \in Extensions |-> IF x \in given THEN s ELSE Unset]
    /\ config = NoConfig /\ baked = Unset
    /\ call = [p \in Procs |-> Idle]
    /\ succeeded = {} /\ store = NoStore
    /\ calls = 0 /\ faults = 0

Step(p) ==
    \/ Inspect(p)
    \/ TryLock(p)
    \/ LockTimeout(p)
    \/ Bootstrap(p)
    \/ ReadLedger(p)
    \/ ApplyMigration(p)
    \/ CheckSchemaConfig(p)
    \/ Finish(p)

Open == NewInspect \/ ReadSchemaConfig

Next ==
    \/ \E p \in Procs, r \in Requests : Begin(p, r)
    \/ \E p \in Procs : \/ Step(p)
                        \/ ApplyMigrationFails(p)
                        \/ StatementFails(p)
                        \/ FinishDiscards(p)
                        \/ Crash(p)
    \/ Open

Spec == Init /\ [][Next]_vars

\* A process that is alive goes on with its call.
FairSpec == Spec /\ \A p \in Procs : WF_vars(Step(p))

-----------------------------------------------------------------------------
(* Properties *)

Errors == {None, "error", "config_mismatch", "invalid_config", "lock_timeout", "database_ahead",
           "checksum_mismatch", "missing_extension", "schema_not_ready"}
Ledgers == UNION {[D -> Checksums] : D \in SUBSET Versions}
Calls == [at : {"idle", "inspect", "lock", "bootstrap", "ledger", "apply", "finish"},
          req : Requests, schema : Schemas \cup {Unset}, missing : SUBSET Extensions,
          applied : Ledgers, err : Errors]
Configs == {NoConfig} \cup [dims : 1 .. MaxDims, text : TextConfigs]

\* Every variable has its type.
TypeOK ==
    /\ lock \in Procs \cup {None} /\ schema \in BOOLEAN
    /\ ledger \in Ledgers /\ objects \subseteq Versions
    /\ ext \in [Extensions -> Schemas \cup {Unset}] /\ config \in Configs
    /\ baked \in TextConfigs \cup {Unset}
    /\ call \in [Procs -> Calls] /\ succeeded \subseteq Requests
    /\ store \in [at : {"none", "config", "open"}, ext : Schemas \cup {Unset},
                  dims : 0 .. MaxDims, text : TextConfigs \cup {Unset}]
    /\ calls \in 0 .. MaxCalls /\ faults \in 0 .. MaxFaults

\* Whatever crashed or failed in between, the ledger records exactly the
\* migrations whose DDL is in the database, without gaps from version 1, and
\* the recorded options exist from the first one on.
LedgerTellsTheSchema ==
    /\ DOMAIN ledger = objects
    /\ DOMAIN ledger = 1 .. Cardinality(DOMAIN ledger)
    /\ (config # NoConfig) = (objects # {})
    /\ objects # {} => schema

\* What a process read from the ledger, with what it applied since, is the
\* ledger until it leaves: no other process applies anything in between, so
\* no migration is ever tried twice.
SnapshotStaysCurrent ==
    \A p \in Procs : At(p, "apply") => Held(p) /\ call[p].applied = ledger

\* A process whose call returned without error goes on having its migrations,
\* with its checksums, in a database that records its width and its text
\* search configuration.  What 0002 rendered and where the extensions are is
\* another matter: see TextConfigHolds and ExtensionSchemaHolds.
SuccessHolds ==
    \A r \in succeeded :
        /\ DOMAIN r.sums \subseteq DOMAIN ledger
        /\ \A v \in DOMAIN r.sums : ledger[v] = r.sums[v]
        /\ config = [dims |-> r.dims, text |-> r.text]

\* A process whose call returned without error has facts that are searched in
\* the language it asked for.  This is violated: a call that is refused for its
\* text search configuration has applied 0002 before it was.
TextConfigHolds ==
    \A r \in succeeded : 2 \in DOMAIN r.sums => baked = r.text

\* A process that named the extensions' schema, and whose call returned without
\* error, has pgvector there.  This is violated: the schema is compared before
\* the lock, with what was installed by then.
ExtensionSchemaHolds ==
    \A r \in succeeded : r.ext # Unset => ext["vector"] = r.ext

\* A build adds a migration only to a history it embeds itself: an older
\* build never writes to a newer database, an edited one never to an applied
\* history.
OnlyOwnHistoryGrows ==
    [][\A v \in DOMAIN ledger' \ DOMAIN ledger :
          \E p \in Procs :
             /\ Held(p)
             /\ DOMAIN ledger \subseteq DOMAIN call[p].req.sums
             /\ \A w \in DOMAIN ledger : ledger[w] = call[p].req.sums[w]]_vars

\* A Store that opened, at whatever moment of a migration, holds values that
\* stay right, and fits the embedder of every process that migrated.
StoreFits ==
    store.at = "open" =>
        /\ store.ext = ext["vector"]
        /\ objects # {}
        /\ config = [dims |-> store.dims, text |-> store.text]
        /\ \A r \in succeeded : VerifyEmbedder(r.dims)

\* Every call returns, and the lock with it: a crashed or failing process
\* never leaves the others waiting for ever.
CallsReturn ==
    \A p \in Procs : /\ ~At(p, "idle") ~> At(p, "idle")
                     /\ Held(p) ~> ~Held(p)

=============================================================================
