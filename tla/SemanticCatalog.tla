---------------------------- MODULE SemanticCatalog ----------------------------
(***************************************************************************)
(* The semantic model of one datasource and the knowledge that hangs on    *)
(* it, between the physical schema, which changes by itself, and the       *)
(* routes that read the model, work on their copy and write it back:       *)
(*                                                                         *)
(*   scan      reads the schema, reconciles (or first proposes) the model, *)
(*             replaces it, records the fingerprint, marks examples stale; *)
(*   review    sets the status of one mapping and replaces the model;      *)
(*   temporal  gives a confirmed attribute its meaning in time;            *)
(*   example   approves a statement against the schema as it is now.       *)
(*                                                                         *)
(* Each await is a step boundary.  A load is three SELECTs, each its own   *)
(* transaction, so it may be torn by a save.  A mapping stands for one     *)
(* object of the schema: a table, the column of it that matters, or a join *)
(* of two such columns.  Names, descriptions and confidences are left out. *)
(***************************************************************************)
EXTENDS Integers, FiniteSets

CONSTANTS
    Tables,            \* tables the datasource may have
    Joins,             \* pairs of tables that may be related
    DataTypes,         \* types a column may have
    Actors,            \* requests that run a route
    Routes,            \* bound: the routes they call
    MaxCalls,          \* bound: routes called
    MaxSchemaChanges,  \* bound: changes of the physical schema
    MaxFaults          \* bound: calls that end with an error or a crash

VARIABLES
    schema,       \* the physical schema: what each table is
    catalog,      \* semantic_entities, _attributes and _relationships
    fingerprint,  \* data_sources.schema_fingerprint
    cache,        \* the schema the kept gateway read last
    temporal,     \* temporal_dimensions: ids of the attributes that have one
    examples,     \* approved_query_examples
    actor,        \* where each request is, and its copy of the model
    approved,     \* ids of the mappings some reviewer has approved
    generations,  \* discoveries so far: each draws fresh ids
    calls, changes, faults

vars == <<schema, catalog, fingerprint, cache, temporal, examples, actor, approved,
          generations, calls, changes, faults>>

ASSUME CatalogAssumption ==
    /\ Joins \subseteq Tables \X Tables
    /\ Routes \subseteq {"scan", "review", "temporal", "example"}
    /\ MaxCalls \in Nat
    /\ MaxSchemaChanges \in Nat
    /\ MaxFaults \in Nat

ApprovalStatus == {"PROPOSED", "CONFIRMED", "REJECTED", "STALE"}

Kinds == {"entity", "attribute", "relationship"}

Entity(t) == <<"entity", t>>

Attribute(t) == <<"attribute", t>>

Objects ==
    {Entity(t) : t \in Tables} \union {Attribute(t) : t \in Tables}
      \union {<<"relationship", j>> : j \in Joins}

\* The entities a row's foreign keys name.
Parents(o) ==
    CASE o[1] = "entity"       -> {}
      [] o[1] = "attribute"    -> {Entity(o[2])}
      [] o[1] = "relationship" -> {Entity(o[2][1]), Entity(o[2][2])}

\* A table is not there, is there without the column, or has it with a type.
Gone == "gone"

Bare == "bare"

Shapes == DataTypes \union {Gone, Bare}

Schemas == [Tables -> Shapes]

\* SchemaSnapshot.fingerprint digests the structure, so equal fingerprints are
\* equal structures and the structure stands for its digest.
NoFingerprint == [t \in Tables |-> "none"]

\* A row is known by the discovery that drew its id.
NoType == "none"

Row == [id : 1 .. MaxCalls, status : ApprovalStatus, data_type : DataTypes \union {NoType}]

NoRow == [id |-> 0, status |-> "none", data_type |-> NoType]

Models == [Objects -> Row \union {NoRow}]

EmptyModel == [o \in Objects |-> NoRow]

\* An id as a reviewer sees it.
Ids == Objects \X (1 .. MaxCalls)

NoTarget == <<<<"none", "none">>, 0>>

Example == [table : Tables, fingerprint : Schemas \union {NoFingerprint},
            status : {"CONFIRMED", "STALE"}]

Idle == [at |-> "idle", route |-> "none", target |-> NoTarget, verdict |-> "none",
         model |-> EmptyModel, snapshot |-> [t \in Tables |-> Gone],
         previous |-> NoFingerprint]

Init ==
    /\ schema \in [Tables -> DataTypes]
    /\ catalog = EmptyModel
    /\ fingerprint = NoFingerprint
    /\ cache = NoFingerprint
    /\ temporal = {}
    /\ examples = {}
    /\ actor = [p \in Actors |-> Idle]
    /\ approved = {}
    /\ generations = 0
    /\ calls = 0
    /\ changes = 0
    /\ faults = 0

------------------------------------------------------------------------------
(***************************************************************************)
(* The database the routes share, and the schema they do not control.      *)
(***************************************************************************)

\* Somebody alters the datasource.
AlterSchema(t, shape) ==
    /\ changes < MaxSchemaChanges
    /\ shape # schema[t]
    /\ schema' = [schema EXCEPT ![t] = shape]
    /\ changes' = changes + 1
    /\ UNCHANGED <<cache, catalog, fingerprint, temporal, examples, actor, approved,
                   generations, calls, faults>>

\* A route is called.
Call(p, local) ==
    /\ actor[p].at = "idle"
    /\ local.route \in Routes
    /\ calls < MaxCalls
    /\ calls' = calls + 1
    /\ actor' = [actor EXCEPT ![p] = local]
    /\ UNCHANGED <<cache, schema, catalog, fingerprint, temporal, examples, generations,
                   changes, faults>>

\* A route moves on; the database stays.
Moves(p, local) ==
    /\ actor' = [actor EXCEPT ![p] = local]
    /\ UNCHANGED <<schema, catalog, fingerprint, temporal, examples, approved,
                   generations, calls, changes, faults>>

\* A call ends with an error or its process dies; what it committed stays.
Abort(p) ==
    /\ actor[p].at # "idle"
    /\ faults < MaxFaults
    /\ faults' = faults + 1
    /\ actor' = [actor EXCEPT ![p] = Idle]
    /\ UNCHANGED <<cache, schema, catalog, fingerprint, temporal, examples, approved,
                   generations, calls, changes>>

\* A scan reads the schema through a gateway of its own.
ReadSchema(p) ==
    /\ actor[p].at = "schema"
    /\ actor[p].route = "scan"
    /\ Moves(p, [actor[p] EXCEPT !.at = "entity", !.snapshot = schema])
    /\ UNCHANGED cache

\* A review reads it through the gateway the process keeps for the datasource,
\* which answers from its cache until that expires.
ReadScope(p) ==
    /\ actor[p].at = "schema"
    /\ actor[p].route = "example"
    /\ \E s \in {schema, cache} \ {NoFingerprint} :
         /\ Moves(p, [actor[p] EXCEPT !.at = "loaded", !.snapshot = s])
         /\ cache' = s

\* One of the three SELECTs of load; they come in the order of this CASE.
Load(p) ==
    LET kind == actor[p].at
    IN  /\ kind \in Kinds
        /\ Moves(p, [actor[p] EXCEPT
                       !.model = [o \in Objects |-> IF o[1] = kind THEN catalog[o] ELSE @[o]],
                       !.at = CASE kind = "entity"       -> "attribute"
                                [] kind = "attribute"    -> "relationship"
                                [] kind = "relationship" -> "loaded"])
        /\ UNCHANGED cache

\* Mutant: the tables have no foreign keys.
FitsTogether_Unchecked(m) == TRUE

\* The foreign keys of attributes and relationships: the rows they name exist.
FitsTogether(m) ==
    \A o \in Objects : m[o] # NoRow =>
        \A e \in Parents(o) : m[e] # NoRow /\ m[e].id = m[o].id

\* After the save a scan goes on, and a review has only its answer to read.
Saved(local) ==
    IF local.route = "scan"
    THEN [Idle EXCEPT !.at = "record_scan", !.route = "scan",
                      !.snapshot = local.snapshot, !.previous = local.previous]
    ELSE Idle

\* save: one transaction deletes the rows of the datasource and inserts those of
\* the copy.  Deleting an attribute deletes its temporal dimension with it.  A
\* copy that does not fit together rolls the transaction back.
Save(p) ==
    LET m == actor[p].model
    IN  /\ actor[p].at = "save"
        /\ IF FitsTogether(m)
           THEN /\ catalog' = m
                /\ temporal' = {}
                /\ actor' = [actor EXCEPT ![p] = Saved(actor[p])]
           ELSE /\ actor' = [actor EXCEPT ![p] = Idle]
                /\ UNCHANGED <<catalog, temporal>>
        /\ UNCHANGED <<cache, schema, fingerprint, examples, approved, generations, calls,
                       changes, faults>>

------------------------------------------------------------------------------
(***************************************************************************)
(* Scanning.                                                               *)
(***************************************************************************)

\* scan_data_source reads the datasource row, with the fingerprint it had.
StartScan(p) ==
    /\ Call(p, [Idle EXCEPT !.at = "schema", !.route = "scan", !.previous = fingerprint])
    /\ UNCHANGED approved

\* The objects of a schema a proposal may name: one it invents is dropped.
Exists(o, s) ==
    CASE o[1] = "entity"       -> s[o[2]] # Gone
      [] o[1] = "attribute"    -> s[o[2]] \in DataTypes
      [] o[1] = "relationship" -> s[o[2][1]] \in DataTypes /\ s[o[2][2]] \in DataTypes

\* Mutant: a discovered mapping needs no review.
Discovered_Confirmed(o, s, n) ==
    [id |-> n, status |-> "CONFIRMED",
     data_type |-> IF o[1] = "attribute" THEN s[o[2]] ELSE NoType]

\* Everything discovery finds arrives PROPOSED.
Discovered(o, s, n) ==
    [id |-> n, status |-> "PROPOSED",
     data_type |-> IF o[1] = "attribute" THEN s[o[2]] ELSE NoType]

\* Onboarding discovers only when nothing is on record.
NothingOnRecord(m) == \A t \in Tables : m[Entity(t)] = NoRow /\ m[Attribute(t)] = NoRow

\* The model proposes mappings for some of the objects of the snapshot; an
\* attribute or a relationship is kept only with its entities.
Discover(p) ==
    LET s == actor[p].snapshot
    IN  /\ actor[p].at = "loaded"
        /\ actor[p].route = "scan"
        /\ NothingOnRecord(actor[p].model)
        /\ generations' = generations + 1
        /\ \E proposed \in SUBSET {o \in Objects : Exists(o, s)} :
             /\ \A o \in proposed : Parents(o) \subseteq proposed
             /\ actor' = [actor EXCEPT ![p] =
                  [@ EXCEPT !.at = "save",
                            !.model = [o \in Objects |->
                               IF o \in proposed
                               THEN Discovered(o, s, generations + 1) ELSE NoRow]]]
        /\ UNCHANGED <<cache, schema, catalog, fingerprint, temporal, examples, approved,
                       calls, changes, faults>>

\* The table of an entity on record that is not rejected disappeared.
EntityBroke(m, t, s) ==
    m[Entity(t)] # NoRow /\ m[Entity(t)].status # "REJECTED" /\ s[t] = Gone

\* Mutant: a column that changed its type still fits.
Broke_IgnoresType(o, m, s) ==
    CASE o[1] = "entity"       -> s[o[2]] = Gone
      [] o[1] = "attribute"    -> \/ m[Entity(o[2])].id # m[o].id
                                  \/ s[o[2]] \notin DataTypes
      [] o[1] = "relationship" -> \E e \in Parents(o) :
                                    m[e].id # m[o].id \/ EntityBroke(m, e[2], s)

\* What reconcile_with_schema holds against a mapping.  Its entity may be missing
\* from a torn copy.
Broke(o, m, s) ==
    CASE o[1] = "entity"       -> s[o[2]] = Gone
      [] o[1] = "attribute"    -> \/ m[Entity(o[2])].id # m[o].id
                                  \/ s[o[2]] # m[o].data_type
      [] o[1] = "relationship" -> \E e \in Parents(o) :
                                    m[e].id # m[o].id \/ EntityBroke(m, e[2], s)

\* Mutant: a rejected mapping is reconsidered.
Reconciled_Reconsiders(o, m, s) ==
    IF m[o] # NoRow /\ Broke(o, m, s) THEN [m[o] EXCEPT !.status = "STALE"] ELSE m[o]

Reconciled(o, m, s) ==
    IF m[o] # NoRow /\ m[o].status # "REJECTED" /\ Broke(o, m, s)
    THEN [m[o] EXCEPT !.status = "STALE"] ELSE m[o]

\* A rescan keeps what still holds and marks what broke.
Reconcile(p) ==
    LET m == actor[p].model
        s == actor[p].snapshot
    IN  /\ actor[p].at = "loaded"
        /\ actor[p].route = "scan"
        /\ ~NothingOnRecord(m)
        /\ Moves(p, [actor[p] EXCEPT !.at = "save",
                                     !.model = [o \in Objects |-> Reconciled(o, m, s)]])
        /\ UNCHANGED cache

\* record_scan; examples are looked at only when the fingerprint changed since
\* the scan began.
RecordScan(p) ==
    /\ actor[p].at = "record_scan"
    /\ fingerprint' = actor[p].snapshot
    /\ actor' = [actor EXCEPT ![p] = IF actor[p].previous # actor[p].snapshot
                                     THEN [@ EXCEPT !.at = "mark_stale"] ELSE Idle]
    /\ UNCHANGED <<cache, schema, catalog, temporal, examples, approved, generations, calls,
                   changes, faults>>

\* Mutant: only examples over a table that is gone are marked.
Marked_GoneOnly(e, s) ==
    IF e.fingerprint # NoFingerprint /\ s[e.table] = Gone
    THEN [e EXCEPT !.status = "STALE"] ELSE e

Marked(e, s) ==
    IF e.fingerprint # NoFingerprint /\ e.fingerprint # s
    THEN [e EXCEPT !.status = "STALE"] ELSE e

\* mark_stale_for_schema.
MarkStale(p) ==
    /\ actor[p].at = "mark_stale"
    /\ examples' = {Marked(e, actor[p].snapshot) : e \in examples}
    /\ actor' = [actor EXCEPT ![p] = Idle]
    /\ UNCHANGED <<cache, schema, catalog, fingerprint, temporal, approved, generations, calls,
                   changes, faults>>

------------------------------------------------------------------------------
(***************************************************************************)
(* Reviewing.                                                              *)
(***************************************************************************)

\* A reviewer approves or rejects a mapping, by an id some discovery drew.
StartReview(p, target, verdict) ==
    /\ target[2] <= generations
    /\ Call(p, [Idle EXCEPT !.at = "entity", !.route = "review", !.target = target,
                            !.verdict = verdict])
    /\ approved' = IF verdict = "CONFIRMED" THEN approved \union {target} ELSE approved

\* The row the target names in a copy of the model.
Names(target, m) == m[target[1]] # NoRow /\ m[target[1]].id = target[2]

\* The verdict is written into the copy, whatever status the row has.
Decide(p) ==
    LET local == actor[p]
    IN  /\ local.at = "loaded"
        /\ local.route = "review"
        /\ Moves(p, IF Names(local.target, local.model)
                    THEN [local EXCEPT !.at = "save",
                                       !.model[local.target[1]].status = local.verdict,
                                       !.target = NoTarget,
                                       !.verdict = "none"]
                    ELSE Idle)
        /\ UNCHANGED cache

\* A reviewer gives an attribute a meaning in time, or takes it back.
StartTemporal(p, t, n, verdict) ==
    /\ n <= generations
    /\ Call(p, [Idle EXCEPT !.at = "entity", !.route = "temporal",
                            !.target = <<Attribute(t), n>>, !.verdict = verdict])
    /\ UNCHANGED approved

\* Only for an attribute that is confirmed in the copy.
CheckAttribute(p) ==
    LET local == actor[p]
    IN  /\ local.at = "loaded"
        /\ local.route = "temporal"
        /\ Moves(p, IF /\ Names(local.target, local.model)
                       /\ local.model[local.target[1]].status = "CONFIRMED"
                    THEN [local EXCEPT !.at = "save_dimension", !.model = EmptyModel]
                    ELSE Idle)
        /\ UNCHANGED cache

\* save_dimension: an upsert; the foreign key refuses an attribute that is gone.
SaveDimension(p) ==
    LET target == actor[p].target
    IN  /\ actor[p].at = "save_dimension"
        /\ temporal' = IF ~Names(target, catalog) THEN temporal
                       ELSE IF actor[p].verdict = "CONFIRMED"
                            THEN temporal \union {target} ELSE temporal \ {target}
        /\ actor' = [actor EXCEPT ![p] = Idle]
        /\ UNCHANGED <<cache, schema, catalog, fingerprint, examples, approved, generations,
                       calls, changes, faults>>

\* review_candidate for a query example: _current_schema_scope reads the
\* datasource row and then the schema.
StartExample(p, t) ==
    /\ Call(p, [Idle EXCEPT !.at = "schema", !.route = "example",
                            !.target = <<Entity(t), 0>>, !.previous = fingerprint])
    /\ UNCHANGED approved

\* A statement that no longer fits the schema is refused; one that does is
\* inserted, CONFIRMED, with the fingerprint of the row.
ApproveExample(p) ==
    LET t == actor[p].target[1][2]
    IN  /\ actor[p].at = "loaded"
        /\ actor[p].route = "example"
        /\ examples' = IF actor[p].snapshot[t] \in DataTypes
                       THEN examples \union {[table |-> t, fingerprint |-> actor[p].previous,
                                              status |-> "CONFIRMED"]}
                       ELSE examples
        /\ actor' = [actor EXCEPT ![p] = Idle]
        /\ UNCHANGED <<cache, schema, catalog, fingerprint, temporal, approved, generations,
                       calls, changes, faults>>

------------------------------------------------------------------------------
RouteStep(p) ==
    \/ ReadSchema(p) \/ ReadScope(p) \/ Load(p) \/ Discover(p) \/ Reconcile(p) \/ Save(p)
    \/ RecordScan(p) \/ MarkStale(p) \/ Decide(p) \/ CheckAttribute(p)
    \/ SaveDimension(p) \/ ApproveExample(p)

Verdicts == {"CONFIRMED", "REJECTED"}

StartRoute(p) ==
    \/ StartScan(p)
    \/ \E target \in Ids, verdict \in Verdicts : StartReview(p, target, verdict)
    \/ \E t \in Tables, n \in 1 .. MaxCalls, verdict \in Verdicts :
         StartTemporal(p, t, n, verdict)
    \/ \E t \in Tables : StartExample(p, t)

Next ==
    \/ \E t \in Tables, shape \in Shapes : AlterSchema(t, shape)
    \/ \E p \in Actors : StartRoute(p) \/ RouteStep(p) \/ Abort(p)

Spec == Init /\ [][Next]_vars

------------------------------------------------------------------------------
(***************************************************************************)
(* Properties.                                                             *)
(***************************************************************************)

Locals ==
    [at : Kinds \union {"idle", "schema", "loaded", "save", "record_scan", "mark_stale",
                        "save_dimension"},
     route : {"none", "scan", "review", "temporal", "example"},
     target : (Objects \X (0 .. MaxCalls)) \union {NoTarget},
     verdict : Verdicts \union {"none"},
     model : Models,
     snapshot : Schemas,
     previous : Schemas \union {NoFingerprint}]

\* One type invariant: the three tables, the copies and the rest are well formed,
\* and no id is used that no discovery drew.
TypeOK ==
    /\ schema \in Schemas
    /\ catalog \in Models
    /\ {fingerprint, cache} \subseteq Schemas \union {NoFingerprint}
    /\ temporal \subseteq Ids
    /\ examples \subseteq Example
    /\ actor \in [Actors -> Locals]
    /\ approved \subseteq Ids
    /\ generations \in 0 .. calls
    /\ calls \in 0 .. MaxCalls
    /\ changes \in 0 .. MaxSchemaChanges
    /\ faults \in 0 .. MaxFaults

\* build_semantic_model: "Everything arrives PROPOSED".  However scans and reviews
\* overwrite each other, a mapping is CONFIRMED only if a reviewer approved that
\* very mapping at some time.
ConfirmedWasApproved ==
    \A o \in Objects : catalog[o].status = "CONFIRMED" => <<o, catalog[o].id>> \in approved

\* Torn loads and concurrent replacements never leave a model whose parts come
\* from different discoveries, nor a temporal meaning without its attribute.
ReferencesResolve ==
    /\ \A o \in Objects : catalog[o] # NoRow =>
          \A e \in Parents(o) : catalog[e] # NoRow /\ catalog[e].id = catalog[o].id
    /\ \A id \in temporal : catalog[id[1]] # NoRow /\ catalog[id[1]].id = id[2]

\* A step in which a scan replaces the model.
ScanSaves(p) ==
    actor[p].at = "save" /\ actor[p].route = "scan" /\ actor'[p].at = "record_scan"

\* What a step does to a mapping that was reviewed when the scan of p saves:
\* nothing, or it makes a confirmed one STALE that broke.
LeavesReviewed(p, o) ==
    \/ catalog'[o] = catalog[o]
    \/ /\ catalog[o].status = "CONFIRMED"
       /\ catalog'[o] = [catalog[o] EXCEPT !.status = "STALE"]
       /\ \/ \E q \in {o} \union Parents(o) : ~Exists(q, actor[p].snapshot)
          \/ o[1] = "attribute" /\ actor[p].snapshot[o[2]] # catalog[o].data_type

SavesLeaveReviewed ==
    \A p \in Actors : ScanSaves(p) =>
       \A o \in Objects : catalog[o].status \in Verdicts => LeavesReviewed(p, o)

\* scan_data_source: "Rescanning preserves confirmed mappings and marks only what
\* broke, so a schema change never silently discards review."
ScanKeepsReview == [][SavesLeaveReviewed]_vars

\* A mapping of kind k is CONFIRMED and its object is not what was confirmed.
ConfirmedThoughBroken(k, m, s) ==
    \E o \in Objects :
        /\ o[1] = k
        /\ m[o].status = "CONFIRMED"
        /\ ~Exists(o, s) \/ (k = "attribute" /\ s[o[2]] # m[o].data_type)

\* reconcile_with_schema, for tables and columns: after a scan no entity or
\* attribute is CONFIRMED whose table or column the scan did not find as it was,
\* whatever reviewers did while the scan ran.
ScanMarksWhatBroke ==
    [][\A p \in Actors : ScanSaves(p) =>
         \A k \in {"entity", "attribute"} :
            ~ConfirmedThoughBroken(k, catalog', actor[p].snapshot)]_vars

Quiet == \A p \in Actors : actor[p].at = "idle"

\* mark_stale_for_schema: while no route runs, an example that may be used was
\* approved against the schema recorded last (or against none).
UsableExamplesMatch ==
    Quiet => \A e \in examples :
        e.status = "CONFIRMED" => e.fingerprint \in {NoFingerprint, fingerprint}

(***************************************************************************)
(* The inductive invariants: what a route holds at each of its steps.      *)
(***************************************************************************)

\* A scan that has not made its proposals yet, and so may still draw an id.
MayDraw(local) ==
    local.route = "scan" /\ local.at \in Kinds \union {"schema", "loaded"}

Drawing == {p \in Actors : MayDraw(actor[p])}

IdsSuffice == IsFiniteSet(Drawing) /\ generations + Cardinality(Drawing) <= calls

\* Whatever a copy of the model confirms is among the ids, and so is what a
\* reviewer is about to confirm; a scan about to save confirms nothing broken.
Sound(local, ids) ==
    /\ local.route \in {"review", "temporal"} /\ local.at # "save" =>
          local.target \in Ids /\ local.verdict \in Verdicts
    /\ local.route = "example" => \E t \in Tables : local.target = <<Entity(t), 0>>
    /\ local.at = "save_dimension" => local.route = "temporal"
    /\ \A o \in Objects :
          local.model[o].status = "CONFIRMED" => <<o, local.model[o].id>> \in ids
    /\ local.route = "review" /\ local.verdict = "CONFIRMED" => local.target \in ids
    /\ local.route = "scan" /\ local.at = "save" =>
          \A k \in {"entity", "attribute"} :
             ~ConfirmedThoughBroken(k, local.model, local.snapshot)

IndInv ==
    /\ TypeOK
    /\ IdsSuffice
    /\ \A p \in Actors : Sound(actor[p], approved)
    /\ ConfirmedWasApproved
    /\ ReferencesResolve

\* What a load has read when it is at a step.
Read(at) ==
    CASE at = "attribute"    -> {"entity"}
      [] at = "relationship" -> {"entity", "attribute"}
      [] at = "loaded"       -> Kinds
      [] OTHER               -> {}

\* The only actor works on the model as it is: its copy is the catalog, and what
\* a scan saves is the catalog reconciled, or the first of the datasource.
Undisturbed(p) ==
    LET local == actor[p]
    IN  local.route = "scan" =>
          /\ \A o \in Objects : o[1] \in Read(local.at) => local.model[o] = catalog[o]
          /\ local.at = "save" =>
                \/ catalog = EmptyModel
                \/ local.model = [o \in Objects |-> Reconciled(o, catalog, local.snapshot)]

\* The only actor, if no scan of its is cut short, knows the fingerprint on
\* record, and examples of another one are marked before it is done.
Marking(p) ==
    LET local == actor[p]
    IN  /\ local.route \in {"scan", "example"} /\ local.at # "mark_stale" =>
              local.previous = fingerprint
        /\ local.at \in {"record_scan", "mark_stale"} => local.route = "scan"
        /\ local.at = "mark_stale" => fingerprint = local.snapshot
        /\ local.at # "mark_stale" =>
              \A e \in examples :
                 e.status = "CONFIRMED" => e.fingerprint \in {NoFingerprint, fingerprint}

(***************************************************************************)
(* What the documentation says and the code does not do.                   *)
(***************************************************************************)

\* onboarding: "Nothing approved is deleted".  Replacing the model deletes every
\* temporal meaning a reviewer gave.
ScanKeepsTemporal ==
    [][\A p \in Actors : ScanSaves(p) => temporal \subseteq temporal']_vars
===============================================================================
