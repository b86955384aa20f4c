------------------------- MODULE SemanticCatalogProofs -------------------------
(***************************************************************************)
(* Proofs about SemanticCatalog, for any tables, joins, actors and bounds. *)
(* An object is a table, a column or a join, and each action is a lemma    *)
(* about the copy the actor goes on with; the last part is about a         *)
(* datasource that one actor works on.                                     *)
(***************************************************************************)
EXTENDS SemanticCatalog, FiniteSetTheorems, TLAPS

\* The three kinds of objects, and what each rests on.
LEMMA EntityObject ==
    ASSUME NEW t \in Tables
    PROVE  /\ Entity(t) \in Objects /\ Entity(t)[1] = "entity" /\ Entity(t)[2] = t
           /\ Parents(Entity(t)) = {}
           /\ \A s : Exists(Entity(t), s) <=> (s[t] # Gone)
           /\ \A m, s : Broke(Entity(t), m, s) <=> (s[t] = Gone)
  BY DEF Entity, Objects, Parents, Exists, Broke

LEMMA AttributeObject ==
    ASSUME NEW t \in Tables
    PROVE  /\ Attribute(t) \in Objects /\ Attribute(t)[1] = "attribute"
           /\ Attribute(t)[2] = t
           /\ Parents(Attribute(t)) = {Entity(t)}
           /\ \A s : Exists(Attribute(t), s) <=> (s[t] \in DataTypes)
           /\ \A m, s : Broke(Attribute(t), m, s) <=>
                          (\/ m[Entity(t)].id # m[Attribute(t)].id
                           \/ s[t] # m[Attribute(t)].data_type)
  BY DEF Attribute, Objects, Parents, Exists, Broke

LEMMA RelationshipObject ==
    ASSUME NEW o \in Objects, o[1] = "relationship"
    PROVE  /\ o[2] \in Joins /\ o[2][1] \in Tables /\ o[2][2] \in Tables
           /\ Parents(o) = {Entity(o[2][1]), Entity(o[2][2])}
           /\ \A m, s : Broke(o, m, s) <=> \E e \in Parents(o) :
                          m[e].id # m[o].id \/ EntityBroke(m, e[2], s)
  BY CatalogAssumption DEF Entity, Attribute, Objects, Parents, Broke

LEMMA ObjectIsOneOf ==
    ASSUME NEW o \in Objects
    PROVE  \/ \E t \in Tables : o = Entity(t)
           \/ \E t \in Tables : o = Attribute(t)
           \/ o[1] = "relationship"
  BY DEF Objects

------------------------------------------------------------------------------
(***************************************************************************)
(* Ids: a discovery draws one, and only a scan that was called discovers.  *)
(***************************************************************************)

LEMMA NoMoreDraw ==
    ASSUME IndInv, NEW p \in Actors, NEW local, actor' = [actor EXCEPT ![p] = local],
           MayDraw(local) => MayDraw(actor[p]), UNCHANGED <<generations, calls>>
    PROVE  IdsSuffice'
<1>1. Drawing' \subseteq Drawing
  BY DEF Drawing, IndInv, TypeOK
<1>2. IsFiniteSet(Drawing') /\ Cardinality(Drawing') <= Cardinality(Drawing)
  BY <1>1, FS_Subset DEF IndInv, IdsSuffice
<1>3. Cardinality(Drawing) \in Nat /\ Cardinality(Drawing') \in Nat
  BY <1>2, FS_CardinalityType DEF IndInv, IdsSuffice
<1>. QED
  BY <1>2, <1>3, CatalogAssumption DEF IndInv, IdsSuffice, TypeOK

LEMMA OneMoreCalled ==
    ASSUME IndInv, NEW p \in Actors, NEW local, actor' = [actor EXCEPT ![p] = local],
           calls' = calls + 1, UNCHANGED generations
    PROVE  IdsSuffice'
<1>1. Drawing' \subseteq Drawing \union {p}
  BY DEF Drawing, IndInv, TypeOK
<1>2. /\ IsFiniteSet(Drawing \union {p})
      /\ Cardinality(Drawing) \in Nat
      /\ Cardinality(Drawing \union {p}) <= Cardinality(Drawing) + 1
  <2>1. IsFiniteSet(Drawing) /\ Cardinality(Drawing) \in Nat
    BY FS_CardinalityType DEF IndInv, IdsSuffice
  <2>. QED
    BY <2>1, FS_AddElement, SMTT(60)
<1>3. IsFiniteSet(Drawing') /\ Cardinality(Drawing') <= Cardinality(Drawing \union {p})
  BY <1>1, <1>2, FS_Subset
<1>4. Cardinality(Drawing \union {p}) \in Nat /\ Cardinality(Drawing') \in Nat
  BY <1>2, <1>3, FS_CardinalityType
<1>. QED
  BY <1>2, <1>3, <1>4, CatalogAssumption DEF IndInv, IdsSuffice, TypeOK

LEMMA OneIsDrawn ==
    ASSUME IndInv, NEW p \in Actors, MayDraw(actor[p])
    PROVE  /\ generations + 1 <= calls
           /\ \A local : /\ actor' = [actor EXCEPT ![p] = local]
                         /\ ~MayDraw(local)
                         /\ generations' = generations + 1
                         /\ UNCHANGED calls
                         => IdsSuffice'
<1>1. p \in Drawing
  BY DEF Drawing
<1>2. /\ IsFiniteSet(Drawing \ {p})
      /\ Cardinality(Drawing \ {p}) = Cardinality(Drawing) - 1
      /\ Cardinality(Drawing \ {p}) \in Nat
      /\ Cardinality(Drawing) \in Nat
  BY <1>1, FS_RemoveElement, FS_CardinalityType DEF IndInv, IdsSuffice
<1>3. generations + 1 <= calls
  BY <1>2, CatalogAssumption DEF IndInv, IdsSuffice, TypeOK
<1>4. ASSUME NEW local, actor' = [actor EXCEPT ![p] = local], ~MayDraw(local),
             generations' = generations + 1, UNCHANGED calls
      PROVE  IdsSuffice'
  <2>1. Drawing' = Drawing \ {p}
    BY <1>4 DEF Drawing, IndInv, TypeOK
  <2>. QED
    BY <1>2, <1>4, <2>1, CatalogAssumption DEF IndInv, IdsSuffice, TypeOK
<1>. QED
  BY <1>3, <1>4

------------------------------------------------------------------------------
(***************************************************************************)
(* One lemma per action: IndInv is kept.                                   *)
(***************************************************************************)

\* More approvals make no copy less sound.
LEMMA MoreApproved ==
    ASSUME NEW local, NEW ids, NEW more, ids \subseteq more, Sound(local, ids)
    PROVE  Sound(local, more)
  BY DEF Sound

\* An actor goes on with a sound copy.
LEMMA ActorKeeps ==
    ASSUME IndInv, NEW p \in Actors, NEW local \in Locals, Sound(local, approved'),
           actor' = [actor EXCEPT ![p] = local], approved \subseteq approved'
    PROVE  /\ actor' \in [Actors -> Locals]
           /\ \A q \in Actors : Sound(actor'[q], approved')
<1>1. actor' \in [Actors -> Locals]
  BY DEF IndInv, TypeOK
<1>2. \A q \in Actors : Sound(actor'[q], approved')
  <2>. TAKE q \in Actors
  <2>1. CASE q = p
    BY <2>1 DEF IndInv, TypeOK
  <2>2. CASE q # p
    BY <2>2, MoreApproved DEF IndInv, TypeOK
  <2>. QED
    BY <2>1, <2>2
<1>. QED
  BY <1>1, <1>2

\* The same, with the database as it was.
LEMMA MovesKeeps ==
    ASSUME IndInv, NEW p \in Actors, NEW local \in Locals, Sound(local, approved),
           Moves(p, local), MayDraw(local) => MayDraw(actor[p]),
           cache' \in Schemas \union {NoFingerprint}
    PROVE  IndInv'
<1>1. /\ actor' = [actor EXCEPT ![p] = local]
      /\ UNCHANGED <<schema, catalog, fingerprint, temporal, examples, approved,
                     generations, calls, changes, faults>>
  BY DEF Moves
<1>2. actor' \in [Actors -> Locals] /\ \A q \in Actors : Sound(actor'[q], approved')
  BY <1>1, ActorKeeps
<1>3. TypeOK'
  BY <1>1, <1>2 DEF IndInv, TypeOK
<1>4. IdsSuffice'
  BY <1>1, NoMoreDraw
<1>. QED
  BY <1>1, <1>2, <1>3, <1>4 DEF IndInv, ConfirmedWasApproved, ReferencesResolve

\* What an idle actor holds.
LEMMA IdleIsSound ==
    /\ Idle \in Locals
    /\ ~MayDraw(Idle)
    /\ \A ids : Sound(Idle, ids)
<1>1. EmptyModel \in Models
  BY DEF EmptyModel, Models
<1>2. [t \in Tables |-> Gone] \in Schemas
  BY DEF Schemas, Shapes
<1>3. Idle \in Locals
  BY <1>1, <1>2 DEF Idle, Locals
<1>4. \A o \in Objects : EmptyModel[o].status = "none"
  BY DEF EmptyModel, NoRow
<1>5. ~MayDraw(Idle)
  BY DEF Idle, MayDraw
<1>6. \A ids : Sound(Idle, ids)
  BY <1>4 DEF Idle, Sound
<1>. QED
  BY <1>3, <1>5, <1>6

\* What a lemma about a route's step starts from.
LEMMA Running ==
    ASSUME IndInv, NEW p \in Actors
    PROVE  actor[p] \in Locals /\ Sound(actor[p], approved)
  BY DEF IndInv, TypeOK

LEMMA ReadKeeps ==
    ASSUME IndInv, NEW p \in Actors, ReadSchema(p) \/ ReadScope(p) PROVE IndInv'
<1>. DEFINE local(s) == [actor[p] EXCEPT !.at = IF actor[p].route = "scan" THEN "entity"
                                                ELSE "loaded",
                                         !.snapshot = s]
<1>1. actor[p].at = "schema" /\ actor[p].route \in {"scan", "example"}
  BY DEF ReadSchema, ReadScope
<1>2. PICK s : Moves(p, local(s)) /\ s \in Schemas /\ cache' \in Schemas \union {NoFingerprint}
  BY <1>1 DEF ReadSchema, ReadScope, IndInv, TypeOK
<1>3. local(s) \in Locals
  BY <1>1, <1>2, Running, ZenonT(90) DEF Locals, Kinds
<1>4. Sound(local(s), approved)
  BY <1>1, <1>2, Running DEF Sound, Locals, Kinds
<1>5. MayDraw(local(s)) => MayDraw(actor[p])
  BY <1>1, Running DEF MayDraw, Locals
<1>. QED
  BY <1>2, <1>3, <1>4, <1>5, MovesKeeps, SMTT(60)

\* A torn load mixes rows that were approved with rows that were approved.
LEMMA LoadKeeps ==
    ASSUME IndInv, NEW p \in Actors, Load(p) PROVE IndInv'
<1>. DEFINE kind == actor[p].at
            m == [o \in Objects |-> IF o[1] = kind THEN catalog[o] ELSE actor[p].model[o]]
            at == CASE kind = "entity"       -> "attribute"
                    [] kind = "attribute"    -> "relationship"
                    [] kind = "relationship" -> "loaded"
            local == [actor[p] EXCEPT !.model = m, !.at = at]
<1>1. kind \in Kinds /\ Moves(p, local) /\ cache' = cache
  BY DEF Load
<1>2. at \in {"attribute", "relationship", "loaded"}
  BY <1>1 DEF Kinds
<1>3. actor[p].model \in Models /\ catalog \in Models
  BY Running DEF Locals, IndInv, TypeOK
<1>4. m \in Models
  BY <1>3 DEF Models
<1>5. \A o \in Objects : m[o].status = "CONFIRMED" => <<o, m[o].id>> \in approved
  BY Running DEF Sound, IndInv, ConfirmedWasApproved
<1>. HIDE DEF m, at
<1>6. local \in Locals
  BY <1>2, <1>4, Running, ZenonT(60) DEF Locals, Kinds
<1>7. Sound(local, approved)
  BY <1>1, <1>2, <1>5, Running DEF Sound, Locals, Kinds
<1>8. MayDraw(local) => MayDraw(actor[p])
  BY <1>1, Running DEF MayDraw, Locals
<1>. QED
  BY <1>1, <1>6, <1>7, <1>8, MovesKeeps DEF IndInv, TypeOK

\* A route begins with a copy that holds nothing yet.
LEMMA CallKeeps ==
    ASSUME IndInv, NEW p \in Actors, NEW local \in Locals, Sound(local, approved'),
           Call(p, local), approved \subseteq approved', approved' \subseteq Ids
    PROVE  IndInv'
<1>1. /\ actor' = [actor EXCEPT ![p] = local]
      /\ calls' = calls + 1 /\ calls < MaxCalls
      /\ UNCHANGED <<cache, schema, catalog, fingerprint, temporal, examples, generations,
                     changes, faults>>
  BY DEF Call
<1>2. actor' \in [Actors -> Locals] /\ \A q \in Actors : Sound(actor'[q], approved')
  BY <1>1, ActorKeeps
<1>3. TypeOK'
  BY <1>1, <1>2, CatalogAssumption DEF IndInv, TypeOK
<1>4. IdsSuffice'
  BY <1>1, OneMoreCalled
<1>5. ConfirmedWasApproved'
  BY <1>1 DEF IndInv, ConfirmedWasApproved
<1>6. ReferencesResolve'
  BY <1>1 DEF IndInv, ReferencesResolve
<1>. QED
  BY <1>2, <1>3, <1>4, <1>5, <1>6 DEF IndInv

\* A copy that was just begun.
LEMMA BegunIsSound ==
    ASSUME NEW local \in Locals, NEW ids, local.model = EmptyModel,
           local.at \in {"schema", "entity"},
           local.route \in {"review", "temporal"} =>
             local.target \in Ids /\ local.verdict \in Verdicts,
           local.route = "example" => \E t \in Tables : local.target = <<Entity(t), 0>>,
           local.route = "review" /\ local.verdict = "CONFIRMED" => local.target \in ids
    PROVE  Sound(local, ids)
<1>1. \A o \in Objects : local.model[o].status = "none"
  BY DEF EmptyModel, NoRow
<1>. QED
  BY <1>1 DEF Sound

LEMMA StartRouteKeeps ==
    ASSUME IndInv, NEW p \in Actors, StartRoute(p) PROVE IndInv'
<1>0. Idle \in Locals /\ fingerprint \in Schemas \union {NoFingerprint} /\ approved \subseteq Ids
  BY IdleIsSound DEF IndInv, TypeOK
<1>1. CASE StartScan(p)
  <2>. DEFINE local == [Idle EXCEPT !.at = "schema", !.route = "scan",
                                    !.previous = fingerprint]
  <2>1. local \in Locals
    BY <1>0 DEF Locals
  <2>2. Sound(local, approved)
    BY <2>1, BegunIsSound DEF Idle
  <2>. QED
    BY <1>0, <1>1, <2>1, <2>2, CallKeeps DEF StartScan
<1>2. ASSUME NEW target \in Ids, NEW verdict \in Verdicts, StartReview(p, target, verdict)
      PROVE  IndInv'
  <2>. DEFINE local == [Idle EXCEPT !.at = "entity", !.route = "review",
                                    !.target = target, !.verdict = verdict]
  <2>1. target \in Objects \X (0 .. MaxCalls)
    BY CatalogAssumption DEF Ids
  <2>2. local \in Locals
    BY <1>0, <2>1, ZenonT(60) DEF Locals, Kinds
  <2>3. /\ approved \subseteq approved' /\ approved' \subseteq Ids
        /\ verdict = "CONFIRMED" => target \in approved'
        /\ Call(p, local)
    BY <1>0, <1>2 DEF StartReview
  <2>4. Sound(local, approved')
    BY <2>2, <2>3, BegunIsSound DEF Idle
  <2>. QED
    BY <2>2, <2>3, <2>4, CallKeeps
<1>3. ASSUME NEW t \in Tables, NEW n \in 1 .. MaxCalls, NEW verdict \in Verdicts,
             StartTemporal(p, t, n, verdict)
      PROVE  IndInv'
  <2>. DEFINE local == [Idle EXCEPT !.at = "entity", !.route = "temporal",
                                    !.target = <<Attribute(t), n>>, !.verdict = verdict]
  <2>1. /\ <<Attribute(t), n>> \in Ids
        /\ <<Attribute(t), n>> \in Objects \X (0 .. MaxCalls)
    <3>1. Attribute(t) \in Objects /\ n \in 0 .. MaxCalls
      BY CatalogAssumption, AttributeObject
    <3>. QED
      BY <3>1 DEF Ids
  <2>2. local \in Locals
    BY <1>0, <2>1, ZenonT(60) DEF Locals, Kinds
  <2>3. Sound(local, approved)
    BY <2>1, <2>2, BegunIsSound DEF Idle
  <2>. QED
    BY <1>0, <1>3, <2>2, <2>3, CallKeeps DEF StartTemporal
<1>4. ASSUME NEW t \in Tables, StartExample(p, t) PROVE IndInv'
  <2>. DEFINE local == [Idle EXCEPT !.at = "schema", !.route = "example",
                                    !.target = <<Entity(t), 0>>, !.previous = fingerprint]
  <2>1. <<Entity(t), 0>> \in Objects \X (0 .. MaxCalls)
    BY CatalogAssumption, EntityObject
  <2>2. local \in Locals
    BY <1>0, <2>1, ZenonT(60) DEF Locals
  <2>3. Sound(local, approved)
    BY <2>2, BegunIsSound DEF Idle
  <2>. QED
    BY <1>0, <1>4, <2>2, <2>3, CallKeeps DEF StartExample
<1>. QED
  BY <1>1, <1>2, <1>3, <1>4 DEF StartRoute

\* What discovery finds is PROPOSED, under an id no row has.
LEMMA DiscoverKeeps ==
    ASSUME IndInv, NEW p \in Actors, Discover(p) PROVE IndInv'
<1>. DEFINE s == actor[p].snapshot
            m(proposed) == [o \in Objects |->
                              IF o \in proposed THEN Discovered(o, s, generations + 1)
                              ELSE NoRow]
            local(proposed) == [actor[p] EXCEPT !.at = "save", !.model = m(proposed)]
<1>1. /\ actor[p].at = "loaded" /\ actor[p].route = "scan"
      /\ generations' = generations + 1
      /\ UNCHANGED <<cache, schema, catalog, fingerprint, temporal, examples, approved,
                     calls, changes, faults>>
  BY SMTT(60) DEF Discover
<1>2. PICK proposed \in SUBSET {o \in Objects : Exists(o, s)} :
        actor' = [actor EXCEPT ![p] = local(proposed)]
  BY DEF Discover
<1>3. generations + 1 <= calls /\ generations + 1 \in 1 .. MaxCalls
  <2>1. generations + 1 <= calls
    BY <1>1, OneIsDrawn DEF MayDraw
  <2>. QED
    BY <2>1, CatalogAssumption DEF IndInv, TypeOK
<1>4. ASSUME NEW o \in proposed PROVE Discovered(o, s, generations + 1) \in Row
  <2>1. o[1] = "attribute" => s[o[2]] \in DataTypes
    BY <1>2 DEF Exists
  <2>. QED
    BY <1>3, <2>1 DEF Discovered, Row, ApprovalStatus
<1>5. m(proposed) \in Models
  BY <1>4 DEF Models
<1>6. \A o \in Objects : m(proposed)[o].status # "CONFIRMED"
  BY DEF Discovered, NoRow
<1>. HIDE DEF m
<1>7. local(proposed) \in Locals
  BY <1>5, Running, ZenonT(60) DEF Locals
<1>8. Sound(local(proposed), approved)
  BY <1>1, <1>6, Running DEF Sound, Locals, ConfirmedThoughBroken
<1>9. ~MayDraw(local(proposed))
  BY Running DEF MayDraw, Locals, Kinds
<1>. HIDE DEF local
<1>10. actor' \in [Actors -> Locals] /\ \A q \in Actors : Sound(actor'[q], approved')
  BY <1>1, <1>2, <1>7, <1>8, ActorKeeps
<1>11. TypeOK'
  BY <1>1, <1>3, <1>10, CatalogAssumption DEF IndInv, TypeOK
<1>12. IdsSuffice'
  BY <1>1, <1>2, <1>9, OneIsDrawn DEF MayDraw
<1>. QED
  BY <1>1, <1>10, <1>11, <1>12 DEF IndInv, ConfirmedWasApproved, ReferencesResolve

\* A mapping that is on record keeps its id and its type.
LEMMA ReconciledIsRow ==
    ASSUME NEW m \in Models, NEW o \in Objects, NEW s
    PROVE  /\ Reconciled(o, m, s) \in Row \union {NoRow}
           /\ Reconciled(o, m, s).id = m[o].id
           /\ Reconciled(o, m, s).data_type = m[o].data_type
           /\ Reconciled(o, m, s).status \in {m[o].status, "STALE"}
           /\ Reconciled(o, m, s).status = "CONFIRMED" => ~Broke(o, m, s)
<1>1. m[o] \in Row \union {NoRow}
  BY DEF Models
<1>2. CASE m[o] # NoRow /\ m[o].status # "REJECTED" /\ Broke(o, m, s)
  BY <1>1, <1>2 DEF Reconciled, Row, ApprovalStatus
<1>3. CASE ~(m[o] # NoRow /\ m[o].status # "REJECTED" /\ Broke(o, m, s))
  BY <1>1, <1>3 DEF Reconciled, NoRow
<1>. QED
  BY <1>2, <1>3

\* What a reconciliation leaves CONFIRMED is in the schema as it was confirmed.
LEMMA ReconciledFits ==
    ASSUME NEW m \in Models, NEW s \in Schemas, NEW n,
           n = [o \in Objects |-> Reconciled(o, m, s)],
           NEW k \in {"entity", "attribute"}
    PROVE  ~ConfirmedThoughBroken(k, n, s)
<1>. SUFFICES ASSUME NEW o \in Objects, o[1] = k, n[o].status = "CONFIRMED"
              PROVE  Exists(o, s) /\ (k = "attribute" => s[o[2]] = n[o].data_type)
  BY DEF ConfirmedThoughBroken
<1>1. n[o].data_type = m[o].data_type /\ ~Broke(o, m, s)
  BY ReconciledIsRow
<1>2. CASE \E t \in Tables : o = Entity(t)
  BY <1>1, <1>2, EntityObject
<1>3. CASE \E t \in Tables : o = Attribute(t)
  <2>1. PICK t \in Tables : o = Attribute(t)
    BY <1>3
  <2>2. s[t] = m[o].data_type /\ m[o].data_type = n[o].data_type /\ o[2] = t
    BY <1>1, <2>1, AttributeObject
  <2>3. s[t] \in Shapes /\ m[o].data_type \in DataTypes \union {NoType}
    BY DEF Schemas, Models, Row, NoRow
  <2>4. s[t] \in DataTypes
    BY <2>2, <2>3 DEF Shapes, Gone, Bare, NoType
  <2>. QED
    BY <2>1, <2>2, <2>4, AttributeObject
<1>. QED
  BY <1>2, <1>3, ObjectIsOneOf

LEMMA ReconcileKeeps ==
    ASSUME IndInv, NEW p \in Actors, Reconcile(p) PROVE IndInv'
<1>. DEFINE m == actor[p].model
            s == actor[p].snapshot
            n == [o \in Objects |-> Reconciled(o, m, s)]
            local == [actor[p] EXCEPT !.at = "save", !.model = n]
<1>1. /\ actor[p].at = "loaded" /\ actor[p].route = "scan"
      /\ Moves(p, local) /\ UNCHANGED cache
  BY DEF Reconcile
<1>2. m \in Models /\ s \in Schemas
  BY Running DEF Locals
<1>3. n \in Models
  BY <1>2, ReconciledIsRow DEF Models
<1>4. \A o \in Objects : n[o].status = "CONFIRMED" => <<o, n[o].id>> \in approved
  BY <1>2, ReconciledIsRow, Running DEF Sound
<1>5. \A k \in {"entity", "attribute"} : ~ConfirmedThoughBroken(k, n, s)
  BY <1>2, ReconciledFits
<1>. HIDE DEF n
<1>6. local \in Locals /\ local.model = n /\ local.snapshot = s /\ local.route = "scan"
  BY <1>1, <1>3, Running, ZenonT(90) DEF Locals
<1>7. Sound(local, approved)
  BY <1>1, <1>4, <1>5, <1>6, Running DEF Sound, Locals
<1>8. ~MayDraw(local)
  BY Running DEF MayDraw, Locals, Kinds
<1>. QED
  BY <1>1, <1>6, <1>7, <1>8, MovesKeeps DEF IndInv, TypeOK

\* The verdict goes to the row a reviewer approved, whatever discovery drew it.
LEMMA DecideKeeps ==
    ASSUME IndInv, NEW p \in Actors, Decide(p) PROVE IndInv'
<1>. DEFINE l == actor[p]
            o == l.target[1]
            m == [l.model EXCEPT ![o].status = l.verdict]
            local == [l EXCEPT !.at = "save", !.model[l.target[1]].status = l.verdict,
                               !.target = NoTarget, !.verdict = "none"]
<1>1. l.at = "loaded" /\ l.route = "review" /\ cache' = cache
  BY DEF Decide
<1>2. l \in Locals /\ Sound(l, approved)
  BY Running
<1>3. CASE ~Names(l.target, l.model)
  BY <1>1, <1>3, IdleIsSound, MovesKeeps DEF Decide, IndInv, TypeOK
<1>4. CASE Names(l.target, l.model)
  <2>1. Moves(p, local)
    BY <1>4 DEF Decide
  <2>2. l.target \in Ids /\ l.verdict \in Verdicts
    BY <1>1, <1>2 DEF Sound
  <2>3. o \in Objects /\ l.target = <<o, l.target[2]>>
    BY <2>2 DEF Ids
  <2>4. l.model \in Models /\ l.model[o] \in Row /\ l.model[o].id = l.target[2]
    BY <1>2, <1>4, <2>3, SMTT(60) DEF Locals, Models, Names
  <2>5. m \in Models
    BY <2>2, <2>3, <2>4 DEF Models, Row, Verdicts, ApprovalStatus
  <2>6. ASSUME NEW q \in Objects, m[q].status = "CONFIRMED"
        PROVE  <<q, m[q].id>> \in approved
    <3>1. CASE q = o
      <4>1. m[q].id = l.target[2] /\ l.verdict = "CONFIRMED"
        BY <2>3, <2>4, <2>6, <3>1 DEF Models, Row
      <4>. QED
        BY <1>1, <1>2, <2>3, <3>1, <4>1, SMTT(60) DEF Sound
    <3>2. CASE q # o
      BY <1>2, <2>4, <2>6, <3>2 DEF Sound, Models
    <3>. QED
      BY <3>1, <3>2, SMTT(60)
  <2>7. /\ local.model = m /\ local.at = "save" /\ local.route = "review"
        /\ local.target = NoTarget /\ local.verdict = "none"
    BY <1>1, <1>2, SMTT(60) DEF Locals
  <2>8. local \in Locals
    BY <1>2, <2>5 DEF Locals
  <2>. HIDE DEF m, local
  <2>9. Sound(local, approved) /\ ~MayDraw(local)
    BY <2>6, <2>7 DEF Sound, MayDraw
  <2>. QED
    BY <1>1, <2>1, <2>8, <2>9, MovesKeeps DEF IndInv, TypeOK
<1>. QED
  BY <1>3, <1>4

LEMMA CheckAttributeKeeps ==
    ASSUME IndInv, NEW p \in Actors, CheckAttribute(p) PROVE IndInv'
<1>. DEFINE l == actor[p]
            local == [l EXCEPT !.at = "save_dimension", !.model = EmptyModel]
<1>1. l.at = "loaded" /\ l.route = "temporal" /\ cache' = cache
  BY DEF CheckAttribute
<1>2. Moves(p, local) \/ Moves(p, Idle)
  BY DEF CheckAttribute
<1>3. local \in Locals
  <2>1. EmptyModel \in Models
    BY DEF EmptyModel, Models
  <2>. QED
    BY <2>1, Running, ZenonT(60) DEF Locals
<1>4. \A o \in Objects : EmptyModel[o].status = "none"
  BY DEF EmptyModel, NoRow
<1>5. Sound(local, approved) /\ ~MayDraw(local)
  BY <1>1, <1>4, Running DEF Sound, MayDraw, Locals
<1>. QED
  BY <1>1, <1>2, <1>3, <1>5, IdleIsSound, MovesKeeps DEF IndInv, TypeOK

\* A save commits a copy that fits together, confirmed as reviewers approved it.
LEMMA SaveKeeps ==
    ASSUME IndInv, NEW p \in Actors, Save(p) PROVE IndInv'
<1>. DEFINE m == actor[p].model
            local == IF FitsTogether(m) THEN Saved(actor[p]) ELSE Idle
<1>1. /\ actor[p].at = "save"
      /\ actor' = [actor EXCEPT ![p] = local]
      /\ UNCHANGED <<cache, schema, fingerprint, examples, approved, generations, calls,
                     changes, faults>>
      /\ \/ UNCHANGED <<catalog, temporal>>
         \/ FitsTogether(m) /\ catalog' = m /\ temporal' = {}
  BY DEF Save
<1>2. /\ local \in Locals /\ local.model = EmptyModel /\ local.verdict = "none"
      /\ local.at \in {"idle", "record_scan"} /\ local.route \in {"none", "scan"}
  BY IdleIsSound, Running, ZenonT(60) DEF Saved, Idle, Locals
<1>3. \A o \in Objects : EmptyModel[o].status = "none"
  BY DEF EmptyModel, NoRow
<1>. HIDE DEF local
<1>4. Sound(local, approved') /\ ~MayDraw(local)
  BY <1>2, <1>3 DEF Sound, MayDraw, Kinds
<1>5. actor' \in [Actors -> Locals] /\ \A q \in Actors : Sound(actor'[q], approved')
  BY <1>1, <1>2, <1>4, ActorKeeps
<1>6. TypeOK'
  BY <1>1, <1>5, Running DEF IndInv, TypeOK, Locals
<1>7. IdsSuffice'
  BY <1>1, <1>4, NoMoreDraw
<1>8. ConfirmedWasApproved'
  BY <1>1, Running DEF IndInv, ConfirmedWasApproved, Sound
<1>9. ReferencesResolve'
  BY <1>1 DEF IndInv, ReferencesResolve, FitsTogether
<1>. QED
  BY <1>5, <1>6, <1>7, <1>8, <1>9 DEF IndInv

\* A call that is cut short leaves what it committed.
LEMMA AbortKeeps ==
    ASSUME IndInv, NEW p \in Actors, Abort(p) PROVE IndInv'
<1>1. /\ actor' = [actor EXCEPT ![p] = Idle]
      /\ faults' = faults + 1 /\ faults < MaxFaults
      /\ UNCHANGED <<cache, schema, catalog, fingerprint, temporal, examples, approved,
                     generations, calls, changes>>
  BY DEF Abort
<1>2. actor' \in [Actors -> Locals] /\ \A q \in Actors : Sound(actor'[q], approved')
  BY <1>1, IdleIsSound, ActorKeeps
<1>3. TypeOK'
  BY <1>1, <1>2, CatalogAssumption DEF IndInv, TypeOK
<1>4. IdsSuffice'
  BY <1>1, IdleIsSound, NoMoreDraw
<1>. QED
  BY <1>1, <1>2, <1>3, <1>4 DEF IndInv, ConfirmedWasApproved, ReferencesResolve

\* After the save a scan holds no copy of the model.
LEMMA AfterSaveKeeps ==
    ASSUME IndInv, NEW p \in Actors, RecordScan(p) \/ MarkStale(p) PROVE IndInv'
<1>. DEFINE marking == [actor[p] EXCEPT !.at = "mark_stale"]
<1>1. /\ actor[p].at \in {"record_scan", "mark_stale"}
      /\ UNCHANGED <<cache, schema, catalog, temporal, approved, generations, calls,
                     changes, faults>>
  BY DEF RecordScan, MarkStale
<1>2. marking \in Locals /\ Sound(marking, approved) /\ ~MayDraw(marking)
  BY <1>1, Running DEF Locals, Sound, MayDraw, Kinds
<1>3. PICK local \in {Idle, marking} : actor' = [actor EXCEPT ![p] = local]
  BY DEF RecordScan, MarkStale
<1>. HIDE DEF marking
<1>4. /\ actor' \in [Actors -> Locals] /\ \A q \in Actors : Sound(actor'[q], approved')
      /\ IdsSuffice'
  BY <1>1, <1>2, <1>3, IdleIsSound, ActorKeeps, NoMoreDraw
<1>5. \A e \in Example, s \in Schemas : Marked(e, s) \in Example
  BY DEF Marked, Example
<1>6. fingerprint' \in Schemas \union {NoFingerprint} /\ examples' \subseteq Example
  BY <1>5, Running DEF RecordScan, MarkStale, IndInv, TypeOK, Locals
<1>7. TypeOK'
  BY <1>1, <1>4, <1>6 DEF IndInv, TypeOK
<1>. QED
  BY <1>1, <1>4, <1>7 DEF IndInv, ConfirmedWasApproved, ReferencesResolve

\* The foreign key holds: a meaning is given to an attribute that is there.
LEMMA SaveDimensionKeeps ==
    ASSUME IndInv, NEW p \in Actors, SaveDimension(p) PROVE IndInv'
<1>. DEFINE target == actor[p].target
<1>1. /\ actor' = [actor EXCEPT ![p] = Idle]
      /\ UNCHANGED <<cache, schema, catalog, fingerprint, examples, approved, generations,
                     calls, changes, faults>>
      /\ \/ temporal' \subseteq temporal
         \/ Names(target, catalog) /\ temporal' = temporal \union {target}
  BY DEF SaveDimension
<1>2. target \in Ids
  BY Running DEF SaveDimension, Sound
<1>3. actor' \in [Actors -> Locals] /\ \A q \in Actors : Sound(actor'[q], approved')
  BY <1>1, IdleIsSound, ActorKeeps
<1>4. TypeOK'
  BY <1>1, <1>2, <1>3 DEF IndInv, TypeOK
<1>5. IdsSuffice'
  BY <1>1, IdleIsSound, NoMoreDraw
<1>6. ReferencesResolve'
  BY <1>1 DEF IndInv, ReferencesResolve, Names
<1>. QED
  BY <1>1, <1>3, <1>4, <1>5, <1>6 DEF IndInv, ConfirmedWasApproved

LEMMA ApproveExampleKeeps ==
    ASSUME IndInv, NEW p \in Actors, ApproveExample(p) PROVE IndInv'
<1>. DEFINE t == actor[p].target[1][2]
            e == [table |-> t, fingerprint |-> actor[p].previous, status |-> "CONFIRMED"]
<1>1. /\ actor[p].route = "example"
      /\ actor' = [actor EXCEPT ![p] = Idle]
      /\ UNCHANGED <<cache, schema, catalog, fingerprint, temporal, approved, generations,
                     calls, changes, faults>>
      /\ examples' \in {examples, examples \union {e}}
  BY DEF ApproveExample
<1>2. t \in Tables
  BY <1>1, Running, EntityObject DEF Sound
<1>3. e \in Example
  BY <1>2, Running DEF Example, Locals
<1>4. actor' \in [Actors -> Locals] /\ \A q \in Actors : Sound(actor'[q], approved')
  BY <1>1, IdleIsSound, ActorKeeps
<1>5. TypeOK'
  BY <1>1, <1>3, <1>4 DEF IndInv, TypeOK
<1>6. IdsSuffice'
  BY <1>1, IdleIsSound, NoMoreDraw
<1>. QED
  BY <1>1, <1>4, <1>5, <1>6 DEF IndInv, ConfirmedWasApproved, ReferencesResolve

------------------------------------------------------------------------------
(***************************************************************************)
(* What holds whoever works on the datasource at the same time.            *)
(***************************************************************************)

\* IndInv holds in every reachable state.
THEOREM CatalogInvariance == Spec => []IndInv
<1>1. Init => IndInv
  <2>. SUFFICES ASSUME Init PROVE IndInv
    OBVIOUS
  <2>1. EmptyModel \in Models /\ \A o \in Objects : EmptyModel[o].status = "none"
    BY DEF EmptyModel, Models, NoRow
  <2>2. TypeOK
    BY <2>1, IdleIsSound, CatalogAssumption DEF Init, TypeOK, Schemas, Shapes
  <2>3. IdsSuffice
    <3>1. Drawing = {}
      BY IdleIsSound DEF Init, Drawing
    <3>. QED
      BY <3>1, FS_EmptySet DEF Init, IdsSuffice
  <2>4. \A p \in Actors : Sound(actor[p], approved)
    BY IdleIsSound DEF Init
  <2>5. ConfirmedWasApproved
    BY <2>1 DEF Init, ConfirmedWasApproved
  <2>6. ReferencesResolve
    BY DEF Init, ReferencesResolve, EmptyModel
  <2>. QED
    BY <2>2, <2>3, <2>4, <2>5, <2>6 DEF IndInv
<1>2. IndInv /\ [Next]_vars => IndInv'
  <2>. SUFFICES ASSUME IndInv, [Next]_vars PROVE IndInv'
    OBVIOUS
  <2>1. ASSUME NEW p \in Actors, RouteStep(p) PROVE IndInv'
    BY <2>1, ReadKeeps, LoadKeeps, DiscoverKeeps, ReconcileKeeps, SaveKeeps, AfterSaveKeeps,
       DecideKeeps, CheckAttributeKeeps, SaveDimensionKeeps, ApproveExampleKeeps
       DEF RouteStep
  <2>2. ASSUME NEW p \in Actors, StartRoute(p) \/ Abort(p) PROVE IndInv'
    BY <2>2, StartRouteKeeps, AbortKeeps
  <2>3. ASSUME NEW t \in Tables, NEW shape \in Shapes, AlterSchema(t, shape) PROVE IndInv'
    <3>1. /\ schema' = [schema EXCEPT ![t] = shape]
          /\ changes < MaxSchemaChanges /\ changes' = changes + 1
          /\ UNCHANGED <<cache, catalog, fingerprint, temporal, examples, actor, approved,
                         generations, calls, faults>>
      BY <2>3 DEF AlterSchema
    <3>2. TypeOK'
      BY <3>1, CatalogAssumption DEF IndInv, TypeOK, Schemas
    <3>. QED
      BY <3>1, <3>2 DEF IndInv, IdsSuffice, Drawing, ConfirmedWasApproved, ReferencesResolve
  <2>4. CASE UNCHANGED vars
    BY <2>4 DEF vars, IndInv, TypeOK, IdsSuffice, Drawing, ConfirmedWasApproved,
                ReferencesResolve
  <2>. QED
    BY <2>1, <2>2, <2>3, <2>4 DEF Next
<1>. QED
  BY <1>1, <1>2, PTL DEF Spec

\* Rows, copies and the rest are well formed, and no id is drawn but by a scan
\* that was called.
THEOREM CatalogTypes == Spec => []TypeOK
<1>1. IndInv => TypeOK
  BY DEF IndInv
<1>. QED
  BY <1>1, CatalogInvariance, PTL

\* A mapping is CONFIRMED only if a reviewer approved that very mapping
\* (build_semantic_model: "Everything arrives PROPOSED").
THEOREM ConfirmationIsReviewed == Spec => []ConfirmedWasApproved
<1>1. IndInv => ConfirmedWasApproved
  BY DEF IndInv
<1>. QED
  BY <1>1, CatalogInvariance, PTL

\* The parts of the model on record come from one discovery, and a temporal
\* meaning has its attribute.
THEOREM ModelIsWhole == Spec => []ReferencesResolve
<1>1. IndInv => ReferencesResolve
  BY DEF IndInv
<1>. QED
  BY <1>1, CatalogInvariance, PTL

\* Only its own save brings a scan from its save to the record of it.
LEMMA ScanSavesItsCopy ==
    ASSUME IndInv, Next, NEW p \in Actors, ScanSaves(p)
    PROVE  Save(p) /\ catalog' = actor[p].model
<1>0. /\ actor[p].at = "save" /\ actor[p].route = "scan" /\ actor'[p].at = "record_scan"
      /\ actor \in [Actors -> Locals]
  BY DEF ScanSaves, IndInv, TypeOK
<1>1. ASSUME NEW q \in Actors, NEW local, q # p, actor' = [actor EXCEPT ![q] = local]
      PROVE  FALSE
  BY <1>0, <1>1
<1>2. ASSUME NEW t \in Tables, NEW shape \in Shapes, AlterSchema(t, shape) PROVE FALSE
  BY <1>0, <1>2 DEF AlterSchema
<1>3. ASSUME NEW q \in Actors, StartRoute(q) \/ Abort(q) PROVE FALSE
  <2>1. CASE StartRoute(q)
    <3>1. PICK local : Call(q, local)
      BY <2>1 DEF StartRoute, StartScan, StartReview, StartTemporal, StartExample
    <3>. QED
      BY <1>0, <1>1, <3>1, SMTT(60) DEF Call
  <2>2. CASE Abort(q)
    BY <1>0, <1>1, <2>2, SMTT(60) DEF Abort, Idle
  <2>. QED
    BY <1>3, <2>1, <2>2
<1>4. ASSUME NEW q \in Actors, RouteStep(q) PROVE q = p /\ Save(p)
  BY <1>0, <1>1, <1>4
     DEF RouteStep, ReadSchema, ReadScope, Load, Discover, Reconcile, Save, RecordScan,
         MarkStale, Decide, CheckAttribute, SaveDimension, ApproveExample, Moves, Kinds
<1>5. Save(p)
  BY <1>2, <1>3, <1>4 DEF Next
<1>6. catalog' = actor[p].model
  BY <1>0, <1>5 DEF Save, Idle
<1>. QED
  BY <1>5, <1>6

\* No scan saves a CONFIRMED table or column that it did not find as it was
\* confirmed (reconcile_with_schema), whatever reviewers do meanwhile.
THEOREM BrokenIsMarked == Spec => ScanMarksWhatBroke
<1>. DEFINE A == \A p \in Actors : ScanSaves(p) =>
                   \A k \in {"entity", "attribute"} :
                      ~ConfirmedThoughBroken(k, catalog', actor[p].snapshot)
<1>1. IndInv /\ [Next]_vars => [A]_vars
  <2>. SUFFICES ASSUME IndInv, Next, NEW p \in Actors, ScanSaves(p)
                PROVE  \A k \in {"entity", "attribute"} :
                         ~ConfirmedThoughBroken(k, catalog', actor[p].snapshot)
    BY DEF A
  <2>1. actor[p].at = "save" /\ actor[p].route = "scan" /\ actor'[p].at = "record_scan"
    BY DEF ScanSaves
  <2>2. catalog' = actor[p].model
    BY ScanSavesItsCopy
  <2>. QED
    BY <2>1, <2>2, Running DEF Sound
<1>. QED
  BY <1>1, CatalogInvariance, PTL DEF Spec, ScanMarksWhatBroke, A

------------------------------------------------------------------------------
(***************************************************************************)
(* What holds of a datasource that one actor works on.                     *)
(***************************************************************************)

LEMMA KindOfObject == ASSUME NEW o \in Objects PROVE o[1] \in Kinds
  BY ObjectIsOneOf, EntityObject, AttributeObject DEF Kinds

\* Relationships need their entities, so that a datasource of which no table and
\* no column is on record has nothing on record.
LEMMA NothingIsEmpty ==
    ASSUME IndInv, NothingOnRecord(catalog) PROVE catalog = EmptyModel
<1>1. ASSUME NEW o \in Objects PROVE catalog[o] = NoRow
  <2>1. CASE \E t \in Tables : o = Entity(t)
    BY <2>1 DEF NothingOnRecord
  <2>2. CASE \E t \in Tables : o = Attribute(t)
    BY <2>2 DEF NothingOnRecord
  <2>3. CASE o[1] = "relationship"
    <3>1. Entity(o[2][1]) \in Parents(o) /\ o[2][1] \in Tables
      BY <2>3, RelationshipObject
    <3>2. catalog[Entity(o[2][1])] = NoRow
      BY <3>1 DEF NothingOnRecord
    <3>. QED
      BY <3>1, <3>2 DEF IndInv, ReferencesResolve
  <2>. QED
    BY <2>1, <2>2, <2>3, ObjectIsOneOf
<1>. QED
  BY <1>1 DEF EmptyModel, IndInv, TypeOK, Models

\* A route begins at its first read, and knows the fingerprint on record if it
\* goes by it.
Begins(local) ==
    /\ local.at \in {"schema", "entity"}
    /\ local.route \in {"scan", "example"} => local.previous = fingerprint

LEMMA StartBegins ==
    ASSUME NEW p, StartRoute(p) PROVE \E local : Call(p, local) /\ Begins(local)
<1>1. CASE StartScan(p)
  <2>. DEFINE local == [Idle EXCEPT !.at = "schema", !.route = "scan",
                                    !.previous = fingerprint]
  <2>1. Begins(local) /\ Call(p, local)
    BY <1>1, IdleIsSound DEF StartScan, Locals, Begins
  <2>. QED
    BY <2>1
<1>2. ASSUME NEW target, NEW verdict, StartReview(p, target, verdict)
      PROVE  \E local : Call(p, local) /\ Begins(local)
  <2>. DEFINE local == [Idle EXCEPT !.at = "entity", !.route = "review",
                                    !.target = target, !.verdict = verdict]
  <2>1. Begins(local) /\ Call(p, local)
    BY <1>2, IdleIsSound DEF StartReview, Locals, Begins
  <2>. QED
    BY <2>1
<1>3. ASSUME NEW t, NEW n, NEW verdict, StartTemporal(p, t, n, verdict)
      PROVE  \E local : Call(p, local) /\ Begins(local)
  <2>. DEFINE local == [Idle EXCEPT !.at = "entity", !.route = "temporal",
                                    !.target = <<Attribute(t), n>>, !.verdict = verdict]
  <2>1. Begins(local) /\ Call(p, local)
    BY <1>3, IdleIsSound DEF StartTemporal, Locals, Begins
  <2>. QED
    BY <2>1
<1>4. ASSUME NEW t, StartExample(p, t)
      PROVE  \E local : Call(p, local) /\ Begins(local)
  <2>. DEFINE local == [Idle EXCEPT !.at = "schema", !.route = "example",
                                    !.target = <<Entity(t), 0>>, !.previous = fingerprint]
  <2>1. Begins(local) /\ Call(p, local)
    BY <1>4, IdleIsSound DEF StartExample, Locals, Begins
  <2>. QED
    BY <2>1
<1>. QED
  BY <1>1, <1>2, <1>3, <1>4 DEF StartRoute

LEMMA StartIsUndisturbed ==
    ASSUME IndInv, NEW p \in Actors, StartRoute(p) PROVE Undisturbed(p)'
<1>1. PICK local : Call(p, local) /\ Begins(local)
  BY StartBegins
<1>2. actor'[p].at \in {"schema", "entity"}
  BY <1>1 DEF Call, IndInv, TypeOK, Begins
<1>. QED
  BY <1>2 DEF Undisturbed, Read

LEMMA LoadIsUndisturbed ==
    ASSUME IndInv, NEW p \in Actors, Undisturbed(p), Load(p) PROVE Undisturbed(p)'
<1>. DEFINE kind == actor[p].at
            m == [o \in Objects |-> IF o[1] = kind THEN catalog[o] ELSE actor[p].model[o]]
            at == CASE kind = "entity"       -> "attribute"
                    [] kind = "attribute"    -> "relationship"
                    [] kind = "relationship" -> "loaded"
            local == [actor[p] EXCEPT !.model = m, !.at = at]
<1>1. kind \in Kinds /\ actor' = [actor EXCEPT ![p] = local] /\ catalog' = catalog
  BY DEF Load, Moves
<1>2. actor'[p] = local
  BY <1>1 DEF IndInv, TypeOK
<1>3. local.model = m /\ local.at = at /\ local.route = actor[p].route
  BY Running DEF Locals
<1>4. Read(at) = Read(kind) \union {kind}
  BY <1>1 DEF Read, Kinds
<1>5. at # "save"
  BY <1>1 DEF Kinds
<1>6. ASSUME NEW o \in Objects, o[1] \in Read(at), actor[p].route = "scan"
      PROVE  m[o] = catalog[o]
  BY <1>4, <1>6 DEF Undisturbed
<1>. HIDE DEF m, at, local
<1>. QED
  BY <1>1, <1>2, <1>3, <1>5, <1>6 DEF Undisturbed

LEMMA PlanIsUndisturbed ==
    ASSUME IndInv, NEW p \in Actors, Undisturbed(p), Discover(p) \/ Reconcile(p)
    PROVE  Undisturbed(p)'
<1>. DEFINE l == actor[p]
<1>1. l.at = "loaded" /\ l.route = "scan" /\ catalog' = catalog
  BY DEF Discover, Reconcile, Moves
<1>2. l.model = catalog
  <2>1. ASSUME NEW o \in Objects PROVE l.model[o] = catalog[o]
    BY <1>1, KindOfObject DEF Undisturbed, Read
  <2>. QED
    BY <2>1, Running DEF Locals, Models, IndInv, TypeOK
<1>3. CASE Discover(p)
  <2>1. catalog = EmptyModel
    BY <1>2, <1>3, NothingIsEmpty, ZenonT(60) DEF Discover
  <2>2. actor'[p].at = "save"
    BY <1>3, Running, ZenonT(90) DEF Discover, IndInv, TypeOK, Locals
  <2>. QED
    BY <1>1, <2>1, <2>2, SMTT(60) DEF Undisturbed, Read
<1>4. CASE Reconcile(p)
  <2>. DEFINE n == [o \in Objects |-> Reconciled(o, l.model, l.snapshot)]
  <2>1. actor'[p] = [l EXCEPT !.at = "save", !.model = n]
    BY <1>4 DEF Reconcile, Moves, IndInv, TypeOK
  <2>2. actor'[p].at = "save" /\ actor'[p].model = n /\ actor'[p].snapshot = l.snapshot
    BY <2>1, Running DEF Locals
  <2>3. n = [o \in Objects |-> Reconciled(o, catalog, l.snapshot)]
    BY <1>2
  <2>. HIDE DEF n
  <2>. QED
    BY <1>1, <2>2, <2>3 DEF Undisturbed, Read
<1>. QED
  BY <1>3, <1>4

\* Nobody else replaces the model the only actor works on.
LEMMA StepIsUndisturbed ==
    ASSUME NEW p, Actors = {p}, IndInv, Undisturbed(p), Next
    PROVE  Undisturbed(p)'
<1>0. p \in Actors /\ actor \in [Actors -> Locals] /\ actor[p] \in Locals
  BY DEF IndInv, TypeOK
<1>1. ASSUME NEW t \in Tables, NEW shape \in Shapes, AlterSchema(t, shape)
      PROVE  Undisturbed(p)'
  BY <1>1 DEF AlterSchema, Undisturbed
<1>2. ASSUME NEW local, actor' = [actor EXCEPT ![p] = local], local.route # "scan"
      PROVE  Undisturbed(p)'
  BY <1>0, <1>2 DEF Undisturbed
<1>3. ASSUME NEW local, actor' = [actor EXCEPT ![p] = local],
             local.at \in {"entity", "record_scan", "mark_stale"}
      PROVE  Undisturbed(p)'
  BY <1>0, <1>3 DEF Undisturbed, Read
<1>4. Idle.route # "scan"
  BY DEF Idle
<1>5. CASE ReadSchema(p) \/ ReadScope(p)
  <2>1. PICK s : \/ actor' = [actor EXCEPT ![p] = [actor[p] EXCEPT !.at = "entity",
                                                                   !.snapshot = s]]
                 \/ /\ actor[p].route = "example"
                    /\ actor' = [actor EXCEPT ![p] = [actor[p] EXCEPT !.at = "loaded",
                                                                      !.snapshot = s]]
    BY <1>5 DEF ReadSchema, ReadScope, Moves
  <2>2. [actor[p] EXCEPT !.at = "entity", !.snapshot = s].at = "entity"
    BY <1>0 DEF Locals
  <2>3. [actor[p] EXCEPT !.at = "loaded", !.snapshot = s].route = actor[p].route
    BY <1>0 DEF Locals
  <2>. QED
    BY <1>2, <1>3, <2>1, <2>2, <2>3
<1>6. CASE Decide(p)
  <2>. DEFINE local == [actor[p] EXCEPT !.at = "save",
                          !.model[actor[p].target[1]].status = actor[p].verdict,
                          !.target = NoTarget, !.verdict = "none"]
  <2>1. local.route = actor[p].route /\ actor[p].route = "review"
    BY <1>0, <1>6 DEF Decide, Locals
  <2>2. actor' = [actor EXCEPT ![p] = local] \/ actor' = [actor EXCEPT ![p] = Idle]
    BY <1>6 DEF Decide, Moves
  <2>. QED
    BY <1>2, <1>4, <2>1, <2>2
<1>7. CASE CheckAttribute(p)
  <2>. DEFINE local == [actor[p] EXCEPT !.at = "save_dimension", !.model = EmptyModel]
  <2>1. local.route = actor[p].route /\ actor[p].route = "temporal"
    BY <1>0, <1>7 DEF CheckAttribute, Locals
  <2>2. actor' = [actor EXCEPT ![p] = local] \/ actor' = [actor EXCEPT ![p] = Idle]
    BY <1>7 DEF CheckAttribute, Moves
  <2>. QED
    BY <1>2, <1>4, <2>1, <2>2
<1>8. CASE Save(p)
  <2>1. Saved(actor[p]).route # "scan" \/ Saved(actor[p]).at = "record_scan"
    BY <1>4, IdleIsSound DEF Saved, Locals
  <2>2. \/ actor' = [actor EXCEPT ![p] = Saved(actor[p])]
        \/ actor' = [actor EXCEPT ![p] = Idle]
    BY <1>8 DEF Save
  <2>. QED
    BY <1>2, <1>3, <1>4, <2>1, <2>2
<1>9. CASE RecordScan(p) \/ MarkStale(p)
  <2>1. [actor[p] EXCEPT !.at = "mark_stale"].at = "mark_stale"
    BY <1>0 DEF Locals
  <2>2. \/ actor' = [actor EXCEPT ![p] = [actor[p] EXCEPT !.at = "mark_stale"]]
        \/ actor' = [actor EXCEPT ![p] = Idle]
    BY <1>9 DEF RecordScan, MarkStale
  <2>. QED
    BY <1>2, <1>3, <1>4, <2>1, <2>2
<1>10. CASE SaveDimension(p) \/ ApproveExample(p) \/ Abort(p)
  BY <1>2, <1>4, <1>10 DEF SaveDimension, ApproveExample, Abort
<1>. QED
  BY <1>0, <1>1, <1>5, <1>6, <1>7, <1>8, <1>9, <1>10, StartIsUndisturbed, LoadIsUndisturbed,
     PlanIsUndisturbed
     DEF Next, RouteStep

\* A rescan leaves a reviewed mapping as it is, or marks a confirmed one that
\* broke (scan_data_source: "Rescanning preserves confirmed mappings").
THEOREM RescanKeepsReview ==
    ASSUME NEW p, Actors = {p} PROVE Spec => ScanKeepsReview
<1>1. Init => Undisturbed(p)
  BY DEF Init, Idle, Undisturbed
<1>2. IndInv /\ Undisturbed(p) /\ [Next]_vars => Undisturbed(p)'
  <2>1. CASE UNCHANGED vars
    BY <2>1 DEF vars, Undisturbed
  <2>. QED
    BY <2>1, StepIsUndisturbed
<1>3. ASSUME IndInv, Undisturbed(p), Next, ScanSaves(p), NEW o \in Objects,
             catalog[o].status \in Verdicts
      PROVE  LeavesReviewed(p, o)
  <2>. DEFINE s == actor[p].snapshot
  <2>1. p \in Actors /\ actor[p].at = "save" /\ actor[p].route = "scan"
    BY <1>3 DEF ScanSaves
  <2>2. catalog' = actor[p].model
    BY <1>3, <2>1, ScanSavesItsCopy
  <2>3. catalog # EmptyModel
    BY <1>3 DEF EmptyModel, NoRow, Verdicts
  <2>4. catalog'[o] = Reconciled(o, catalog, s)
    BY <1>3, <2>1, <2>2, <2>3 DEF Undisturbed
  <2>5. catalog[o] # NoRow
    BY <1>3 DEF NoRow, Verdicts
  <2>6. \A e \in Parents(o) : catalog[e] # NoRow /\ catalog[e].id = catalog[o].id
    BY <1>3, <2>5 DEF IndInv, ReferencesResolve
  <2>7. CASE ~(catalog[o].status # "REJECTED" /\ Broke(o, catalog, s))
    BY <2>4, <2>7 DEF Reconciled, LeavesReviewed
  <2>8. CASE catalog[o].status # "REJECTED" /\ Broke(o, catalog, s)
    <3>1. /\ catalog[o].status = "CONFIRMED"
          /\ catalog'[o] = [catalog[o] EXCEPT !.status = "STALE"]
      BY <1>3, <2>4, <2>5, <2>8 DEF Reconciled, Verdicts
    <3>2. \/ \E e \in {o} \union Parents(o) : ~Exists(e, s)
          \/ o[1] = "attribute" /\ s[o[2]] # catalog[o].data_type
      <4>1. CASE \E t \in Tables : o = Entity(t)
        BY <2>8, <4>1, EntityObject
      <4>2. CASE \E t \in Tables : o = Attribute(t)
        <5>1. PICK t \in Tables : o = Attribute(t)
          BY <4>2
        <5>2. catalog[Entity(t)].id = catalog[o].id
          BY <2>6, <5>1, AttributeObject
        <5>. QED
          BY <2>8, <5>1, <5>2, AttributeObject
      <4>3. CASE o[1] = "relationship"
        <5>1. PICK e \in Parents(o) : EntityBroke(catalog, e[2], s)
          BY <2>6, <2>8, <4>3, RelationshipObject
        <5>2. PICK t \in Tables : e = Entity(t)
          BY <4>3, RelationshipObject
        <5>3. ~Exists(e, s)
          BY <5>1, <5>2, EntityObject DEF EntityBroke
        <5>. QED
          BY <5>1, <5>3
      <4>. QED
        BY <4>1, <4>2, <4>3, ObjectIsOneOf
    <3>. QED
      BY <3>1, <3>2 DEF LeavesReviewed
  <2>. QED
    BY <2>7, <2>8 DEF LeavesReviewed
<1>4. IndInv /\ Undisturbed(p) /\ [Next]_vars => [SavesLeaveReviewed]_vars
  BY <1>3 DEF SavesLeaveReviewed
<1>. QED
  BY <1>1, <1>2, <1>4, CatalogInvariance, PTL DEF Spec, ScanKeepsReview

\* A step of the only actor that neither records a scan nor touches the examples.
LEMMA MarkingStays ==
    ASSUME NEW p, NEW local, Marking(p), actor'[p] = local,
           UNCHANGED <<fingerprint, examples>>,
           actor[p].at # "mark_stale", local.at # "mark_stale",
           local.at = "record_scan" => local.route = "scan",
           local.route \in {"scan", "example"} => local.previous = fingerprint
    PROVE  Marking(p)'
  BY DEF Marking

\* The only actor marks what its scan made stale before it is done.
LEMMA StepMarks ==
    ASSUME NEW p, Actors = {p}, MaxFaults = 0, IndInv, Marking(p), Next
    PROVE  Marking(p)'
<1>. DEFINE l == actor[p]
<1>0. p \in Actors /\ actor \in [Actors -> Locals] /\ l \in Locals
  BY DEF IndInv, TypeOK
<1>1. ASSUME NEW t \in Tables, NEW shape \in Shapes, AlterSchema(t, shape)
      PROVE  Marking(p)'
  BY <1>1 DEF AlterSchema, Marking
<1>2. CASE StartRoute(p)
  <2>1. PICK local : Call(p, local) /\ Begins(local)
    BY <1>2, StartBegins
  <2>2. actor'[p] = local
    BY <1>0, <2>1 DEF Call
  <2>. QED
    BY <2>1, <2>2, MarkingStays DEF Call, Begins
<1>3. ASSUME NEW local, actor' = [actor EXCEPT ![p] = local],
             UNCHANGED <<fingerprint, examples>>,
             l.at \notin {"record_scan", "mark_stale"},
             local.at \notin {"record_scan", "mark_stale"},
             local.route = l.route, local.previous = l.previous
      PROVE  Marking(p)'
  <2>1. actor'[p] = local
    BY <1>0, <1>3
  <2>. QED
    BY <1>3, <2>1 DEF Marking
<1>4. ASSUME actor' = [actor EXCEPT ![p] = Idle], UNCHANGED <<fingerprint, examples>>,
             l.at # "mark_stale"
      PROVE  Marking(p)'
  <2>1. actor'[p] = Idle
    BY <1>0, <1>4
  <2>. QED
    BY <1>4, <2>1, MarkingStays DEF Idle
<1>5. CASE ReadSchema(p) \/ ReadScope(p)
  <2>. DEFINE local(at, s) == [l EXCEPT !.at = at, !.snapshot = s]
  <2>1. l.at = "schema" /\ UNCHANGED <<fingerprint, examples>>
    BY <1>5 DEF ReadSchema, ReadScope, Moves
  <2>2. PICK s, at : /\ at \in {"entity", "loaded"}
                     /\ actor' = [actor EXCEPT ![p] = local(at, s)]
    <3>1. CASE ReadSchema(p)
      BY <3>1 DEF ReadSchema, Moves
    <3>2. CASE ReadScope(p)
      BY <3>2 DEF ReadScope, Moves
    <3>. QED
      BY <1>5, <3>1, <3>2
  <2>3. /\ local(at, s).at = at /\ local(at, s).route = l.route
        /\ local(at, s).previous = l.previous
    BY <1>0 DEF Locals
  <2>. HIDE DEF local
  <2>. QED
    BY <1>3, <2>1, <2>2, <2>3
<1>6. CASE Load(p)
  <2>. DEFINE m == [o \in Objects |-> IF o[1] = l.at THEN catalog[o] ELSE l.model[o]]
              at == CASE l.at = "entity"       -> "attribute"
                      [] l.at = "attribute"    -> "relationship"
                      [] l.at = "relationship" -> "loaded"
              local == [l EXCEPT !.model = m, !.at = at]
  <2>1. /\ l.at \in Kinds /\ UNCHANGED <<fingerprint, examples>>
        /\ actor' = [actor EXCEPT ![p] = local]
    BY <1>6 DEF Load, Moves
  <2>2. at \in {"attribute", "relationship", "loaded"}
    BY <2>1 DEF Kinds
  <2>3. local.at = at /\ local.route = l.route /\ local.previous = l.previous
    BY <1>0 DEF Locals
  <2>. HIDE DEF local, at
  <2>. QED
    BY <1>3, <2>1, <2>2, <2>3 DEF Kinds
<1>7. CASE Discover(p) \/ Reconcile(p)
  <2>. DEFINE local(m) == [l EXCEPT !.at = "save", !.model = m]
  <2>1. l.at = "loaded" /\ UNCHANGED <<fingerprint, examples>>
    BY <1>7, ZenonT(60) DEF Discover, Reconcile, Moves
  <2>2. PICK m : actor' = [actor EXCEPT ![p] = local(m)]
    BY <1>7 DEF Discover, Reconcile, Moves
  <2>3. local(m).at = "save" /\ local(m).route = l.route /\ local(m).previous = l.previous
    BY <1>0 DEF Locals
  <2>. HIDE DEF local
  <2>. QED
    BY <1>3, <2>1, <2>2, <2>3
<1>8. CASE Decide(p)
  <2>. DEFINE local == [l EXCEPT !.at = "save", !.model[l.target[1]].status = l.verdict,
                                 !.target = NoTarget, !.verdict = "none"]
  <2>1. l.at = "loaded" /\ UNCHANGED <<fingerprint, examples>>
    BY <1>8 DEF Decide, Moves
  <2>2. actor' = [actor EXCEPT ![p] = local] \/ actor' = [actor EXCEPT ![p] = Idle]
    BY <1>8 DEF Decide, Moves
  <2>3. local.at = "save" /\ local.route = l.route /\ local.previous = l.previous
    BY <1>0 DEF Locals
  <2>. HIDE DEF local
  <2>. QED
    BY <1>3, <1>4, <2>1, <2>2, <2>3
<1>9. CASE CheckAttribute(p)
  <2>. DEFINE local == [l EXCEPT !.at = "save_dimension", !.model = EmptyModel]
  <2>1. l.at = "loaded" /\ UNCHANGED <<fingerprint, examples>>
    BY <1>9 DEF CheckAttribute, Moves
  <2>2. actor' = [actor EXCEPT ![p] = local] \/ actor' = [actor EXCEPT ![p] = Idle]
    BY <1>9 DEF CheckAttribute, Moves
  <2>3. /\ local.at = "save_dimension" /\ local.route = l.route
        /\ local.previous = l.previous
    BY <1>0 DEF Locals
  <2>. HIDE DEF local
  <2>. QED
    BY <1>3, <1>4, <2>1, <2>2, <2>3
<1>10. CASE Save(p)
  <2>1. l.at = "save" /\ UNCHANGED <<fingerprint, examples>>
    BY <1>10 DEF Save
  <2>2. \/ actor' = [actor EXCEPT ![p] = Saved(l)]
        \/ actor' = [actor EXCEPT ![p] = Idle]
    BY <1>10 DEF Save
  <2>3. CASE l.route = "scan" /\ actor' = [actor EXCEPT ![p] = Saved(l)]
    <3>1. /\ Saved(l).at = "record_scan" /\ Saved(l).route = "scan"
          /\ Saved(l).previous = l.previous
      BY <2>3, IdleIsSound DEF Saved, Locals
    <3>2. actor'[p] = Saved(l)
      BY <1>0, <2>3
    <3>. QED
      BY <2>1, <2>3, <3>1, <3>2, MarkingStays DEF Marking
  <2>. QED
    BY <1>4, <2>1, <2>2, <2>3 DEF Saved
<1>11. CASE RecordScan(p)
  <2>. DEFINE local == [l EXCEPT !.at = "mark_stale"]
  <2>1. /\ l.at = "record_scan" /\ fingerprint' = l.snapshot /\ examples' = examples
        /\ l.route = "scan" /\ l.previous = fingerprint
    BY <1>11 DEF RecordScan, Marking
  <2>2. CASE l.previous # l.snapshot
    <3>1. actor'[p] = local
      BY <1>0, <1>11, <2>2 DEF RecordScan
    <3>2. /\ local.at = "mark_stale" /\ local.route = l.route
          /\ local.snapshot = l.snapshot
      BY <1>0 DEF Locals
    <3>. HIDE DEF local
    <3>. QED
      BY <2>1, <3>1, <3>2 DEF Marking
  <2>3. CASE l.previous = l.snapshot
    BY <1>4, <1>11, <2>1, <2>3 DEF RecordScan
  <2>. QED
    BY <2>2, <2>3
<1>12. CASE MarkStale(p)
  <2>1. /\ fingerprint = l.snapshot /\ fingerprint' = fingerprint
        /\ examples' = {Marked(e, l.snapshot) : e \in examples}
        /\ actor'[p] = Idle
    BY <1>0, <1>12 DEF MarkStale, Marking
  <2>2. ASSUME NEW e \in examples, Marked(e, l.snapshot).status = "CONFIRMED"
        PROVE  Marked(e, l.snapshot).fingerprint \in {NoFingerprint, fingerprint}
    <3>1. e \in Example
      BY DEF IndInv, TypeOK
    <3>. QED
      BY <2>1, <2>2, <3>1 DEF Marked, Example
  <2>. QED
    BY <2>1, <2>2 DEF Marking, Idle
<1>13. CASE SaveDimension(p)
  BY <1>4, <1>13 DEF SaveDimension
<1>14. CASE ApproveExample(p)
  <2>. DEFINE e == [table |-> l.target[1][2], fingerprint |-> l.previous,
                    status |-> "CONFIRMED"]
  <2>1. /\ l.at = "loaded" /\ l.route = "example" /\ fingerprint' = fingerprint
        /\ examples' \in {examples, examples \union {e}}
        /\ actor'[p] = Idle
    BY <1>0, <1>14 DEF ApproveExample
  <2>2. l.previous = fingerprint
    BY <2>1 DEF Marking
  <2>. QED
    BY <2>1, <2>2 DEF Marking, Idle
<1>15. ~Abort(p)
  BY DEF Abort, IndInv, TypeOK
<1>. QED
  BY <1>0, <1>1, <1>2, <1>5, <1>6, <1>7, <1>8, <1>9, <1>10, <1>11, <1>12, <1>13, <1>14, <1>15
     DEF Next, RouteStep

\* While no route runs, an example that may be used was approved against the
\* schema recorded last, or against none (mark_stale_for_schema).  A scan that is
\* cut short between the record and the marks breaks it, and so do two actors.
THEOREM ExamplesMatch ==
    ASSUME NEW p, Actors = {p}, MaxFaults = 0 PROVE Spec => []UsableExamplesMatch
<1>1. Init => Marking(p)
  BY DEF Init, Idle, Marking
<1>2. IndInv /\ Marking(p) /\ [Next]_vars => Marking(p)'
  <2>1. CASE UNCHANGED vars
    BY <2>1 DEF vars, Marking
  <2>. QED
    BY <2>1, StepMarks
<1>3. Marking(p) => UsableExamplesMatch
  BY DEF Marking, UsableExamplesMatch, Quiet
<1>. QED
  BY <1>1, <1>2, <1>3, CatalogInvariance, PTL DEF Spec

=============================================================================
