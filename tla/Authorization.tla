--------------------------- MODULE Authorization ---------------------------
(***************************************************************************)
(* Who may read what.  A grant belongs to a role and names schemas, tables *)
(* and metrics, or "*"; it may deny columns of a table or of every table.  *)
(* The same grants are evaluated by the local policy (local.py) and by OPA *)
(* (analytics.rego, asked and checked by opa.py), and the schema is cut to *)
(* the decision (gateway.py).                                              *)
(*                                                                         *)
(* A table is [schema, name, columns, foreign], a foreign key of it        *)
(* [columns, table, referenced].  A decision's table_columns is a function *)
(* on the tables it names.                                                 *)
(***************************************************************************)
EXTENDS Naturals, FiniteSets

GrantAllows(values, candidate) == "*" \in values \/ candidate \in values

(* The columns a grant denies in a table.                                  *)
Denied(grant, name) ==
    UNION {grant.denied[k] : k \in DOMAIN grant.denied \cap {"*", name}}

GrantAllowsTable(grant, table) ==
    GrantAllows(grant.schemas, table.schema) /\ GrantAllows(grant.tables, table.name)

GrantAllowsColumn(grant, table, column) ==
    GrantAllowsTable(grant, table) /\ column \notin Denied(grant, table.name)

GrantedColumns_AnyDenies(grants, table) ==
    {c \in table.columns : /\ grants # {}
                           /\ \A g \in grants : GrantAllowsColumn(g, table, c)}

GrantedColumns(grants, table) ==
    {c \in table.columns : \E g \in grants : GrantAllowsColumn(g, table, c)}

GrantedMetrics(grants, metrics) ==
    {x \in metrics : \E g \in grants : GrantAllows(g.metrics, x)}

(* A decision over the columns it grants of each table and the metrics     *)
(* asked about.                                                            *)
Decision(allowed, columns, grants, metrics) ==
    [allowed |-> allowed,
     table_columns |-> columns,
     allowed_metrics |-> GrantedMetrics(grants, metrics),
     debug_allowed |-> \E g \in grants : g.debug,
     knowledge_review_allowed |-> \E g \in grants : g.review]

(* LocalPolicyAuthorizationGateway.authorize: a table without a permitted  *)
(* column is left out, and nothing to read at all is a refusal.            *)
LocalDecision(grants, tables, metrics) ==
    LET readable == {t \in tables : GrantedColumns(grants, t) # {}}
    IN  Decision(grants # {} /\ (readable # {} \/ GrantedMetrics(grants, metrics) # {}),
                 [n \in {t.name : t \in readable} |->
                     UNION {GrantedColumns(grants, t) : t \in {t \in readable : t.name = n}}],
                 grants, metrics)

(* column_allowed and allowed_tables of the policy: a permitted table is   *)
(* listed even if no column of it is, and a role with a grant is allowed.  *)
RegoDecision(grants, tables, metrics) ==
    LET listed == {t \in tables : \E g \in grants : GrantAllowsTable(g, t)}
        allowed(t) == {c \in t.columns : \E g \in grants :
                          GrantAllowsTable(g, t) /\ c \notin Denied(g, t.name)}
    IN  Decision(grants # {},
                 [n \in {t.name : t \in listed} |->
                     UNION {allowed(t) : t \in {t \in listed : t.name = n}}],
                 grants, metrics)

(* _validate_scope_subset: a decision grants nothing that was not asked    *)
(* about; otherwise InvalidAuthorizationDecisionError.                     *)
ValidateScopeSubset(decision, tables, metrics) ==
    /\ \A n \in DOMAIN decision.table_columns :
          \E t \in tables : t.name = n /\ decision.table_columns[n] \subseteq t.columns
    /\ decision.allowed_metrics \subseteq metrics

ColumnsFor(decision, name) ==
    IF name \in DOMAIN decision.table_columns THEN decision.table_columns[name] ELSE {}

ForeignKeyIsAuthorized_LocalSide(key, local, decision) == key.columns \subseteq local

ForeignKeyIsAuthorized(key, local, decision) ==
    /\ key.columns \subseteq local
    /\ key.referenced \subseteq ColumnsFor(decision, key.table)

(* filter_authorized_schema.                                               *)
FilterAuthorizedSchema(tables, decision) ==
    {[t EXCEPT !.columns = @ \cap ColumnsFor(decision, t.name),
               !.foreign = {k \in @ :
                   ForeignKeyIsAuthorized(k, ColumnsFor(decision, t.name), decision)}] :
        t \in {t \in tables : decision.allowed /\ ColumnsFor(decision, t.name) # {}}}

----------------------------------------------------------------------------
(* A foreign key left in the schema leads to a column left in the schema.  *)
ClosedUnderKeys(tables) ==
    \A t \in tables : \A k \in t.foreign :
        \E u \in tables : u.name = k.table /\ k.referenced \subseteq u.columns

(* The local policy and OPA leave a caller the same tables, columns, keys, *)
(* metrics and rights, what is left is closed under its foreign keys, and  *)
(* OPA's decision is never out of scope (local.py, analytics.rego, opa.py, *)
(* filter_authorized_schema).                                              *)
PoliciesAgree(grants, tables, metrics) ==
    LET local == LocalDecision(grants, tables, metrics)
        opa == RegoDecision(grants, tables, metrics)
    IN  /\ FilterAuthorizedSchema(tables, local) = FilterAuthorizedSchema(tables, opa)
        /\ ClosedUnderKeys(FilterAuthorizedSchema(tables, opa))
        /\ \A field \in {"allowed_metrics", "debug_allowed", "knowledge_review_allowed"} :
              local[field] = opa[field]
        /\ ValidateScopeSubset(opa, tables, metrics)
=============================================================================
