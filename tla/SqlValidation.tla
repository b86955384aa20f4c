--------------------------- MODULE SqlValidation ---------------------------
(***************************************************************************)
(* The read-only validator (app/security/sql_validation.py). A statement   *)
(* is abstracted to what the validator reads of its syntax tree: how many  *)
(* statements the text held and of which kind, whether a mutation occurs   *)
(* anywhere in it, its sources (alias, schema, name) in the order they are *)
(* found, its common table expressions with the columns they produce, its  *)
(* column references, functions, stars and limit.                          *)
(***************************************************************************)
EXTENDS Integers, Sequences, FiniteSets

CONSTANTS
    AllowedSchemas,     \* SQLValidator.allowed_schemas
    AllowedTables,      \* allowed_tables, used when no snapshot is given
    AllowedFunctions,   \* allowed_functions
    ProhibitedFunctions,\* prohibited_functions
    SystemTables,       \* relations of the system catalogue: <<schema, table>>
    MaxRows             \* max_rows

Elements(s) == {s[i] : i \in 1..Len(s)}

Repairable == {"UNKNOWN_TABLE", "UNKNOWN_COLUMN", "AMBIGUOUS_COLUMN", "UNRESOLVED_ALIAS",
               "INVALID_CTE_REFERENCE", "FORBIDDEN_SCHEMA"}

IsCte(statement, source) == source.schema = "" /\ source.table \in DOMAIN statement.ctes

(* _table_references: where the sources are that are not a common table expression. *)
References(statement) ==
    {i \in 1..Len(statement.sources) : ~IsCte(statement, statement.sources[i])}

(* validate, for one reference: "ok" or the code it is refused with. scope is
   the snapshot's relations, the caller's allowed relations, or {"any"} when
   neither was given. *)
ReferenceCode(statement, r, scope) ==
    CASE <<r.schema, r.table>> \in SystemTables -> "FORBIDDEN_SYSTEM_ACCESS"
      [] <<r.schema, r.table>> \notin SystemTables /\ r.schema = "" ->
            IF DOMAIN statement.ctes # {} THEN "INVALID_CTE_REFERENCE" ELSE "FORBIDDEN_SCHEMA"
      [] <<r.schema, r.table>> \notin SystemTables /\ r.schema \notin AllowedSchemas \cup {""} ->
            "FORBIDDEN_SCHEMA"
      [] OTHER -> IF scope.given
                  THEN IF <<r.schema, r.table>> \in scope.relations THEN "ok" ELSE "UNKNOWN_TABLE"
                  ELSE IF r.table \in AllowedTables THEN "ok" ELSE "UNKNOWN_TABLE"

(* The first reference that is refused decides. *)
ReferencesCode(statement, scope) ==
    LET code(i) == ReferenceCode(statement, statement.sources[i], scope)
        bad == {i \in References(statement) : code(i) # "ok"}
    IN  IF bad = {} THEN "ok" ELSE code(CHOOSE i \in bad : \A j \in bad : i <= j)

UnsupportedFunctions(statement) ==
    {f \in statement.functions : f \in ProhibitedFunctions \/ f \notin AllowedFunctions}

(* The columns a source offers under the snapshot. *)
ColumnsOf(statement, source, snapshot) ==
    IF IsCte(statement, source) THEN statement.ctes[source.table]
    ELSE snapshot[<<source.schema, source.table>>]

(* sqlglot's qualify and _classify_scope_error: what is wrong with a column
   reference, if anything. *)
ColumnCode(statement, column, snapshot) ==
    LET sources == Elements(statement.sources)
        offering == {s \in sources : column.name \in ColumnsOf(statement, s, snapshot)}
    IN  IF column.alias = ""
        THEN IF Cardinality(offering) = 1 THEN "ok"
             ELSE IF offering = {} THEN "UNKNOWN_COLUMN" ELSE "AMBIGUOUS_COLUMN"
        ELSE IF column.alias \notin {s.alias : s \in sources} THEN "UNRESOLVED_ALIAS"
        ELSE IF \E s \in offering : s.alias = column.alias THEN "ok" ELSE "UNKNOWN_COLUMN"

ColumnsCode(statement, snapshot) ==
    LET cols == statement.columns
        bad == {i \in 1..Len(cols) : ColumnCode(statement, cols[i], snapshot) # "ok"}
    IN  IF bad = {} THEN "ok"
        ELSE ColumnCode(statement, cols[CHOOSE i \in bad : \A j \in bad : i <= j], snapshot)

(* A limit above the bound is replaced by it, a missing one added. *)
BoundedLimit(limit) == IF limit = -1 \/ limit > MaxRows THEN MaxRows ELSE limit

Invalid(code) == [valid |-> FALSE, code |-> code, rows |-> 0]

(* A slip: the relation scope is asked only of the first table. *)
Validate_FirstTableOnly(statement, snapshot, scope) ==
    LET refs == References(statement)
        first == CHOOSE i \in refs : \A j \in refs : i <= j
        code == IF refs = {} THEN "ok" ELSE ReferenceCode(statement, statement.sources[first], scope)
    IN  IF ~statement.parses \/ statement.count # 1 \/ ~statement.query \/ statement.mutates
        THEN Invalid("MUTATION_ATTEMPT")
        ELSE IF code # "ok" THEN Invalid(code)
        ELSE [valid |-> TRUE, code |-> "ok", rows |-> BoundedLimit(statement.limit)]

(* SQLValidator.validate: the checks in the order the code makes them. limit
   is -1 when there is none and -2 when it is not an integer literal. *)
Validate(statement, snapshot, scope) ==
    CASE ~statement.parses -> Invalid("PARSE_ERROR")
      [] statement.parses /\ statement.count # 1 -> Invalid("MULTIPLE_STATEMENTS")
      [] statement.parses /\ statement.count = 1 /\ (~statement.query \/ statement.mutates) ->
            Invalid("MUTATION_ATTEMPT")
      [] OTHER ->
            IF ReferencesCode(statement, scope) # "ok"
            THEN Invalid(ReferencesCode(statement, scope))
            ELSE IF UnsupportedFunctions(statement) # {} THEN Invalid("FORBIDDEN_FUNCTION")
            ELSE IF statement.star THEN Invalid("RESTRICTED_STAR")
            ELSE IF snapshot.given /\ ColumnsCode(statement, snapshot.tables) # "ok"
            THEN Invalid(ColumnsCode(statement, snapshot.tables))
            ELSE IF statement.limit = -2 THEN Invalid("INVALID_LIMIT")
            ELSE [valid |-> TRUE, code |-> "ok", rows |-> BoundedLimit(statement.limit)]

(* The relation scope validate derives from its arguments. *)
ScopeOf(snapshot, relations) ==
    IF snapshot.given THEN [given |-> TRUE, relations |-> DOMAIN snapshot.tables] ELSE relations

(* validate_readonly and normalize_error: what a refusal is raised as and the
   code and status it is answered with. *)
Refusal(code) ==
    IF code \in Repairable
    THEN [class |-> "SQLSchemaValidationError", error |-> "SQL_SCHEMA_VALIDATION_FAILED", status |-> 422]
    ELSE [class |-> "SQLValidationError", status |-> 400,
          error |-> IF code \in {"PARSE_ERROR", "INVALID_LIMIT"}
                    THEN "SQL_VALIDATION_FAILED" ELSE "UNSAFE_SQL"]

-----------------------------------------------------------------------------
(* Reference *)

(* A relation may be read when it is a common table expression of the
   statement, or schema-qualified, in an allowed schema, outside the system
   catalogue and in the scope the request was given. *)
MayRead(statement, source, scope) ==
    \/ IsCte(statement, source)
    \/ /\ source.schema \in AllowedSchemas
       /\ <<source.schema, source.table>> \notin SystemTables
       /\ IF scope.given THEN <<source.schema, source.table>> \in scope.relations
          ELSE source.table \in AllowedTables

(* A statement is accepted exactly when it is one read-only query over
   relations the request may read, with allowed functions, explicit columns
   that each resolve to one source of the snapshot, and a literal limit; an
   accepted statement returns at most max_rows rows; and the refusals a model
   may repair are those about names, answered 422, never those about
   mutations, functions, stars or limits. *)
ValidIffSafe(statement, snapshot, relations) ==
    LET scope == ScopeOf(snapshot, relations)
        result == Validate(statement, snapshot, scope)
        resolves(c) == Cardinality({s \in Elements(statement.sources) :
                            /\ c.alias \in {"", s.alias}
                            /\ c.name \in ColumnsOf(statement, s, snapshot.tables)}) = 1
        safe == /\ statement.parses /\ statement.count = 1
                /\ statement.query /\ ~statement.mutates
                /\ \A s \in Elements(statement.sources) : MayRead(statement, s, scope)
                /\ statement.functions \subseteq AllowedFunctions \ ProhibitedFunctions
                /\ ~statement.star /\ statement.limit # -2
        named == snapshot.given => \A c \in Elements(statement.columns) : resolves(c)
    IN  /\ result.valid = (safe /\ (safe => named))
        /\ result.valid => result.rows \in 0..MaxRows
        /\ ~result.valid /\ Refusal(result.code).status = 422 =>
              statement.query /\ ~statement.mutates /\ statement.count = 1
=============================================================================
