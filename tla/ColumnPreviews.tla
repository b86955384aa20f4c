--------------------------- MODULE ColumnPreviews --------------------------
(***************************************************************************)
(* The preview of column values for a reviewer (list_column_previews in    *)
(* knowledge_routes.py): five reads, each of a different system, before a  *)
(* value is shown, while policy, classification, review and schema move.   *)
(***************************************************************************)
EXTENDS Authorization

CONSTANTS
    Schemas,      \* the schemas the datasource may have, each a set of tables
    Policies,     \* the sets of grants the reviewer may hold
    Columns,      \* <<table, column>> that occur in Schemas
    MaxChanges    \* changes of the surroundings during one request

VARIABLES
    datasource,   \* the datasource's tables now
    policy,       \* the reviewer's grants now
    classified,   \* columns classified as sensitive now, <<t, "*">> for a table
    proposed,     \* columns whose attribute is PROPOSED now
    request,      \* the request: where it is and what it has read
    seen,         \* for each column, what held of it at some time of the request
    changes

previewVars == <<datasource, policy, classified, proposed, request, seen, changes>>

Names == {c[1] : c \in Columns}
Sensitive(c) == {c, <<c[1], "*">>} \cap classified # {}

(* The policy lets the reviewer read the column, whether or not it exists. *)
Readable(c) ==
    LET table == CHOOSE t \in UNION Schemas : t.name = c[1]
    IN  \E g \in policy : GrantAllowsColumn(g, table, c[2])

(* What holds now of a column, for the history.                            *)
Now(c) ==
    (IF Readable(c) THEN {"readable"} ELSE {})
        \cup (IF Sensitive(c) THEN {} ELSE {"unclassified"})
        \cup (IF c \in proposed THEN {"proposed"} ELSE {})

Idle == [pc |-> "idle", authorized |-> {}, governed |-> {}, wanted |-> {}, shown |-> {},
         tables |-> {}]

PreviewInit ==
    /\ datasource \in Schemas
    /\ policy \in Policies
    /\ classified \in {{}, {CHOOSE c \in Columns : TRUE}}
    /\ proposed = Columns
    /\ request = Idle
    /\ seen = [c \in Columns |-> {}]
    /\ changes = 0

(* require_knowledge_reviewer.                                             *)
RequireKnowledgeReviewer(grants, tables) ==
    LET decision == RegoDecision(grants, tables, {})
    IN  decision.allowed /\ decision.knowledge_review_allowed

(* The route is entered with the datasource found; anything else ends it   *)
(* at once.                                                                *)
BeginPreview ==
    /\ request.pc = "idle"
    /\ RequireKnowledgeReviewer(policy, datasource)
    /\ request' = [Idle EXCEPT !.pc = "scan"]
    /\ seen' = [c \in Columns |-> Now(c)]
    /\ UNCHANGED <<datasource, policy, classified, proposed, changes>>

(* The route's other steps leave the surroundings alone.                   *)
PreviewStep(from, new) ==
    /\ request.pc = from
    /\ request' = new
    /\ UNCHANGED <<datasource, policy, classified, proposed, seen, changes>>

(* _read_preview_schema of a gateway that samples nothing.                 *)
ScanMetadata ==
    PreviewStep("scan", [request EXCEPT !.pc = "authorize", !.tables = datasource])

(* An empty scope ends the route with no previews.                         *)
Authorize ==
    LET decision == RegoDecision(policy, request.tables, {})
        cut == FilterAuthorizedSchema(request.tables, decision)
        authorized == {c \in Columns : \E t \in cut : t.name = c[1] /\ c[2] \in t.columns}
    IN  PreviewStep("authorize",
            IF ~decision.allowed \/ cut = {} THEN Idle
            ELSE [request EXCEPT !.pc = "govern", !.authorized = authorized])

(* get_metadata asks for the authorized tables and filter_authorized_      *)
(* governance keeps their authorized columns; a classification of the      *)
(* whole table stays.                                                      *)
Govern ==
    PreviewStep("govern", [request EXCEPT
            !.pc = "load",
            !.governed = {g \in classified :
                             g \in request.authorized
                                \/ \E c \in request.authorized : g = <<c[1], "*">>}])

PreviewableColumns_ColumnOnly(authorized, governed) ==
    {c \in proposed \cap authorized : c \notin governed}

(* _previewable_columns.                                                   *)
PreviewableColumns(authorized, governed) ==
    {c \in proposed \cap authorized : c \notin governed /\ <<c[1], "*">> \notin governed}

LoadModel ==
    LET wanted == PreviewableColumns(request.authorized, request.governed)
    IN  PreviewStep("load", IF wanted = {} THEN Idle
                            ELSE [request EXCEPT !.pc = "sample", !.wanted = wanted])

(* The second gateway samples the wanted columns the schema still has;     *)
(* one with more than MAX_PREVIEW_VALUES values shows none.                *)
Sample ==
    \E few \in SUBSET {c \in request.wanted :
                          \E t \in datasource : t.name = c[1] /\ c[2] \in t.columns} :
        PreviewStep("sample", [request EXCEPT !.pc = "shown", !.shown = few])

(* Each read can fail: 422 or 502 from the datasource, 503 from policy or  *)
(* catalogue (a table it does not know included).                          *)
Fail ==
    /\ request.pc \in {"scan", "authorize", "govern", "load", "sample"}
    /\ PreviewStep(request.pc, Idle)

Done ==
    PreviewStep("shown", Idle)

(* The surroundings change under the request.                              *)
Change ==
    /\ request.pc # "idle"
    /\ changes < MaxChanges
    /\ \/ datasource' \in Schemas \ {datasource} /\ UNCHANGED <<policy, classified, proposed>>
       \/ policy' \in Policies \ {policy} /\ UNCHANGED <<datasource, classified, proposed>>
       \/ \E c \in Columns \cup {<<n, "*">> : n \in Names} :
             /\ classified' = (classified \cup {c}) \ (classified \cap {c})
             /\ UNCHANGED <<datasource, policy, proposed>>
       \/ \E c \in proposed :
             proposed' = proposed \ {c} /\ UNCHANGED <<datasource, policy, classified>>
    /\ changes' = changes + 1
    /\ seen' = [c \in Columns |-> seen[c] \cup Now(c)']
    /\ UNCHANGED request

PreviewNext ==
    \/ BeginPreview \/ ScanMetadata \/ Authorize \/ Govern \/ LoadModel \/ Sample \/ Fail \/ Done
    \/ Change

PreviewSpec == PreviewInit /\ [][PreviewNext]_previewVars

----------------------------------------------------------------------------
(* A value is shown only of a column that, at some time of this very       *)
(* request, the reviewer was allowed to read, was not classified as        *)
(* sensitive, neither itself nor through its table, and still awaited      *)
(* review (list_column_previews, _previewable_columns).                    *)
PreviewIsPermitted ==
    \A c \in request.shown : seen[c] = {"readable", "unclassified", "proposed"}
=============================================================================
