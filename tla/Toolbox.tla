------------------------------- MODULE Toolbox -----------------------------
(***************************************************************************)
(* The database read through MCP Toolbox (data/toolbox.py): requests share *)
(* one gateway, its cached schema, the lock around reading it, and the     *)
(* once-only proof that the database role cannot write.                    *)
(*                                                                         *)
(* An invocation of a tool is two steps, its effect on the server and its  *)
(* reply, at most TimeoutSeconds apart; role and schema may change in      *)
(* between and at any other time.                                          *)
(***************************************************************************)
EXTENDS Errors, Functions

CONSTANTS
    Requests,
    Schemas,           \* the sets of relations the database may have
    Statements,        \* the sets of relations a statement may read
    CacheSeconds, TimeoutSeconds, MaxTime,
    MaxBytes,          \* of a result
    Results,           \* results the server may return, rows by their size
    Null

VARIABLES
    readOnly,          \* the role cannot write, now
    schema,            \* the relations there are, now
    cache,             \* Null or [relations, at, taken]: _schema_cache(d_at)
    verified,          \* _read_only_verified
    lock,              \* Null or the request that holds _schema_lock
    request,
    now,
    proved             \* the role could not write, at some time since start

toolboxVars == <<readOnly, schema, cache, verified, lock, request, now, proved>>

Idle == [op |-> "none", pc |-> "idle", reply |-> Null, since |-> 0, sql |-> {},
         age |-> 0, cause |-> "none", error |-> Null, rows |-> <<>>, cut |-> FALSE]

ToolboxInit ==
    /\ readOnly \in BOOLEAN
    /\ schema \in Schemas
    /\ cache = Null
    /\ verified = FALSE
    /\ lock = Null
    /\ request = [r \in Requests |-> Idle]
    /\ now = 0
    /\ proved = readOnly

----------------------------------------------------------------------------
(* bounded_rows: rows, given by their sizes, up to the first that no       *)
(* longer fits; 2 bytes for the brackets and 1 for each separator.         *)
Bytes(rows) ==
    IF rows = <<>> THEN 2 ELSE 1 + Len(rows) + FoldFunction(+, 0, rows)

BoundedRows(records) ==
    LET fits == {n \in 0..Len(records) :
                    \A k \in 1..n : Bytes(SubSeq(records, 1, k)) <= MaxBytes}
        most == CHOOSE n \in fits : \A k \in fits : k <= n
    IN  [rows |-> SubSeq(records, 1, most), cut |-> most < Len(records)]

(* The exception the gateway raises for what went wrong at a step.  A      *)
(* payload of the wrong shape passes the handlers of the verification and  *)
(* of the statement, because _records runs after them.                     *)
RaisedFor(pc, cause) ==
    CASE cause = "timeout" -> "DatabaseQueryTimeout"
      [] cause = "unreachable" -> "DatabaseUnavailable"
      [] cause = "writable" -> "DatabaseReadOnlyConfiguration"
      [] cause = "unknown relation" -> "SQLSchemaValidation"
      [] cause = "too large" -> "DatabaseResultTooLarge"
      [] cause = "tool error" /\ pc = "verify" -> "DatabaseReadOnlyConfiguration"
      [] cause = "malformed" /\ pc \in {"verify", "run"} -> "ToolboxToolInvocation"
      [] OTHER -> "DatabaseQueryExecution"

Ended(r, pc, cause) ==
    [request[r] EXCEPT !.pc = "failed", !.reply = Null, !.cause = cause,
                       !.error = RaisedFor(pc, cause)]

(* Leaving the block of the lock, if r holds it.                           *)
Released(r) == IF lock = r THEN Null ELSE lock

SchemaCacheValid_NeverExpires ==
    cache # Null

(* _schema_cache_valid.                                                    *)
SchemaCacheValid ==
    cache # Null /\ CacheSeconds > 0 /\ now - cache.at < CacheSeconds

(* After search_schema returned: the caller's answer, or the validation of *)
(* its statement.                                                          *)
Found(r, entry) ==
    [request[r] EXCEPT !.pc = IF request[r].op = "execute" THEN "validate" ELSE "done",
                       !.reply = entry.relations, !.age = now - entry.taken]

----------------------------------------------------------------------------
Begin(r, op, sql) ==
    /\ request[r].pc \in {"idle", "done", "failed"}
    /\ request' = [request EXCEPT ![r] =
           [Idle EXCEPT !.op = op, !.sql = sql,
                        !.pc = IF op = "health" THEN "ping" ELSE "search", !.since = now]]
    /\ UNCHANGED <<readOnly, schema, cache, verified, lock, now, proved>>

(* A statement with bound parameters is refused before anything is asked.  *)
RefuseParameters(r) ==
    /\ request[r].pc \in {"idle", "done", "failed"}
    /\ request' = [request EXCEPT ![r] =
           [Idle EXCEPT !.op = "execute", !.pc = "failed", !.cause = "parameters",
                        !.error = RaisedFor("begin", "parameters")]]
    /\ UNCHANGED <<readOnly, schema, cache, verified, lock, now, proved>>

(* health_check: the server answers, then the role is proved, without the  *)
(* lock.                                                                   *)
Ping(r) ==
    /\ request[r].pc = "ping"
    /\ \/ request' = [request EXCEPT ![r].pc = IF verified THEN "done" ELSE "verify",
                                     ![r].since = now]
       \/ \E cause \in {"timeout", "unreachable"} :
             request' = [request EXCEPT ![r] = Ended(r, "ping", cause)]
    /\ UNCHANGED <<readOnly, schema, cache, verified, lock, now, proved>>

(* search_schema: the cache, else the lock, then the cache again.          *)
Search(r) ==
    /\ request[r].pc = "search"
    /\ request' = [request EXCEPT ![r] =
           IF SchemaCacheValid THEN Found(r, cache) ELSE [@ EXCEPT !.pc = "wait"]]
    /\ UNCHANGED <<readOnly, schema, cache, verified, lock, now, proved>>

Enter(r) ==
    /\ request[r].pc = "wait"
    /\ lock = Null
    /\ \/ /\ SchemaCacheValid
          /\ request' = [request EXCEPT ![r] = Found(r, cache)]
          /\ UNCHANGED lock
       \/ /\ ~SchemaCacheValid
          /\ lock' = r
          /\ request' = [request EXCEPT ![r].pc = IF verified THEN "read" ELSE "verify",
                                        ![r].since = now]
    /\ UNCHANGED <<readOnly, schema, cache, verified, now, proved>>

(* The server answers an invocation from the state it has then.            *)
Serve(r) ==
    /\ request[r].pc \in {"verify", "read"}
    /\ request[r].reply = Null
    /\ request' = [request EXCEPT ![r].reply =
           IF request[r].pc = "verify" THEN [read_only |-> readOnly]
           ELSE [relations |-> schema, taken |-> now]]
    /\ UNCHANGED <<readOnly, schema, cache, verified, lock, now, proved>>

Verified_OnAnyReply(r) ==
    /\ request[r].pc = "verify" /\ request[r].reply # Null
    /\ verified' = TRUE
    /\ request' = [request EXCEPT ![r].pc = IF request[r].op = "health" THEN "done" ELSE "read",
                                  ![r].reply = Null, ![r].since = now]
    /\ UNCHANGED <<readOnly, schema, cache, lock, now, proved>>

(* _ensure_read_only: only a reply that says so proves the role.           *)
Verified(r) ==
    /\ request[r].pc = "verify" /\ request[r].reply # Null
    /\ \/ /\ request[r].reply.read_only
          /\ verified' = TRUE
          /\ request' = [request EXCEPT
                 ![r].pc = IF request[r].op = "health" THEN "done" ELSE "read",
                 ![r].reply = Null, ![r].since = now]
          /\ UNCHANGED lock
       \/ /\ ~request[r].reply.read_only
          /\ request' = [request EXCEPT ![r] = Ended(r, "verify", "writable")]
          /\ lock' = Released(r)
          /\ UNCHANGED verified
    /\ UNCHANGED <<readOnly, schema, cache, now, proved>>

(* The reading is stored under the time it is stored at.                   *)
Store(r) ==
    /\ request[r].pc = "read" /\ request[r].reply # Null
    /\ LET entry == [relations |-> request[r].reply.relations, at |-> now,
                     taken |-> request[r].reply.taken]
       IN  /\ cache' = entry
           /\ request' = [request EXCEPT ![r] = Found(r, entry)]
    /\ lock' = Released(r)
    /\ UNCHANGED <<readOnly, schema, verified, now, proved>>

(* execute_readonly: the statement may read the relations found.           *)
Validate(r) ==
    /\ request[r].pc = "validate"
    /\ request' = [request EXCEPT ![r] =
           IF request[r].sql \subseteq request[r].reply
           THEN [@ EXCEPT !.pc = "run", !.since = now]
           ELSE Ended(r, "validate", "unknown relation")]
    /\ UNCHANGED <<readOnly, schema, cache, verified, lock, now, proved>>

Run(r) ==
    /\ request[r].pc = "run"
    /\ \E records \in Results :
          LET bounded == BoundedRows(records)
          IN  request' = [request EXCEPT ![r] =
                  IF bounded.cut /\ bounded.rows = <<>> THEN Ended(r, "run", "too large")
                  ELSE [@ EXCEPT !.pc = "done", !.rows = bounded.rows, !.cut = bounded.cut]]
    /\ UNCHANGED <<readOnly, schema, cache, verified, lock, now, proved>>

(* An invocation fails on the way or at the tool.                          *)
InvocationFails(r) ==
    /\ request[r].pc \in {"verify", "read", "run"}
    /\ \E cause \in {"timeout", "unreachable", "tool error", "malformed"} :
          request' = [request EXCEPT ![r] = Ended(r, request[r].pc, cause)]
    /\ lock' = Released(r)
    /\ UNCHANGED <<readOnly, schema, cache, verified, now, proved>>

----------------------------------------------------------------------------
(* The database changes by itself.                                         *)
AlterRole ==
    /\ readOnly' = ~readOnly
    /\ proved' = (proved \/ readOnly')
    /\ UNCHANGED <<schema, cache, verified, lock, request, now>>

AlterSchema ==
    /\ schema' \in Schemas \ {schema}
    /\ UNCHANGED <<readOnly, cache, verified, lock, request, now, proved>>

(* No invocation outlasts its timeout.                                     *)
Tick ==
    /\ now < MaxTime
    /\ \A r \in Requests :
          request[r].pc \in {"ping", "verify", "read", "run"} =>
              now - request[r].since < TimeoutSeconds
    /\ now' = now + 1
    /\ UNCHANGED <<readOnly, schema, cache, verified, lock, request, proved>>

ToolboxNext ==
    \/ \E r \in Requests :
          \/ \E op \in {"health", "search"} : Begin(r, op, {})
          \/ \E sql \in Statements : Begin(r, "execute", sql)
          \/ RefuseParameters(r)
          \/ Ping(r) \/ Search(r) \/ Enter(r) \/ Serve(r) \/ Verified(r) \/ Store(r)
          \/ Validate(r) \/ Run(r) \/ InvocationFails(r)
    \/ AlterRole \/ AlterSchema \/ Tick

ToolboxSpec == ToolboxInit /\ [][ToolboxNext]_toolboxVars

----------------------------------------------------------------------------
(* Nothing but the proof itself is asked of a database whose role was      *)
(* never unable to write, and a schema is used no longer than it is cached *)
(* and was on its way, whoever read it; one that is not cached, no longer  *)
(* than it was on its way (_ensure_read_only, search_schema).              *)
ReadsAreProved ==
    /\ verified => proved
    /\ cache # Null => verified
    /\ \A r \in Requests :
          /\ request[r].pc \in {"read", "validate", "run"} => verified
          /\ \/ request[r].age <= TimeoutSeconds
             \/ request[r].age < CacheSeconds + TimeoutSeconds

(* One request at a time reads the schema, and it holds the lock; a lock   *)
(* is not left behind (search_schema).                                     *)
OneReader ==
    \A r \in Requests :
        (lock = r) <=> \/ request[r].pc = "read"
                       \/ request[r].pc = "verify" /\ request[r].op # "health"

(* A result is cut only where the next row would not have fitted, and a    *)
(* failure is told as worth retrying exactly when the transport failed     *)
(* (bounded_rows, normalize_error).                                        *)
ToldTruly ==
    \A r \in Requests :
        /\ Bytes(request[r].rows) <= MaxBytes
        /\ request[r].cut => request[r].rows # <<>>
        /\ request[r].pc = "failed" =>
              (NormalizeError(request[r].error).retryable
                  <=> request[r].cause \in {"timeout", "unreachable"})
=============================================================================
