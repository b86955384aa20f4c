----------------------------- MODULE Migrations -----------------------------
(***************************************************************************)
(* Bringing the knowledge database up to date at startup                   *)
(* (app/knowledge/migrations.py, app/knowledge/database.py). Every process *)
(* of a rolling deployment runs the migrations of its own release against  *)
(* the one shared database, without a lock: the primary key of             *)
(* schema_migrations is all that keeps them apart.                         *)
(***************************************************************************)
EXTENDS Naturals, Sequences, FiniteSets

CONSTANTS
    Processes,   \* processes that start, stop and start again
    Releases,    \* releases: release -> sequence of [version, checksum], sorted
    MaxStarts    \* bound on the starts of a process

VARIABLES
    log,      \* rows of knowledge.schema_migrations, in commit order
    schema,   \* the migrations whose statements took effect, in that order
    proc      \* the processes

mvars == <<log, schema, proc>>

Down(starts) == [pc |-> "down", release |-> <<>>, seen |-> {}, at |-> 1, starts |-> starts]

MigrationsInit == log = <<>> /\ schema = <<>> /\ proc = [p \in Processes |-> Down(0)]

Rows(rows) == {rows[i] : i \in DOMAIN rows}

(* discover_migrations, in initialize: the files of the release, by name. *)
Start(p) ==
    /\ proc[p].pc = "down"
    /\ proc[p].starts < MaxStarts
    /\ \E r \in DOMAIN Releases :
         proc' = [proc EXCEPT ![p] = [Down(@.starts + 1) EXCEPT !.pc = "read",
                                                                !.release = Releases[r]]]
    /\ UNCHANGED <<log, schema>>

(* apply_migrations reads the history once. *)
ReadHistory(p) ==
    /\ proc[p].pc = "read"
    /\ proc' = [proc EXCEPT ![p].pc = "apply", ![p].seen = Rows(log)]
    /\ UNCHANGED <<log, schema>>

File(p) == proc[p].release[proc[p].at]

Recorded(p) == {row \in proc[p].seen : row.version = File(p).version}

(* A migration recorded with this checksum is passed over ... *)
Skip(p) ==
    /\ proc[p].pc = "apply"
    /\ proc[p].at <= Len(proc[p].release)
    /\ File(p) \in Recorded(p)
    /\ proc' = [proc EXCEPT ![p].at = @ + 1]
    /\ UNCHANGED <<log, schema>>

(* ... and with another one refused: the process does not come up. *)
RefuseEdited(p) ==
    /\ proc[p].pc = "apply"
    /\ proc[p].at <= Len(proc[p].release)
    /\ Recorded(p) # {}
    /\ File(p) \notin Recorded(p)
    /\ proc' = [proc EXCEPT ![p] = Down(@.starts)]
    /\ UNCHANGED <<log, schema>>

(* A slip: the row is inserted after the transaction of the statements. *)
Apply_RecordsAfterwards(p) ==
    /\ proc[p].pc = "apply"
    /\ proc[p].at <= Len(proc[p].release)
    /\ Recorded(p) = {}
    /\ \A row \in Rows(log) : row.version # File(p).version
    /\ schema' = Append(schema, File(p))
    /\ \/ /\ log' = Append(log, File(p))
          /\ proc' = [proc EXCEPT ![p].at = @ + 1]
       \/ /\ UNCHANGED log
          /\ proc' = [proc EXCEPT ![p] = Down(@.starts)]

(* One transaction runs the statements and inserts the row, unless another
   process has inserted it since the history was read; the process may stop
   although the transaction committed. *)
Apply(p) ==
    /\ proc[p].pc = "apply"
    /\ proc[p].at <= Len(proc[p].release)
    /\ Recorded(p) = {}
    /\ \A row \in Rows(log) : row.version # File(p).version
    /\ schema' = Append(schema, File(p))
    /\ log' = Append(log, File(p))
    /\ \/ proc' = [proc EXCEPT ![p].at = @ + 1]
       \/ proc' = [proc EXCEPT ![p] = Down(@.starts)]

(* The pool is open and the schema up to date. *)
Ready(p) ==
    /\ proc[p].pc = "apply"
    /\ proc[p].at > Len(proc[p].release)
    /\ proc' = [proc EXCEPT ![p].pc = "ready"]
    /\ UNCHANGED <<log, schema>>

(* initialize fails (no connection, a statement that raises, a key taken
   meanwhile: the transaction leaves nothing), the process stops (close), or
   it crashes, at any point. *)
Stop(p) ==
    /\ proc[p].pc # "down"
    /\ proc' = [proc EXCEPT ![p] = Down(@.starts)]
    /\ UNCHANGED <<log, schema>>

MigrationsNext ==
    \E p \in Processes :
        \/ Start(p) \/ ReadHistory(p) \/ Skip(p) \/ RefuseEdited(p)
        \/ Apply(p) \/ Ready(p) \/ Stop(p)

MigrationsSpec == MigrationsInit /\ [][MigrationsNext]_mvars

-----------------------------------------------------------------------------
(* The recorded history is the schema the database has: every migration took
   effect once, whole and in version order, whichever processes raced,
   crashed or were rolled back; and a process that is up runs on exactly the
   files it was released with, an edited one never (migrations.py:79-125). *)
HistoryIsTheSchema ==
    /\ log = schema
    /\ \A i, j \in DOMAIN log : i < j => log[i].version < log[j].version
    /\ \A p \in Processes :
         proc[p].pc = "ready" => Rows(proc[p].release) \subseteq Rows(log)

-----------------------------------------------------------------------------
(* The inductive invariant.  A release has each version once, in order
   (discover_migrations), and adds files to those of the releases before it
   ("Add a new migration instead of editing history", migrations.py:110): the
   n-th file of every release has one version.  Its content may be edited. *)
Migration == [version : Nat, checksum : Nat]

ReleasesGrow ==
    /\ \A r \in DOMAIN Releases :
         /\ Releases[r] \in Seq(Migration)
         /\ \A i, j \in DOMAIN Releases[r] :
              i < j => Releases[r][i].version < Releases[r][j].version
    /\ \A r, s \in DOMAIN Releases : \A i \in DOMAIN Releases[r] \cap DOMAIN Releases[s] :
         Releases[r][i].version = Releases[s][i].version

(* The n-th row recorded is an n-th file, with its content or an edited one. *)
LogSound ==
    /\ log \in Seq(Migration)
    /\ schema = log
    /\ \A i \in DOMAIN log : \E r \in DOMAIN Releases :
         i \in DOMAIN Releases[r] /\ log[i].version = Releases[r][i].version

Process ==
    [pc : {"down", "read", "apply", "ready"}, release : {<<>>} \cup Rows(Releases),
     seen : SUBSET Migration, at : Nat \ {0}, starts : Nat]

(* A process has seen nothing that is not recorded, and the files it is past
   are recorded, each in its place. *)
ProcSound(q) ==
    /\ q.seen \subseteq Rows(log)
    /\ q.pc # "down" => q.release \in Rows(Releases)
    /\ q.pc \in {"down", "read"} => q.at = 1
    /\ q.pc = "ready" => q.at > Len(q.release)
    /\ \A i \in DOMAIN q.release : i < q.at => i \in DOMAIN log /\ log[i] = q.release[i]

MigrationsInv ==
    /\ LogSound
    /\ proc \in [Processes -> Process]
    /\ \A p \in Processes : ProcSound(proc[p])
=============================================================================
