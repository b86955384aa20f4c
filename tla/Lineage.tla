------------------------------ MODULE Lineage ------------------------------
(***************************************************************************)
(* Where an answer says it came from (lineage_from_sql in agent/lineage.py *)
(* and its part of _answer_trace in routes.py).                            *)
(*                                                                         *)
(* A parsed statement is [ctes, sources, columns]: the names of its common *)
(* table expressions; its table references in the order of the walk, each  *)
(* [id, name, alias] with the alias the name where none is given; its      *)
(* column references, each [owner, name, from], where from is the id the   *)
(* reference means by the rules of SQL and which the code does not see.    *)
(***************************************************************************)
EXTENDS Naturals, Sequences, FiniteSets

(* The references that are not to a common table expression.               *)
RealSources(statement) ==
    {i \in DOMAIN statement.sources :
        {statement.sources[i].id, statement.sources[i].name} \cap statement.ctes = {}}

Real(statement) == {statement.sources[i].id : i \in RealSources(statement)}

(* alias_to_table[owner]: the last reference with that alias or name.      *)
Owners(statement, owner) ==
    LET named == {i \in RealSources(statement) :
                     owner \in {statement.sources[i].alias, statement.sources[i].name}}
        last == {i \in named : \A j \in named : j <= i}
    IN  {statement.sources[i].id : i \in last}

Attributed_FirstTable(statement, column) ==
    IF column.owner # "" /\ Owners(statement, column.owner) # {}
    THEN Owners(statement, column.owner)
    ELSE {CHOOSE id \in Real(statement) : TRUE}

(* The table a column is attributed to: none where the code gives up.      *)
Attributed(statement, column) ==
    IF column.owner # "" /\ Owners(statement, column.owner) # {}
    THEN Owners(statement, column.owner)
    ELSE IF Cardinality(Real(statement)) = 1 THEN Real(statement) ELSE {}

(* The tables with their columns, and whether the answer claims that every *)
(* column is accounted for.                                                *)
LineageFromSql(statement) ==
    LET columns == [id \in Real(statement) |->
                       {c.name : c \in {c \in statement.columns :
                                           id \in Attributed(statement, c)}}]
    IN  [columns |-> columns,
         column_level |-> /\ Real(statement) # {}
                          /\ \A id \in Real(statement) : columns[id] # {}
                          /\ \A c \in statement.columns : Attributed(statement, c) # {}]

----------------------------------------------------------------------------
(* Every base table that is read is named, a column only under the table   *)
(* it is read from, and a claim of column level leaves none out.           *)
Exact(statement) ==
    LET lineage == LineageFromSql(statement)
        base == {c.from : c \in statement.columns} \ statement.ctes
    IN  /\ base \subseteq DOMAIN lineage.columns
        /\ \A id \in DOMAIN lineage.columns : \A name \in lineage.columns[id] :
              \E c \in statement.columns : c.from = id /\ c.name = name
        /\ lineage.column_level =>
              \A c \in statement.columns : c.from \notin statement.ctes => c.name \in lineage.columns[c.from]

(* One name never stands for two relations of the statement.               *)
Plain(statement) ==
    /\ statement.ctes = {}
    /\ \A i, j \in DOMAIN statement.sources :
          LET s == statement.sources[i]  u == statement.sources[j]
          IN  s.id # u.id => {s.alias, s.name} \cap {u.alias, u.name} = {}

(* For a statement without common table expressions in which no name       *)
(* stands for two relations, the lineage of an answer is exact.            *)
LineageIsRead(statement) ==
    Plain(statement) => Exact(statement)

(* "Columns are attributed only when the reference says which table it     *)
(* came from" (lineage.py:122), whatever the statement.                    *)
LineageIsExact(statement) ==
    Exact(statement)
=============================================================================
