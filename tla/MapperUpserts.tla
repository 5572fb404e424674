---------------------------- MODULE MapperUpserts ----------------------------
(***************************************************************************)
(* BaseMapper.Upsert in the three forms the dialects know (ON CONFLICT, ON *)
(* DUPLICATE KEY, MERGE), the statements by primary key, and those the     *)
(* default injector registers.                                             *)
(***************************************************************************)
EXTENDS MapperStatements

Capabilities(dialect) ==
    CASE dialect = "postgres"  -> [upsert |-> "on_conflict", lock |-> "for_update",
                                   skipLocked |-> TRUE, noWait |-> TRUE, key |-> "returning"]
      [] dialect \in {"mysql", "mariadb"} ->
                                  [upsert |-> "on_duplicate", lock |-> "for_update",
                                   skipLocked |-> FALSE, noWait |-> FALSE, key |-> "last_insert_id"]
      [] dialect = "sqlite"    -> [upsert |-> "on_conflict", lock |-> "none",
                                   skipLocked |-> FALSE, noWait |-> FALSE, key |-> "last_insert_id"]
      [] dialect = "sqlserver" -> [upsert |-> "merge", lock |-> "hints",
                                   skipLocked |-> FALSE, noWait |-> FALSE, key |-> "output"]
      [] dialect = "oracle"    -> [upsert |-> "merge", lock |-> "for_update",
                                   skipLocked |-> FALSE, noWait |-> TRUE, key |-> "returning_into"]
      [] OTHER                 -> [upsert |-> "none", lock |-> "none",
                                   skipLocked |-> FALSE, noWait |-> FALSE, key |-> "none"]

Idents(cols) == Joined([i \in DOMAIN cols |-> <<Ident(cols[i].col)>>], ",")
FieldMarks(cols) == Joined([i \in DOMAIN cols |-> <<Param(FieldName(cols[i].col))>>], ",")
Parens(toks) == <<Word("(")>> \o toks \o <<Word(")")>>

(* fields named by the caller: mapped, not empty, none twice. *)
ByName(entity, names) == [i \in DOMAIN names |-> Which(entity, LAMBDA c : c.col = names[i])[1]]
NamesMapped(entity, names) ==
    /\ \A i \in DOMAIN names : \E j \in DOMAIN entity : entity[j].col = names[i]
    /\ \A i, j \in DOMAIN names : names[i] = names[j] => i = j
Updatable(c) == ~c.pk /\ ~c.soft /\ ~c.version /\ ~c.created

(* A generated key joins the insert only when it is a conflict column with *)
(* a value; every other column when its insert strategy takes its value.   *)
UpsertInsertColumns(entity, row, conflicts) ==
    LET Forced(c) == c.pk /\ c.col \in {conflicts[i] : i \in DOMAIN conflicts}
                          /\ row[c.col] \notin {Nil, Zero, Empty}
    IN Which(entity, LAMBDA c :
           /\ ~(c.pk /\ c.auto /\ ~Forced(c))
           /\ Forced(c) \/ IncludedByStrategy(row[c.col], EffectiveStrategy(c.insert, "", "ALWAYS")))

InsertInto(cols) ==
    <<Word("INSERT INTO")>> \o Table \o Parens(Idents(cols))
        \o <<Word("VALUES")>> \o Parens(FieldMarks(cols))

OnConflict(inserts, conflicts, updates) ==
    InsertInto(inserts) \o <<Word("ON CONFLICT")>> \o Parens(Idents(conflicts))
        \o (IF updates = <<>> THEN <<Word("DO NOTHING")>>
            ELSE <<Word("DO UPDATE SET")>> \o Joined(FieldSets(updates), ","))

OnDuplicateKey(inserts, updates) ==
    InsertInto(inserts) \o <<Word("ON DUPLICATE KEY UPDATE")>> \o Joined(FieldSets(updates), ",")

(* The MERGE joins the table with a one-row source of the insert columns;  *)
(* its conditions and assignments name columns of that source.             *)
Target(c) == <<Word("target."), Ident(c.col)>>
Source(c) == <<Word("source."), Ident(c.col)>>
PairsSwapped(cols, sep) ==            \* mutant: the two sides the wrong way round
    Joined([i \in DOMAIN cols |-> Source(cols[i]) \o <<Word("=")>> \o Target(cols[i])], sep)
Pairs(cols, sep) ==
    Joined([i \in DOMAIN cols |-> Target(cols[i]) \o <<Word("=")>> \o Source(cols[i])], sep)

Merge(dialect, inserts, conflicts, updates) ==
    <<Word("MERGE INTO")>> \o Table \o <<Word("USING")>>
        \o Parens(<<Word("SELECT")>>
                  \o Joined([i \in DOMAIN inserts |->
                                <<Param(FieldName(inserts[i].col)), Word("AS"), Ident(inserts[i].col)>>], ",")
                  \o (IF dialect = "oracle" THEN <<Word("FROM dual")>> ELSE <<>>))
        \o <<Word("ON")>> \o Parens(Pairs(conflicts, "AND"))
        \o (IF updates = <<>> THEN <<>>
            ELSE <<Word("WHEN MATCHED THEN UPDATE SET")>> \o Pairs(updates, ","))
        \o <<Word("WHEN NOT MATCHED THEN INSERT")>> \o Parens(Idents(inserts))
        \o <<Word("VALUES")>> \o Parens(Joined([i \in DOMAIN inserts |-> Source(inserts[i])], ","))
        \o (IF dialect = "sqlserver" THEN <<Word(";")>> ELSE <<>>)

Upsert(entity, row, conflictNames, updateNames, dialect) ==
    LET style     == Capabilities(dialect).upsert
        conflicts == ByName(entity, conflictNames)
        updates   == ByName(entity, updateNames)
        inserts   == UpsertInsertColumns(entity, row, conflictNames)
        args      == FieldArgs(updates, row) @@ FieldArgs(inserts, row)
    IN IF \/ ~NamesMapped(entity, conflictNames) \/ ~NamesMapped(entity, updateNames)
          \/ \E i \in DOMAIN updates : ~Updatable(updates[i])
          \/ inserts = <<>>
          \/ style = "none"
          \/ style \in {"on_conflict", "merge"} /\ conflicts = <<>>
          \/ style = "on_duplicate" /\ updates = <<>>
       THEN Refused
       ELSE Statement("insert",
                      CASE style = "on_conflict"  -> OnConflict(inserts, conflicts, updates)
                        [] style = "on_duplicate" -> OnDuplicateKey(inserts, updates)
                        [] style = "merge"        -> Merge(dialect, inserts, conflicts, updates),
                      args, FALSE)

----------------------------------------------------------------------------
(* Statements by primary key, of the mapper and of the injector: only live *)
(* rows are read, and deleted, where the entity has a soft-delete column.  *)
ByKey(entity, name) == <<Ident(Primary(entity)), Word("="), Param(IdName)>>
                       \o (IF HasSoft(entity) THEN <<Word("AND")>> \o LiveCondition(entity, name)
                           ELSE <<>>)

SelectByID(entity, id) ==
    Statement("select",
              <<Word("SELECT")>> \o Joined([i \in DOMAIN Selectable(entity) |->
                                               <<Ident(Selectable(entity)[i])>>], ",")
                  \o <<Word("FROM")>> \o Table \o <<Word("WHERE")>> \o ByKey(entity, LiveName),
              LiveArgs(entity, LiveName) @@ (IdName :> id), FALSE)

PhysicalDeleteByID(entity, id) ==
    Statement("delete", <<Word("DELETE FROM")>> \o Table
                            \o <<Word("WHERE"), Ident(Primary(entity)), Word("="), Param(IdName)>>,
              IdName :> id, FALSE)

DeleteByID(entity, id) ==
    IF ~HasSoft(entity) THEN PhysicalDeleteByID(entity, id)
    ELSE Statement("update",
                   <<Word("UPDATE")>> \o Table
                       \o <<Word("SET"), Ident(SoftOf(entity)[1].col), Word("="), Param(DeletedName),
                            Word("WHERE")>> \o ByKey(entity, LiveName),
                   (DeletedName :> Deleted @@ LiveName :> Live) @@ (IdName :> id), FALSE)
============================================================================
