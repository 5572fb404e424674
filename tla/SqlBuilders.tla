---------------------------- MODULE SqlBuilders ----------------------------
(***************************************************************************)
(* The SQL builders a provider writes statements with.  Every identifier   *)
(* and every value becomes an argument of its own, numbered as it is met;  *)
(* identifiers are written as ${name}, values as #{name}.                  *)
(***************************************************************************)
EXTENDS MapperUpserts

Identifier(st, c) ==
    IF c \in BadColumns THEN Fail(st)
    ELSE [st EXCEPT !.sql = Append(@, RawMark(BuilderName(st.seq))),
                    !.args = (BuilderName(st.seq) :> IdentArg(c)) @@ @,
                    !.seq = @ + 1]

Value(st, v) == Bind(st, BuilderName, v)

Each(st, items, sep, Step(_, _)) ==
    FoldLeft(LAMBDA s, x : JoinedTo(s.sql, sep, Step(Clear(s), x)), Clear(st), items)

(* A clause of its own: its keyword, then what it lists; nothing if that   *)
(* is empty.                                                               *)
Clause(st, keyword, Step(_)) == PutBehind(st.sql, Prefixed(keyword, Step(Clear(st))))

Finished(command, st) == Statement(command, st.sql, st.args, st.err)

IdentifierList(st, cols, fallback) ==
    IF cols = <<>> THEN Emit(Clear(st), fallback)
    ELSE Each(st, cols, ",", Identifier)

IdentifierClause(st, keyword, cols) ==
    Clause(st, keyword, LAMBDA s : Each(s, cols, ",", Identifier))

----------------------------------------------------------------------------
(* Conditions: a comparison, a raw fragment, IN over at least one value,   *)
(* BETWEEN, and the unary ones.                                            *)
BuilderCondition(st, c) ==
    CASE c.kind = "raw" -> RenderRaw(st, c.sql, c.args)
      [] c.kind = "in" ->
            IF c.value.items = <<>> THEN Fail(st)
            ELSE Words(BindAll(Emit(Identifier(st, c.col), <<Word("IN"), Word("(")>>),
                               BuilderName, c.value.items), ")")
      [] c.kind = "between" ->
            Value(Words(Value(Words(Identifier(st, c.col), "BETWEEN"), c.value.left), "AND"),
                  c.value.right)
      [] c.kind = "unary" -> Words(Identifier(st, c.col), c.op)
      [] OTHER -> Value(Words(Identifier(st, c.col), "="), c.value)

BuilderConditions(st, conds) == Each(st, conds, "AND", BuilderCondition)
WhereClause(b, st) == Clause(st, "WHERE", LAMBDA s : BuilderConditions(s, b.conds))

JoinStep(st, j) ==
    LET On(table) == PutBehind(table.sql \o <<Word("ON")>>, NotEmpty(RenderRaw(Clear(table), j.on, j.args)))
    IN On(Identifier(Words(st, j.kind), j.table))
RECURSIVE JoinClause(_, _)
JoinClause(st, joins) ==
    IF joins = <<>> THEN st ELSE JoinClause(JoinStep(st, Head(joins)), Tail(joins))

(* FOR UPDATE at the end, or, where the dialect locks by hints, right      *)
(* after the table; an option the dialect lacks is an error.               *)
RowLock(lock) ==
    LET can == Capabilities(lock.dialect)
    IN CASE can.lock = "hints" /\ ~lock.skip /\ ~lock.noWait ->
                [ok |-> TRUE, atTable |-> <<Word("WITH (UPDLOCK, ROWLOCK)")>>, atEnd |-> <<>>]
         [] can.lock = "for_update" /\ (lock.skip => can.skipLocked) /\ (lock.noWait => can.noWait) ->
                [ok |-> TRUE, atTable |-> <<>>,
                 atEnd |-> <<Word("FOR UPDATE")>>
                           \o (IF lock.skip THEN <<Word("SKIP LOCKED")>> ELSE <<>>)
                           \o (IF lock.noWait THEN <<Word("NOWAIT")>> ELSE <<>>)]
         [] OTHER -> [ok |-> FALSE, atTable |-> <<>>, atEnd |-> <<>>]
NoRowLock == [ok |-> TRUE, atTable |-> <<>>, atEnd |-> <<>>]

NumberClause(st, keyword, given) == IF given = <<>> THEN st ELSE Value(Words(st, keyword), given[1])

BuildSelect(b) ==
    LET lock   == IF b.lock = <<>> THEN NoRowLock ELSE RowLock(b.lock[1])
        cols   == IdentifierList(Start(0), b.selects, <<Word("*")>>)
        from   == Emit(Identifier([cols EXCEPT !.sql = <<Word("SELECT")>> \o @ \o <<Word("FROM")>>],
                                  b.table), lock.atTable)
        joined == JoinClause(from, b.joins)
        where  == WhereClause(b, joined)
        group  == IdentifierClause(where, "GROUP BY", b.groups)
        having == Clause(group, "HAVING",
                         LAMBDA s : Each(s, b.havings, "AND", LAMBDA t, h : RenderRaw(t, h.sql, h.args)))
        order  == Clause(having, "ORDER BY",
                         LAMBDA s : Each(s, b.orders, ",", LAMBDA t, o :
                             Words(Identifier(t, o.col), IF o.desc THEN "DESC" ELSE "ASC")))
        limit  == NumberClause(order, "LIMIT", b.limit)
        offset == NumberClause(limit, "OFFSET", b.offset)
        locked == IF lock.ok THEN Emit(offset, lock.atEnd) ELSE Fail(offset)
    IN Finished("select", SanitizeLast(locked, b.last))

----------------------------------------------------------------------------
(* INSERT INTO table (columns) VALUES (values): a column is numbered, then *)
(* its value; sql holds the values, cols the columns so far.               *)
InsertPairs(st, table, sets) ==
    LET Comma(text) == IF text = <<>> THEN <<>> ELSE Append(text, Word(","))
        Next1(s, text) == [s EXCEPT !.cols = s.sql, !.sql = text]
        Pair(s, a) == Value(Next1(Identifier([s EXCEPT !.sql = Comma(s.cols)], a.col), Comma(s.sql)), a.value)
        Texts(lead, s) == [s EXCEPT !.sql = lead \o Parens(s.cols) \o <<Word("VALUES")>> \o Parens(@)]
        Into(into) == Texts(into.sql, FoldLeft(Pair, [cols |-> <<>>] @@ Clear(into), sets))
    IN Into(Identifier(Words(st, "INSERT INTO"), table))

BuildInsert(b) ==
    IF b.sets = <<>> THEN Refused
    ELSE Finished("insert", IdentifierClause(InsertPairs(Start(0), b.table, b.sets), "RETURNING", b.returnings))

UnguardedWhere(b, st, command) ==     \* mutant: RequireWhere counts conditions, not text
    LET Required(where) == IF b.requireWhere /\ b.conds = <<>> THEN Fail(where) ELSE where
    IN Finished(command, IdentifierClause(Required(WhereClause(b, st)), "RETURNING", b.returnings))

(* A statement that asks for WHERE and has none is refused. *)
Guarded(b, st, command) ==
    LET Required(where) == IF b.requireWhere /\ where.sql = st.sql THEN Fail(where) ELSE where
    IN Finished(command, IdentifierClause(Required(WhereClause(b, st)), "RETURNING", b.returnings))

BuildUpdateSQL(b) ==
    LET table == Identifier(Words(Start(0), "UPDATE"), b.table)
        set   == Clause(table, "SET", LAMBDA s : Each(s, b.sets, ",", LAMBDA t, a :
                            Value(Words(Identifier(t, a.col), "="), a.value)))
    IN IF b.sets = <<>> THEN Refused ELSE Guarded(b, set, "update")

BuildDelete(b) == Guarded(b, Identifier(Words(Start(0), "DELETE FROM"), b.table), "delete")

(* Several rows in one INSERT; Oracle spells it INSERT ALL, with the same  *)
(* column arguments in every branch.  A row without one of the columns is  *)
(* an error.                                                               *)
BuildRows(b, dialect) ==
    LET table == Identifier(Start(0), b.table)
        cols  == IdentifierList(table, b.selects, <<>>)
        into  == table.sql \o Parens(cols.sql)
        RowValues(st, row) ==
            IF \E i \in DOMAIN b.selects : b.selects[i] \notin DOMAIN row THEN Fail(st)
            ELSE [Each(st, b.selects, ",", LAMBDA t, c : Value(t, row[c])) EXCEPT !.sql = Parens(@)]
        Branch(s, row) == PutBehind(s.sql \o <<Word("INTO")>> \o into \o <<Word("VALUES")>>,
                                 RowValues(Clear(s), row))
    IN IF b.selects = <<>> \/ b.rows = <<>> THEN Refused
       ELSE IF dialect = "oracle"
       THEN Finished("insert", Words(FoldLeft(Branch, [cols EXCEPT !.sql = <<Word("INSERT ALL")>>], b.rows),
                                     "SELECT 1 FROM dual"))
       ELSE Finished("insert", PutBehind(<<Word("INSERT INTO")>> \o into \o <<Word("VALUES")>>,
                                      Each(cols, b.rows, ",", RowValues)))

----------------------------------------------------------------------------
(* BuildUpsertSQL: the insert, then what happens on a conflict.  Every     *)
(* mention of a column is an argument of its own.                          *)
UpsertInsert(b, st) ==
    InsertPairs(st, b.table, [i \in DOMAIN b.inserts |-> SetAssignment(b.inserts[i], b.values[b.inserts[i]])])

(* column = EXCLUDED.column, and column = VALUES(column). *)
Excluded(st, c) == Identifier(Emit(Identifier(st, c), <<Word("="), Word("EXCLUDED.")>>), c)
Inserted(st, c) == Words(Identifier(Emit(Identifier(st, c), <<Word("="), Word("VALUES(")>>), c), ")")

BuildOnConflict(b) ==
    LET Conflict(insert) == PutBehind(insert.sql \o <<Word("ON CONFLICT")>>,
                                   [Each(insert, b.conflicts, ",", Identifier) EXCEPT !.sql = Parens(@)])
        Updating(head) == IF b.updates = <<>> THEN Words(head, "DO NOTHING")
                         ELSE Clause(head, "DO UPDATE SET", LAMBDA s : Each(s, b.updates, ",", Excluded))
    IN IdentifierClause(Updating(Conflict(UpsertInsert(b, Start(0)))), "RETURNING", b.returnings)

BuildOnDuplicateKey(b) ==
    Clause(UpsertInsert(b, Start(0)), "ON DUPLICATE KEY UPDATE",
           LAMBDA s : Each(s, b.updates, ",", Inserted))

(* The source names every insert column; ON, UPDATE and INSERT refer to it.*)
Aliased(st, c) ==
    [Identifier(Clear(st), c) EXCEPT
        !.sql = st.sql \o <<Word("target.")>> \o @ \o <<Word("="), Word("source.")>> \o @]
BuildMerge(b, dialect) ==
    LET table  == Keep("table", Identifier(Parts({"table", "source", "on", "insert"}, 0), b.table))
        Projection(s, c) == LET col == Identifier(Clear(s), c)
                                val == Value(Clear(col), b.values[c])
                            IN [val EXCEPT !.sql = @ \o <<Word("AS")>> \o col.sql]
        source == Keep("source", Each(table, b.inserts, ",", Projection))
        on     == Keep("on", Each(source, b.conflicts, "AND", Aliased))
        insert == Keep("insert", Each(on, b.inserts, ",", Identifier))
        Sourced(toks) == FlattenSeq([i \in DOMAIN toks |-> IF toks[i] = Word(",") THEN <<toks[i]>>
                                                          ELSE <<Word("source."), toks[i]>>])
        Text(m) == [m EXCEPT
            !.sql = <<Word("MERGE INTO")>> \o m.table \o <<Word("USING"), Word("("), Word("SELECT")>> \o m.source
                    \o (IF dialect = "oracle" THEN <<Word("FROM dual")>> ELSE <<>>)
                    \o <<Word(")"), Word("ON")>> \o Parens(m.on)
                    \o (IF b.updates = <<>> THEN <<>> ELSE <<Word("WHEN MATCHED THEN UPDATE SET")>> \o @)
                    \o <<Word("WHEN NOT MATCHED THEN INSERT")>> \o Parens(m.insert)
                    \o <<Word("VALUES")>> \o Parens(Sourced(m.insert))
                    \o (IF dialect = "sqlserver" THEN <<Word(";")>> ELSE <<>>)]
    IN Text(Each(insert, b.updates, ",", Aliased))

BuildUpsert(b, dialect) ==
    LET style == Capabilities(dialect).upsert
    IN IF \/ style = "none" \/ b.inserts = <<>> \/ ~Range(b.inserts) \subseteq DOMAIN b.values
          \/ style \in {"on_conflict", "merge"} /\ b.conflicts = <<>>
          \/ style \in {"on_duplicate", "merge"} /\ b.returnings # <<>>
          \/ style = "on_duplicate" /\ b.updates = <<>>
       THEN Refused
       ELSE Finished("insert", CASE style = "on_conflict" -> BuildOnConflict(b)
                                 [] style = "on_duplicate" -> BuildOnDuplicateKey(b)
                                 [] style = "merge" -> BuildMerge(b, dialect))
============================================================================
