-------------------------- MODULE MapperStatements --------------------------
(***************************************************************************)
(* The statements BaseMapper and the statement injector write: the text    *)
(* and the named arguments each operation hands to the session.            *)
(*                                                                         *)
(* An entity is a sequence of columns [col, pk, auto, version, soft,       *)
(* created, hidden, order, insert, update, where]; order is the default    *)
(* order ("", "ASC", "DESC"), the last three are the field strategies (""    *)
(* leaves the default).  A row of it is a function from     *)
(* column names to argument values.  A field's argument is named after it. *)
(***************************************************************************)
EXTENDS Wrappers, Integers

Zero  == [kind |-> "zero"]        \* 0, false
Empty == [kind |-> "empty"]       \* "", an empty slice or map

FieldName(c) == <<"f", c>>
LiveName     == <<"b", "live">>
DeletedName  == <<"b", "deleted">>
IdName       == UserName("id")
Live         == Plain(<<"live">>)     \* logicNotDeleteValue
Deleted      == Plain(<<"deleted">>)  \* logicDeleteValue

Which(entity, Test(_)) == SelectSeq(entity, Test)
Names(cols) == [i \in DOMAIN cols |-> cols[i].col]
Primary(entity)  == Which(entity, LAMBDA c : c.pk)[1].col
SoftOf(entity)   == Which(entity, LAMBDA c : c.soft)
HasSoft(entity)  == SoftOf(entity) # <<>>
HasVersion(entity) == \E i \in DOMAIN entity : entity[i].version
VersionOf(entity) == Which(entity, LAMBDA c : c.version)[1].col

(* The column's strategy, else the global one, else the operation's own. *)
EffectiveStrategy(column, global, fallback) ==
    IF column # "" THEN column ELSE IF global # "" THEN global ELSE fallback

IncludedByStrategy(v, strategy) ==
    CASE strategy = "NEVER"     -> FALSE
      [] strategy = "NOT_NULL"  -> v # Nil
      [] strategy = "NOT_EMPTY" -> v \notin {Nil, Empty}
      [] strategy = "NOT_ZERO"  -> v \notin {Nil, Empty, Zero}
      [] OTHER -> TRUE

Table == <<Ident("t")>>
Statement(command, sql, args, err) ==
    [command |-> command, sql |-> sql, args |-> args, err |-> err, seq |-> 0]

LiveCondition(entity, name) ==
    <<Ident(SoftOf(entity)[1].col), Word("="), Param(name)>>

----------------------------------------------------------------------------
(* SELECT ... WHERE conditions AND live ..., with or without order and     *)
(* last; the live condition takes the number after the conditions'.        *)
Where(parts) == IF parts = <<>> THEN <<>> ELSE <<Word("WHERE")>> \o Joined(parts, "AND")

LiveParts(entity, name) ==
    IF HasSoft(entity) THEN <<LiveCondition(entity, name)>> ELSE <<>>
LiveArgs(entity, name) == IF HasSoft(entity) THEN name :> Live ELSE NoArgs

ReusedNumber(next) == WrapperName(0)     \* mutant: the live argument takes number 0
LiveNumber(next) == WrapperName(next)

DefaultOrder(entity) ==
    LET ordered == Which(entity, LAMBDA c : c.order # "")
    IN IF ordered = <<>> THEN <<>>
       ELSE <<Word("ORDER BY")>>
            \o Joined([i \in DOMAIN ordered |-> <<Ident(ordered[i].col), Word(ordered[i].order)>>], ",")

SelectOf(entity, projection, r, withOrder) ==      \* r: the wrapper's clauses
    LET live == LiveNumber(r.seq)
        conditions == (IF r.where = <<>> THEN <<>> ELSE <<r.where>>) \o LiveParts(entity, live)
        order == IF r.order = <<>> THEN DefaultOrder(entity) ELSE r.order
        tail == IF ~withOrder THEN <<>> ELSE order \o r.last
    IN [command |-> "select",
        sql |-> <<Word("SELECT")>> \o Joined([i \in DOMAIN projection |-> <<Ident(projection[i])>>], ",")
                \o <<Word("FROM")>> \o Table \o Where(conditions)
                \o r.group \o r.having \o tail,
        args |-> LiveArgs(entity, live) @@ r.args,
        seq |-> r.seq + (IF HasSoft(entity) THEN 1 ELSE 0),
        err |-> r.err \/ projection = <<>> \/ \E i \in DOMAIN projection : projection[i] \in BadColumns]
SelectProjection(entity, projection, w, withOrder) ==
    SelectOf(entity, projection, BuildQuery(w, 0), withOrder)

Selectable(entity) == Names(Which(entity, LAMBDA c : ~c.hidden))

SelectSQL(entity, w, withOrder) ==
    SelectProjection(entity, IF w.selects # <<>> THEN w.selects ELSE Selectable(entity),
                     w, withOrder)

SelectList(entity, w) == SelectSQL(entity, w, TRUE)

SelectObjs(entity, w) == SelectProjection(entity, <<Primary(entity)>>, w, TRUE)

Count(entity, w) ==
    [SelectSQL(entity, w, FALSE) EXCEPT
        !.sql = <<Word("SELECT"), Word("COUNT(*)"), Word("FROM"), Word("(")>> \o @
                \o <<Word(")"), Ident("goark_orm_count")>>]

(* ORDER BY outside every bracket. *)
ContainsOrderBy(sql) ==
    LET Step(d, tok) == CASE d = -1 \/ (d = 0 /\ tok = Word("ORDER BY")) -> -1      \* found
                          [] tok = Word("(") -> d + 1
                          [] tok = Word(")") /\ d > 0 -> d - 1
                          [] OTHER -> d
    IN FoldLeft(Step, 0, sql) = -1

LimitOffsetSQL(dialect, sql, limit, offset) ==
    LET ordered == IF dialect = "sqlserver" /\ ~ContainsOrderBy(sql)
                   THEN sql \o <<Word("ORDER BY"), Word("(SELECT 0)")>> ELSE sql
    IN IF dialect \in {"sqlserver", "oracle"}
       THEN ordered \o <<Word("OFFSET"), Param(offset), Word("ROWS FETCH NEXT"), Param(limit),
                         Word("ROWS ONLY")>>
       ELSE sql \o <<Word("LIMIT"), Param(limit), Word("OFFSET"), Param(offset)>>

Normalized(page) ==
    LET size == IF page.size = 0 THEN 10 ELSE page.size
    IN [current |-> IF page.current < 1 THEN 1 ELSE page.current,
        size    |-> IF page.maxLimit > 0 /\ size > page.maxLimit THEN page.maxLimit ELSE size]
NumberArg(n) == Plain(<<"number", n>>)
PageOffset(page) == IF page.size < 0 THEN 0 ELSE (page.current - 1) * page.size

(* SelectPage's list; a negative size asks for everything. *)
Paged(dialect, s, page, limit, offset) ==
    IF page.size < 0 THEN s
    ELSE [s EXCEPT !.sql = LimitOffsetSQL(dialect, @, limit, offset),
                   !.args = (limit :> NumberArg(page.size) @@ offset :> NumberArg(PageOffset(page))) @@ @]
SelectPage(entity, w, dialect, request) ==
    LET Numbered(s) == Paged(dialect, s, Normalized(request), WrapperName(s.seq), WrapperName(s.seq + 1))
    IN Numbered(SelectSQL(entity, w, TRUE))

----------------------------------------------------------------------------
(* Writes by condition.  A wrapper without conditions is refused. *)
Refused == Statement("none", <<>>, NoArgs, TRUE)

UpdateColumns(entity, row) ==
    Which(entity, LAMBDA c : ~c.pk /\ ~c.version /\ ~c.soft /\ ~c.created
                             /\ IncludedByStrategy(row[c.col],
                                    EffectiveStrategy(c.update, "", "ALWAYS")))

FieldSets(cols) ==
    [i \in DOMAIN cols |-> <<Ident(cols[i].col), Word("="), Param(FieldName(cols[i].col))>>]
FieldArgs(cols, row) ==
    [n \in {FieldName(cols[i].col) : i \in DOMAIN cols} |-> row[n[2]]]

UpdateStatement(sets, whereParts, last, args, err) ==
    Statement("update", <<Word("UPDATE")>> \o Table \o <<Word("SET")>> \o Joined(sets, ",")
                            \o <<Word("WHERE")>> \o Joined(whereParts, "AND") \o last,
              args, err \/ sets = <<>>)

(* Update(entity, wrapper): conditions numbered from the count of fields. *)
LiveUpdate(entity, sets, setArgs, r, live) ==
    UpdateStatement(sets, <<r.where>> \o LiveParts(entity, live), r.last,
                    setArgs @@ LiveArgs(entity, live) @@ r.args, r.err)

Update(entity, row, w) ==
    LET cols == UpdateColumns(entity, row)
        Updating(r) == LiveUpdate(entity, FieldSets(cols), FieldArgs(cols, row), r, LiveNumber(r.seq))
    IN IF w.conds = <<>> THEN Refused ELSE Updating(BuildQuery(w, Len(cols)))

UpdateWithWrapper(entity, w) ==
    LET Updating(r) == LiveUpdate(entity, <<r.set>>, NoArgs, r, LiveNumber(r.seq))
    IN IF w.conds = <<>> \/ w.sets = <<>> THEN Refused ELSE Updating(BuildUpdate(w, 0))

(* Delete, or, with a soft-delete column, the update that marks the rows. *)
SoftDeleteRows(entity, r) ==
    LiveUpdate(entity, << <<Ident(SoftOf(entity)[1].col), Word("="), Param(DeletedName)>> >>,
               DeletedName :> Deleted, r, LiveNumber(r.seq))

Delete(entity, w) ==
    LET Deleting(r) == IF HasSoft(entity) THEN SoftDeleteRows(entity, r)
                       ELSE Statement("delete", <<Word("DELETE FROM")>> \o Table \o <<Word("WHERE")>>
                                                \o r.where \o r.last, r.args, r.err)
    IN IF w.conds = <<>> THEN Refused ELSE Deleting(BuildQuery(w, 0))

(* The conditions of SelectByMap and DeleteByMap: the columns in order, nil *)
(* as IS NULL.                                                              *)
ByMap(values, order) == AllEq(<<>>, values, order)

(* The conditions of an entity: a raw one for every column whose value its *)
(* where strategy (NOT_ZERO unless said otherwise) takes in.               *)
EntityQueryWrapper(entity, row) ==
    LET cols == Which(entity, LAMBDA c : IncludedByStrategy(row[c.col],
                                  EffectiveStrategy(c.where, "", "NOT_ZERO")))
        Raw(c) == RawCondition("raw",
                     <<Ident(c.col), Word("="), Param(<<"entity", c.col>>)>>,
                     <<"entity", c.col>> :> row[c.col])
    IN [i \in DOMAIN cols |-> Raw(cols[i])]
============================================================================
