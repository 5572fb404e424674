------------------------------ MODULE Wrappers ------------------------------
(***************************************************************************)
(* QueryWrapper and UpdateWrapper: what the clauses a caller has put       *)
(* together render to.  A condition is a record: its connector to the one  *)
(* before it, its kind (a predicate on a column, a nested group, a raw     *)
(* fragment, EXISTS, or a column compared with a subquery), and what the   *)
(* kind needs.                                                             *)
(***************************************************************************)
EXTENDS SqlText

CONSTANT BadColumns        \* names quoteIdentifierPath refuses

NotEmpty(r) == IF r.sql = <<>> THEN Fail(r) ELSE r
Column(st, c) == IF c \in BadColumns THEN Fail(st) ELSE Emit(st, <<Ident(c)>>)

----------------------------------------------------------------------------
(* Conditions, as the methods add them. *)

Predicate(col, op, value) ==
    [kind |-> "predicate", conn |-> "AND", col |-> col, op |-> op, value |-> value]
BetweenValues(l, r) == [kind |-> "between", left |-> l, right |-> r]
RawCondition(kind, text, rawArgs) ==
    [kind |-> kind, conn |-> "AND", sql |-> text, args |-> rawArgs]
SqlCondition(col, op, text, rawArgs) ==
    [kind |-> "sql", conn |-> "AND", col |-> col, op |-> op, sql |-> text, args |-> rawArgs]

(* add appends; addNested drops a group nobody put a condition into. *)
AddCondition(conds, c) == Append(conds, c)
AddNested(conds, conn, child) ==
    IF child = <<>> THEN conds
    ELSE Append(conds, [kind |-> "nested", conn |-> conn, nested |-> child])

(* AllEq: the columns in order, a nil value as IS NULL. *)
AllEq(conds, values, order) ==
    FoldLeft(LAMBDA cs, c :
                 IF c \notin DOMAIN values THEN cs
                 ELSE IF values[c] = Nil
                 THEN AddCondition(cs, Predicate(c, "IS NULL", Nil))
                 ELSE AddCondition(cs, Predicate(c, "=", values[c])),
             conds, order)

----------------------------------------------------------------------------
(* IN over nothing, over nil, is never true, and so is NOT IN. *)
RenderIn(st, col, op, value) ==
    CASE value = Nil \/ value = ListOf(<<>>) -> Words(st, "1 = 0")
      [] value.kind # "list" -> Fail(st)
      [] OTHER -> Words(BindAll(Emit(Column(st, col), <<Word(op), Word("(")>>),
                                WrapperName, value.items), ")")

RenderBetween(st, col, op, value) ==
    IF value.kind # "between" THEN Fail(st)
    ELSE Bind(Words(Bind(Words(Column(st, col), op), WrapperName, value.left), "AND"),
              WrapperName, value.right)

RenderPredicate(st, c) ==
    CASE c.op \in {"IS NULL", "IS NOT NULL"} -> Words(Column(st, c.col), c.op)
      [] c.op \in {"IN", "NOT IN"} -> RenderIn(st, c.col, c.op, c.value)
      [] c.op \in {"BETWEEN", "NOT BETWEEN"} -> RenderBetween(st, c.col, c.op, c.value)
      [] OTHER -> Bind(Words(Column(st, c.col), c.op), WrapperName, c.value)

Enclosed(lead, fragment) ==           \* lead ( fragment )
    [fragment EXCEPT !.sql = lead \o <<Word("(")>> \o @ \o <<Word(")")>>]
RenderSqlCondition(st, c) ==
    IF c.op \notin {"=", "<>", ">", ">=", "<", "<=", "IN", "NOT IN"} THEN Fail(st)
    ELSE Enclosed(Column(st, c.col).sql \o <<Word(c.op)>>,
                  NotEmpty(RenderRaw(Clear(Column(st, c.col)), c.sql, c.args)))

RenderExists(st, c) ==
    LET prefix == IF c.kind = "exists" THEN "EXISTS" ELSE "NOT EXISTS"
        Exists(fragment) == IF fragment.sql = <<>> THEN fragment ELSE Enclosed(<<Word(prefix)>>, fragment)
    IN Exists(RenderRaw(Clear(st), c.sql, c.args))

Unbracketed(st) == st                 \* mutant: the brackets are forgotten

(* A group stands in brackets, unless nothing in it rendered. *)
Bracketed(st) ==
    IF st.sql = <<>> THEN st
    ELSE [st EXCEPT !.sql = <<Word("(")>> \o @ \o <<Word(")")>>]

RECURSIVE RenderConditions(_, _)

RenderCondition(st, c) ==
    CASE c.kind = "nested" -> Bracketed(RenderConditions(st, c.nested))
      [] c.kind = "raw"    -> RenderRaw(st, c.sql, c.args)
      [] c.kind = "sql"    -> RenderSqlCondition(st, c)
      [] c.kind \in {"exists", "not_exists"} -> RenderExists(st, c)
      [] OTHER -> RenderPredicate(st, c)

(* Each rendered condition after the first is preceded by its connector;   *)
(* one that renders to nothing is skipped, its connector with it.          *)
RenderConditions(st, items) ==
    FoldLeft(LAMBDA s, c : JoinedTo(s.sql, c.conn, RenderCondition(Clear(s), c)), Clear(st), items)

----------------------------------------------------------------------------
(* Column lists, and HAVING clauses joined by AND. *)
Columns(st, prefix, cols) ==
    IF cols = <<>> THEN Clear(st)
    ELSE [Clear(st) EXCEPT
              !.sql = <<Word(prefix)>> \o Joined([i \in DOMAIN cols |-> <<Ident(cols[i])>>], ","),
              !.err = @ \/ \E i \in DOMAIN cols : cols[i] \in BadColumns]

Orders(st, orders) ==
    IF orders = <<>> THEN Clear(st)
    ELSE [Clear(st) EXCEPT
              !.sql = <<Word("ORDER BY")>>
                      \o Joined([i \in DOMAIN orders |->
                                    <<Ident(orders[i].col),
                                      Word(IF orders[i].desc THEN "DESC" ELSE "ASC")>>], ","),
              !.err = @ \/ \E i \in DOMAIN orders : orders[i].col \in BadColumns]

RawClauses(st, prefix, clauses) ==
    Prefixed(prefix, FoldLeft(LAMBDA s, cl : JoinedTo(s.sql, "AND", RenderRaw(Clear(s), cl.sql, cl.args)),
                              Clear(st), clauses))

(* QueryWrapper.build: conditions, groups, havings, orders, last, each     *)
(* numbered on from the one before, and each text kept under its name.     *)
Parts(names, start) == [n \in names |-> <<>>] @@ Start(start)
Keep(name, st) == [Clear(st) EXCEPT ![name] = st.sql]

BuildQuery(w, start) ==
    LET parts  == Parts({"where", "group", "having", "order", "last"}, start)
        where  == Keep("where", RenderConditions(parts, w.conds))
        group  == Keep("group", Columns(where, "GROUP BY", w.groups))
        having == Keep("having", RawClauses(group, "HAVING", w.havings))
        order  == Keep("order", Orders(having, w.orders))
    IN Keep("last", SanitizeLast(order, w.last))

----------------------------------------------------------------------------
(* The assignments of an UpdateWrapper: SET col = value, SET col = col +/- *)
(* value, a raw fragment.                                                  *)
SetAssignment(col, value) == [op |-> "set", col |-> col, value |-> value]
SetArithmetic(col, op, value) == [op |-> op, col |-> col, value |-> value]
SetRaw(text, rawArgs) == [op |-> "raw", sql |-> text, args |-> rawArgs]

RenderAssignment(st, a) ==
    CASE a.op = "raw" -> RenderRaw(st, a.sql, a.args)
      [] a.op = "set" -> Bind(Words(Column(st, a.col), "="), UpdateName, a.value)
      [] OTHER -> Bind(Emit(Column(Words(Column(st, a.col), "="), a.col),
                            <<Word(IF a.op = "incr" THEN "+" ELSE "-")>>),
                       UpdateName, a.value)

RenderAssignments(st, sets) ==
    FoldLeft(LAMBDA s, a : JoinedTo(s.sql, ",", RenderAssignment(Clear(s), a)), Clear(st), sets)

(* UpdateWrapper.build: the conditions are numbered on from the            *)
(* assignments and their arguments are added to theirs.                    *)
BuildUpdate(w, start) ==
    LET parts == Parts({"set", "where", "last"}, start)
        set   == Keep("set", NotEmpty(RenderAssignments(parts, w.sets)))
        where == Keep("where", RenderConditions(set, w.conds))
    IN Keep("last", SanitizeLast(where, w.last))
============================================================================
