---------------------------- MODULE Interceptors ----------------------------
(***************************************************************************)
(* The statement interceptors of a session (interceptor.go,                *)
(* entity_interceptor.go, sql_governance.go): each may rewrite the text    *)
(* and the named arguments of a statement before it is compiled, or refuse *)
(* it; then the next one is called.  They find their place in the text by  *)
(* looking for keywords outside of brackets.                               *)
(*                                                                         *)
(* ctx is what the interceptors are configured with and what the context   *)
(* and the statement's metadata say: tenant [col, value], permission [sql, *)
(* args], tables, page (a sequence of at most one request), entity, base,  *)
(* ignores, now.                                                           *)
(***************************************************************************)
EXTENDS SqlBuilders, FiniteSets

(* The words of a text that contain a keyword. *)
Spelled(keyword) ==
    CASE keyword = "where"  -> {"WHERE"}
      [] keyword = "from"   -> {"FROM", "DELETE FROM", "FROM dual", "SELECT 1 FROM dual"}
      [] keyword = "into"   -> {"INTO", "INSERT INTO", "MERGE INTO"}
      [] keyword = "values" -> {"VALUES", "VALUES("}
      [] keyword = "set"    -> {"SET", "DO UPDATE SET", "WHEN MATCHED THEN UPDATE SET"}
      [] keyword = "select" -> {"SELECT", "SELECT 1 FROM dual"}
      [] keyword = "delete" -> {"DELETE FROM"}
TableLeads == {"FROM", "DELETE FROM", "INTO", "INSERT INTO", "MERGE INTO", "UPDATE", "LEFT JOIN",
               "FOR UPDATE", "ON DUPLICATE KEY UPDATE"}

Opens(tok) == tok \in {Word("("), Word("VALUES(")}
BracketLevel(sql, i) ==                      \* brackets open before token i
    LET before == SubSeq(sql, 1, i - 1)
    IN Len(SelectSeq(before, Opens)) - Len(SelectSeq(before, LAMBDA t : t = Word(")")))

(* The first token from i on, outside of brackets, that Test picks; 0: none. *)
FirstOf(sql, i, Test(_)) ==
    LET First(found) == IF found = {} THEN 0 ELSE Min(found)
    IN First({j \in i..Len(sql) : Test(sql[j]) /\ BracketLevel(sql, j) = 0})
FindKeyword(sql, i, keyword) ==
    FirstOf(sql, i, LAMBDA t : t[1] = "word" /\ t[2] \in Spelled(keyword))
HasKeyword(sql, keyword) == FindKeyword(sql, 1, keyword) # 0
From(sql, i) == SubSeq(sql, i, Len(sql))
Upto(sql, i) == SubSeq(sql, 1, i - 1)
OrEnd(i, sql) == IF i = 0 THEN Len(sql) + 1 ELSE i

(* Where ORDER BY and what may follow it begin (with GROUP BY and HAVING   *)
(* when asked), looked for behind the FROM of a SELECT.                    *)
TailWords(grouping) ==
    {"ORDER BY", "LIMIT", "OFFSET", "FOR UPDATE"} \union (IF grouping THEN {"GROUP BY", "HAVING"} ELSE {})
TailScanStart(sql) ==
    IF sql = <<>> \/ sql[1] # Word("SELECT") THEN 1
    ELSE OrEnd(FindKeyword(sql, 1, "from"), sql) + 1
TailStart(sql, grouping) ==
    OrEnd(FirstOf(sql, TailScanStart(sql), LAMBDA t : t[1] = "word" /\ t[2] \in TailWords(grouping)), sql)

(* The condition goes between the head and the tail of the statement. *)
ConditionAt(sql, i, condition) ==
    Upto(sql, i) \o <<Word(IF HasKeyword(Upto(sql, i), "where") THEN "AND" ELSE "WHERE")>>
                 \o condition \o From(sql, i)
AppendCondition(sql, condition) == ConditionAt(sql, TailStart(sql, TRUE), condition)

SameName(args, name) == name          \* mutant: a name in use is taken again

(* The name itself, or with the first number behind it that is free. *)
NextArgName(args, name) ==
    IF name \notin DOMAIN args THEN name
    ELSE Append(name, CHOOSE k \in 1..(Cardinality(DOMAIN args) + 1) :
             /\ Append(name, k) \notin DOMAIN args
             /\ \A j \in 1..(k - 1) : Append(name, j) \in DOMAIN args)

With(st, name, value) == [st EXCEPT !.args = (name :> value) @@ @]
MergeCondition(st, condition, conditionArgs) ==
    IF DOMAIN conditionArgs \intersect DOMAIN st.args # {} THEN Fail(st)
    ELSE [st EXCEPT !.sql = AppendCondition(@, condition), !.args = conditionArgs @@ @]
Conditional(st) == st.command \in {"select", "update", "delete"}

----------------------------------------------------------------------------
(* Data permission, tenant. *)
DataPermission(ctx, st) ==
    IF Conditional(st) /\ ctx.permission.sql # <<>>
    THEN MergeCondition(st, ctx.permission.sql, ctx.permission.args) ELSE st

(* VALUES rows, each with one value more; anything may follow them. *)
Closing(sql) == CHOOSE i \in DOMAIN sql : sql[i] = Word(")") /\ BracketLevel(sql, i) = 1
                    /\ \A j \in 1..(i - 1) : ~(sql[j] = Word(")") /\ BracketLevel(sql, j) = 1)
FirstRowOnly(sql, tok) ==             \* mutant: rows after the first stay as they are
    IF sql = <<>> \/ sql[1] # Word("(") THEN <<>>
    ELSE Upto(sql, Closing(sql)) \o <<Word(","), tok>> \o From(sql, Closing(sql))
RECURSIVE WithRowValue(_, _)
WithRowValue(sql, tok) ==             \* <<>>: a row is missing
    IF sql = <<>> \/ sql[1] # Word("(") THEN <<>>
    ELSE LET row   == Upto(sql, Closing(sql)) \o <<Word(","), tok, Word(")")>>
             after == From(sql, Closing(sql) + 1)
             more  == WithRowValue(Tail(after), tok)
         IN IF after = <<>> \/ after[1] # Word(",") THEN row \o after
            ELSE IF more = <<>> THEN <<>> ELSE row \o <<Word(",")>> \o more

(* Only INSERT INTO table (columns) VALUES rows, the table spelled out.    *)
(* into, close, values: where INTO, the bracket behind the columns and     *)
(* VALUES stand; rows: the rows with the tenant's value.                   *)
TenantRows(ctx, st, name, close, values, rows) ==
    IF values = close \/ rows = <<>> THEN Fail(st)
    ELSE With([st EXCEPT !.sql = Upto(@, close) \o <<Word(","), Ident(ctx.tenant.col)>>
                                 \o SubSeq(@, close, values) \o rows],
              name, ctx.tenant.value)
TenantColumns(ctx, st, name, into, close) ==
    LET Behind(values) == TenantRows(ctx, st, name, close, values,
                                     WithRowValue(From(st.sql, values + 1), Param(name)))
    IN IF Ident(ctx.tenant.col) \in Range(SubSeq(st.sql, into + 3, close - 1)) THEN st
       ELSE Behind(close + FindKeyword(From(st.sql, close + 1), 1, "values"))
TenantInsert(ctx, st, name) ==
    LET AfterInto(into) ==
            IF \/ into = 0 \/ Len(st.sql) < into + 2
               \/ st.sql[into + 1][1] # "ident" \/ st.sql[into + 2] # Word("(")
            THEN Fail(st)
            ELSE TenantColumns(ctx, st, name, into, into + 1 + Closing(From(st.sql, into + 2)))
    IN AfterInto(FindKeyword(st.sql, 1, "into"))

Tenant(ctx, st) ==
    LET Named(name) ==
            IF st.command = "insert" THEN TenantInsert(ctx, st, name)
            ELSE MergeCondition(st, <<Ident(ctx.tenant.col), Word("="), Param(name)>>,
                                name :> ctx.tenant.value)
    IN CASE st.command # "insert" /\ ~Conditional(st) -> st
         [] ctx.tenant.col \in BadColumns -> Fail(st)
         [] OTHER -> Named(NextArgName(st.args, <<"tenant", "value">>))

(* Dynamic tables: the name behind FROM, JOIN, UPDATE or INTO. *)
DynamicTable(ctx, st) ==
    LET Led(i) == i > 1 /\ st.sql[i - 1][1] = "word" /\ st.sql[i - 1][2] \in TableLeads
    IN [st EXCEPT !.sql = [i \in DOMAIN @ |->
            IF @[i][1] = "ident" /\ Led(i) /\ @[i][2] \in DOMAIN ctx.tables
            THEN Ident(ctx.tables[@[i][2]]) ELSE @[i]]]

(* The page of the context, unless paging is done elsewhere; a select only. *)
Pagination(ctx, st) ==
    IF ctx.page = <<>> \/ st.command # "select" THEN st
    ELSE Paged(ctx.dialect, st, Normalized(ctx.page[1]),
               NextArgName(st.args, <<"page", "limit">>), NextArgName(st.args, <<"page", "offset">>))

----------------------------------------------------------------------------
(* What the columns of an entity ask of statements that are not the        *)
(* mapper's own: times filled in, versions compared and raised, logical    *)
(* deletion.                                                               *)
SetsTime(st, c, now, overwrite) ==
    IF ~overwrite /\ FieldName(c.col) \in DOMAIN st.args /\ st.args[FieldName(c.col)] \notin {Nil, Zero, Empty}
    THEN st ELSE With(st, FieldName(c.col), now)
AutoFill(ctx, st) ==
    CASE st.command = "insert" ->
            FoldLeft(LAMBDA s, c : SetsTime(s, c, ctx.now, FALSE), st,
                     Which(ctx.entity, LAMBDA c : c.created \/ c.updated))
      [] st.command = "update" ->
            FoldLeft(LAMBDA s, c : SetsTime(s, c, ctx.now, TRUE), st,
                     Which(ctx.entity, LAMBDA c : c.updated))
      [] OTHER -> st

(* A column is mentioned outside of subqueries. *)
Mentions(toks, col) ==
    LET Subquery(j, i) == j < i /\ toks[j] = Word("(") /\ toks[j + 1] = Word("SELECT")
                          /\ \A k \in (j + 1)..i : BracketLevel(toks, k) > BracketLevel(toks, j)
    IN \E i \in DOMAIN toks : toks[i] = Ident(col) /\ ~\E j \in DOMAIN toks : Subquery(j, i)
SetMentions(sql, col) ==
    LET Before(toks) == Upto(toks, OrEnd(FindKeyword(toks, 1, "where"), toks))
        Behind(set) == set # 0 /\ Mentions(Before(From(sql, set + 1)), col)
    IN Behind(FindKeyword(sql, 1, "set"))
MentionedAnywhere(sql, col) ==        \* mutant: a column read or set elsewhere counts
    Mentions(sql, col)
WhereMentions(sql, col) ==
    LET Conditions(toks) == Upto(toks, TailStart(toks, TRUE))
        Behind(where) == where # 0 /\ Mentions(Conditions(From(sql, where + 1)), col)
    IN Behind(FindKeyword(sql, 1, "where"))

AppendAssignment(st, assignment) ==
    LET At(i) == [st EXCEPT !.sql = Upto(@, i) \o <<Word(",")>> \o assignment \o From(@, i)]
        Behind(set) == IF set = 0 THEN Fail(st)
                       ELSE At(set + OrEnd(FindKeyword(From(st.sql, set + 1), 1, "where"), From(st.sql, set + 1)))
    IN Behind(FindKeyword(st.sql, 1, "set"))

OldVersionName == <<"b", "version">>
Raised(st, col) ==
    IF SetMentions(st.sql, col) THEN st
    ELSE AppendAssignment(st, <<Ident(col), Word("="), Ident(col), Word("+ 1")>>)
Compared(st, col, old) ==             \* old: the name the version read goes by
    IF st.err \/ WhereMentions(st.sql, col) THEN st
    ELSE With([st EXCEPT !.sql = AppendCondition(@, <<Ident(col), Word("="), Param(old)>>)],
              old, st.args[FieldName(col)])
OptimisticLock(ctx, st) ==
    LET col == VersionOf(ctx.entity)
    IN CASE ~HasVersion(ctx.entity) \/ st.command # "update" -> st
         [] FieldName(col) \notin DOMAIN st.args -> st
         [] OTHER -> Compared(Raised(st, col), col, NextArgName(st.args, OldVersionName))

(* A DELETE with a WHERE becomes the update that marks its rows; one       *)
(* without is kept and given the live condition.                           *)
DeleteAsUpdate(st, condition, col, deleted) ==
    With([st EXCEPT !.command = "update",
                    !.sql = <<Word("UPDATE")>> \o Table \o <<Word("SET"), Ident(col), Word("="),
                              Param(deleted), Word("WHERE")>> \o condition \o <<Word("AND")>>],
         deleted, Deleted)
LogicDelete(ctx, st) ==
    LET col     == SoftOf(ctx.entity)[1].col
        live    == NextArgName(st.args, LiveName)
        IsLive  == <<Ident(col), Word("="), Param(live)>>
        Deleting(where) ==
            IF where \in {0, Len(st.sql)} THEN [st EXCEPT !.sql = AppendCondition(@, IsLive)]
            ELSE Emit(DeleteAsUpdate(st, From(st.sql, where + 1), col, NextArgName(st.args, DeletedName)), IsLive)
    IN CASE ~HasSoft(ctx.entity) \/ ~Conditional(st) \/ st.err -> st
         [] st.command = "delete" -> With(Deleting(FindKeyword(st.sql, 1, "where")), live, Live)
         [] WhereMentions(st.sql, col) \/ (st.command = "update" /\ SetMentions(st.sql, col)) -> st
         [] OTHER -> With([st EXCEPT !.sql = AppendCondition(@, IsLive)], live, Live)

EntitySemantic(ctx, st) ==
    IF ctx.base \/ ctx.entity = <<>> THEN st
    ELSE LogicDelete(ctx, OptimisticLock(ctx, AutoFill(ctx, st)))

----------------------------------------------------------------------------
(* Guards. *)
Unbounded(st) == st.command \in {"update", "delete"} /\ ~HasKeyword(st.sql, "where")
Several(sql) == \E i \in 1..(Len(sql) - 1) : sql[i] = Word(";")
Wildcard(st) ==
    LET select == FindKeyword(st.sql, 1, "select")
        from   == FindKeyword(From(st.sql, select + 1), 1, "from")
        star   == FirstOf(From(st.sql, select + 1), 1, LAMBDA t : t = Word("*"))
    IN st.command = "select" /\ select # 0 /\ from # 0 /\ star \in 1..(from - 1)
IllegalSQL(st) == IF Several(st.sql) \/ Wildcard(st) \/ Unbounded(st) THEN Fail(st) ELSE st
ReadOnly(st) == IF st.command \in {"insert", "update", "delete", "call"} THEN Fail(st) ELSE st

----------------------------------------------------------------------------
Intercept(ctx, st, name) ==
    CASE st.err \/ name \in ctx.ignores \/ "all" \in ctx.ignores -> st
      [] name = "tenant"          -> Tenant(ctx, st)
      [] name = "data-permission" -> DataPermission(ctx, st)
      [] name = "dynamic-table"   -> DynamicTable(ctx, st)
      [] name = "pagination"      -> Pagination(ctx, st)
      [] name = "entity-semantic" -> EntitySemantic(ctx, st)
      [] name = "illegal-sql"     -> IllegalSQL(st)
      [] name = "read-only"       -> ReadOnly(st)
      [] OTHER -> st

(* The interceptors in their order, each ignored where the statement says  *)
(* so; the check for whole tables comes after all of them (it proceeds     *)
(* first), so it sees the text that is compiled.                           *)
Proceed(ctx, st, chain) ==
    LET BlockAttack(done) ==
            IF /\ "block-attack" \in Range(chain) \ ctx.ignores /\ "all" \notin ctx.ignores
               /\ Unbounded(done)
            THEN Fail(done) ELSE done
    IN BlockAttack(FoldLeft(LAMBDA s, n : Intercept(ctx, s, n), st, chain))
=============================================================================
