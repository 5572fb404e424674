------------------------------ MODULE Statements ------------------------------
(***************************************************************************)
(* A caller puts a statement together, call by call, through one of the    *)
(* APIs (a query or update wrapper, or the chain of a service around it, a *)
(* SQL builder), or writes it as dynamic SQL, and sends it: the text and   *)
(* the named arguments are made from the calls and compiled for the driver. *)
(*                                                                         *)
(* Every operand of a call is a fresh value, so that where a value ends up *)
(* tells which call it came from.                                          *)
(***************************************************************************)
EXTENDS Interceptors, DynamicSql

CONSTANTS
    MaxCalls,   \* API -> bound: calls before the statement is sent, weighted
    Entities,   \* [columns |-> the columns, row |-> the values of an entity]
    Dialects,
    Pages,      \* page requests: [dialect, page]
    Given,      \* API -> what is there before a call: a script [nodes, args], a template
                \* [st, ctx] (a statement, and what its interceptors know of it), or NotSent
    Upserts,    \* [conflicts, updates, returnings, values]: what an upsert is asked for
    Chains      \* interceptors of a session, in their order

ASSUME StatementsAssumption == MaxCalls \in [DOMAIN MaxCalls -> Nat]

VARIABLES
    front,      \* the API in use
    w,          \* the clauses put together so far
    open,       \* nested groups being filled: [conn, conds] of each outer level
    calls,      \* number of calls, weighted
    script,     \* what is given
    sent        \* what was sent: the operation, the statement, what compiled

vars == <<front, w, open, calls, script, sent>>

QueryFronts   == {"query", "query chain"}
UpdateFronts  == {"update", "update chain"}
WrapperFronts == QueryFronts \union UpdateFronts
BuilderFronts == {"select builder", "insert builder", "update builder", "delete builder"}

NewClauses ==
    [table |-> "t", conds |-> <<>>, sets |-> <<>>, groups |-> <<>>, havings |-> <<>>,
     orders |-> <<>>, selects |-> <<>>, last |-> <<>>, limit |-> <<>>, offset |-> <<>>,
     joins |-> <<>>, lock |-> <<>>, returnings |-> <<>>, requireWhere |-> FALSE]
NotSent == [op |-> "none"]

Init ==
    /\ front \in DOMAIN MaxCalls
    /\ w = NewClauses /\ open = <<>> /\ calls = 0
    /\ script \in Given[front]
    /\ sent = NotSent

-----------------------------------------------------------------------------
(* Operands of the next call, and raw fragments: one with an argument, an  *)
(* empty one, one whose argument is not brought, one with a semicolon.     *)
V(i) == Plain(<<"value", calls, i>>)
Fragment(kind) ==
    CASE kind = "good"    -> [sql |-> <<Ident("r"), Word("="), Param(UserName("x"))>>,
                              args |-> UserName("x") :> V(1)]
      [] kind = "empty"   -> [sql |-> <<>>, args |-> NoArgs]
      [] kind = "missing" -> [sql |-> <<Ident("r"), Word("="), Param(UserName("x"))>>,
                              args |-> NoArgs]
      [] kind = "two"     -> [sql |-> <<Word("1 = 1"), Word(";"), Word("2 = 2")>>, args |-> NoArgs]
FragmentKinds == {"good", "empty", "missing", "two"}

(* A comparison counts once, opening a group twice (in another group       *)
(* once), any other call three times.                                      *)
Calling(cost) == sent = NotSent /\ calls + cost <= MaxCalls[front]
Change(cost, clauses) == /\ Calling(cost)
                         /\ w' = clauses /\ calls' = calls + cost
                         /\ UNCHANGED <<front, open, script, sent>>
Set(clauses) == Change(3, clauses)
Add(condition) == Set([w EXCEPT !.conds = AddCondition(@, condition)])
Level == open = <<>>      \* of a group, only the conditions are taken over

-----------------------------------------------------------------------------
(* Conditions of a wrapper. *)
Compare == Change(1, [w EXCEPT !.conds = AddCondition(@, Predicate("a", "=", V(1)))])
CompareBad == Add(Predicate("bad", "=", V(1)))


Like(op, side) ==         \* LikeLeft and LikeRight put the wildcard to the value
    Add(Predicate("a", op, Plain(<<side, V(1).value>>)))

In(op) == \E values \in {Nil, ListOf(<<>>), ListOf(<<V(1), V(2)>>)} : Add(Predicate("a", op, values))

Between(op) == Add(Predicate("a", op, BetweenValues(V(1), V(2))))

NullCheck(op) == Add(Predicate("a", op, Nil))

AllEqual ==
    LET values == "a" :> V(1) @@ "b" :> Nil
    IN Set([w EXCEPT !.conds = AllEq(@, values, <<"a", "b">>)])

Raw(kind, kinds) == \E f \in kinds : Add(RawCondition(kind, Fragment(f).sql, Fragment(f).args))

CompareSql(op, kinds) == \E f \in kinds : Add(SqlCondition("a", op, Fragment(f).sql, Fragment(f).args))

(* Nested, And and Or: the group's own wrapper is filled, then added. *)
OpenCost == IF Level THEN 2 ELSE 1
OpenGroup(conn) ==
    /\ Calling(OpenCost)
    /\ open' = Append(open, [conn |-> conn, conds |-> w.conds])
    /\ w' = [w EXCEPT !.conds = <<>>] /\ calls' = calls + OpenCost
    /\ UNCHANGED <<front, script, sent>>

CloseGroup ==
    /\ open # <<>> /\ w.conds # <<>>
    /\ open' = Front(open)
    /\ w' = [w EXCEPT !.conds = AddNested(Last(open).conds, Last(open).conn, @)]
    /\ UNCHANGED <<front, calls, script, sent>>

CloseEmpty ==             \* a group without conditions leaves nothing behind
    /\ open # <<>> /\ w.conds = <<>>
    /\ open' = Front(open)
    /\ w' = [w EXCEPT !.conds = AddNested(Last(open).conds, Last(open).conn, @)]
    /\ UNCHANGED <<front, calls, script, sent>>

(* Other clauses. Select and Last replace what was there. *)
OrderBy(desc) == Level /\ Set([w EXCEPT !.orders = Append(@, [col |-> "o", desc |-> desc])])
Select        == Level /\ Set([w EXCEPT !.selects = <<"a">>])
GroupBy       == Level /\ Set([w EXCEPT !.groups = Append(@, "g")])
Having        == Level /\ \E f \in {"good", "missing"} : Set([w EXCEPT !.havings = Append(@, Fragment(f))])
LastSQL       == Level /\ \E text \in {<<Word("FOR UPDATE")>>, <<Param(UserName("x"))>>} :
                              Set([w EXCEPT !.last = text])

SetValue(op) == Level /\ Set([w EXCEPT !.sets = Append(@, IF op = "set" THEN SetAssignment("s", V(1))
                                                           ELSE SetArithmetic("s", op, V(1)))])
SetSQL == /\ Level
          /\ \E f \in FragmentKinds \ {"empty"} :
                 Set([w EXCEPT !.sets = Append(@, SetRaw(Fragment(f).sql, Fragment(f).args))])

Columnwise == \/ Compare \/ Like("LIKE", "%v") \/ Like("NOT LIKE", "v")
              \/ In("IN") \/ In("NOT IN") \/ Between("BETWEEN") \/ Between("NOT BETWEEN")
              \/ NullCheck("IS NULL") \/ NullCheck("IS NOT NULL")
Groups == OpenGroup("AND") \/ OpenGroup("OR") \/ CloseGroup \/ CloseEmpty
Fragments == Raw("raw", FragmentKinds) \/ Raw("exists", {"good", "empty"}) \/ Raw("not_exists", {"good"})
Subqueries == CompareSql("=", {"good", "empty"}) \/ CompareSql("NOT IN", {"good"})

(* Which methods each API has; a chain passes them on to its wrapper. *)
QueryWrapperCall   == /\ front = "query"
                      /\ \/ Columnwise \/ CompareBad \/ AllEqual \/ Groups \/ Fragments \/ Subqueries
                         \/ OrderBy(TRUE) \/ OrderBy(FALSE) \/ Select \/ GroupBy \/ Having \/ LastSQL
UpdateWrapperCall  == /\ front = "update"
                      /\ \/ Columnwise \/ Groups \/ Fragments \/ Subqueries \/ LastSQL
                         \/ SetValue("set") \/ SetValue("incr") \/ SetValue("decr") \/ SetSQL
QueryChainPredicate == front = "query chain" /\ (Columnwise \/ AllEqual)
QueryChainClause    == /\ front = "query chain"
                       /\ Groups \/ Fragments \/ Subqueries \/ GroupBy \/ Having \/ OrderBy(TRUE) \/ LastSQL
QueryChainOption    == front = "query chain" /\ Select
UpdateChainPredicate == front = "update chain" /\ Columnwise
UpdateChainClause    == front = "update chain" /\ (Groups \/ Fragments \/ Subqueries \/ LastSQL)
UpdateChainSet       == front = "update chain" /\ (SetValue("set") \/ SetValue("incr") \/ SetSQL)

-----------------------------------------------------------------------------
(* Clauses of a builder. *)
WhereRaw == \E f \in FragmentKinds : Add([kind |-> "raw"] @@ Fragment(f))
WhereEq == LET Eq(col) == [kind |-> "eq", col |-> col, op |-> "=", value |-> V(1)]
           IN Change(1, [w EXCEPT !.conds = Append(@, Eq("a"))]) \/ Add(Eq("bad"))
WhereIn == \E values \in {<<>>, <<V(1), V(2)>>} : Add([kind |-> "in", col |-> "a", op |-> "IN", value |-> ListOf(values)])
WhereBetween == Add([kind |-> "between", col |-> "a", op |-> "BETWEEN", value |-> BetweenValues(V(1), V(2))])
WhereNull == Add([kind |-> "unary", col |-> "a", op |-> "IS NULL"])
BuilderWhere == WhereRaw \/ WhereEq \/ WhereIn \/ WhereBetween \/ WhereNull

Join == \E f \in {"good", "empty"} :
            Set([w EXCEPT !.joins = Append(@, [kind |-> "LEFT JOIN", table |-> "j",
                                               on |-> Fragment(f).sql, args |-> Fragment(f).args])])
Limit  == Set([w EXCEPT !.limit = <<V(1)>>])
Offset == Set([w EXCEPT !.offset = <<V(1)>>])
ForUpdate == \E d \in Dialects, skip \in BOOLEAN :
                Set([w EXCEPT !.lock = <<[dialect |-> d, skip |-> skip, noWait |-> FALSE]>>])
SelectBuilderCall ==
    /\ front = "select builder"
    /\ \/ BuilderWhere \/ Join \/ Limit \/ Offset \/ ForUpdate
       \/ Select \/ GroupBy \/ Having \/ OrderBy(TRUE) \/ LastSQL

InsertValue == Change(1, [w EXCEPT !.sets = Append(@, SetAssignment("s", V(1)))])
Returning == Set([w EXCEPT !.returnings = <<"id">>])
RequireWhere == Set([w EXCEPT !.requireWhere = TRUE])
InsertBuilderCall == front = "insert builder" /\ (InsertValue \/ Returning)
UpdateBuilderCall == front = "update builder" /\ (InsertValue \/ BuilderWhere \/ Returning \/ RequireWhere)
DeleteBuilderCall == front = "delete builder" /\ (BuilderWhere \/ Returning \/ RequireWhere)

-----------------------------------------------------------------------------
(* The statement is made, compiled and sent; an error sends nothing. *)
Sends(op, entity, asked, st) ==       \* asked: what else the call was given
    /\ sent = NotSent /\ open = <<>>
    /\ sent' = [op |-> op, entity |-> entity, asked |-> asked, st |-> st, out |-> CompileSQL(st)]
    /\ UNCHANGED <<front, open, calls, script>>
SendAsked(op, entity, asked, st) == Sends(op, entity, asked, st) /\ UNCHANGED w
Send(op, entity, st) == SendAsked(op, entity, "nothing", st)

SendSelect ==
    /\ front \in QueryFronts
    /\ \E e \in Entities :
          \/ Send("SelectList", e, SelectList(e.columns, w))
          \/ Send("SelectObjs", e, SelectObjs(e.columns, w))
          \/ Send("Count", e, Count(e.columns, w))
          \/ \E p \in Pages : SendAsked("SelectPage", e, p, SelectPage(e.columns, w, p.dialect, p.page))

SendWrite ==
    \/ /\ front \in QueryFronts
       /\ \E e \in Entities : \/ Send("Update", e, Update(e.columns, e.row, w))
                              \/ Send("Delete", e, Delete(e.columns, w))
    \/ /\ front \in UpdateFronts
       /\ \E e \in Entities : Send("UpdateWithWrapper", e, UpdateWithWrapper(e.columns, w))

(* The mapper makes the conditions itself, of a map or of an entity. *)
SendConditions(e, conds) ==
    /\ w' = [w EXCEPT !.conds = conds]
    /\ \/ Sends("SelectList", e, "nothing", SelectList(e.columns, w'))
       \/ Sends("Count", e, "nothing", Count(e.columns, w'))
       \/ Sends("Delete", e, "nothing", Delete(e.columns, w'))
SendByMap ==
    /\ front = "query" /\ w = NewClauses
    /\ \E e \in Entities, values \in {NoArgs, "b" :> Nil, "b" :> V(1) @@ "a" :> V(2)} :
           SendConditions(e, ByMap(values, <<"a", "b">>))
SendByEntity ==
    /\ front = "query" /\ w = NewClauses
    /\ \E e \in Entities : SendConditions(e, EntityQueryWrapper(e.columns, e.row))

Build ==
    /\ front \in BuilderFronts
    /\ Send("Build", [columns |-> <<>>],
            CASE front = "select builder" -> BuildSelect(w)
              [] front = "insert builder" -> BuildInsert(w)
              [] front = "update builder" -> BuildUpdateSQL(w)
              [] front = "delete builder" -> BuildDelete(w))

SendScript == /\ front = "script"
              /\ LET text == RenderDynamicSQL(script.nodes, script.args)
                 IN Send("Script", [columns |-> <<>>], Statement("select", text.sql, text.args, text.err))

(* The mapper's writes and reads by key, and the builders' upsert and rows. *)
SendByKey ==
    /\ front = "by key"
    /\ \E e \in Entities : \/ Send("SelectByID", e, SelectByID(e.columns, V(1)))
                           \/ Send("DeleteByID", e, DeleteByID(e.columns, V(1)))
                           \/ Send("PhysicalDeleteByID", e, PhysicalDeleteByID(e.columns, V(1)))
SendUpsert ==
    /\ front = "by key"
    /\ \E e \in Entities, u \in Upserts, d \in Dialects :
          SendAsked("Upsert", e, [dialect |-> d] @@ u, Upsert(e.columns, e.row, u.conflicts, u.updates, d))
BuildRowsOrUpsert ==
    /\ front = "by key"
    /\ \E u \in Upserts, d \in Dialects :
          LET b == [table |-> "t", inserts |-> SetToSortSeq(DOMAIN u.values, LAMBDA c, e : u.order[c] < u.order[e])] @@ u
          IN \/ SendAsked("BuildUpsert", [columns |-> <<>>], [dialect |-> d] @@ b, BuildUpsert(b, d))
             \/ \E rows \in {<<>>, <<u.values>>, <<u.values, u.values>>, <<u.values, [c \in {} |-> Nil]>>} :
                   LET r == [table |-> "t", selects |-> b.inserts, rows |-> rows]
                   IN SendAsked("BuildRows", [columns |-> <<>>], [dialect |-> d] @@ r, BuildRows(r, d))

SendIntercepted ==
    /\ front = "intercepted"
    /\ \E chain \in Chains :
          SendAsked("Intercepted", [columns |-> script.ctx.entity], [chain |-> chain],
                    Proceed(script.ctx, script.st, chain))

Next ==
    \/ SendByKey \/ SendUpsert \/ BuildRowsOrUpsert \/ SendIntercepted
    \/ QueryWrapperCall \/ UpdateWrapperCall
    \/ QueryChainPredicate \/ QueryChainClause \/ QueryChainOption
    \/ UpdateChainPredicate \/ UpdateChainClause \/ UpdateChainSet
    \/ SelectBuilderCall \/ InsertBuilderCall \/ UpdateBuilderCall \/ DeleteBuilderCall
    \/ SendSelect \/ SendWrite \/ SendByMap \/ SendByEntity \/ Build \/ SendScript

Spec == Init /\ [][Next]_vars
===============================================================================
