----------------------------- MODULE DynamicSql -----------------------------
(***************************************************************************)
(* Dynamic SQL: a tree of text, if, where, set, trim, foreach, choose and  *)
(* bind nodes is rendered to text with #{name} placeholders and the        *)
(* arguments they name.  Rendering threads a context: the text so far, the *)
(* arguments, the aliases under which foreach passes its items on, the     *)
(* values expressions see, and the next alias number.                      *)
(*                                                                         *)
(* A node is a record with a kind and what the kind needs: toks; test,     *)
(* children; prefix, suffix and their overrides; collection, item, index   *)
(* ("" if none), open, close, separator, nullable; name, value.            *)
(***************************************************************************)
EXTENDS Expressions

Nothing == [f \in {} |-> 0]
Context(args) == [sql |-> <<>>, args |-> args, aliases |-> Nothing, values |-> Nothing,
                  seq |-> 0, err |-> FALSE]
Eval(ctx, ts) == EvalValue(ts, [values |-> ctx.values, args |-> ctx.args])

Root(n) == UserName(n)
Put(f, key, value) == (key :> value) @@ f
Drop(f, key) == [k \in DOMAIN f \ {key} |-> f[k]]
Restore(f, key, before) == IF key \in DOMAIN before THEN Put(f, key, before[key]) ELSE Drop(f, key)

(* #{item.name} is rewritten to the alias of item, when it has one. *)
RewriteAlias(aliases, tok) ==
    IF tok[1] = "#" /\ SubSeq(tok[2], 1, 2) \in DOMAIN aliases
    THEN Param(aliases[SubSeq(tok[2], 1, 2)] \o SubSeq(tok[2], 3, Len(tok[2])))
    ELSE tok

RenderText(ctx, toks) == Emit(ctx, [i \in DOMAIN toks |-> RewriteAlias(ctx.aliases, toks[i])])

(* The first override the text begins (ends) with is taken off. *)
WithoutPrefix(sql, overrides) ==
    IF sql # <<>> /\ sql[1] \in {Word(w) : w \in overrides} THEN Tail(sql) ELSE sql
WithoutSuffix(sql, overrides) ==
    IF sql # <<>> /\ Last(sql) \in {Word(w) : w \in overrides} THEN Front(sql) ELSE sql

Wrapped(prefix, ctx, suffix) ==
    IF ctx.sql = <<>> THEN ctx ELSE [ctx EXCEPT !.sql = prefix \o @ \o suffix]

BindName(ctx, node, v) ==
    [ctx EXCEPT !.values = Put(@, Root(node.name), v), !.args = Put(@, Root(node.name), v)]

RECURSIVE RenderNodes(_, _), RenderItems(_, _, _, _)

(* The item, and the index where it is named, get an alias of their own.   *)
Enter(ctx, name, value) ==
    LET alias == <<name, ctx.seq>>
    IN [ctx EXCEPT !.args = Put(@, alias, value), !.aliases = Put(@, Root(name), alias),
                   !.values = Put(@, Root(name), value), !.seq = @ + 1]

LeaveItem(ctx, name, before) ==
    [ctx EXCEPT !.aliases = Restore(@, Root(name), before.aliases),
                !.values = Restore(@, Root(name), before.values)]

(* The index's value is not put back: an outer one of that name is gone.   *)
LeaveIndex(ctx, name, before) ==
    [ctx EXCEPT !.aliases = Restore(@, Root(name), before.aliases),
                !.values = Drop(@, Root(name))]

Entered(ctx, node, items, i) ==
    LET item == Enter(Clear(ctx), node.item, items[i])
    IN IF node.index = "" THEN item ELSE Enter(item, node.index, Number(i - 1))

Left(content, node, before) ==
    LET left == LeaveItem(content, node.item, before)
    IN IF node.index = "" THEN left ELSE LeaveIndex(left, node.index, before)

Separated(sql, ctx, separator) ==
    IF sql = <<>> \/ ctx.sql = <<>> THEN [ctx EXCEPT !.sql = sql \o @]
    ELSE [ctx EXCEPT !.sql = sql \o separator \o @]

(* The items from i on, behind the text of those before. *)
RenderItems(ctx, node, items, i) ==
    IF i > Len(items) THEN ctx
    ELSE RenderItems(Separated(ctx.sql,
                               Left(RenderNodes(Entered(ctx, node, items, i), node.children), node, ctx),
                               node.separator),
                     node, items, i + 1)

(* A nil collection renders nothing where that is allowed. *)
RenderForeach(ctx, node, found) ==
    CASE ~IsValue(found) \/ found = Nil -> IF node.nullable THEN Clear(ctx) ELSE Fail(ctx)
      [] found.kind # "list" -> Fail(ctx)
      [] OTHER -> Wrapped(node.open, RenderItems(Clear(ctx), node, found.items, 1), node.close)

(* The children of the first when that holds, else those of otherwise; a   *)
(* test in error and a node of another kind before it end the rendering.   *)
FirstHit(children, tests) ==
    LET Stops(i) == CASE children[i].kind = "when" -> ~tests[i].ok \/ Truthy(tests[i].v)
                      [] OTHER -> children[i].kind # "otherwise"
        stops  == {i \in DOMAIN children : Stops(i)}
        others == {i \in DOMAIN children : children[i].kind = "otherwise"}
    IN IF stops # {} THEN Min(stops) ELSE IF others # {} THEN Max(others) ELSE 0

RenderHit(ctx, children, tests, i) ==
    CASE i = 0 -> Clear(ctx)
      [] children[i].kind = "otherwise" \/ (children[i].kind = "when" /\ tests[i].ok) ->
            RenderNodes(ctx, children[i].children)
      [] OTHER -> Fail(ctx)

RenderChoose(ctx, children, tests) == RenderHit(ctx, children, tests, FirstHit(children, tests))

(* The expressions a node evaluates, in its order. *)
Tested(node) ==
    CASE node.kind = "if"   -> <<node.test>>
      [] node.kind = "bind" -> <<node.value>>
      [] node.kind = "choose" ->
            [i \in DOMAIN node.children |->
                IF node.children[i].kind = "when" THEN node.children[i].test ELSE <<>>]
      [] OTHER -> <<>>

(* What a node does to the text its children rendered. *)
Trimmed(c, node) ==
    CASE node.kind = "where" -> Wrapped(<<Word("WHERE")>>, [c EXCEPT !.sql = WithoutPrefix(@, {"AND", "OR"})], <<>>)
      [] node.kind = "set"   -> Wrapped(<<Word("SET")>>, [c EXCEPT !.sql = WithoutSuffix(@, {","})], <<>>)
      [] node.kind = "trim"  ->
            Wrapped(node.prefix,
                    [c EXCEPT !.sql = WithoutSuffix(WithoutPrefix(@, node.prefixOverrides), node.suffixOverrides)],
                    node.suffix)
      [] OTHER -> c                      \* when and otherwise

RenderTested(ctx, node, tests) ==
    CASE node.kind = "text" -> RenderText(ctx, node.toks)
      [] node.kind = "foreach" -> RenderForeach(ctx, node, Visible(ctx, node.collection))
      [] node.kind = "choose" -> RenderChoose(ctx, node.children, tests)
      [] node.kind \in {"if", "bind"} /\ ~tests[1].ok -> Fail(ctx)
      [] node.kind = "bind" -> BindName(ctx, node, tests[1].v)
      [] node.kind = "if" /\ ~Truthy(tests[1].v) -> ctx
      [] node.kind \in {"if", "where", "set", "trim", "when", "otherwise"} ->
            Trimmed(RenderNodes(ctx, node.children), node)
      [] OTHER -> Fail(ctx)              \* include, which the registry expands

RenderNode(ctx, node) ==
    RenderTested(ctx, node, [i \in DOMAIN Tested(node) |-> Eval(ctx, Tested(node)[i])])

(* One node after the other; the first error ends the rendering. *)
Followed(done, nodes) == IF done.err THEN done ELSE PutBehind(done.sql, RenderNodes(done, nodes))
RenderNodes(ctx, nodes) ==
    IF nodes = <<>> THEN Clear(ctx) ELSE Followed(RenderNode(Clear(ctx), Head(nodes)), Tail(nodes))

RenderDynamicSQL(nodes, args) == RenderNodes(Context(args), nodes)
============================================================================
