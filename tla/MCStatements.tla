---- MODULE MCStatements ----
(* Two entities, one with a logical delete column, each with every chain of *)
(* builder calls up to its bound; every dialect's page; scripts: each pair   *)
(* of binary operators in both groupings and after a prefix operator, and    *)
(* loops around each other and beside arguments of the same names; mapper    *)
(* statements of every shape through chains of up to three interceptors;     *)
(* the joined rows of up to two trees in every order; programs whose caches  *)
(* and result maps refer to each other in every way three of them can;       *)
(* factories over up to three data sources; two commands that write two      *)
(* files.                                                                    *)
EXTENDS SessionCalls

Col(c) == [col |-> c, pk |-> FALSE, auto |-> FALSE, version |-> FALSE, soft |-> FALSE, created |-> FALSE,
           updated |-> FALSE, hidden |-> FALSE, order |-> "", insert |-> "", update |-> "", where |-> ""]
Key == [Col("id") EXCEPT !.pk = TRUE, !.auto = TRUE]
Plainly == <<Key, [Col("n") EXCEPT !.update = "NOT_NULL", !.where = "ALWAYS"], [Col("m") EXCEPT !.order = "DESC"]>>
Logically == <<[Key EXCEPT !.where = "NEVER"], Col("n"), [Col("del") EXCEPT !.soft = TRUE]>>
MCEntities == {[columns |-> Plainly, row |-> [id |-> Plain(<<"id">>), n |-> Nil, m |-> Plain(<<"m">>)]],
               [columns |-> Logically, row |-> [id |-> Plain(<<"id">>), n |-> Plain(<<"n">>), del |-> Live]]}
MCDialects == {"postgres", "mysql", "sqlserver", "oracle", "h2"}
Page(current, size, maxLimit) == [current |-> current, size |-> size, maxLimit |-> maxLimit]
MCPages == {[dialect |-> "postgres", page |-> Page(3, 20, 15)], [dialect |-> "mysql", page |-> Page(0, 0, 0)],
            [dialect |-> "sqlserver", page |-> Page(3, 20, 15)], [dialect |-> "oracle", page |-> Page(2, 5, 0)],
            [dialect |-> "h2", page |-> Page(1, -1, 0)]}
MCMaxCalls ==
    [f \in {"query", "update", "query chain", "update chain", "select builder", "insert builder",
            "update builder", "delete builder", "script", "by key", "intercepted", "rows", "row", "startup", "routing", "files"} |->
        CASE f \in {"query", "update"} -> 6
          [] f \in {"query chain", "update chain"} -> 4
          [] f \in {"script", "by key", "intercepted", "rows", "row", "startup", "routing", "files"} -> 0
          [] OTHER -> 6]

Args == UserName("x") :> Number(12) @@ UserName("y") :> Number(3) @@ UserName("z") :> Number(2)
        @@ UserName("none") :> Nil @@ UserName("name") :> Text("t") @@ UserName("one") :> ListOf(<<Number(3)>>)
        @@ UserName("o") :> MapOf([f |-> Number(1), g |-> Nil])
        @@ UserName("ids") :> ListOf(<<Number(1), Number(2)>>)
        @@ UserName("groups") :> ListOf(<<MapOf([ids |-> ListOf(<<Number(1), Number(2)>>), n |-> Number(5)]),
                                          MapOf([ids |-> ListOf(<<Number(3)>>), n |-> Number(6)])>>)
X == Var(UserName("x"))
Y == Var(UserName("y"))
Z == Var(UserName("z"))
Ops == UNION Range(Levels)
Leaves == {X, Y, Z, Var(UserName("none")), Var(UserName("one")), Var(Append(UserName("o"), <<"key", "f">>)),
           Var(UserName("gone")), Lit(Text(""))}
Trees == {Binary(p, Binary(q, X, b), c) : p, q \in Ops, b \in Leaves, c \in {Y, Z}}
         \union {Binary(p, X, Binary(q, Y, c)) : p, q \in Ops, c \in Leaves}
         \union {Binary(p, Unary(u, a), b) : p \in Ops, u \in PrefixOps, a, b \in {X, Z, Var(UserName("none"))}}
         \union {Unary(u, Binary(p, a, Z)) : p \in Ops, u \in PrefixOps, a \in {X, Z, Var(UserName("none"))}}
(* Ternaries in each place of another and of an operator, calls on every   *)
(* kind of value, chained, and lists.                                      *)
Digit(n) == [Text(ToString(n)) EXCEPT !.n = <<n>>]
Methods1 == {"contains", "containsKey", "containsValue", "equals", "startsWith", "endsWith", "size"}
Receivers == {X, Var(UserName("none")), Var(UserName("ids")), Var(UserName("o")), Var(UserName("name")),
              Binary("+", X, Lit(Digit(5))), Listed(<<X, Y>>), Listed(<<>>)}
Chooser == IfElse(Var(UserName("none")), X, Lit(Number(0)))
Branching ==
    {IfElse(t, a, b) : t, a, b \in {Chooser, Binary("or", Z, Chooser), Unary("not", X), Var(UserName("none"))}}
    \union {Binary(p, a, b) : p \in Ops \ {"/", "%"}, a, b \in {Chooser, X, Call(Lit(Text("t")), "size", <<>>)}}
Calls ==
    {Call(r, m, <<a>>) : r \in Receivers, m \in Methods1,
                         a \in {Lit(Text("f")), Lit(Text("t")), Lit(Digit(1)), Lit(Number(1)), Y, Var(UserName("none"))}}
    \union {Binary("==", Part(r, m), b) : r \in Receivers, m \in {"size", "empty"}, b \in {Z, Lit(Bool(TRUE))}}
    \union {Part(Binary("or", X, r), "sort") : r \in Receivers}
    \union {Call(r, m, <<>>) : r \in Receivers, m \in {"size", "isEmpty", "equals"}}
    \union {Call(Call(r, m, <<>>), "equals", <<Binary("-", Y, b)>>) :
                r \in Receivers, m \in {"length", "isEmpty", "sort"}, b \in {Z, Lit(Number(1)), Lit(Bool(TRUE))}}
    \union {Binary(p, a, Listed(<<Z, b>>)) : p \in {"in", "not in", "=="}, a, b \in {X, Z, Lit(Digit(12)), Chooser}}
RECURSIVE Exact(_)
(* Numbers are whole: no division that leaves a rest. *)
Exact(e) == CASE e.kind = "unary" -> Exact(e.a)
              [] e.kind = "binary" -> /\ Exact(e.a) /\ Exact(e.b)
                                      /\ e.op = "/" /\ Meaning(e, Args).ok =>
                                            Modulo(Numeric(Meaning(e.a, Args).v)[1], Numeric(Meaning(e.b, Args).v)[1]) = 0
              [] OTHER -> TRUE
Txt(toks) == [kind |-> "text", toks |-> toks]
If(e, children) == [kind |-> "if", expr |-> e, test |-> Spell(e, 1), children |-> children]
When(e, children) == [If(e, children) EXCEPT !.kind = "when"]
Eq(col, path) == <<Word("AND"), Ident(col), Word("="), Param(path)>>
Conditions(e) == [kind |-> "where", children |-> <<If(e, <<Txt(Eq("a", UserName("x")))>>),
                                                   Txt(Eq("b", UserName("y")))>>]
Tests == {[nodes |-> <<Txt(<<Word("SELECT")>>), Conditions(e)>>, args |-> Args] : e \in {t \in Trees : Exact(t)} \union Branching \union Calls}

Each1(item, index, collection, children) ==
    [kind |-> "foreach", item |-> item, index |-> index, collection |-> collection, children |-> children,
     open |-> <<Word("(")>>, close |-> <<Word(")")>>, separator |-> <<Word(",")>>, nullable |-> FALSE]
Of1(name, key) == Append(UserName(name), <<"key", key>>)
Loops ==
    {<<Each1(outer, "i", UserName("groups"),
             <<Txt(<<Param(Of1(outer, "n"))>>),
               Each1(inner, "j", Of1(outer, "ids"), <<Txt(<<Param(UserName(inner)), Param(UserName("i"))>>)>>),
               Txt(<<Param(Of1(outer, last))>>)>>),
       Txt(<<Param(UserName("x"))>>)>> : outer \in {"x", "g"}, inner \in {"x", "g", "h"}, last \in {"n", "gone"}}
    \union {<<Each1("h", "i", UserName("ids"),
                    <<[kind |-> "choose",
                       children |-> <<When(Binary(op, Var(UserName("h")), Lit(Number(1))), <<Txt(<<Param(UserName("h"))>>)>>),
                                      When(Binary(op, Var(UserName("i")), Lit(Number(1))), <<Txt(<<Param(UserName("y"))>>)>>),
                                      [kind |-> "otherwise", children |-> <<Txt(<<Param(UserName(name))>>)>>]>>]>>)>>
            : op \in {"==", ">", "<"}, name \in {"x", "h", "i", "gone"}}
MCScripts == Tests \union {[nodes |-> nodes, args |-> Args] : nodes \in Loops}

-----------------------------------------------------------------------------
(* Upserts: with and without conflict columns, a column to set that the row *)
(* does not insert, a key that may not be set, RETURNING.                    *)
Order == [id |-> 1, n |-> 2, m |-> 3]
MCUpserts ==
    [conflicts : {<<>>, <<"id">>, <<"id", "n">>, <<"nope">>}, updates : {<<>>, <<"n">>, <<"n", "m">>, <<"id">>},
     returnings : {<<>>, <<"id">>}, order : {Order},
     values : {[id |-> Plain(<<"id">>), n |-> Plain(<<"n">>)], [id |-> Plain(<<"id">>), n |-> Nil, m |-> Plain(<<"m">>)]}]

(* Statements of a mapper file, and what the interceptors are told.          *)
Is(col, name) == <<Ident(col), Word("="), Param(name)>>
UserIs == Is("a", UserName("x"))
Selecting == <<Word("SELECT"), Ident("a"), Word("FROM"), Ident("t")>>
WhereUser == <<Word("WHERE")>> \o UserIs
Inserting(cols) == <<Word("INSERT INTO"), Ident("t"), Word("(")>> \o cols \o <<Word(")"), Word("VALUES")>>
XRow == <<Word("("), Param(UserName("x")), Word(")")>>
YRow == <<Word("("), Param(UserName("y")), Word(")")>>
Updating == <<Word("UPDATE"), Ident("t"), Word("SET")>> \o UserIs
Version == FieldName("v")
Texts ==
    [select |-> {Selecting, Selecting \o WhereUser,
                 Selecting \o WhereUser \o <<Word("ORDER BY"), Ident("a")>>,
                 Selecting \o <<Word("GROUP BY"), Ident("a"), Word("HAVING")>> \o UserIs,
                 Selecting \o WhereUser \o <<Word("OR")>> \o Is("b", UserName("y")),
                 Selecting \o <<Word("WHERE"), Word("(")>> \o UserIs \o <<Word("OR")>>
                     \o Is("b", UserName("y")) \o <<Word(")")>>,
                 Selecting \o <<Word("WHERE"), Ident("a"), Word("IN"), Word("(")>> \o Selecting
                     \o <<Word("WHERE")>> \o Is("del", UserName("y")) \o <<Word(")")>>,
                 Selecting \o <<Word("WHERE")>> \o Is("del", UserName("y")),
                 <<Word("SELECT"), Word("*"), Word("FROM"), Ident("t"), Word("LEFT JOIN"), Ident("j"),
                   Word("ON"), Ident("a"), Word("="), Ident("b")>>,
                 Selecting \o <<Word("UNION")>> \o Selecting,
                 <<Word("SELECT"), Ident("a"), Word(","), Ident("del"), Word("FROM"), Ident("t")>> \o WhereUser,
                 Selecting \o <<Word("WHERE")>> \o Is("a", <<"tenant", "value">>)},
     update |-> {Updating, Updating \o WhereUser, Updating \o WhereUser \o <<Word(";")>> \o Updating,
                 Updating \o <<Word("WHERE")>> \o Is("b", OldVersionName),
                 Updating \o WhereUser \o <<Word("RETURNING"), Ident("a")>>,
                 Updating \o <<Word(","), Ident("v"), Word("=")>> \o <<Param(Version)>> \o WhereUser,
                 Updating \o WhereUser \o <<Word("OR")>> \o Is("b", UserName("y"))},
     delete |-> {<<Word("DELETE FROM"), Ident("t")>>, <<Word("DELETE FROM"), Ident("t")>> \o WhereUser,
                 <<Word("DELETE FROM"), Ident("t")>> \o WhereUser \o <<Word("LIMIT"), Param(UserName("y"))>>,
                 <<Word("DELETE FROM"), Ident("t")>> \o WhereUser \o <<Word(";"), Word("DELETE FROM"), Ident("j")>>},
     insert |-> {Inserting(<<Ident("a")>>) \o <<Word("("), Param(<<"tenant", "value">>), Word(")")>>,
                 Inserting(<<Ident("a")>>) \o XRow, Inserting(<<Ident("a")>>) \o XRow \o <<Word(",")>> \o YRow,
                 Inserting(<<Ident("a")>>) \o XRow \o <<Word("ON CONFLICT"), Word("("), Ident("a"), Word(")"),
                                                        Word("DO NOTHING")>>,
                 Inserting(<<Ident("ten")>>) \o XRow, Inserting(<<Ident("a")>>) \o XRow \o <<Word(",")>>,
                 <<Word("INSERT INTO"), Ident("t")>> \o Selecting}]
Brought == {UserName("x") :> Text("x") @@ UserName("y") :> Text("y") @@ names : names \in
               {NoArgs, Version :> Text("old") @@ <<"tenant", "value">> :> Text("own"),
                Version :> Text("old") @@ OldVersionName :> Text("o") @@ <<"tenant", "value">> :> Text("own")
                        @@ <<"tenant", "value", 1>> :> Text("own1") @@ LiveName :> Text("l")}}
Ruled == <<Key, [Col("v") EXCEPT !.version = TRUE], [Col("del") EXCEPT !.soft = TRUE],
           [Col("at") EXCEPT !.updated = TRUE]>>
Contexts ==
    {[tenant |-> [col |-> "ten", value |-> Text("me")],
      permission |-> [sql |-> <<Word("("), Ident("dept"), Word("="), Param(<<"dept">>), Word("OR"),
                               Ident("own"), Word("="), Param(<<"dept">>), Word(")")>>,
                      args |-> <<"dept">> :> Text("d")],
      tables |-> [t |-> "t_1"], page |-> <<Page(2, 5, 0)>>, dialect |-> "mysql",
      entity |-> entity, base |-> base, ignores |-> ignores, now |-> Text("now")]
     : entity \in {<<>>, Ruled}, base \in {FALSE}, ignores \in {{}, {"tenant"}}}
MCTemplates ==
    UNION {{[st |-> Statement(command, sql, args, FALSE), ctx |-> ctx]
            : sql \in Texts[command], args \in Brought, ctx \in Contexts} : command \in DOMAIN Texts}
Kinds == {"tenant", "data-permission", "dynamic-table", "pagination", "entity-semantic", "illegal-sql",
          "read-only", "block-attack"}
MCChains == {<<>>} \union {<<a>> : a \in Kinds}
            \union {c \in Kinds \X Kinds : c[1] # c[2]}
            \union {c \in (Kinds \ {"read-only", "illegal-sql"}) \X {"entity-semantic", "pagination", "tenant"} \X {"tenant", "entity-semantic", "block-attack"} :
                        Cardinality(Range(c)) = 3}

-----------------------------------------------------------------------------
(* Rows: roots with an association that has one of its own, and two        *)
(* collections whose elements have the same keys under every root; each    *)
(* join in every order of its rows.                                        *)
ID == <<"id">>
N == <<"n">>
IntV(i) == [t |-> "int", v |-> i]
Str(x) == [t |-> "string", v |-> x]
F(prop, id) == [prop |-> prop, col |-> prop, id |-> id, handler |-> ""]
Obj(prop, prefix, type, fields) ==
    [prop |-> prop, prefix |-> prefix, type |-> type, fields |-> fields, notNull |-> <<>>, set |-> "",
     parent |-> <<>>, foreign |-> <<>>, associations |-> <<>>, collections |-> <<>>, select |-> <<>>,
     columnParses |-> TRUE]
IntStr == ID :> "int" @@ N :> "string"
Addr == Obj(<<"addr">>, <<"addr">>, IntStr, <<F(ID, TRUE), F(N, FALSE)>>)
Cust == [Obj(<<"cust">>, <<"cust">>, IntStr, <<F(ID, TRUE), F(N, FALSE)>>) EXCEPT !.associations = <<Addr>>]
Items == Obj(<<"items">>, <<"item">>, IntStr, <<F(ID, TRUE), F(N, FALSE)>>)
Tags == Obj(<<"tags">>, <<"tag">>, ID :> "int", <<F(ID, FALSE)>>)
PlainMap == [id |-> "m", name |-> "T", target |-> "T", type |-> IntStr, fields |-> <<F(ID, TRUE), F(N, FALSE)>>,
             args |-> <<>>, auto |-> "unset", entity |-> <<>>, disc |-> NoDiscriminator, extends |-> "",
             associations |-> <<>>, collections |-> <<>>]
Settings == [auto |-> "FULL", unknown |-> "NONE", scanners |-> FALSE, handlers |-> {}, maps |-> <<>>]

Own(i, text) == <<ID>> :> IntV(i) @@ <<N>> :> text
None == [p \in {<<"cust">>, <<"items">>, <<"tags">>} |-> <<>>]
Tree(i, text, cust, items, tags) ==
    [own |-> Own(i, text),
     nested |-> <<"cust">> :> cust @@ <<"items">> :> items @@ <<"tags">> :> tags]
Tag(i) == <<ID>> :> IntV(i)
Buyer == Own("7", Str("b")) @@ <<<<"addr">>, ID>> :> IntV("8") @@ <<<<"addr">>, N>> :> Null
TreeSets ==
    {{}, {Tree("1", Null, <<>>, <<>>, <<>>)},
     {Tree("1", Str("a"), <<Buyer>>, <<Own("1", Str("x")), Own("2", Null)>>, <<Tag("1"), Tag("2")>>)},
     {Tree("1", Str("a"), <<Buyer>>, <<Own("1", Str("x")), Own("2", Null)>>, <<Tag("1")>>),
      Tree("2", Str("a"), <<>>, <<Own("1", Str("x"))>>, <<>>)},
     {Tree("1", Str("a"), <<Own("7", Str("b"))>>, <<Own("1", Str("x"))>>, <<Tag("1")>>),
      Tree("2", Str("a"), <<Own("7", Str("b"))>>, <<Own("1", Str("x"))>>, <<Tag("1"), Tag("2")>>)}}

(* The columns of an object behind its prefix, with the paths they are for. *)
RECURSIVE Shown1(_, _, _)
Shown1(o, prefix, path) ==
    [i \in DOMAIN o.fields |-> [col |-> prefix \o o.fields[i].col, path |-> Append(path, o.fields[i].prop)]]
    \o FlattenSeq([i \in DOMAIN o.associations |->
                      Shown1(o.associations[i], prefix \o o.associations[i].prefix, Append(path, o.associations[i].prop))])
Cells(shown, object, bytes) ==
    [i \in DOMAIN shown |->
        LET x == IF shown[i].path \in DOMAIN object THEN object[shown[i].path] ELSE Null
        IN IF bytes /\ x.t = "string" THEN [x EXCEPT !.t = "bytes"] ELSE x]
Joining(map, tree, bytes) ==
    LET inline == SelectSeq(map.associations \o map.collections, LAMBDA o : o.set = "")
        own == [i \in DOMAIN MapFields(map) |-> [col |-> MapFields(map)[i].col, path |-> <<MapFields(map)[i].prop>>]]
        columns == [i \in DOMAIN inline |-> Shown1(inline[i], inline[i].prefix, <<>>)]
        ChildrenOf(i) == IF tree.nested[inline[i].prop] = <<>> THEN {<<>>} ELSE Range(tree.nested[inline[i].prop])
        picks == {c \in [DOMAIN inline -> UNION {ChildrenOf(i) : i \in DOMAIN inline}] : \A i \in DOMAIN inline : c[i] \in ChildrenOf(i)}
        Cols(shown) == [i \in DOMAIN shown |-> shown[i].col]
    IN {[cols |-> Cols(own \o FlattenSeq(columns)),
         vals |-> Cells(own, tree.own, bytes) \o FlattenSeq([i \in DOMAIN inline |-> Cells(columns[i], c[i], bytes)])]
        : c \in picks}
SetRows(map, trees, name, bytes) ==     \* a result set brings the objects of every root, named by its id
    LET os == {o \in Range(map.associations \o map.collections) : o.set = name}
    IN UNION {{[cols |-> <<<<"root">>>> \o [i \in DOMAIN Shown1(o, <<>>, <<>>) |-> Shown1(o, <<>>, <<>>)[i].col],
                vals |-> <<t.own[<<ID>>]>> \o Cells(Shown1(o, <<>>, <<>>), child, bytes)]
               : child \in Range(t.nested[o.prop])} : t \in trees, o \in os}
Behind(o, name) == [o EXCEPT !.set = name, !.parent = <<ID>>, !.foreign = <<<<"root">>>>, !.prefix = <<>>]

Maps ==
    {[PlainMap EXCEPT !.auto = auto, !.associations = as, !.collections = cs] :
        auto \in {"true", "false"}, as \in {<<>>, <<Cust>>, <<[Cust EXCEPT !.notNull = <<ID>>]>>},
        cs \in {<<>>, <<Items>>, <<Items, Tags>>, <<[Items EXCEPT !.notNull = <<ID>>], Tags>>}}
    \union {[PlainMap EXCEPT !.fields = <<F(ID, FALSE), F(N, FALSE)>>, !.collections = <<Items, Tags>>],
            [PlainMap EXCEPT !.fields = <<F(N, FALSE)>>, !.args = <<F(ID, TRUE)>>, !.associations = <<Cust>>]}
    \union {[PlainMap EXCEPT !.associations = as, !.collections = cs] :
               as \in {<<>>, <<Cust>>, <<Behind(Cust, "c")>>}, cs \in {<<Behind(Items, "i")>>, <<Behind(Items, "i"), Tags>>}}
Sequenced(rows) == IF Cardinality(rows) <= 4 THEN SetToSeqs(rows) ELSE {SetToSeq(rows)}
Pruned(map, tree) ==     \* of a tree, what the map shows
    LET shown == {o.prop : o \in Range(map.associations \o map.collections)}
    IN [tree EXCEPT !.nested = [p \in DOMAIN @ |-> IF p \in shown THEN @[p] ELSE <<>>]]
RowQueries ==
    UNION {LET trees == {Pruned(map, t) : t \in all}
               names == SelectSeq(<<"c", "i">>, LAMBDA n : \E o \in Range(map.associations \o map.collections) : o.set = n)
           IN {[query |-> [map |-> map, rows |-> rows, declared |-> first \o names,
                           sets |-> [i \in DOMAIN names |-> SetToSeq(SetRows(map, trees, names[i], bytes))],
                           settings |-> [Settings EXCEPT !.scanners = scanners]],
                trees |-> trees]
               : rows \in Sequenced(UNION {Joining(map, t, bytes) : t \in trees}),
                 first \in (IF names = <<>> THEN {<<>>} ELSE {<<>>, <<"roots">>})}
           : map \in Maps, all \in TreeSets, bytes \in BOOLEAN, scanners \in BOOLEAN}

(* Rows whose kind picks their map: a column of its own for the name.      *)
NamedN(col) == [F(N, FALSE) EXCEPT !.col = <<col>>]
Case(value, fields, ref) == [value |-> value, name |-> "", fields |-> fields, ref |-> ref, associations |-> <<>>, collections |-> <<>>]
Kinded == [PlainMap EXCEPT !.fields = <<F(ID, TRUE)>>, !.auto = "false",
              !.disc = [col |-> <<"kind">>, handler |-> "", cases |-> <<Case("a", <<NamedN("x")>>, ""), Case("b", <<>>, "m2")>>]]
Other == [PlainMap EXCEPT !.id = "m2", !.auto = "false", !.fields = <<F(ID, TRUE), NamedN("y")>>]
KindRow(i, kind) == [cols |-> <<ID, <<"kind">>, <<"x">>, <<"y">>>>, vals |-> <<IntV(i), kind, Str("x"), Str("y")>>]
KindTrees == {[own |-> Own("1", Str("x")), nested |-> None], [own |-> Own("2", Str("y")), nested |-> None],
              [own |-> Own("3", Null), nested |-> None], [own |-> Own("4", Null), nested |-> None]}
KindQueries ==
    {[query |-> [map |-> Kinded, rows |-> rows, declared |-> <<>>, sets |-> <<>>,
                 settings |-> [Settings EXCEPT !.scanners = scanners, !.maps = "m" :> Kinded @@ "m2" :> Other]],
      trees |-> KindTrees]
     : scanners \in BOOLEAN,
       rows \in SetToSeqs({KindRow("1", Str("a")), KindRow("2", Str("b")), KindRow("3", Str("c")), KindRow("4", Null)})}

-----------------------------------------------------------------------------
(* Programs: references between caches and between result maps in every    *)
(* shape three of them can have; handlers, result sets, nested selects and *)
(* providers that are there, or not.                                       *)
NoSelectKey == [enabled |-> FALSE, keyProperty |-> "", sql |-> FALSE, dynamic |-> FALSE, order |-> ""]
Finding(ns, id) ==
    [name |-> <<ns, id>>, ns |-> ns, command |-> "select", sql |-> TRUE, provider |-> "", resultMap |-> "m",
     declared |-> <<>>, setMaps |-> <<>>, parameters |-> <<>>, generatedKeys |-> FALSE, keyProperty |-> "",
     selectKey |-> NoSelectKey, plain |-> PlainMap]
Mapper(ns, cached, ref, maps, statements) ==
    [kind |-> "mapper", ns |-> ns, cached |-> cached, ref |-> ref, resultMaps |-> maps, statements |-> statements]
Child1 == [cols |-> <<<<"root">>, ID, N>>, vals |-> <<IntV("1"), IntV("5"), Str("c")>>]
Program(registrations) ==
    [handlers |-> {"h"}, registrations |-> registrations,
     uses |-> <<[statement |-> <<"a", "find">>, rows |-> <<KindRow("1", Str("a")), KindRow("2", Str("b"))>>,
                 sets |-> <<<<Child1>>>>, settings |-> Settings]>>]
OneMapper(maps, st) == Program(<<Mapper("a", FALSE, "", maps, <<st>>),
                                 Mapper("b", FALSE, "", <<PlainMap>>, <<Finding("b", "find")>>)>>)

CacheUses == {<<FALSE, "">>} \union ({TRUE} \X {"", "a", "b", "c", "gone"})
CachePrograms ==
    {Program(<<Mapper("a", a[1], a[2], <<PlainMap>>, <<Finding("a", "find")>>),
               Mapper("b", b[1], b[2], <<PlainMap>>, <<Finding("b", "find")>>)>> \o more
             \o <<Mapper("c", c[1], c[2], <<>>, <<>>)>>)
     : a, b, c \in CacheUses, more \in {<<>>, <<[kind |-> "cache", ns |-> "b"]>>}}

Choosing(id, refs, extends) ==
    [Kinded EXCEPT !.id = id, !.extends = extends,
                   !.disc = IF refs = <<>> THEN NoDiscriminator
                            ELSE [@ EXCEPT !.cases = [i \in DOMAIN refs |-> Case(<<"a", "b">>[i], <<>>, refs[i])]]]
RefPrograms ==
    {OneMapper(<<Choosing("m", rs, e), Choosing("m2", qs, d), Choosing("m3", ps, "")>>, Finding("a", "find"))
     : rs \in {<<>>, <<"">>, <<"m">>, <<"m2">>, <<"", "m2">>, <<"m2", "m3">>, <<"gone">>}, e \in {"", "m2", "gone"},
       qs \in {<<>>, <<"m">>, <<"m2">>, <<"m3">>}, d \in {"", "m", "m3"}, ps \in {<<>>, <<"m">>, <<"m2">>}}
    \union {OneMapper(<<Choosing("m", <<"m2">>, ""), [Choosing("m2", <<>>, "") EXCEPT !.name = "U"]>>, Finding("a", "find"))}

Handled(o, h) == [o EXCEPT !.fields = <<[F(ID, TRUE) EXCEPT !.handler = h]>>]
Handling(h) ==
    {Handled(PlainMap, h), [PlainMap EXCEPT !.associations = <<Handled(Cust, h)>>],
     [PlainMap EXCEPT !.associations = <<[Cust EXCEPT !.associations = <<Handled(Addr, h)>>]>>],
     [PlainMap EXCEPT !.collections = <<Handled(Items, h)>>], [Kinded EXCEPT !.disc.handler = h],
     [Kinded EXCEPT !.disc.cases = <<Case("a", <<[F(ID, FALSE) EXCEPT !.handler = h]>>, "")>>]}
HandlerPrograms == {OneMapper(<<map>>, Finding("a", "find")) : map \in Handling("h") \union Handling("gone")}

Selecting1 == {[Cust EXCEPT !.select = name, !.columnParses = parses]
               : name \in {<<"find">>, <<"b", "find">>, <<"b", "gone">>, <<"gone">>}, parses \in BOOLEAN}
SelectPrograms == {OneMapper(<<[PlainMap EXCEPT !.associations = <<o>>]>>, Finding("a", "find")) : o \in Selecting1}

SetObjects == {Behind(Items, "i"), [Behind(Items, "i") EXCEPT !.foreign = <<>>], [Behind(Items, "i") EXCEPT !.parent = <<>>],
               [Behind(Items, "i") EXCEPT !.associations = <<Behind(Cust, "c")>>]}
SetPrograms ==
    {OneMapper(<<[PlainMap EXCEPT !.collections = <<o>>]>>, [Finding("a", "find") EXCEPT !.declared = declared, !.setMaps = maps])
     : o \in SetObjects, declared \in {<<>>, <<"i">>, <<"roots", "i">>, <<"roots">>}, maps \in {<<>>, <<"m">>, <<"gone">>}}
    \union {OneMapper(<<[Kinded EXCEPT !.disc.cases = <<[Case("a", <<>>, "") EXCEPT !.collections = <<o>>]>>]>>,
                      [Finding("a", "find") EXCEPT !.declared = declared])
            : o \in SetObjects, declared \in {<<>>, <<"roots", "i">>}}

ProviderPrograms ==
    {Program(<<[kind |-> "provider", name |-> "p", statements |-> names, commands |-> commands],
               Mapper("a", FALSE, "", <<PlainMap>>,
                      <<[Finding("a", "find") EXCEPT !.provider = provider, !.sql = sql, !.command = command]>>)>>)
     : names \in {{}, {<<"a", "find">>}, {<<"a", "find">>, <<"a", "gone">>}, {<<>>}},
       commands \in {{}, {"select"}, {"insert"}, {"drop"}}, provider \in {"", "p", "q"}, sql \in BOOLEAN,
       command \in {"select", "drop"}}
OtherPrograms ==
    {OneMapper(<<PlainMap>>, [Finding("a", "find") EXCEPT !.resultMap = id, !.parameters = <<p>>, !.selectKey = key,
                                                          !.generatedKeys = generated, !.keyProperty = prop])
     : id \in {"", "m", "gone"}, p \in {[name |-> "x", handler |-> ""], [name |-> "", handler |-> "h"], [name |-> "x", handler |-> "gone"]},
       key \in {NoSelectKey, [NoSelectKey EXCEPT !.enabled = TRUE, !.sql = TRUE], [NoSelectKey EXCEPT !.enabled = TRUE]},
       generated \in BOOLEAN, prop \in {"", "id"}}
    \union {Program(<<Mapper("a", FALSE, "", <<PlainMap>>, <<Finding("a", "find")>>), second>>)
            : second \in {Mapper("a", TRUE, "", <<>>, <<>>), Mapper("b", TRUE, "", <<PlainMap>>, <<Finding("a", "find")>>),
                          Mapper("b", TRUE, "", <<PlainMap>>, <<Finding("a", "save")>>), Mapper("", TRUE, "", <<>>, <<>>),
                          Mapper("b", FALSE, "", <<PlainMap, PlainMap>>, <<>>)}}
EntityPrograms ==
    {Program(<<[kind |-> "entity", name |-> name, table |-> "t", columns |-> <<[NamedN("x") EXCEPT !.handler = h]>>],
               Mapper("a", FALSE, "", <<map>>, <<Finding("a", "find")>>)>>)
     : name \in {"", "T"}, h \in {"", "h", "gone"}, map \in {PlainMap, [PlainMap EXCEPT !.auto = "false"], Kinded}}
Programs == EntityPrograms \union CachePrograms \union RefPrograms \union HandlerPrograms \union SelectPrograms
            \union SetPrograms \union ProviderPrograms \union OtherPrograms

(* Factories over one to three data sources, and four operations.          *)
ReadWrite == [kind |-> "read/write", read |-> "a", write |-> "b"]
MCFactories ==
    [keys : {<<"a">>, <<"a", "b">>, <<"a", "b", "default">>},
     resolver : {<<>>, <<[kind |-> "static", key |-> "b"]>>, <<ReadWrite>>,
                 <<[kind |-> "statement", routes |-> "save" :> "b"]>>,
                 <<[kind |-> "statement", routes |-> "other" :> "b"], ReadWrite>>},
     default : {"", "b"}, registry : BOOLEAN]
MCOperations == {[kind |-> "query", statement |-> "find", key |-> ""], [kind |-> "query", statement |-> "save", key |-> ""],
                 [kind |-> "exec", statement |-> "other", key |-> ""], [kind |-> "query", statement |-> "find", key |-> "b"]}
MCStatementCommand == "find" :> "select" @@ "save" :> "insert"

(* Two commands over two files, one of which is there and not readable to  *)
(* others.                                                                 *)
MCOldFiles == [name \in {"a.go"} |-> [data |-> "old", mode |-> "rw-------", synced |-> TRUE]]
Both == <<[path |-> "a.go", data |-> "new"], [path |-> "b.go", data |-> "new b"]>>
MCJobs == {[mode |-> "write", items |-> Both], [mode |-> "write", items |-> <<[path |-> "a.go", data |-> "newer"]>>],
           [mode |-> "check", items |-> Both]}

MCGiven ==
    [f \in DOMAIN MCMaxCalls |->
        CASE f = "script" -> MCScripts
          [] f = "intercepted" -> MCTemplates
          [] f \in {"rows", "row"} -> RowQueries \union KindQueries
          [] f = "startup" -> Programs
          [] OTHER -> {NotSent}]
====
