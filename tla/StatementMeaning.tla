--------------------------- MODULE StatementMeaning ---------------------------
(***************************************************************************)
(* What a sent statement says: the compiled text with the arguments in the *)
(* place of their marks, read the way SQL reads it (AND binds tighter than  *)
(* OR, brackets first), against what the calls, or the tree of a script,    *)
(* ask for.                                                                *)
(***************************************************************************)
EXTENDS Statements

ValueToken(v) == <<"value", v>>
Shown(out) == [i \in DOMAIN out.sql |-> IF out.sql[i][1] = "mark" THEN ValueToken(out.list[out.sql[i][2]])
                                        ELSE out.sql[i]]
Compiles == sent # NotSent /\ ~sent.st.err /\ ~sent.out.err
ByCalls == front \in WrapperFronts \union BuilderFronts

-----------------------------------------------------------------------------
(* The condition of a text: what stands between WHERE and the next clause, *)
(* or the end of the statement, at its own bracket level.                  *)
Clauses == {Word("GROUP BY"), Word("HAVING"), Word("ORDER BY"), Word("LIMIT"), Word("OFFSET"),
            Word("FOR UPDATE"), Word("RETURNING"), Word(";")}

Depth(toks, i) == Len(SelectSeq(SubSeq(toks, 1, i), LAMBDA t : t = Word("(")))
                  - Len(SelectSeq(SubSeq(toks, 1, i), LAMBDA t : t = Word(")")))
Least(S) == CHOOSE i \in S : \A j \in S : i <= j

HasWhere(toks) == Word("WHERE") \in Range(toks)
WhereText(toks) ==
    LET from == Least({i \in DOMAIN toks : toks[i] = Word("WHERE")})
        level == Depth(toks, from)
        ends == {i \in DOMAIN toks : i > from /\ (Depth(toks, i) < level
                                                  \/ (Depth(toks, i) = level /\ toks[i] \in Clauses))}
    IN SubSeq(toks, from + 1, Least(ends \union {Len(toks) + 1}) - 1)

(* The pieces between the separators at bracket level 0; the AND of a      *)
(* BETWEEN separates nothing.                                              *)
Pieces(toks, sep) ==
    LET Cut(i) == /\ toks[i] = Word(sep) /\ Depth(toks, i) = 0
                  /\ ~(i > 2 /\ toks[i - 2] \in {Word("BETWEEN"), Word("NOT BETWEEN")})
        cuts == {0, Len(toks) + 1} \union {i \in DOMAIN toks : Cut(i)}
    IN {SubSeq(toks, a + 1, b - 1) : <<a, b>> \in
           {p \in cuts \X cuts : p[1] < p[2] /\ \A c \in cuts : ~(p[1] < c /\ c < p[2])}}

RECURSIVE TextHolds(_, _)
(* Whether a condition holds where exactly the atoms of A do. *)
TextHolds(toks, A) ==
    LET Piece(p) == IF p # <<>> /\ p[1] = Word("(") /\ Last(p) = Word(")")
                    THEN TextHolds(Tail(Front(p)), A) ELSE p \in A
    IN \E disjunct \in Pieces(toks, "OR") : \A p \in Pieces(disjunct, "AND") : Piece(p)

-----------------------------------------------------------------------------
(* What the calls ask for: a predicate as it would be written by hand.     *)
Never == <<Word("1 = 0")>>
Marks(values) == Joined([i \in DOMAIN values |-> <<ValueToken(values[i])>>], ",")
WithValues(text, rawArgs) ==
    [i \in DOMAIN text |-> IF text[i][1] = "#" THEN ValueToken(rawArgs[text[i][2]]) ELSE text[i]]

Atom(c) ==
    CASE c.kind = "raw" -> WithValues(c.sql, c.args)
      [] c.kind = "exists" -> <<Word("EXISTS")>> \o Parens(WithValues(c.sql, c.args))
      [] c.kind = "not_exists" -> <<Word("NOT EXISTS")>> \o Parens(WithValues(c.sql, c.args))
      [] c.kind = "sql" -> <<Ident(c.col), Word(c.op)>> \o Parens(WithValues(c.sql, c.args))
      [] c.op \in {"IS NULL", "IS NOT NULL"} -> <<Ident(c.col), Word(c.op)>>
      [] c.op \in {"IN", "NOT IN"} ->
            IF c.value \in {Nil, ListOf(<<>>)} THEN Never
            ELSE <<Ident(c.col), Word(c.op)>> \o Parens(Marks(c.value.items))
      [] c.op \in {"BETWEEN", "NOT BETWEEN"} ->
            <<Ident(c.col), Word(c.op),
              ValueToken(c.value.left), Word("AND"), ValueToken(c.value.right)>>
      [] OTHER -> <<Ident(c.col), Word(c.op), ValueToken(c.value)>>

RECURSIVE Says(_), CallHolds(_, _), AtomsOf(_)
(* A raw fragment may be empty, and a group of such says nothing.          *)
Says(c) == CASE c.kind = "nested" -> \E i \in DOMAIN c.nested : Says(c.nested[i])
             [] c.kind \in {"raw", "exists", "not_exists"} -> c.sql # <<>>
             [] OTHER -> TRUE
Saying(conds) == SelectSeq(conds, Says)

CallHolds(conds, A) ==
    LET said == Saying(conds)
        Holds(c) == IF c.kind = "nested" THEN CallHolds(c.nested, A) ELSE Atom(c) \in A
        Conn(c) == IF c.kind = "nested" THEN c.conn ELSE "AND"
        starts == {1} \union {i \in DOMAIN said : Conn(said[i]) = "OR"}
    IN \E s \in starts : \A i \in DOMAIN said :
           (i >= s /\ \A t \in starts : ~(s < t /\ t <= i)) => Holds(said[i])

AtomsOf(conds) == UNION {IF c.kind = "nested" THEN AtomsOf(c.nested) ELSE {Atom(c)} : c \in Range(Saying(conds))}

Soft == HasSoft(sent.entity.columns)
LiveAtom == <<Ident(SoftOf(sent.entity.columns)[1].col), Word("="), ValueToken(Live)>>
EndsWithOr == \E i \in DOMAIN Saying(w.conds) : i > 1 /\ Saying(w.conds)[i].kind = "nested"
                                                 /\ Saying(w.conds)[i].conn = "OR"
Asked == Saying(w.conds) # <<>>
Cases == SUBSET ((AtomsOf(w.conds) \ {Never}) \union (IF Soft THEN {LiveAtom} ELSE {}))

(* WhereMeansTheCalls: a statement selects, counts, changes and deletes the *)
(* rows its conditions ask for, however they were nested and connected, and *)
(* only the live ones of an entity with a logical delete column. A write     *)
(* whose conditions all say nothing is not a statement at all. Left out: an  *)
(* OR at the top beside the live condition (LiveOnly).                        *)
WhereMeansTheCalls ==
    Compiles /\ ByCalls =>
        LET text == Shown(sent.out)
        IN CASE ~HasWhere(text) -> ~Asked /\ ~Soft
             [] WhereText(text) = <<>> -> ~Asked /\ ~Soft
             [] Soft /\ (EndsWithOr \/ ~Asked) -> TRUE
             [] OTHER -> \A A \in Cases : TextHolds(WhereText(text), A)
                                          <=> (CallHolds(w.conds, A) /\ (Soft => LiveAtom \in A))

(* LiveOnly: what the tests of the mapper say of a logical delete column,   *)
(* that only live rows are read and changed, whatever the conditions are.   *)
LiveOnly ==
    Compiles /\ ByCalls /\ Soft =>
        \A A \in Cases : TextHolds(WhereText(Shown(sent.out)), A) => LiveAtom \in A

-----------------------------------------------------------------------------
(* The operands, in the order the text has their places.                   *)
RECURSIVE ConditionValues(_)
Operands(c) ==
    CASE c.kind \in {"raw", "exists", "not_exists", "sql"} ->
              LET params == SelectSeq(c.sql, LAMBDA t : t[1] = "#") IN [i \in DOMAIN params |-> c.args[params[i][2]]]
      [] c.op \in {"IS NULL", "IS NOT NULL"} -> <<>>
      [] c.op \in {"IN", "NOT IN"} -> IF c.value = Nil THEN <<>> ELSE c.value.items
      [] c.op \in {"BETWEEN", "NOT BETWEEN"} -> <<c.value.left, c.value.right>>
      [] OTHER -> <<c.value>>
ConditionValues(conds) ==
    FlattenSeq([i \in DOMAIN conds |-> IF conds[i].kind = "nested" THEN ConditionValues(conds[i].nested)
                                       ELSE Operands(conds[i])])

FragmentValues(fs) == FlattenSeq([i \in DOMAIN fs |-> IF fs[i].sql = <<>> THEN <<>> ELSE <<fs[i].args[UserName("x")]>>])
SetValues == FlattenSeq([i \in DOMAIN w.sets |->
                            IF w.sets[i].op = "raw" THEN FragmentValues(<<w.sets[i]>>) ELSE <<w.sets[i].value>>])
LiveValue == IF Soft THEN <<Live>> ELSE <<>>
Written == LET cols == UpdateColumns(sent.entity.columns, sent.entity.row)
           IN [i \in DOMAIN cols |-> sent.entity.row[cols[i].col]]
(* The page asked for: its first row and its size; 10 rows unless it says   *)
(* how many, never more than its limit.                                     *)
PageValues(p) ==
    LET asked == IF p.size = 0 THEN 10 ELSE p.size
        size == IF p.maxLimit > 0 /\ asked > p.maxLimit THEN p.maxLimit ELSE asked
        skip == IF p.current < 1 THEN 0 ELSE (p.current - 1) * size
    IN IF size < 0 THEN <<>>
       ELSE IF sent.asked.dialect \in {"sqlserver", "oracle"} THEN <<NumberArg(skip), NumberArg(size)>>
       ELSE <<NumberArg(size), NumberArg(skip)>>
Joins == FragmentValues([i \in DOMAIN w.joins |-> [sql |-> w.joins[i].on, args |-> w.joins[i].args]])

Expected ==
    LET where == ConditionValues(w.conds) \o LiveValue
    IN CASE sent.op \in {"SelectList", "SelectObjs", "Count"} -> where \o FragmentValues(w.havings)
         [] sent.op = "SelectPage" -> where \o FragmentValues(w.havings) \o PageValues(sent.asked.page)
         [] sent.op = "Update" -> Written \o where
         [] sent.op = "UpdateWithWrapper" -> SetValues \o where
         [] sent.op = "Delete" -> (IF Soft THEN <<Deleted>> ELSE <<>>) \o where
         [] sent.op = "Build" -> Joins \o SetValues \o ConditionValues(w.conds) \o FragmentValues(w.havings)
                                 \o w.limit \o w.offset
         [] sent.op = "SelectByID" -> <<V(1)>> \o LiveValue
         [] sent.op = "DeleteByID" -> (IF Soft THEN <<Deleted>> ELSE <<>>) \o <<V(1)>> \o LiveValue
         [] sent.op = "PhysicalDeleteByID" -> <<V(1)>>
         [] sent.op = "BuildRows" ->
               FlattenSeq([i \in DOMAIN sent.asked.rows |->
                   [k \in DOMAIN sent.asked.selects |-> sent.asked.rows[i][sent.asked.selects[k]]]])
ByKeyOps == {"SelectByID", "DeleteByID", "PhysicalDeleteByID", "BuildRows"}

(* ValuesInPlace: the arguments the driver gets are the operands of the     *)
(* calls, each once, in the order the text mentions them, though conditions, *)
(* assignments, fragments, the live condition and the page are rendered in   *)
(* another order and renumbered on the way.                                  *)
ValuesInPlace == Compiles /\ (ByCalls \/ sent.op \in ByKeyOps) => sent.out.list = Expected

(* WritesAreBounded: nothing deletes or changes a whole table by accident:   *)
(* the mapper's writes by condition, and a builder that was told so          *)
(* (RequireWhere), send no UPDATE or DELETE without a WHERE, even where every *)
(* condition they were given turned out empty.                                *)
WritesAreBounded ==
    Compiles /\ ByCalls /\ sent.st.command \in {"update", "delete"} =>
        \/ HasWhere(sent.out.sql)
        \/ front \in BuilderFronts /\ ~w.requireWhere
-----------------------------------------------------------------------------
(* The tree of a script, read by the rules of scoping: a name is the        *)
(* innermost one around it, a test the expression it was written for. The   *)
(* expressions are trees here; Spell writes them out with no more brackets   *)
(* than precedence asks for.                                                *)
Lit(v) == [kind |-> "lit", v |-> v]
Var(path) == [kind |-> "name", path |-> path]
Unary(op, a) == [kind |-> "unary", op |-> op, a |-> a]
Binary(op, a, b) == [kind |-> "binary", op |-> op, a |-> a, b |-> b]
IfElse(test, a, b) == [kind |-> "ternary", test |-> test, a |-> a, b |-> b]
Call(a, method, args) == [kind |-> "call", a |-> a, method |-> method, args |-> args]
Part(a, name) == [kind |-> "part", a |-> a, name |-> name]
Listed(items) == [kind |-> "list", items |-> items]

Precedence(op) == CHOOSE i \in DOMAIN Levels : op \in Levels[i]
Tightness(e) ==
    CASE e.kind = "ternary" -> 0
      [] e.kind = "binary" -> Precedence(e.op)
      [] e.kind = "unary" -> Len(Levels) + 1
      [] OTHER -> Len(Levels) + 2
RECURSIVE Spell(_, _), Meaning(_, _), Rendered(_, _)
Commas(es) == FlattenSeq([i \in DOMAIN es |-> (IF i = 1 THEN <<>> ELSE << <<",">> >>) \o Spell(es[i], 0)])
Spell(e, level) ==
    LET own == Tightness(e)
        toks == CASE e.kind = "lit" -> << <<"lit", e.v>> >>
                  [] e.kind = "name" -> << <<"name", e.path>> >>
                  [] e.kind = "unary" -> << <<e.op>> >> \o Spell(e.a, own)
                  [] e.kind = "binary" -> Spell(e.a, own) \o << <<e.op>> >> \o Spell(e.b, own + 1)
                  [] e.kind = "ternary" -> Spell(e.test, 1) \o << <<"?">> >> \o Spell(e.a, 0)
                                           \o << <<":">> >> \o Spell(e.b, 0)
                  [] e.kind = "list" -> << <<"{">> >> \o Commas(e.items) \o << <<"}">> >>
                  [] e.kind = "part" -> IF e.a.kind = "name" THEN << <<"name", Append(e.a.path, <<"key", e.name>>)>> >>
                                        ELSE Spell(e.a, own) \o << <<".", e.name>> >>
                  [] e.a.kind = "name" -> << <<"call", e.a.path, e.method>>, <<"(">> >>
                                          \o Commas(e.args) \o << <<")">> >>
                  [] OTHER -> Spell(e.a, own) \o << <<".", e.method>>, <<"(">> >>
                              \o Commas(e.args) \o << <<")">> >>
    IN IF own < level THEN << <<"(">> >> \o toks \o << <<")">> >> ELSE toks

Known(v) == [ok |-> TRUE, v |-> v]
Unknown == [ok |-> FALSE, v |-> Nil]
AllMean(es, env) == \A i \in DOMAIN es : Meaning(es[i], env).ok
Meanings(es, env) == [i \in DOMAIN es |-> Meaning(es[i], env).v]
Meaning(e, env) ==
    CASE e.kind = "lit" -> Known(e.v)
      [] e.kind = "name" -> Known(LET v == ResolveNamedArg(env, e.path) IN IF IsValue(v) THEN v ELSE Nil)
      [] e.kind = "unary" -> LET a == Meaning(e.a, env) IN IF a.ok THEN Prefix(e.op, a.v) ELSE Unknown
      [] e.kind = "binary" -> LET a == Meaning(e.a, env)
                                  b == Meaning(e.b, env)
                              IN IF a.ok /\ b.ok THEN Apply(e.op, a.v, b.v) ELSE Unknown
      [] e.kind = "ternary" -> IF ~AllMean(<<e.test, e.a, e.b>>, env) THEN Unknown
                               ELSE IF Truthy(Meaning(e.test, env).v) THEN Meaning(e.a, env) ELSE Meaning(e.b, env)
      [] e.kind = "list" -> IF AllMean(e.items, env) THEN Known(ListOf(Meanings(e.items, env))) ELSE Unknown
      [] e.kind = "part" -> LET a == Meaning(e.a, env)
                            IN CASE ~a.ok -> Unknown
                                 [] e.a.kind = "name" /\ Length(a.v) < 0 -> Known(Nil)   \* a name nobody knows
                                 [] OTHER -> Property(a.v, e.name)
      [] OTHER -> IF AllMean(<<e.a>> \o e.args, env)
                  THEN Method(Meaning(e.a, env).v, e.method, Meanings(e.args, env)) ELSE Unknown

Wrong == [sql |-> <<>>, ok |-> FALSE]
Right(toks) == [sql |-> toks, ok |-> TRUE]
Chosen(n, env) ==
    LET whens == SelectSeq(n.children, LAMBDA c : c.kind = "when" /\ Truthy(Meaning(c.expr, env).v))
        others == SelectSeq(n.children, LAMBDA c : c.kind = "otherwise")
    IN IF whens # <<>> THEN whens[1].children ELSE IF others # <<>> THEN others[1].children ELSE <<>>

Node(n, env) ==
    CASE n.kind = "text" ->
            IF \E i \in DOMAIN n.toks : n.toks[i][1] = "#" /\ ~IsValue(ResolveNamedArg(env, n.toks[i][2]))
            THEN Wrong
            ELSE Right([i \in DOMAIN n.toks |-> IF n.toks[i][1] # "#" THEN n.toks[i]
                                                ELSE ValueToken(ResolveNamedArg(env, n.toks[i][2]))])
      [] n.kind = "if" -> LET t == Meaning(n.expr, env)
                          IN IF ~t.ok THEN Wrong ELSE IF Truthy(t.v) THEN Rendered(n.children, env) ELSE Right(<<>>)
      [] n.kind = "choose" -> Rendered(Chosen(n, env), env)
      [] n.kind = "where" ->
            LET c == Rendered(n.children, env)
                bare == IF c.sql # <<>> /\ c.sql[1] \in {Word("AND"), Word("OR")} THEN Tail(c.sql) ELSE c.sql
            IN [c EXCEPT !.sql = IF bare = <<>> THEN <<>> ELSE <<Word("WHERE")>> \o bare]
      [] n.kind = "foreach" ->
            LET items == ResolveNamedArg(env, n.collection).items
                Inner(i) == Rendered(n.children, Root(n.index) :> Number(i - 1) @@ Root(n.item) :> items[i] @@ env)
                parts == [i \in DOMAIN items |-> Inner(i)]
            IN [sql |-> n.open \o Joined([i \in DOMAIN parts |-> parts[i].sql], n.separator[1][2]) \o n.close,
                ok |-> \A i \in DOMAIN parts : parts[i].ok]

Rendered(nodes, env) ==
    LET parts == [i \in DOMAIN nodes |-> Node(nodes[i], env)]
    IN [sql |-> FlattenSeq([i \in DOMAIN parts |-> parts[i].sql]), ok |-> \A i \in DOMAIN parts : parts[i].ok]

(* ScriptMeansItsTree: dynamic SQL compiles to the text and the arguments   *)
(* its tree means: tests group as their operators bind, and a placeholder   *)
(* takes the innermost item or argument of its name, though the values are  *)
(* looked up when the whole text is there and the loops are over.           *)
ScriptMeansItsTree ==
    sent.op = "Script" =>
        LET meant == Rendered(script.nodes, script.args)
        IN /\ Compiles <=> meant.ok
           /\ meant.ok => Shown(sent.out) = meant.sql
===============================================================================
