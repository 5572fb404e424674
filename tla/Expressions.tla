---------------------------- MODULE Expressions ----------------------------
(***************************************************************************)
(* The expressions of dynamic SQL (test="..." and bind): scanned tokens    *)
(* are parsed by precedence climbing and evaluated on the way, so every    *)
(* operand is evaluated, that of an `and' whose left side is false and     *)
(* both branches of a ternary included.                                    *)
(*                                                                         *)
(* A token is an operator or bracket (<<text>>), a literal <<"lit", v>>,   *)
(* a parameter path <<"name", path>>, a method after a value <<".", m>>,   *)
(* or a function or receiver.method in front of "(": <<"call", path, m>>,  *)
(* its path empty for a function.  `not in' is one token.  Numbers are     *)
(* whole: the inputs divide exactly.  A text that spells a number carries  *)
(* it.  The methods that trim a text or change its case are left out, and  *)
(* so is the layout of a list or map that is written out as text.          *)
(***************************************************************************)
EXTENDS SqlText, Integers, FiniteSets

Number(n) == [kind |-> "number", n |-> n]
Text(s)   == [kind |-> "text", s |-> s, n |-> <<>>]
Bool(b)   == [kind |-> "bool", b |-> b]

Parsed(v, i) == [v |-> v, i |-> i, ok |-> TRUE]
Rejected == [v |-> Nil, i |-> 0, ok |-> FALSE]

----------------------------------------------------------------------------
(* What values are to the operators. *)
Length(v) ==                          \* -1: has no length
    CASE v.kind = "nil"  -> 0
      [] v.kind = "list" -> Len(v.items)
      [] v.kind = "map"  -> Cardinality(DOMAIN v.fields)
      [] v.kind = "text" -> Len(v.s)
      [] OTHER -> -1

Truthy(v) ==
    CASE v.kind = "bool"   -> v.b
      [] v.kind = "number" -> v.n # 0
      [] Length(v) >= 0    -> Length(v) > 0
      [] OTHER -> TRUE

IsEmpty(v) == IF Length(v) >= 0 THEN Length(v) = 0 ELSE ~Truthy(v)

Numeric(v) == CASE v.kind = "number" -> <<v.n>> [] v.kind = "text" -> v.n [] OTHER -> <<>>
AsText(v) ==
    CASE v.kind = "text"   -> v.s
      [] v.kind = "number" -> ToString(v.n)
      [] v.kind = "nil"    -> ""
      [] v.kind = "bool"   -> IF v.b THEN "true" ELSE "false"
      [] OTHER -> ToString(v)

(* Whether a text has a part at a place. *)
PartAt(text, i, part) == SubSeq(text, i, i + Len(part) - 1) = part
StartsWith(text, part) == Len(part) <= Len(text) /\ PartAt(text, 1, part)
EndsWith(text, part) == Len(part) <= Len(text) /\ PartAt(text, Len(text) - Len(part) + 1, part)
HasPart(text, part) == \E i \in 1 .. (Len(text) - Len(part) + 1) : PartAt(text, i, part)

(* The number two spelled numbers give when they are written together.     *)
Digits(a, b, width) ==
    CASE a = <<>> \/ b = <<>> -> <<>>
      [] b[1] < 0 -> <<>>
      [] a[1] < 0 -> <<a[1] * 10 ^ width - b[1]>>
      [] OTHER -> <<a[1] * 10 ^ width + b[1]>>
Concatenated(s, t, a, b) ==
    [kind |-> "text", s |-> s \o t,
     n |-> CASE s = "" -> b [] t = "" -> a [] OTHER -> Digits(a, b, Len(t))]

Equal(a, b) ==                        \* nil equals nil alone; other kinds compare as text
    CASE Nil \in {a, b} -> a = b
      [] a.kind # b.kind -> AsText(a) = AsText(b)
      [] OTHER -> a = b

ContainsItem(collection, item) ==
    CASE collection.kind = "list" -> \E i \in DOMAIN collection.items : Equal(collection.items[i], item)
      [] collection.kind = "map"  -> item.kind = "text" /\ item.s \in DOMAIN collection.fields
      [] collection.kind = "text" -> HasPart(collection.s, AsText(item))
      [] OTHER -> FALSE

(* -1, 0 or 1: numbers by size, also spelled ones, other texts by their     *)
(* spelling: of two in the inputs one begins the other.                    *)
Sign(n) == CASE n < 0 -> -1 [] n > 0 -> 1 [] OTHER -> 0
TextOrder(s, t) == CASE s = t -> 0 [] StartsWith(t, s) -> -1 [] StartsWith(s, t) -> 1
OrderOf(a, b) ==
    IF <<>> \notin {Numeric(a), Numeric(b)} THEN Sign(Numeric(a)[1] - Numeric(b)[1]) ELSE TextOrder(a.s, b.s)
Comparable(a, b) == <<>> \notin {Numeric(a), Numeric(b)} \/ {a.kind, b.kind} = {"text"}
Ordered(op, order) ==
    CASE op = "<" -> order < 0 [] op = "<=" -> order <= 0
      [] op = ">" -> order > 0 [] op = ">=" -> order >= 0

Abs(a) == IF a < 0 THEN 0 - a ELSE a
Modulo(a, b) == IF a >= 0 THEN a % Abs(b) ELSE 0 - (Abs(a) % Abs(b))      \* math.Mod
Quotient(a, b) == IF b < 0 THEN (0 - a) \div Abs(b) ELSE a \div b

Calculated(op, a, b) ==
    CASE op = "+" -> a + b [] op = "-" -> a - b [] op = "*" -> a * b
      [] op = "/" -> Quotient(a, b) [] op = "%" -> Modulo(a, b)

(* One binary operator on two values: an error when they are of no use     *)
(* to it.  A comparison with nil is false, and + appends to a text.        *)
Apply(op, a, b) ==
    LET Known(v) == [ok |-> TRUE, v |-> v]
        Wrong == [ok |-> FALSE, v |-> Nil]
        m == Numeric(a)
        n == Numeric(b)
    IN CASE op = "or"  -> Known(Bool(Truthy(a) \/ Truthy(b)))
         [] op = "and" -> Known(Bool(Truthy(a) /\ Truthy(b)))
         [] op = "=="  -> Known(Bool(Equal(a, b)))
         [] op = "!="  -> Known(Bool(~Equal(a, b)))
         [] op = "in"  -> Known(Bool(ContainsItem(b, a)))
         [] op = "not in" -> Known(Bool(~ContainsItem(b, a)))
         [] op \in {"<", "<=", ">", ">="} ->
               CASE Nil \in {a, b} -> Known(Bool(FALSE))
                 [] Comparable(a, b) -> Known(Bool(Ordered(op, OrderOf(a, b))))
                 [] OTHER -> Wrong
         [] op = "+" /\ "text" \in {a.kind, b.kind} -> Known(Concatenated(AsText(a), AsText(b), m, n))
         [] OTHER ->
               IF <<>> \in {m, n} \/ (op \in {"/", "%"} /\ n = <<0>>) THEN Wrong
               ELSE Known(Number(Calculated(op, m[1], n[1])))

Prefix(op, a) ==
    CASE op \in {"not", "!"} -> [ok |-> TRUE, v |-> Bool(~Truthy(a))]
      [] op = "empty" -> [ok |-> TRUE, v |-> Bool(IsEmpty(a))]
      [] Numeric(a) = <<>> -> [ok |-> FALSE, v |-> Nil]
      [] OTHER -> [ok |-> TRUE, v |-> Number(IF op = "-" THEN 0 - Numeric(a)[1] ELSE Numeric(a)[1])]

(* Functions and methods of values, with the arguments they want. *)
Method(receiver, method, args) ==
    LET Known(v) == [ok |-> TRUE, v |-> v]
        Wrong == [ok |-> FALSE, v |-> Nil]
    IN CASE method \in {"size", "length"} /\ args = <<>> ->
               IF Length(receiver) < 0 THEN Wrong ELSE Known(Number(Length(receiver)))
         [] method = "isEmpty" /\ args = <<>> -> Known(Bool(IsEmpty(receiver)))
         [] method = "contains" /\ Len(args) = 1 -> Known(Bool(ContainsItem(receiver, args[1])))
         [] method = "containsKey" /\ Len(args) = 1 ->
               Known(Bool(receiver.kind = "map" /\ ContainsItem(receiver, args[1])))
         [] method = "containsValue" /\ Len(args) = 1 ->
               Known(Bool(receiver.kind = "map"
                          /\ \E k \in DOMAIN receiver.fields : Equal(receiver.fields[k], args[1])))
         [] method = "equals" /\ Len(args) = 1 -> Known(Bool(Equal(receiver, args[1])))
         [] method = "startsWith" /\ Len(args) = 1 -> Known(Bool(StartsWith(AsText(receiver), AsText(args[1]))))
         [] method = "endsWith" /\ Len(args) = 1 -> Known(Bool(EndsWith(AsText(receiver), AsText(args[1]))))
         [] OTHER -> Wrong

(* Without brackets only these are allowed behind a value. *)
Property(receiver, name) ==
    CASE name = "empty" -> Method(receiver, "isEmpty", <<>>)
      [] name \in {"size", "length"} -> Method(receiver, name, <<>>)
      [] OTHER -> [ok |-> FALSE, v |-> Nil]

Function(name, args) ==
    IF name \in {"len", "size"} /\ Len(args) = 1 THEN Method(args[1], "size", <<>>)
    ELSE [ok |-> FALSE, v |-> Nil]

----------------------------------------------------------------------------
(* The grammar, one level of precedence after the other. *)
Levels == << {"or"}, {"and"}, {"==", "!=", "<", "<=", ">", ">=", "in", "not in"},
             {"+", "-"}, {"*", "/", "%"} >>
PrefixOps == {"not", "!", "empty", "-", "+"}

At(ts, i) == IF i <= Len(ts) THEN ts[i] ELSE <<"end">>

(* What a name is: the values of the scope come before the arguments, a     *)
(* whole name before a path into one.                                      *)
OrElse(v, other) == IF IsValue(v) THEN v ELSE other
Visible(env, path) ==
    CASE path \in DOMAIN env.values -> env.values[path]
      [] path \in DOMAIN env.args -> env.args[path]
      [] OTHER -> OrElse(ResolveNamedArg(env.values, path), ResolveNamedArg(env.args, path))

(* The size of what comes before .size, where that has one. *)
Measured(last, length) ==
    CASE last \in {<<"key", "size">>, <<"key", "length">>} /\ length >= 0 -> Number(length)
      [] last = <<"key", "empty">> /\ length >= 0 -> Bool(length = 0)
      [] OTHER -> Missing
SizeOf(path, owner) ==
    IF Len(path) <= 2 \/ ~IsValue(owner) THEN Missing ELSE Measured(Last(path), Length(owner))
Lookup(env, path) ==
    OrElse(SizeOf(path, Visible(env, Front(path))), OrElse(Visible(env, path), Nil))

(* What the parser does next: a value of the grammar's top, of one level,   *)
(* of prefixed operators; the rest of a level, of the methods behind a     *)
(* value or of a list up to its closing bracket.  `left' is the value      *)
(* parsed so far and where the scan stands.                                *)
Ternary == <<"ternary">>
Operand   == <<"unary">>
Methods == <<"methods">>
AtLevel(n)  == IF n > Len(Levels) THEN Operand ELSE <<"level", n>>
Rest(n)   == <<"rest", n>>
UpTo(close) == <<"items", close>>

RECURSIVE Parse(_, _, _, _)
ParseFrom(goal, ts, env, i) == Parse(goal, ts, env, Parsed(ListOf(<<>>), i))

Operated(op, left, right) ==
    LET r == Apply(op, left.v, right.v)
    IN IF right.ok /\ r.ok THEN Parsed(r.v, right.i) ELSE Rejected

(* mutant: the operators of a level group to the right *)
ParseRestRight(ts, env, level, left) ==
    IF ~left.ok \/ At(ts, left.i)[1] \notin Levels[level] THEN left
    ELSE Operated(At(ts, left.i)[1], left, ParseFrom(AtLevel(level), ts, env, left.i + 1))

(* Operators of one level group to the left. *)
ParseRest(ts, env, level, left) ==
    IF ~left.ok \/ At(ts, left.i)[1] \notin Levels[level] THEN left
    ELSE Parse(Rest(level), ts, env,
               Operated(At(ts, left.i)[1], left, ParseFrom(AtLevel(level + 1), ts, env, left.i + 1)))

Branch(ts, test, yes, no) ==
    IF At(ts, yes.i)[1] = ":" /\ yes.ok /\ no.ok
    THEN Parsed(IF Truthy(test.v) THEN yes.v ELSE no.v, no.i) ELSE Rejected

ParseTernary(ts, env, test) ==
    LET yes == ParseFrom(Ternary, ts, env, test.i + 1)
    IN IF ~test.ok \/ At(ts, test.i)[1] # "?" THEN test
       ELSE Branch(ts, test, yes, ParseFrom(Ternary, ts, env, yes.i + 1))

(* Values up to the closing bracket, separated by commas. *)
ParseItem(ts, env, close, items, item) ==
    LET more == Append(items, item.v)
    IN CASE ~item.ok -> Rejected
         [] At(ts, item.i)[1] = close -> Parsed(ListOf(more), item.i + 1)
         [] At(ts, item.i)[1] = "," -> Parse(UpTo(close), ts, env, Parsed(ListOf(more), item.i + 1))
         [] OTHER -> Rejected

ParseList(ts, env, close, left) ==
    IF At(ts, left.i)[1] = close /\ left.v.items = <<>> THEN Parsed(left.v, left.i + 1)
    ELSE ParseItem(ts, env, close, left.v.items, ParseFrom(Ternary, ts, env, left.i))

(* The result of a function or method, the scan behind its arguments. *)
Called(result, args) == IF result.ok THEN Parsed(result.v, args.i) ELSE Rejected
CallNamed(env, t, args) ==
    IF ~args.ok THEN Rejected
    ELSE Called(IF t[2] = <<>> THEN Function(t[3], args.v.items)
                ELSE Method(Lookup(env, t[2]), t[3], args.v.items), args)
CallOn(receiver, method, args) ==
    IF args.ok THEN Called(Method(receiver, method, args.v.items), args) ELSE Rejected

Closed(ts, inner) ==
    IF inner.ok /\ At(ts, inner.i)[1] = ")" THEN Parsed(inner.v, inner.i + 1) ELSE Rejected

ParsePrimary(ts, env, i) ==
    LET t == At(ts, i)
    IN CASE t[1] = "(" -> Closed(ts, ParseFrom(Ternary, ts, env, i + 1))
         [] t[1] = "{" -> ParseFrom(UpTo("}"), ts, env, i + 1)
         [] t[1] = "lit" -> Parsed(t[2], i + 1)
         [] t[1] = "name" -> Parsed(Lookup(env, t[2]), i + 1)
         [] t[1] = "call" -> IF At(ts, i + 1)[1] # "(" THEN Rejected
                             ELSE CallNamed(env, t, ParseFrom(UpTo(")"), ts, env, i + 2))
         [] OTHER -> Rejected

(* Methods and properties chained to a value. *)
Chained(ts, env, left, name) ==
    IF At(ts, left.i + 1)[1] = "(" THEN CallOn(left.v, name, ParseFrom(UpTo(")"), ts, env, left.i + 2))
    ELSE Called(Property(left.v, name), Parsed(Nil, left.i + 1))
ParsePostfix(ts, env, left) ==
    IF ~left.ok \/ At(ts, left.i)[1] # "." THEN left
    ELSE Parse(Methods, ts, env, Chained(ts, env, left, At(ts, left.i)[2]))

Signed(op, operand) ==
    LET r == Prefix(op, operand.v)
    IN IF operand.ok /\ r.ok THEN Parsed(r.v, operand.i) ELSE Rejected

ParseUnary(ts, env, i) ==
    IF At(ts, i)[1] \in PrefixOps THEN Signed(At(ts, i)[1], ParseFrom(Operand, ts, env, i + 1))
    ELSE Parse(Methods, ts, env, ParsePrimary(ts, env, i))

Parse(goal, ts, env, left) ==
    CASE goal = Ternary -> ParseTernary(ts, env, ParseFrom(AtLevel(1), ts, env, left.i))
      [] goal = Operand -> ParseUnary(ts, env, left.i)
      [] goal = Methods -> ParsePostfix(ts, env, left)
      [] goal[1] = "level" -> Parse(Rest(goal[2]), ts, env, ParseFrom(AtLevel(goal[2] + 1), ts, env, left.i))
      [] goal[1] = "rest" -> ParseRest(ts, env, goal[2], left)
      [] goal[1] = "items" -> ParseList(ts, env, goal[2], left)

(* evalValueExpression: the whole text has to be one expression. *)
EvalValue(ts, env) ==
    LET r == ParseFrom(Ternary, ts, env, 1)
    IN IF r.ok /\ r.i = Len(ts) + 1 THEN r ELSE Rejected
============================================================================
