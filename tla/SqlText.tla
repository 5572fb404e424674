------------------------------ MODULE SqlText ------------------------------
(***************************************************************************)
(* SQL text on its way to the driver: the fragments the builders write,    *)
(* the named arguments they collect, and the compilation that replaces     *)
(* #{name} by the dialect's placeholder and an argument list.              *)
(*                                                                         *)
(* Text is a sequence of tokens.  A token is a word (a keyword, a bracket, *)
(* a function name: its spelling is never taken apart), an identifier, the *)
(* placeholder #{name}, the raw placeholder ${name}, or, once compiled, a  *)
(* numbered driver mark.  Names are pairs <<prefix, key>>: the generated   *)
(* ones (__goark_orm_w_<n>, ..._u_<n>, ..._sqlb_<n>) have a number as key. *)
(***************************************************************************)
EXTENDS Naturals, Sequences, SequencesExt, TLC

Word(w)   == <<"word", w>>
Ident(c)  == <<"ident", c>>
Param(n)  == <<"#", n>>
RawMark(n) == <<"$", n>>
Mark(k)   == <<"mark", k>>

WrapperName(seq) == <<"w", seq>>
UpdateName(seq)  == <<"u", seq>>
BuilderName(seq) == <<"sqlb", seq>>
UserName(n)      == <<"p", n>>

NoArgs == [n \in {} |-> 0]

(* Argument values: nil, a plain value, an identifier token, a list or a   *)
(* map or struct with its fields; and two that say a path leads nowhere.   *)
Nil        == [kind |-> "nil"]
Plain(v)   == [kind |-> "plain", value |-> v]
IdentArg(c) == [kind |-> "ident", column |-> c]
ListOf(vs) == [kind |-> "list", items |-> vs]
MapOf(f)   == [kind |-> "map", fields |-> f]
Missing    == [kind |-> "missing"]
BadPath    == [kind |-> "bad path"]
IsValue(v) == v.kind \notin {"missing", "bad path"}

----------------------------------------------------------------------------
(* Rendering threads one state through the fragments: the text so far, the *)
(* arguments collected, the next number, and whether a fragment failed.    *)

Start(seq) == [sql |-> <<>>, args |-> NoArgs, seq |-> seq, err |-> FALSE]

Emit(st, toks) == [st EXCEPT !.sql = @ \o toks]
Words(st, w)   == Emit(st, <<Word(w)>>)
Fail(st)       == [st EXCEPT !.err = TRUE]
Clear(st)      == [st EXCEPT !.sql = <<>>]

(* What rendered joins the text before it, unless either is empty. *)
JoinedTo(text, sep, r) ==
    [r EXCEPT !.sql = IF text = <<>> \/ @ = <<>> THEN text \o @ ELSE text \o <<Word(sep)>> \o @]
Prefixed(keyword, r) ==
    [r EXCEPT !.sql = IF @ = <<>> THEN @ ELSE <<Word(keyword)>> \o @]
PutBehind(text, r) == [r EXCEPT !.sql = text \o @]

(* args[name] = value; seq++; the placeholder is written where it stands. *)
Bind(st, Name(_), value) ==
    [st EXCEPT !.sql = Append(@, Param(Name(st.seq))),
               !.args = (Name(st.seq) :> value) @@ @,
               !.seq = @ + 1]

RECURSIVE Joined(_, _)
(* strings.Join over token sequences. *)
Joined(parts, sep) ==
    IF parts = <<>> THEN <<>>
    ELSE IF Len(parts) = 1 THEN parts[1]
    ELSE parts[1] \o <<Word(sep)>> \o Joined(Tail(parts), sep)

RECURSIVE BindAll(_, _, _)
(* One placeholder per value, separated by commas. *)
BindAll(st, Name(_), values) ==
    IF values = <<>> THEN st
    ELSE LET bound == Bind(st, Name, Head(values))
         IN IF Tail(values) = <<>> THEN bound
            ELSE BindAll(Words(bound, ","), Name, Tail(values))

----------------------------------------------------------------------------
(* A raw fragment brings its own arguments.  Its #{name}s are renumbered   *)
(* into the statement's own names, one number for each occurrence; ${}, a  *)
(* semicolon and a name it does not bring are errors.                      *)

(* A name is looked up as it stands, then as a path: its root argument,    *)
(* and from there one property or index after the other.  Nil stays nil;   *)
(* an index outside the list and a property nobody has are missing; a key  *)
(* on a list is an error.                                                  *)
PathStep(v, step) ==
    CASE v.kind \in {"nil", "missing", "bad path"} -> v
      [] v.kind = "list" /\ step[1] = "index" ->
            IF step[2] < Len(v.items) THEN v.items[step[2] + 1] ELSE Missing
      [] v.kind = "list" /\ step[1] = "key" -> BadPath
      [] v.kind = "map" /\ step[2] \in DOMAIN v.fields -> v.fields[step[2]]
      [] OTHER -> Missing

ResolveNamedArg(args, name) ==
    IF name \in DOMAIN args THEN args[name]
    ELSE IF SubSeq(name, 1, 2) \notin DOMAIN args THEN Missing
    ELSE FoldLeft(PathStep, args[SubSeq(name, 1, 2)], SubSeq(name, 3, Len(name)))

ValidateRaw(text) ==
    \A i \in DOMAIN text : text[i] # Word(";") /\ text[i][1] # "$"

BindGiven(st, v) == IF IsValue(v) THEN Bind(st, WrapperName, v) ELSE Fail(st)
RawToken(rawArgs, st, tok) ==
    IF tok[1] # "#" THEN Emit(st, <<tok>>)
    ELSE BindGiven(st, ResolveNamedArg(rawArgs, tok[2]))

RenderRaw(st, text, rawArgs) ==
    IF text = <<>> THEN st
    ELSE IF ~ValidateRaw(text) THEN Fail(st)
    ELSE FoldLeft(LAMBDA s, tok : RawToken(rawArgs, s, tok), st, text)

(* Last: raw, and without parameters. *)
SanitizeLast(st, text) ==
    IF text # <<>> /\ (~ValidateRaw(text) \/ \E i \in DOMAIN text : text[i][1] = "#")
    THEN Fail(st) ELSE Emit(st, text)

----------------------------------------------------------------------------
(* Compilation.  First every ${name} is replaced by the identifier its     *)
(* argument holds, then every #{name}, left to right, by the next mark and *)
(* its value joins the argument list.  A name without an argument is an    *)
(* error, and so is a ${} whose argument is not an identifier.             *)

Spliced(st, v) == IF v.kind # "ident" THEN Fail(st) ELSE Emit(st, <<Ident(v.column)>>)
RenderRawToken(args, st, tok) ==
    IF tok[1] # "$" THEN Emit(st, <<tok>>) ELSE Spliced(st, ResolveNamedArg(args, tok[2]))

Marked(out, v) ==
    IF ~IsValue(v) THEN Fail(out)
    ELSE [out EXCEPT !.sql = Append(@, Mark(Len(out.list) + 1)), !.list = Append(@, v)]
CompileToken(args, out, tok) ==
    IF tok[1] # "#" THEN Emit(out, <<tok>>) ELSE Marked(out, ResolveNamedArg(args, tok[2]))

Placeholders(raw) ==
    FoldLeft(LAMBDA out, tok : CompileToken(raw.args, out, tok),
             [sql |-> <<>>, list |-> <<>>, err |-> raw.err], raw.sql)
CompileSQL(st) ==
    Placeholders(FoldLeft(LAMBDA s, tok : RenderRawToken(st.args, s, tok), Clear(st), st.sql))
============================================================================
