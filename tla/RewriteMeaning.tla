---------------------------- MODULE RewriteMeaning ----------------------------
(***************************************************************************)
(* What upserts and intercepted statements say, read from the compiled     *)
(* text.                                                                   *)
(***************************************************************************)
EXTENDS StatementMeaning

Split(toks, sep) ==
    LET cuts == SetToSortSeq({0, Len(toks) + 1}
                                 \union {i \in DOMAIN toks : toks[i] = Word(sep) /\ BracketLevel(toks, i) = 0},
                             LAMBDA a, b : a < b)
    IN [k \in 1..(Len(cuts) - 1) |-> SubSeq(toks, cuts[k] + 1, cuts[k + 1] - 1)]
Within(toks, i) == LET group == From(toks, i) IN SubSeq(group, 2, Closing(group) - 1)
At1(toks, word) == FirstOf(toks, 1, LAMBDA t : t = Word(word))

-----------------------------------------------------------------------------
(* An upsert as functions from columns to values: what it inserts when the  *)
(* row is new, what it sets when it is not. A reference to the new row       *)
(* (EXCLUDED, VALUES(), source) stands for the value inserted there.         *)
Pairing(cols, vals) == [c \in {cols[i][1][2] : i \in DOMAIN cols} |->
                           vals[CHOOSE i \in DOMAIN cols : cols[i][1][2] = c]]
Gone == <<"no such column">>
Referred(row, toks) ==
    CASE toks[1] \in {Word("EXCLUDED."), Word("VALUES("), Word("source.")} ->
             IF toks[2][2] \in DOMAIN row THEN row[toks[2][2]] ELSE Gone
      [] OTHER -> toks[1]

MergeSource(text) ==
    LET select == Tail(Within(text, At1(text, "USING") + 1))
        Named(items) == [c \in {items[i][3][2] : i \in DOMAIN items} |->
                            items[CHOOSE i \in DOMAIN items : items[i][3][2] = c][1]]
    IN Named(Split(SelectSeq(select, LAMBDA t : t # Word("FROM dual")), ","))

InsertedBy(text) ==
    LET merge == text[1] = Word("MERGE INTO")
        list == IF merge THEN At1(text, "WHEN NOT MATCHED THEN INSERT") + 1 ELSE 3
        Values(source, values) == [i \in DOMAIN values |-> Referred(source, values[i])]
    IN Pairing(Split(Within(text, list), ","),
               Values(IF merge THEN MergeSource(text) ELSE [c \in {} |-> Gone],
                     Split(Within(text, At1(text, "VALUES") + 1), ",")))

UpdatedBy(text, inserted) ==
    LET leads == {"DO UPDATE SET", "ON DUPLICATE KEY UPDATE", "WHEN MATCHED THEN UPDATE SET"}
        ends == {Word("WHEN NOT MATCHED THEN INSERT"), Word("RETURNING"), Word(";")}
        row == IF text[1] = Word("MERGE INTO") THEN MergeSource(text) ELSE inserted
        Cut(rest) == Upto(rest, Least({Len(rest) + 1} \union {i \in DOMAIN rest : rest[i] \in ends}))
        Sides(sets) == [i \in DOMAIN sets |-> Split(SelectSeq(sets[i], LAMBDA t : t # Word("target.")), "=")]
        Assigned(sides) == Pairing([i \in DOMAIN sides |-> sides[i][1]],
                                   [i \in DOMAIN sides |-> Referred(row, sides[i][2])])
        Starting(start) == IF start = 0 THEN [c \in {} |-> Gone]
                          ELSE Assigned(Sides(Split(Cut(From(text, start + 1)), ",")))
    IN Starting(Max({0} \union {At1(text, word) : word \in leads}))

(* UpsertMeansItsRow: in every dialect, of the mapper and of the builder, an *)
(* upsert inserts the row's own value in every column it names, and sets     *)
(* exactly the columns it was asked to, to the row's values. Left out: a      *)
(* column to be set that the insert leaves out is, in a MERGE and behind      *)
(* EXCLUDED or VALUES(), no column of the new row.                             *)
UpsertMeansItsRow ==
    Compiles /\ sent.op \in {"Upsert", "BuildUpsert"} =>
        LET text == Shown(sent.out)
            row == IF sent.op = "Upsert" THEN sent.entity.row ELSE sent.asked.values
            SaysRow(inserted, updated) ==
                /\ DOMAIN inserted \subseteq DOMAIN row
                /\ \A c \in DOMAIN inserted : inserted[c] = ValueToken(row[c])
                /\ DOMAIN updated = Range(sent.asked.updates)
                /\ \A c \in DOMAIN updated :
                      \/ c \in DOMAIN row /\ updated[c] = ValueToken(row[c])
                      \/ c \notin DOMAIN inserted /\ updated[c] = Gone
        IN SaysRow(InsertedBy(text), UpdatedBy(text, InsertedBy(text)))

-----------------------------------------------------------------------------
Rewritten == Compiles /\ front = "intercepted"
Applies(name) == /\ name \in Range(sent.asked.chain)
                 /\ {name, "all"} \intersect script.ctx.ignores = {}
Text1 == Shown(sent.out)

OuterWhere(text) ==
    LET Ends(rest) == {j \in DOMAIN rest : rest[j] \in Clauses /\ BracketLevel(rest, j) = 0}
        Cut(rest) == Upto(rest, Least(Ends(rest) \union {Len(rest) + 1}))
        Starting(where) == IF where = 0 THEN <<>> ELSE Cut(From(text, where + 1))
    IN Starting(FindKeyword(text, 1, "where"))

Assignments(text) ==
    LET Cut(rest) == Upto(rest, OrEnd(FindKeyword(rest, 1, "where"), rest))
    IN Cut(From(text, FindKeyword(text, 1, "set") + 1))

(* No row is touched for which the atom does not hold. *)
Demands(where, atom) ==
    LET everything == {SubSeq(where, i, j) : i, j \in DOMAIN where} \ {atom}
    IN where # <<>> /\ ~TextHolds(where, everything)

(* Forms of a statement the interceptors do not see through: an OR beside   *)
(* what they add, RETURNING, which is no clause they know, the first branch  *)
(* of a UNION, all but the last of several statements (a semicolon ends none *)
(* for them), and what follows the conditions of a DELETE they turn into an  *)
(* UPDATE.                                                                   *)
Escapes ==
    \/ Cardinality(Pieces(OuterWhere(Text1), "OR")) > 1
    \/ At1(script.st.sql, "RETURNING") # 0 \/ At1(script.st.sql, "UNION") # 0
    \/ At1(script.st.sql, ";") # 0
    \/ script.st.command = "delete" /\ sent.st.command = "update"
       /\ TailStart(script.st.sql, TRUE) <= Len(script.st.sql)

TenantAtom == <<Ident(script.ctx.tenant.col), Word("="), ValueToken(script.ctx.tenant.value)>>
RowsOf(text) ==           \* the rows behind VALUES
    LET Starting(rest) == SelectSeq(Split(rest, ","), LAMBDA r : r # <<>> /\ r[1] = Word("("))
        Values(rows) == [i \in DOMAIN rows |-> Split(Within(rows[i], 1), ",")]
    IN Values(Starting(From(text, FindKeyword(text, 1, "values") + 1)))

(* TenantHolds: behind the tenant interceptor the outer condition of a       *)
(* statement demands the tenant, so that no row of another is selected,      *)
(* changed or deleted, whatever conditions it brings and whatever other      *)
(* interceptors add; and every row it inserts belongs to the tenant, unless  *)
(* the statement names the column itself. Only the outer condition is meant: *)
(* a joined table and the SELECT of a subquery are read without one. Left    *)
(* out: Escapes, and the branches of an INSERT ALL after the first.          *)
TenantHolds ==
    Rewritten /\ Applies("tenant") =>
        CASE sent.st.command \in {"select", "update", "delete"} ->
                 Escapes \/ Demands(OuterWhere(Text1), TenantAtom)
          [] sent.st.command = "insert" ->
                 LET EachRow(cols, rows) ==
                         LET k == CHOOSE i \in DOMAIN cols : cols[i] = <<Ident(script.ctx.tenant.col)>>
                         IN \A row \in Range(rows) : k \in DOMAIN row /\ row[k] = <<ValueToken(script.ctx.tenant.value)>>
                 IN \/ Text1[1] = Word("INSERT ALL")
                    \/ Ident(script.ctx.tenant.col) \in Range(script.st.sql)
                    \/ EachRow(Split(Within(Text1, 3), ","), RowsOf(Text1))
          [] OTHER -> TRUE

(* EntityRulesHold: behind the entity interceptor a DELETE by condition of a *)
(* logically deleted entity marks live rows instead, a select or update that *)
(* says nothing of the column is of live rows only, and an update that       *)
(* brings the version it read applies to that version and raises it,         *)
(* whatever conditions the statement brings and whatever the other           *)
(* interceptors put in. Left out: Escapes, and the tables of joins and of    *)
(* subqueries.                                                               *)
EntityRulesHold ==
    LET where == OuterWhere(Text1)
        entity == script.ctx.entity
        Named(col) == \/ Mentions(OuterWhere(script.st.sql), col)
                      \/ script.st.command = "update" /\ Mentions(Assignments(script.st.sql), col)
        ver == VersionOf(entity)
        Assigned == <<Ident(ver), Word("="), Ident(ver), Word("+ 1")>>
    IN Rewritten /\ Applies("entity-semantic") /\ entity # <<>> /\ ~script.ctx.base =>
       /\ Soft /\ script.st.command = "delete" /\ HasKeyword(script.st.sql, "where") =>
             /\ sent.st.command = "update"
             /\ Escapes \/ Demands(where, LiveAtom)
       /\ Soft /\ script.st.command \in {"select", "update"} /\ ~Named(SoftOf(entity)[1].col) =>
             Escapes \/ Demands(where, LiveAtom)
       /\ HasVersion(entity) /\ script.st.command = "update" /\ FieldName(ver) \in DOMAIN script.st.args
          /\ ~Named(ver) =>
             /\ \E i \in DOMAIN Text1 : SubSeq(Text1, i, i + 3) = Assigned
             /\ \/ Escapes
                \/ Demands(where, <<Ident(ver), Word("="), ValueToken(script.st.args[FieldName(ver)])>>)

(* OnlyAdded: what a statement said it still says behind any chain of        *)
(* interceptors: its own words and arguments in their order, an argument      *)
(* never taken for another though the interceptors bind names of their own,   *)
(* except for table names and times, and for a DELETE turned into an UPDATE,  *)
(* which keeps its conditions.                                                *)
RECURSIVE Follows(_, _, _)
Kept(tok, new) == \/ new = tok
                  \/ tok[1] = "ident" /\ tok[2] \in DOMAIN script.ctx.tables
                     /\ new = Ident(script.ctx.tables[tok[2]])
                  \/ tok[1] = "value" /\ new = ValueToken(script.ctx.now)
Follows(old, new, i) ==
    IF old = <<>> THEN TRUE
    ELSE IF \A j \in i..Len(new) : ~Kept(old[1], new[j]) THEN FALSE
    ELSE Follows(Tail(old), new, Least({j \in i..Len(new) : Kept(old[1], new[j])}) + 1)
OnlyAdded ==
    Rewritten =>
        LET old == Shown(CompileSQL(script.st))
        IN IF script.st.command = "delete" /\ sent.st.command = "update"
           THEN Follows(OuterWhere(old), Text1, 1)
           ELSE Follows(old, Text1, 1)
===============================================================================
