---- MODULE Associations ----
(***************************************************************************)
(* Associations loaded by a nested select (nested_select.go) and lazy      *)
(* values (lazy.go).                                                       *)
(*                                                                         *)
(* A query that has scanned its rows walks them, row by row and plan by    *)
(* plan. An eager association is read at once; a lazy one gets a loader    *)
(* that keeps the load context of its query. The context maps a select,    *)
(* its arguments and its type to the value read for them. When the rows    *)
(* are out, goroutines load, inspect and reset the lazy values while       *)
(* others write the rows the selects read.                                 *)
(***************************************************************************)
EXTENDS Naturals, Sequences, SequencesExt, FiniteSets

CONSTANTS
    Queries,    \* [rows, plans, loads]: scanned rows, nested selects, and for a cell the
                \* cell whose Load a user's loader of it calls first, or Nil
    Nil,        \* the value of a column that is NULL
    Callers,    \* goroutines that use the lazy values
    MaxWrites,  \* bound: writes of one selected row
    MaxResets   \* bound: Resets of one lazy value

(* select: the statement; load: the type it is loaded as; lazy: the field's *)
(* type has a loader; composite: the column is written {parameter=source};  *)
(* sources: the columns that give its arguments.                            *)
PlanType == [select : STRING, load : STRING, lazy : BOOLEAN,
             composite : BOOLEAN, sources : Seq(STRING)]

CellsOf(q) == (DOMAIN q.rows) \X (DOMAIN q.plans)

ASSUME BoundsAreNat == MaxWrites \in Nat \ {0} /\ MaxResets \in Nat
ASSUME NilIsNoCaller == Nil \notin Callers
ASSUME QueriesAreShaped ==
    \A q \in Queries :
        /\ Len(q.rows) \in Nat /\ DOMAIN q.rows = 1..Len(q.rows)
        /\ q.plans \in Seq(PlanType)
        /\ \A i \in DOMAIN q.plans : q.plans[i].sources # <<>>
        /\ \A cell \in CellsOf(q) : q.loads[cell] \in CellsOf(q) \union {Nil}

(* "" and "user" are how the model marks no value and a value of a user's  *)
(* loader: no field has such a type.                                       *)
ASSUME MarksAreNoTypes ==
    \A q \in Queries : \A i \in DOMAIN q.plans : q.plans[i].load \notin {"", "user"}

VARIABLES
    query,       \* the query whose rows are assembled
    db,          \* statement and arguments -> version of what it selects, 0: no row
    assembly,    \* cells left to fill
    failed,      \* the query returned an error
    context,     \* nestedSelectLoadContext.values
    eager,       \* cell -> value of an eager association
    lazy,        \* cell -> lazyState: loader, Resets so far, value
    holder,      \* cell -> the goroutine inside lazyState.mu, or Nil
    pc, stack,   \* goroutine -> where it is, and the cells it is loading, outermost first
    got,         \* goroutine -> the value its loader returned
    cancelled,   \* goroutines whose context is done
    overlapped   \* keys that two goroutines read at the same time (history)

vars == <<query, db, assembly, failed, context, eager, lazy, holder, pc, stack, got, cancelled, overlapped>>
rows == <<query, assembly, failed, eager>>
calls == <<pc, stack, got, cancelled, overlapped>>

Cells == CellsOf(query)
PlanOf(cell) == query.plans[cell[2]]

(* The arguments of a cell's select. A source that is no column of the row *)
(* resolves to nothing.                                                    *)
NestedSelectArgs(cell) ==
    LET row == query.rows[cell[1]]
        Value(source) == IF source \in DOMAIN row THEN row[source] ELSE Nil
    IN  [i \in DOMAIN PlanOf(cell).sources |-> Value(PlanOf(cell).sources[i])]

(* A composite column must name columns that exist; a single one that does *)
(* not is passed over like a NULL.                                         *)
ArgsFail(cell) ==
    /\ PlanOf(cell).composite
    /\ \E i \in DOMAIN PlanOf(cell).sources :
           PlanOf(cell).sources[i] \notin DOMAIN query.rows[cell[1]]

(* A select is left out when all of its arguments are NULL. *)
ArgsMissing(cell) == \A i \in DOMAIN NestedSelectArgs(cell) : NestedSelectArgs(cell)[i] = Nil

(* mutant: the key of the context leaves out the type it is loaded as *)
KeyWithoutType(cell) == <<PlanOf(cell).select, "", NestedSelectArgs(cell)>>

NestedSelectCacheKey(cell) == <<PlanOf(cell).select, PlanOf(cell).load, NestedSelectArgs(cell)>>

SelectedBy(cell) == <<PlanOf(cell).select, NestedSelectArgs(cell)>>

(* What a select of this cell reads now: its type, and the version of the   *)
(* rows. A missing row is the zero value, version 0.                        *)
Read(cell) == [load |-> PlanOf(cell).load, ver |-> db[SelectedBy(cell)]]
UserValue(cell) == [load |-> "user", ver |-> lazy[cell].gen]
Values == [load : {PlanOf(cell).load : cell \in Cells}, ver : 0..MaxWrites]
          \union [load : {"user"}, ver : 0..MaxResets]
Unset == [load |-> "", ver |-> 0]

NoLoader == [loader |-> "none", gen |-> 0, value |-> Unset]

(* The order in which the cells are filled. *)
RowByRow ==
    LET plans == Len(query.plans)
    IN  [n \in 1..(Len(query.rows) * plans) |-> <<((n - 1) \div plans) + 1, ((n - 1) % plans) + 1>>]

Init ==
    /\ query \in Queries
    /\ db \in [{SelectedBy(cell) : cell \in Cells} -> {0, 1}]
    /\ assembly = RowByRow
    /\ context = [k \in {} |-> Unset]
    /\ failed = FALSE
    /\ eager = [cell \in Cells |-> Unset]
    /\ lazy = [cell \in Cells |-> NoLoader]
    /\ holder = [cell \in Cells |-> Nil]
    /\ pc = [c \in Callers |-> "idle"] /\ stack = [c \in Callers |-> <<>>]
    /\ got = [c \in Callers |-> Unset]
    /\ cancelled = {} /\ overlapped = {}

-----------------------------------------------------------------------------
(* The rows are assembled by the goroutine of the query. *)

Assembling == ~failed /\ assembly # <<>>
HandedOut == ~failed /\ assembly = <<>>
Fill == Head(assembly)
Filled == /\ assembly' = Tail(assembly)
          /\ UNCHANGED <<query, db, failed, holder, calls>>

SkipMissing ==
    /\ Assembling /\ ~ArgsFail(Fill) /\ ArgsMissing(Fill)
    /\ Filled /\ UNCHANGED <<context, eager, lazy>>

(* setAnyLoader resets a lazy value that was never used. *)
AttachLoader ==
    /\ Assembling /\ ~ArgsFail(Fill) /\ ~ArgsMissing(Fill) /\ PlanOf(Fill).lazy
    /\ lazy' = [lazy EXCEPT ![Fill] = [@ EXCEPT !.loader = "select"]]
    /\ Filled /\ UNCHANGED <<context, eager>>

(* mutant: a value that was read is not kept in the context *)
KeepNothing(key, value) == context' = context

StoreInContext(key, value) ==
    context' = [k \in DOMAIN context \union {key} |-> IF k = key THEN value ELSE context[k]]

(* An eager association takes a copy of the value the context has for its  *)
(* key, or reads it and stores a copy. Nobody else sees the context yet.    *)
FillEager ==
    /\ Assembling /\ ~ArgsFail(Fill) /\ ~ArgsMissing(Fill) /\ ~PlanOf(Fill).lazy
    /\ LET key == NestedSelectCacheKey(Fill)
       IN  \/ /\ key \in DOMAIN context
              /\ eager' = [eager EXCEPT ![Fill] = context[key]]
              /\ UNCHANGED context
           \/ /\ key \notin DOMAIN context
              /\ eager' = [eager EXCEPT ![Fill] = Read(Fill)]
              /\ StoreInContext(key, Read(Fill))
    /\ Filled /\ UNCHANGED lazy

(* A column that cannot be resolved, or a select that fails, ends the query. *)
FailAssembly ==
    /\ Assembling
    /\ \/ ArgsFail(Fill)
       \/ ~ArgsMissing(Fill) /\ ~PlanOf(Fill).lazy /\ NestedSelectCacheKey(Fill) \notin DOMAIN context
    /\ failed' = TRUE
    /\ UNCHANGED <<query, db, assembly, context, eager, lazy, holder, calls>>

-----------------------------------------------------------------------------
(* Load, of the lazy value on top of the goroutine's stack. *)

Loading(c) == Last(stack[c])
Go(c, to) == pc' = [pc EXCEPT ![c] = to]

LoadStart(c, cell) ==
    /\ HandedOut /\ pc[c] = "idle" /\ PlanOf(cell).lazy
    /\ stack' = [stack EXCEPT ![c] = <<cell>>] /\ Go(c, "lock")
    /\ cancelled' = cancelled \ {c}
    /\ UNCHANGED <<db, rows, context, lazy, holder, got, overlapped>>

(* Load returned to the loader that called it, or to the user. *)
Return(c) ==
    /\ stack' = [stack EXCEPT ![c] = Front(@)]
    /\ IF Len(stack[c]) > 1
       THEN Go(c, "set") /\ got' = [got EXCEPT ![c] = UserValue(stack[c][Len(stack[c]) - 1])]
       ELSE Go(c, "idle") /\ got' = [got EXCEPT ![c] = Unset]

(* mutant: an error returns without the unlock *)
ErrorKeepsMutex(c) ==
    /\ stack' = [stack EXCEPT ![c] = <<>>] /\ Go(c, "idle") /\ got' = [got EXCEPT ![c] = Unset]
    /\ UNCHANGED <<db, rows, context, lazy, holder, cancelled, overlapped>>

(* An error leaves the values unset, and every Load of the stack with them. *)
ReturnError(c) ==
    /\ stack' = [stack EXCEPT ![c] = <<>>] /\ Go(c, "idle") /\ got' = [got EXCEPT ![c] = Unset]
    /\ holder' = [cell \in Cells |-> IF holder[cell] = c THEN Nil ELSE holder[cell]]
    /\ UNCHANGED <<db, rows, context, lazy, cancelled, overlapped>>

(* The mutex of the value is free. A loaded value is returned. *)
LoadLoaded(c) ==
    /\ pc[c] = "lock" /\ holder[Loading(c)] = Nil /\ lazy[Loading(c)].value # Unset
    /\ Return(c)
    /\ UNCHANGED <<db, rows, context, lazy, holder, cancelled, overlapped>>

LoadWithoutLoader(c) ==
    /\ pc[c] = "lock" /\ holder[Loading(c)] = Nil
    /\ lazy[Loading(c)].value = Unset /\ lazy[Loading(c)].loader = "none"
    /\ ReturnError(c)

(* mutant: the loader runs without the mutex *)
EnterUnlocked(c) == UNCHANGED holder

Enter(c) == holder' = [holder EXCEPT ![Loading(c)] = c]

LoadCallsLoader(c) ==
    /\ pc[c] = "lock" /\ holder[Loading(c)] = Nil
    /\ lazy[Loading(c)].value = Unset /\ lazy[Loading(c)].loader # "none"
    /\ Enter(c) /\ Go(c, lazy[Loading(c)].loader)
    /\ UNCHANGED <<db, rows, context, lazy, stack, got, cancelled, overlapped>>

LoaderCancelled(c) == pc[c] \in {"select", "query"} /\ c \in cancelled /\ ReturnError(c)

(* The loader of a nested select looks in the load context. *)
LoaderLookup(c) ==
    LET key == NestedSelectCacheKey(Loading(c))
    IN  /\ pc[c] = "select" /\ c \notin cancelled
        /\ \/ /\ key \in DOMAIN context
              /\ got' = [got EXCEPT ![c] = context[key]] /\ Go(c, "set")
              /\ UNCHANGED overlapped
           \/ /\ key \notin DOMAIN context
              /\ Go(c, "query") /\ UNCHANGED got
              /\ overlapped' = IF \E d \in Callers \ {c} :
                                      /\ pc[d] \in {"query", "store"}
                                      /\ NestedSelectCacheKey(Loading(d)) = key
                               THEN overlapped \union {key} ELSE overlapped
        /\ UNCHANGED <<db, rows, context, lazy, holder, stack, cancelled>>

LoaderQuery(c) ==
    /\ pc[c] = "query" /\ c \notin cancelled
    /\ got' = [got EXCEPT ![c] = Read(Loading(c))] /\ Go(c, "store")
    /\ UNCHANGED <<db, rows, context, lazy, holder, stack, cancelled, overlapped>>

LoaderQueryFails(c) == pc[c] = "query" /\ ReturnError(c)

LoaderStore(c) ==
    /\ pc[c] = "store"
    /\ StoreInContext(NestedSelectCacheKey(Loading(c)), got[c]) /\ Go(c, "set")
    /\ UNCHANGED <<db, rows, lazy, holder, stack, got, cancelled, overlapped>>

(* A loader the user gave: it may load another lazy value first. *)
UserLoader(c) ==
    /\ pc[c] = "user"
    /\ \/ /\ query.loads[Loading(c)] = Nil
          /\ got' = [got EXCEPT ![c] = UserValue(Loading(c))] /\ Go(c, "set")
          /\ UNCHANGED stack
       \/ /\ query.loads[Loading(c)] # Nil /\ c \notin cancelled
          /\ stack' = [stack EXCEPT ![c] = Append(@, query.loads[Loading(c)])] /\ Go(c, "lock")
          /\ UNCHANGED got
    /\ UNCHANGED <<db, rows, context, lazy, holder, cancelled, overlapped>>

UserLoaderFails(c) == pc[c] = "user" /\ ReturnError(c)

(* Load keeps what the loader returned and lets go of the loader. *)
LoadSet(c) ==
    /\ pc[c] = "set"
    /\ lazy' = [lazy EXCEPT ![Loading(c)] = [@ EXCEPT !.value = got[c], !.loader = "none"]]
    /\ holder' = [holder EXCEPT ![Loading(c)] = Nil]
    /\ Return(c)
    /\ UNCHANGED <<db, rows, context, cancelled, overlapped>>

(* Reset waits for a load that is running, forgets its value and takes the *)
(* new loader, which may be none.                                          *)
Reset(c, cell, loader) ==
    /\ HandedOut /\ pc[c] = "idle" /\ PlanOf(cell).lazy
    /\ holder[cell] = Nil /\ lazy[cell].gen < MaxResets
    /\ lazy' = [lazy EXCEPT ![cell] = [loader |-> loader, gen |-> @.gen + 1, value |-> Unset]]
    /\ UNCHANGED <<db, rows, context, holder, calls>>

-----------------------------------------------------------------------------
Cancel(c) ==
    /\ pc[c] # "idle" /\ c \notin cancelled
    /\ cancelled' = cancelled \union {c}
    /\ UNCHANGED <<db, rows, context, lazy, holder, pc, stack, got, overlapped>>

Write(selected) ==
    /\ db[selected] < MaxWrites
    /\ db' = [db EXCEPT ![selected] = @ + 1]
    /\ UNCHANGED <<rows, context, lazy, holder, calls>>

(* The query returned an error and its rows are dropped. *)
Dropped == failed /\ UNCHANGED vars

Assemble == SkipMissing \/ AttachLoader \/ FillEager \/ FailAssembly
Lock(c) == LoadLoaded(c) \/ LoadWithoutLoader(c) \/ LoadCallsLoader(c)
Load(c) == \/ LoaderCancelled(c) \/ LoaderLookup(c) \/ LoaderQuery(c) \/ LoaderQueryFails(c)
           \/ LoaderStore(c) \/ UserLoader(c) \/ UserLoaderFails(c) \/ LoadSet(c)

Next ==
    \/ Assemble \/ Dropped
    \/ \E c \in Callers :
          \/ Lock(c) \/ Load(c) \/ Cancel(c)
          \/ \E cell \in Cells : \/ LoadStart(c, cell)
                                 \/ \E loader \in {"none", "user"} : Reset(c, cell, loader)
    \/ \E selected \in DOMAIN db : Write(selected)

Spec == Init /\ [][Next]_vars

(* Loaders and selects return. sync.Mutex hands itself to a goroutine that  *)
(* waited for long, so a goroutine that keeps finding it free gets it.       *)
Fairness == \A c \in Callers : WF_vars(Load(c)) /\ SF_vars(Lock(c))
FairSpec == Spec /\ Fairness

-----------------------------------------------------------------------------
(* TypeOK: the shapes of the state, that a goroutine is inside the mutexes *)
(* of the cells it is loading, and that a lazy value has either a loader    *)
(* or a value once it was loaded.                                           *)
TypeOK ==
    /\ db \in [DOMAIN db -> 0..MaxWrites]
    /\ failed \in BOOLEAN /\ IsInjective(assembly) /\ Range(assembly) \subseteq Cells
    /\ Range(context) \subseteq Values \ {Unset}
    /\ eager \in [Cells -> Values \union {Unset}]
    /\ lazy \in [Cells -> [loader : {"none", "select", "user"}, gen : 0..MaxResets,
                           value : Values \union {Unset}]]
    /\ \A cell \in Cells : lazy[cell].value # Unset => lazy[cell].loader = "none"
    /\ pc \in [Callers -> {"idle", "lock", "select", "user", "query", "store", "set"}]
    /\ got \in [Callers -> Values \union {Unset}]
    /\ \A c \in Callers : \A i \in DOMAIN stack[c] :
          holder[stack[c][i]] = c \/ (i = Len(stack[c]) /\ pc[c] = "lock")

(* RowsAgree: rows of one result that ask for the same association show the *)
(* same version of it, and the lazy ones the one the eager ones show, though *)
(* its rows are written in between (nestedSelectLoadContext). Two lazy values *)
(* may differ only when two goroutines read the key at the same time.          *)
Shown(cell) == IF PlanOf(cell).lazy THEN lazy[cell].value ELSE eager[cell]
RowsAgree ==
    \A a, b \in Cells :
        /\ Unset \notin {Shown(a), Shown(b)}
        /\ "user" \notin {Shown(a).load, Shown(b).load}
        /\ NestedSelectCacheKey(a) = NestedSelectCacheKey(b)
        /\ NestedSelectCacheKey(a) \notin overlapped
        => Shown(a) = Shown(b)

(* ShownAsAsked: a value has the type its field loads, so a single value and *)
(* a collection read by one select do not take each other's place.            *)
ShownAsAsked ==
    \A cell \in Cells : Shown(cell).load \in {"", "user", PlanOf(cell).load}

(* ResetWins: a lazy value comes from the loader it was last given: a load   *)
(* that was running when Reset was called leaves nothing behind (lazy.go:97). *)
ResetWins ==
    \A cell \in Cells :
        /\ lazy[cell].value.load = "user" => lazy[cell].value.ver = lazy[cell].gen
        /\ lazy[cell].value # Unset /\ lazy[cell].value.load # "user" => lazy[cell].gen = 0

(* LoadEnds: every Load returns, though loads wait for each other's mutex   *)
(* and call each other, as long as no chain of them is a cycle (lazy.go:46). *)
LoadEnds == \A c \in Callers : pc[c] # "idle" ~> pc[c] = "idle"
====
