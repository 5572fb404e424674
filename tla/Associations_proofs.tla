----------------------- MODULE Associations_proofs -----------------------
(***************************************************************************)
(* Proofs about Associations, for any queries, goroutines and bounds.      *)
(***************************************************************************)
EXTENDS Associations, TLAPS

USE BoundsAreNat, NilIsNoCaller

Stages == {"idle", "lock", "select", "user", "query", "store", "set"}

(* The variables have their types.                                         *)
DataOK ==
    /\ query \in Queries
    /\ db \in [{SelectedBy(cell) : cell \in Cells} -> 0..MaxWrites]
    /\ failed \in BOOLEAN
    /\ \A k \in DOMAIN context : context[k] \in Values \ {Unset}
    /\ eager \in [Cells -> Values \union {Unset}]
    /\ lazy \in [Cells -> [loader : {"none", "select", "user"}, gen : 0..MaxResets,
                           value : Values \union {Unset}]]
    /\ \A cell \in Cells : lazy[cell].value # Unset => lazy[cell].loader = "none"
    /\ holder \in [Cells -> Callers \union {Nil}]
    /\ pc \in [Callers -> Stages]
    /\ stack \in [Callers -> Seq(Cells)]
    /\ got \in [Callers -> Values \union {Unset}]

AssemblyOK == assembly \in Seq(Cells) /\ IsInjective(assembly)

(* A goroutine is inside the mutexes of the cells it is loading, and loads *)
(* none of them twice: all but the one it may be waiting for.              *)
StackOf(c) ==
    /\ pc[c] = "idle" <=> stack[c] = <<>>
    /\ \A i \in DOMAIN stack[c] :
          holder[stack[c][i]] = c \/ (i = Len(stack[c]) /\ pc[c] = "lock")
    /\ \A i, j \in DOMAIN stack[c] :
          i < j /\ stack[c][i] = stack[c][j] => j = Len(stack[c]) /\ pc[c] = "lock"
StacksOK == \A c \in Callers : StackOf(c)

Base == DataOK /\ AssemblyOK /\ StacksOK

LEMMA BaseIsTyped == Base => TypeOK
<1> SUFFICES ASSUME Base PROVE TypeOK
  OBVIOUS
<1>1. DataOK /\ AssemblyOK /\ StacksOK
  BY DEF Base
<1>2. Range(assembly) \subseteq Cells
  BY <1>1 DEF AssemblyOK, Range
<1>3. Range(context) \subseteq Values \ {Unset}
  BY <1>1 DEF DataOK, Range
<1>4. db \in [DOMAIN db -> 0..MaxWrites]
  BY <1>1 DEF DataOK
<1> QED
  BY <1>1, <1>2, <1>3, <1>4 DEF TypeOK, DataOK, AssemblyOK, StacksOK, StackOf, Stages

(* The query does not change, nor what it says of its cells.               *)
LEMMA QueryFrame ==
    ASSUME UNCHANGED query
    PROVE  /\ Cells' = Cells /\ Values' = Values
           /\ \A cell : /\ PlanOf(cell)' = PlanOf(cell)
                        /\ NestedSelectCacheKey(cell)' = NestedSelectCacheKey(cell)
                        /\ SelectedBy(cell)' = SelectedBy(cell)
<1>1. Cells' = Cells
  BY DEF Cells, CellsOf
<1>2. \A cell : PlanOf(cell)' = PlanOf(cell)
  BY DEF PlanOf
<1>3. Values' = Values
  BY <1>1, <1>2 DEF Values
<1>4. \A cell : NestedSelectArgs(cell)' = NestedSelectArgs(cell)
  BY DEF NestedSelectArgs, PlanOf
<1> QED
  BY <1>1, <1>2, <1>3, <1>4 DEF NestedSelectCacheKey, SelectedBy

LEMMA QueryStays == [Next]_vars => UNCHANGED query
BY DEF Next, Assemble, SkipMissing, AttachLoader, FillEager, FailAssembly, Filled, Dropped,
       Lock, LoadLoaded, LoadWithoutLoader, LoadCallsLoader, Load, LoaderCancelled, LoaderLookup,
       LoaderQuery, LoaderQueryFails, LoaderStore, UserLoader, UserLoaderFails, LoadSet,
       ReturnError, Cancel, LoadStart, Reset, Write, vars, rows

(* What the selects and the users' loaders of a cell return.               *)
LEMMA LoadedValues ==
    ASSUME DataOK, NEW cell \in Cells
    PROVE  /\ PlanOf(cell).load \notin {"", "user"}
           /\ Read(cell) \in Values /\ Read(cell) # Unset /\ Read(cell).load = PlanOf(cell).load
           /\ UserValue(cell) \in Values /\ UserValue(cell) # Unset
           /\ UserValue(cell).load = "user" /\ UserValue(cell).ver = lazy[cell].gen
<1>1. query \in Queries /\ cell[2] \in DOMAIN query.plans
  BY DEF DataOK, Cells, CellsOf
<1>2. PlanOf(cell).load \notin {"", "user"}
  BY <1>1, MarksAreNoTypes DEF PlanOf
<1>3. db[SelectedBy(cell)] \in 0..MaxWrites
  BY DEF DataOK
<1>4. Read(cell) \in Values
  BY <1>3 DEF Read, Values
<1>5. UserValue(cell) \in Values
  BY DEF UserValue, Values, DataOK
<1> QED
  BY <1>2, <1>4, <1>5 DEF Read, UserValue, Unset

(* What an assignment to a field of one cell's lazy value leaves alone.     *)
LEMMA LoaderMarked ==
    ASSUME DataOK, NEW cell \in Cells,
           lazy' = [lazy EXCEPT ![cell] = [@ EXCEPT !.loader = "select"]]
    PROVE  \A x \in Cells : lazy'[x].value = lazy[x].value
<1>1. lazy \in [Cells -> [loader : {"none", "select", "user"}, gen : 0..MaxResets,
                         value : Values \union {Unset}]]
  BY DEF DataOK
<1>2. \A x \in Cells \ {cell} : lazy'[x] = lazy[x]
  BY <1>1
<1>3. lazy'[cell] = [lazy[cell] EXCEPT !.loader = "select"]
  BY <1>1
<1>4. lazy[cell] \in [loader : {"none", "select", "user"}, gen : 0..MaxResets,
                     value : Values \union {Unset}]
  BY <1>1
<1>5. lazy'[cell].value = lazy[cell].value
  BY <1>3, <1>4
<1> QED
  BY <1>2, <1>5

LEMMA LoadedCell ==
    ASSUME DataOK, NEW cell \in Cells, NEW v \in Values \union {Unset},
           lazy' = [lazy EXCEPT ![cell] = [@ EXCEPT !.value = v, !.loader = "none"]]
    PROVE  /\ lazy' \in [Cells -> [loader : {"none", "select", "user"}, gen : 0..MaxResets,
                                  value : Values \union {Unset}]]
           /\ \A x \in Cells \ {cell} : lazy'[x] = lazy[x]
           /\ lazy'[cell].value = v /\ lazy'[cell].loader = "none"
           /\ lazy'[cell].gen = lazy[cell].gen
<1> DEFINE LazyValues == [loader : {"none", "select", "user"}, gen : 0..MaxResets,
                          value : Values \union {Unset}]
<1>1. lazy \in [Cells -> LazyValues] /\ lazy[cell] \in LazyValues
  BY DEF DataOK
<1> DEFINE loaded == [lazy[cell] EXCEPT !.value = v, !.loader = "none"]
<1>2. /\ loaded \in LazyValues /\ loaded.value = v /\ loaded.loader = "none"
      /\ loaded.gen = lazy[cell].gen
  BY <1>1
<1>3. lazy' = [lazy EXCEPT ![cell] = loaded]
  OBVIOUS
<1> HIDE DEF loaded, LazyValues
<1>4. /\ lazy' \in [Cells -> LazyValues] /\ lazy'[cell] = loaded
      /\ \A x \in Cells \ {cell} : lazy'[x] = lazy[x]
  BY <1>1, <1>2, <1>3
<1> QED
  BY <1>2, <1>4 DEF LazyValues

LEMMA StartOfSeq ==
    ASSUME NEW S, NEW s \in Seq(S), NEW n \in 0..Len(s)
    PROVE  /\ SubSeq(s, 1, n) \in Seq(S) /\ Len(SubSeq(s, 1, n)) = n
           /\ \A i \in 1..n : SubSeq(s, 1, n)[i] = s[i]
<1>1. \A i \in 1..n : s[i] \in S
  OBVIOUS
<1>2. SubSeq(s, 1, n) \in Seq(S)
  BY <1>1
<1>3. Len(SubSeq(s, 1, n)) = n
  OBVIOUS
<1>4. \A i \in 1..n : SubSeq(s, 1, n)[i] = s[i]
  OBVIOUS
<1> QED
  BY <1>2, <1>3, <1>4

LEMMA FrontOfSeq ==
    ASSUME NEW S, NEW s \in Seq(S), s # <<>>
    PROVE  /\ Front(s) \in Seq(S) /\ Len(Front(s)) = Len(s) - 1 /\ Len(s) \in Nat \ {0}
           /\ \A i \in 1..(Len(s) - 1) : Front(s)[i] = s[i]
           /\ Last(s) = s[Len(s)] /\ Last(s) \in S
           /\ Front(s) = <<>> <=> Len(s) = 1
<1>1. Len(s) \in Nat \ {0} /\ Len(s) - 1 \in 0..Len(s)
  OBVIOUS
<1>2. /\ Front(s) \in Seq(S) /\ Len(Front(s)) = Len(s) - 1
      /\ \A i \in 1..(Len(s) - 1) : Front(s)[i] = s[i]
  BY <1>1, StartOfSeq DEF Front
<1>3. Last(s) = s[Len(s)] /\ Last(s) \in S
  BY <1>1 DEF Last
<1>4. Front(s) = <<>> <=> Len(s) = 1
  BY <1>1, <1>2
<1> QED
  BY <1>1, <1>2, <1>3, <1>4

(* What a goroutine that is loading holds.                                 *)
LEMMA Held ==
    ASSUME DataOK, NEW c \in Callers, StackOf(c), pc[c] # "idle"
    PROVE  /\ stack[c] # <<>> /\ Loading(c) \in Cells
           /\ pc[c] # "lock" => holder[Loading(c)] = c
<1>1. stack[c] \in Seq(Cells) /\ stack[c] # <<>>
  BY DEF DataOK, StackOf
<1>2. Len(stack[c]) \in DOMAIN stack[c] /\ Loading(c) = stack[c][Len(stack[c])] /\ Loading(c) \in Cells
  BY <1>1, FrontOfSeq DEF Loading
<1> QED
  BY <1>1, <1>2 DEF StackOf

----------------------------------------------------------------------------
LEMMA StackFrame ==
    ASSUME DataOK, NEW d \in Callers, StackOf(d), stack'[d] = stack[d], pc'[d] = pc[d],
           \A x \in Cells : holder[x] = d => holder'[x] = d
    PROVE  StackOf(d)'
<1>1. stack[d] \in Seq(Cells)
  BY DEF DataOK
<1>2. \A i \in DOMAIN stack[d] : stack[d][i] \in Cells
  BY <1>1
<1> QED
  BY <1>2 DEF StackOf

(* A step of one goroutine's Load leaves the stacks of the others alone.   *)
LEMMA BaseOfCall ==
    ASSUME Base, NEW c \in Callers, UNCHANGED rows, DataOK', StackOf(c)',
           \A d \in Callers \ {c} : stack'[d] = stack[d] /\ pc'[d] = pc[d],
           \A d \in Callers \ {c} : \A x \in Cells : holder[x] = d => holder'[x] = d
    PROVE  Base'
<1>1. DataOK /\ AssemblyOK /\ StacksOK
  BY DEF Base
<1>2. ASSUME NEW d \in Callers \ {c} PROVE StackOf(d)'
  BY <1>1, StackFrame DEF StacksOK
<1>3. StacksOK'
  BY <1>2 DEF StacksOK
<1>4. AssemblyOK'
  BY <1>1, QueryFrame DEF AssemblyOK, rows
<1> QED
  BY <1>3, <1>4 DEF Base

LEMMA PoppedStack ==
    ASSUME DataOK, NEW c \in Callers, StackOf(c), pc[c] # "idle", Return(c)
    PROVE  /\ pc' \in [Callers -> Stages] /\ stack' \in [Callers -> Seq(Cells)]
           /\ got' \in [Callers -> Values \union {Unset}]
           /\ \A d \in Callers \ {c} : pc'[d] = pc[d] /\ stack'[d] = stack[d] /\ got'[d] = got[d]
           /\ \/ /\ pc'[c] = "set" /\ stack'[c] # <<>>
                 /\ Loading(c)' \in Cells /\ got'[c] = UserValue(Loading(c)')
              \/ pc'[c] = "idle" /\ stack'[c] = <<>>
           /\ Len(stack'[c]) = Len(stack[c]) - 1
           /\ \A i \in DOMAIN stack'[c] :
                 i \in DOMAIN stack[c] /\ i < Len(stack[c]) /\ stack'[c][i] = stack[c][i]
<1> DEFINE s == stack[c]
<1>1. s \in Seq(Cells) /\ s # <<>>
  BY DEF DataOK, StackOf
<1>2. /\ Front(s) \in Seq(Cells) /\ Len(Front(s)) = Len(s) - 1 /\ Len(s) \in Nat \ {0}
      /\ \A i \in 1..(Len(s) - 1) : Front(s)[i] = s[i]
      /\ Front(s) = <<>> <=> Len(s) = 1
  BY <1>1, FrontOfSeq
<1>3. stack' = [stack EXCEPT ![c] = Front(s)] /\ stack'[c] = Front(s)
  BY DEF Return, DataOK
<1>4. /\ stack' \in [Callers -> Seq(Cells)]
      /\ \A d \in Callers \ {c} : stack'[d] = stack[d]
  BY <1>2, <1>3 DEF DataOK
<1>5. \A i \in DOMAIN Front(s) : i \in DOMAIN s /\ i < Len(s) /\ Front(s)[i] = s[i]
  BY <1>1, <1>2
<1>6. CASE Len(s) > 1
  <2>1. s[Len(s) - 1] \in Cells
    BY <1>1, <1>6
  <2>2. /\ pc' = [pc EXCEPT ![c] = "set"]
        /\ got' = [got EXCEPT ![c] = UserValue(s[Len(s) - 1])]
    BY <1>6 DEF Return, Go
  <2>3. UserValue(s[Len(s) - 1]) \in Values
    BY <2>1, LoadedValues
  <2>4. Last(Front(s)) = s[Len(s) - 1]
    BY <1>2, <1>6 DEF Last
  <2>5. Loading(c)' = s[Len(s) - 1]
    BY <1>3, <2>4 DEF Loading
  <2>6. /\ pc' \in [Callers -> Stages] /\ got' \in [Callers -> Values \union {Unset}]
        /\ \A d \in Callers \ {c} : pc'[d] = pc[d] /\ got'[d] = got[d]
        /\ pc'[c] = "set" /\ got'[c] = UserValue(s[Len(s) - 1])
    BY <2>2, <2>3 DEF DataOK, Stages
  <2>7. stack'[c] # <<>>
    BY <1>2, <1>3, <1>6
  <2> HIDE DEF s
  <2> QED
    BY <1>2, <1>3, <1>4, <1>5, <2>1, <2>5, <2>6, <2>7 DEF s
<1>7. CASE ~(Len(s) > 1)
  <2>1. pc' = [pc EXCEPT ![c] = "idle"] /\ got' = [got EXCEPT ![c] = Unset]
    BY <1>7 DEF Return, Go
  <2>2. /\ pc' \in [Callers -> Stages] /\ got' \in [Callers -> Values \union {Unset}]
        /\ \A d \in Callers \ {c} : pc'[d] = pc[d] /\ got'[d] = got[d]
        /\ pc'[c] = "idle"
    BY <2>1 DEF DataOK, Stages
  <2>3. stack'[c] = <<>>
    BY <1>2, <1>3, <1>7
  <2> QED
    BY <1>2, <1>3, <1>4, <1>5, <2>2, <2>3
<1> QED
  BY <1>6, <1>7

(* The cells under the one a goroutine returns from stay its own.          *)
LEMMA PoppedIsHeld ==
    ASSUME DataOK, NEW c \in Callers, StackOf(c), pc[c] # "idle", Return(c),
           \A x \in Cells : x # Loading(c) \/ pc[c] = "lock" => holder'[x] = holder[x]
    PROVE  StackOf(c)'
<1>1. /\ pc'[c] # "lock" /\ (pc'[c] = "idle" <=> stack'[c] = <<>>)
      /\ \A i \in DOMAIN stack'[c] :
            i \in DOMAIN stack[c] /\ i < Len(stack[c]) /\ stack'[c][i] = stack[c][i]
  BY PoppedStack
<1>2. stack[c] \in Seq(Cells) /\ stack[c] # <<>>
  BY DEF DataOK, StackOf
<1>3. Len(stack[c]) \in DOMAIN stack[c] /\ Loading(c) = stack[c][Len(stack[c])]
  BY <1>2 DEF Loading, Last
<1>4. \A i \in DOMAIN stack[c] : i < Len(stack[c]) => holder[stack[c][i]] = c
  BY <1>2 DEF StackOf
<1>5. ASSUME NEW i \in DOMAIN stack[c], i < Len(stack[c]) PROVE holder'[stack[c][i]] = c
  <2>1. stack[c][i] \in Cells
    BY <1>2
  <2>2. pc[c] = "lock" \/ stack[c][i] # Loading(c)
    BY <1>3, <1>5 DEF StackOf
  <2> QED
    BY <1>4, <1>5, <2>1, <2>2
<1>6. \A i, j \in DOMAIN stack[c] :
         i < j /\ j < Len(stack[c]) => stack[c][i] # stack[c][j]
  BY <1>2 DEF StackOf
<1> QED
  BY <1>1, <1>5, <1>6 DEF StackOf

LEMMA ErrorBase == ASSUME Base, NEW c \in Callers, ReturnError(c) PROVE Base'
<1>1. DataOK /\ AssemblyOK /\ StacksOK
  BY DEF Base
<1>2. /\ stack' = [stack EXCEPT ![c] = <<>>] /\ pc' = [pc EXCEPT ![c] = "idle"]
      /\ got' = [got EXCEPT ![c] = Unset]
      /\ holder' = [cell \in Cells |-> IF holder[cell] = c THEN Nil ELSE holder[cell]]
      /\ UNCHANGED <<db, rows, context, lazy>>
  BY DEF ReturnError, Go
<1>3. Cells' = Cells /\ Values' = Values /\ \A cell : SelectedBy(cell)' = SelectedBy(cell)
  BY <1>2, QueryFrame DEF rows
<1>4. /\ holder' \in [Cells -> Callers \union {Nil}] /\ pc' \in [Callers -> Stages]
      /\ stack' \in [Callers -> Seq(Cells)] /\ got' \in [Callers -> Values \union {Unset}]
  BY <1>1, <1>2 DEF DataOK, Stages
<1>5. DataOK'
  BY <1>1, <1>2, <1>3, <1>4 DEF DataOK, rows
<1>6. StackOf(c)'
  BY <1>1, <1>2 DEF DataOK, StackOf
<1>7. /\ \A d \in Callers \ {c} : stack'[d] = stack[d] /\ pc'[d] = pc[d]
      /\ \A d \in Callers \ {c} : \A x \in Cells : holder[x] = d => holder'[x] = d
  BY <1>1, <1>2 DEF DataOK
<1> QED
  BY <1>2, <1>5, <1>6, <1>7, BaseOfCall

(* The steps of a Load that keep its stack: they hold what they held.      *)
LEMMA StaysHeld ==
    ASSUME DataOK, NEW c \in Callers, StackOf(c), pc[c] # "idle", pc'[c] \notin {"idle", "lock"},
           stack'[c] = stack[c], holder' = [holder EXCEPT ![Loading(c)] = c],
           pc[c] = "lock" => holder[Loading(c)] # c
    PROVE  StackOf(c)'
<1>1. stack[c] \in Seq(Cells) /\ stack[c] # <<>> /\ Len(stack[c]) \in Nat \ {0}
  BY DEF DataOK, StackOf
<1>2. Loading(c) = stack[c][Len(stack[c])] /\ \A i \in DOMAIN stack[c] : stack[c][i] \in Cells
  BY <1>1 DEF Loading, Last
<1>3. \A i \in DOMAIN stack[c] : holder'[stack[c][i]] = c
  BY <1>1, <1>2 DEF StackOf, DataOK
<1>4. \A i, j \in DOMAIN stack[c] : i < j => stack[c][i] # stack[c][j]
  <2> SUFFICES ASSUME NEW i \in DOMAIN stack[c], NEW j \in DOMAIN stack[c], i < j,
                      stack[c][i] = stack[c][j]
               PROVE  FALSE
    OBVIOUS
  <2>1. j = Len(stack[c]) /\ pc[c] = "lock"
    BY DEF StackOf
  <2>2. holder[stack[c][i]] = c
    BY <1>1, <2>1 DEF StackOf
  <2> QED
    BY <1>2, <2>1, <2>2
<1> QED
  BY <1>1, <1>3, <1>4 DEF StackOf

(* A Load that begins waits for a cell on top of those it holds.           *)
LEMMA PushedIsHeld ==
    ASSUME DataOK, NEW c \in Callers, StackOf(c), pc[c] # "lock", pc'[c] = "lock",
           NEW cell \in Cells, stack'[c] = Append(stack[c], cell), holder' = holder
    PROVE  StackOf(c)'
<1>1. stack[c] \in Seq(Cells) /\ Len(stack[c]) \in Nat /\ DOMAIN stack[c] = 1..Len(stack[c])
  BY DEF DataOK
<1>2. /\ Len(stack'[c]) = Len(stack[c]) + 1 /\ DOMAIN stack'[c] = 1..(Len(stack[c]) + 1)
      /\ \A i \in 1..Len(stack[c]) : stack'[c][i] = stack[c][i]
      /\ stack'[c] # <<>>
  BY <1>1
<1>3. \A i \in 1..(Len(stack[c]) + 1) : i \in 1..Len(stack[c]) \/ i = Len(stack[c]) + 1
  BY <1>1
<1>4. \A i \in DOMAIN stack'[c] : holder'[stack'[c][i]] = c \/ i = Len(stack'[c])
  BY <1>1, <1>2, <1>3 DEF StackOf
<1>5. \A i, j \in DOMAIN stack'[c] :
         i < j /\ stack'[c][i] = stack'[c][j] => j = Len(stack'[c])
  BY <1>1, <1>2, <1>3 DEF StackOf
<1> QED
  BY <1>2, <1>4, <1>5 DEF StackOf

LEMMA DataOfCall ==
    ASSUME DataOK, UNCHANGED <<rows, db>>,
           \A k \in DOMAIN context' : context'[k] \in Values \ {Unset},
           lazy' \in [Cells -> [loader : {"none", "select", "user"}, gen : 0..MaxResets,
                                value : Values \union {Unset}]],
           \A cell \in Cells : lazy'[cell].value # Unset => lazy'[cell].loader = "none",
           holder' \in [Cells -> Callers \union {Nil}], pc' \in [Callers -> Stages],
           stack' \in [Callers -> Seq(Cells)], got' \in [Callers -> Values \union {Unset}]
    PROVE  DataOK'
<1>1. Cells' = Cells /\ Values' = Values /\ \A cell : SelectedBy(cell)' = SelectedBy(cell)
  BY QueryFrame DEF rows
<1> QED
  BY <1>1 DEF DataOK, rows

LEMMA LockBase == ASSUME Base, NEW c \in Callers, Lock(c) PROVE Base'
<1>1. DataOK /\ StackOf(c) /\ UNCHANGED <<db, rows, context>>
  BY DEF Base, StacksOK, Lock, LoadLoaded, LoadWithoutLoader, LoadCallsLoader, ReturnError
<1>2. CASE LoadLoaded(c)
  <2>1. Return(c) /\ UNCHANGED <<lazy, holder>> /\ pc[c] # "idle"
    BY <1>2 DEF LoadLoaded
  <2>2. /\ pc' \in [Callers -> Stages] /\ stack' \in [Callers -> Seq(Cells)]
        /\ got' \in [Callers -> Values \union {Unset}]
        /\ \A d \in Callers \ {c} : pc'[d] = pc[d] /\ stack'[d] = stack[d]
    BY <1>1, <2>1, PoppedStack
  <2>3. StackOf(c)'
    BY <1>1, <2>1, PoppedIsHeld
  <2>4. DataOK'
    BY <1>1, <2>1, <2>2, DataOfCall DEF DataOK
  <2> QED
    BY <1>1, <2>1, <2>2, <2>3, <2>4, BaseOfCall
<1>3. CASE LoadWithoutLoader(c)
  BY <1>3, ErrorBase DEF LoadWithoutLoader
<1>4. CASE LoadCallsLoader(c)
  <2>1. /\ pc[c] = "lock" /\ holder[Loading(c)] = Nil /\ lazy[Loading(c)].loader # "none"
        /\ holder' = [holder EXCEPT ![Loading(c)] = c]
        /\ pc' = [pc EXCEPT ![c] = lazy[Loading(c)].loader]
        /\ UNCHANGED <<lazy, stack, got>>
    BY <1>4 DEF LoadCallsLoader, Enter, Go
  <2>2. Loading(c) \in Cells
    BY <1>1, <2>1, Held
  <2>3. lazy[Loading(c)].loader \in {"select", "user"}
    BY <1>1, <2>1, <2>2 DEF DataOK
  <2>4. /\ holder' \in [Cells -> Callers \union {Nil}] /\ pc' \in [Callers -> Stages]
        /\ pc'[c] \in {"select", "user"}
        /\ \A d \in Callers \ {c} : pc'[d] = pc[d]
        /\ \A d \in Callers \ {c} : \A x \in Cells : holder[x] = d => holder'[x] = d
    BY <1>1, <2>1, <2>2, <2>3 DEF DataOK, Stages
  <2>5. StackOf(c)'
    BY <1>1, <2>1, <2>4, StaysHeld
  <2>6. DataOK'
    BY <1>1, <2>1, <2>4, DataOfCall DEF DataOK
  <2> QED
    BY <1>1, <2>1, <2>4, <2>5, <2>6, BaseOfCall
<1> QED
  BY <1>2, <1>3, <1>4 DEF Lock

LEMMA StoredValues ==
    ASSUME NEW key, NEW value, NEW S, \A k \in DOMAIN context : context[k] \in S, value \in S,
           StoreInContext(key, value)
    PROVE  \A k \in DOMAIN context' : context'[k] \in S
BY DEF StoreInContext

(* The steps of a running load that return no error.                       *)
LEMMA LoadBase ==
    ASSUME Base, NEW c \in Callers, pc[c] = "store" => got[c] # Unset,
           \/ LoaderLookup(c) \/ LoaderQuery(c) \/ LoaderStore(c) \/ UserLoader(c) \/ LoadSet(c)
    PROVE  Base'
<1>1. DataOK /\ StackOf(c) /\ UNCHANGED <<db, rows>> /\ pc[c] \notin {"idle", "lock"}
  BY DEF Base, StacksOK, LoaderLookup, LoaderQuery, LoaderStore, UserLoader, LoadSet
<1>2. Loading(c) \in Cells /\ holder[Loading(c)] = c /\ stack[c] # <<>>
  BY <1>1, Held
<1>3. ASSUME UNCHANGED <<lazy, holder, stack>>, NEW s \in Stages \ {"idle", "lock"},
             pc' = [pc EXCEPT ![c] = s],
             got' \in [Callers -> Values \union {Unset}],
             \A k \in DOMAIN context' : context'[k] \in Values \ {Unset}
      PROVE  Base'
  <2>1. /\ pc' \in [Callers -> Stages] /\ pc'[c] = s
        /\ \A d \in Callers \ {c} : pc'[d] = pc[d]
    BY <1>1, <1>3 DEF DataOK
  <2>2. holder' = [holder EXCEPT ![Loading(c)] = c]
    BY <1>1, <1>2, <1>3 DEF DataOK
  <2>3. StackOf(c)'
    BY <1>1, <1>3, <2>1, <2>2, StaysHeld
  <2>4. DataOK'
    BY <1>1, <1>3, <2>1, DataOfCall DEF DataOK
  <2> QED
    BY <1>1, <1>3, <2>1, <2>3, <2>4, BaseOfCall
<1>4. CASE LoaderLookup(c)
  <2>1. /\ UNCHANGED <<lazy, holder, stack, context>>
        /\ \E s \in {"set", "query"} : pc' = [pc EXCEPT ![c] = s]
        /\ got' \in [Callers -> Values \union {Unset}]
    BY <1>1, <1>4 DEF LoaderLookup, Go, DataOK
  <2> QED
    BY <1>1, <1>3, <2>1 DEF DataOK, Stages
<1>5. CASE LoaderQuery(c)
  <2>1. /\ UNCHANGED <<lazy, holder, stack, context>>
        /\ pc' = [pc EXCEPT ![c] = "store"]
        /\ got' = [got EXCEPT ![c] = Read(Loading(c))]
    BY <1>5 DEF LoaderQuery, Go
  <2>2. Read(Loading(c)) \in Values
    BY <1>1, <1>2, LoadedValues
  <2>3. got' \in [Callers -> Values \union {Unset}]
    BY <1>1, <2>1, <2>2 DEF DataOK
  <2> QED
    BY <1>1, <1>3, <2>1, <2>3 DEF DataOK, Stages
<1>6. CASE LoaderStore(c)
  <2>1. /\ UNCHANGED <<lazy, holder, stack, got>>
        /\ pc' = [pc EXCEPT ![c] = "set"]
        /\ StoreInContext(NestedSelectCacheKey(Loading(c)), got[c])
    BY <1>6 DEF LoaderStore, Go
  <2>2. got[c] \in Values \ {Unset}
    BY <1>1, <1>6 DEF DataOK, LoaderStore
  <2>3. \A k \in DOMAIN context' : context'[k] \in Values \ {Unset}
    BY <1>1, <2>1, <2>2, StoredValues DEF DataOK
  <2> QED
    BY <1>1, <1>3, <2>1, <2>3 DEF DataOK, Stages
<1>7. CASE UserLoader(c) /\ query.loads[Loading(c)] = Nil
  <2>1. /\ UNCHANGED <<lazy, holder, stack, context>>
        /\ pc' = [pc EXCEPT ![c] = "set"]
        /\ got' = [got EXCEPT ![c] = UserValue(Loading(c))]
    BY <1>7 DEF UserLoader, Go
  <2>2. UserValue(Loading(c)) \in Values
    BY <1>1, <1>2, LoadedValues
  <2>3. got' \in [Callers -> Values \union {Unset}]
    BY <1>1, <2>1, <2>2 DEF DataOK
  <2> QED
    BY <1>1, <1>3, <2>1, <2>3 DEF DataOK, Stages
<1>8. CASE UserLoader(c) /\ query.loads[Loading(c)] # Nil
  <2> DEFINE next == query.loads[Loading(c)]
  <2>1. /\ UNCHANGED <<lazy, holder, context, got>>
        /\ pc' = [pc EXCEPT ![c] = "lock"]
        /\ stack' = [stack EXCEPT ![c] = Append(@, next)]
    BY <1>8 DEF UserLoader, Go
  <2>2. next \in Cells
    BY <1>1, <1>2, <1>8, QueriesAreShaped DEF DataOK, Cells
  <2> HIDE DEF next
  <2>3. /\ pc' \in [Callers -> Stages] /\ pc'[c] = "lock"
        /\ stack' \in [Callers -> Seq(Cells)] /\ stack'[c] = Append(stack[c], next)
        /\ \A d \in Callers \ {c} : pc'[d] = pc[d] /\ stack'[d] = stack[d]
    BY <1>1, <2>1, <2>2 DEF DataOK, Stages
  <2>4. StackOf(c)'
    BY <1>1, <2>1, <2>2, <2>3, PushedIsHeld
  <2>5. DataOK'
    BY <1>1, <2>1, <2>3, DataOfCall DEF DataOK
  <2> QED
    BY <1>1, <2>1, <2>3, <2>4, <2>5, BaseOfCall
<1>9. CASE LoadSet(c)
  <2>1. /\ UNCHANGED context /\ Return(c)
        /\ lazy' = [lazy EXCEPT ![Loading(c)] = [@ EXCEPT !.value = got[c], !.loader = "none"]]
        /\ holder' = [holder EXCEPT ![Loading(c)] = Nil]
    BY <1>9 DEF LoadSet
  <2>2. /\ pc' \in [Callers -> Stages] /\ stack' \in [Callers -> Seq(Cells)]
        /\ got' \in [Callers -> Values \union {Unset}]
        /\ \A d \in Callers \ {c} : pc'[d] = pc[d] /\ stack'[d] = stack[d]
    BY <1>1, <2>1, PoppedStack
  <2>3. /\ lazy' \in [Cells -> [loader : {"none", "select", "user"}, gen : 0..MaxResets,
                                 value : Values \union {Unset}]]
        /\ \A cell \in Cells : lazy'[cell].value # Unset => lazy'[cell].loader = "none"
    <3>1. /\ got[c] \in Values \union {Unset} /\ Loading(c) \in Cells
          /\ \A cell \in Cells : lazy[cell].value # Unset => lazy[cell].loader = "none"
      BY <1>1, <1>2 DEF DataOK
    <3>2. /\ lazy' \in [Cells -> [loader : {"none", "select", "user"}, gen : 0..MaxResets,
                                  value : Values \union {Unset}]]
          /\ \A x \in Cells \ {Loading(c)} : lazy'[x] = lazy[x]
          /\ lazy'[Loading(c)].loader = "none"
      BY <1>1, <2>1, <3>1, LoadedCell
    <3> QED
      BY <3>1, <3>2
  <2>4. /\ holder' \in [Cells -> Callers \union {Nil}]
        /\ \A x \in Cells : x # Loading(c) => holder'[x] = holder[x]
        /\ \A d \in Callers \ {c} : \A x \in Cells : holder[x] = d => holder'[x] = d
    BY <1>1, <1>2, <2>1 DEF DataOK
  <2>5. StackOf(c)'
    BY <1>1, <2>1, <2>4, PoppedIsHeld
  <2>6. DataOK'
    BY <1>1, <2>1, <2>2, <2>3, <2>4, DataOfCall DEF DataOK
  <2> QED
    BY <1>1, <2>2, <2>4, <2>5, <2>6, BaseOfCall
<1> QED
  BY <1>4, <1>5, <1>6, <1>7, <1>8, <1>9

(* A step outside of the running loads.                                    *)
LEMMA CallerBase ==
    ASSUME Base, NEW c \in Callers, NEW cell \in Cells,
           \/ LoadStart(c, cell)
           \/ \E loader \in {"none", "user"} : Reset(c, cell, loader)
    PROVE  Base'
<1>1. DataOK /\ AssemblyOK /\ StacksOK /\ StackOf(c)
  BY DEF Base, StacksOK
<1>2. CASE LoadStart(c, cell)
  <2>1. /\ UNCHANGED <<rows, db, context, lazy, holder, got>> /\ pc[c] = "idle"
        /\ stack' = [stack EXCEPT ![c] = <<cell>>] /\ pc' = [pc EXCEPT ![c] = "lock"]
    BY <1>2 DEF LoadStart, Go
  <2>2. <<cell>> \in Seq(Cells) /\ <<cell>> = Append(<<>>, cell)
    OBVIOUS
  <2>3. /\ pc' \in [Callers -> Stages] /\ pc'[c] = "lock"
        /\ stack' \in [Callers -> Seq(Cells)] /\ stack'[c] = Append(stack[c], cell)
        /\ \A d \in Callers \ {c} : pc'[d] = pc[d] /\ stack'[d] = stack[d]
    BY <1>1, <2>1, <2>2 DEF DataOK, Stages, StackOf
  <2>4. StackOf(c)'
    BY <1>1, <2>1, <2>3, PushedIsHeld
  <2>5. DataOK'
    BY <1>1, <2>1, <2>3, DataOfCall DEF DataOK
  <2> QED
    BY <1>1, <2>1, <2>3, <2>4, <2>5, BaseOfCall
<1>3. ASSUME NEW loader \in {"none", "user"}, Reset(c, cell, loader) PROVE Base'
  <2>1. /\ UNCHANGED <<rows, db, context, holder, calls>> /\ lazy[cell].gen < MaxResets
        /\ lazy' = [lazy EXCEPT ![cell] =
                      [loader |-> loader, gen |-> lazy[cell].gen + 1, value |-> Unset]]
    BY <1>3 DEF Reset
  <2>2. lazy[cell].gen + 1 \in 0..MaxResets
    BY <1>1, <2>1 DEF DataOK
  <2>3. /\ lazy' \in [Cells -> [loader : {"none", "select", "user"}, gen : 0..MaxResets,
                                 value : Values \union {Unset}]]
        /\ \A x \in Cells : lazy'[x].value # Unset => lazy'[x].loader = "none"
    BY <1>1, <2>1, <2>2 DEF DataOK
  <2>4. UNCHANGED <<pc, stack, got>>
    BY <2>1 DEF calls
  <2>5. DataOK'
    BY <1>1, <2>1, <2>3, <2>4, DataOfCall DEF DataOK
  <2>6. StackOf(c)'
    BY <1>1, <2>1, <2>4, StackFrame
  <2> QED
    BY <1>1, <2>1, <2>4, <2>5, <2>6, BaseOfCall
<1> QED
  BY <1>2, <1>3

LEMMA StacksFrame ==
    ASSUME DataOK, StacksOK, UNCHANGED <<stack, pc, holder>>
    PROVE  StacksOK'
<1>1. ASSUME NEW d \in Callers PROVE StackOf(d)'
  BY StackFrame DEF StacksOK
<1> QED
  BY <1>1 DEF StacksOK

LEMMA TailOfSeq ==
    ASSUME NEW S, NEW s \in Seq(S), s # <<>>, IsInjective(s)
    PROVE  /\ Head(s) \in S /\ Tail(s) \in Seq(S) /\ IsInjective(Tail(s))
<1>1. /\ Tail(s) \in Seq(S) /\ Len(Tail(s)) = Len(s) - 1 /\ Head(s) \in S
      /\ Len(s) \in Nat \ {0} /\ DOMAIN s = 1..Len(s) /\ DOMAIN Tail(s) = 1..(Len(s) - 1)
      /\ \A i \in 1..(Len(s) - 1) : Tail(s)[i] = s[i + 1]
  OBVIOUS
<1> SUFFICES ASSUME NEW i \in 1..(Len(s) - 1), NEW j \in 1..(Len(s) - 1), s[i + 1] = s[j + 1]
             PROVE  i = j
  BY <1>1 DEF IsInjective
<1>2. i + 1 \in DOMAIN s /\ j + 1 \in DOMAIN s
  BY <1>1
<1>3. i + 1 = j + 1
  BY <1>2 DEF IsInjective
<1> QED
  BY <1>3

LEMMA AssembleBase ==
    ASSUME Base, Assemble, \A cell \in Cells : lazy[cell].value = Unset
    PROVE  Base'
<1>1. DataOK /\ AssemblyOK /\ StacksOK
  BY DEF Base
<1>2. /\ UNCHANGED <<query, db, holder, calls>> /\ assembly # <<>>
      /\ failed' \in BOOLEAN
      /\ assembly' = assembly \/ assembly' = Tail(assembly)
  BY <1>1 DEF Assemble, SkipMissing, AttachLoader, FillEager, FailAssembly, Filled, Assembling, DataOK
<1>3. UNCHANGED <<pc, stack, got>>
  BY <1>2 DEF calls
<1>4. /\ Cells' = Cells /\ Values' = Values /\ \A cell : SelectedBy(cell)' = SelectedBy(cell)
  BY <1>2, QueryFrame
<1>5. Fill \in Cells /\ AssemblyOK'
  BY <1>1, <1>2, <1>4, TailOfSeq DEF AssemblyOK, Fill
<1>6. StacksOK'
  BY <1>1, <1>2, <1>3, StacksFrame
<1>7. Read(Fill) \in Values \ {Unset}
  BY <1>1, <1>5, LoadedValues
<1>8. /\ \A k \in DOMAIN context' : context'[k] \in Values \ {Unset}
      /\ eager' \in [Cells -> Values \union {Unset}]
  <2>1. CASE FillEager
    <3> DEFINE key == NestedSelectCacheKey(Fill)
    <3>1. CASE key \in DOMAIN context /\ eager' = [eager EXCEPT ![Fill] = context[key]] /\ UNCHANGED context
      BY <1>1, <1>5, <3>1 DEF DataOK
    <3>2. CASE eager' = [eager EXCEPT ![Fill] = Read(Fill)] /\ StoreInContext(key, Read(Fill))
      BY <1>1, <1>5, <1>7, <3>2, StoredValues DEF DataOK
    <3> QED
      BY <2>1, <3>1, <3>2 DEF FillEager
  <2>2. CASE ~FillEager
    <3>1. UNCHANGED <<context, eager>>
      BY <2>2 DEF Assemble, SkipMissing, AttachLoader, FailAssembly
    <3> QED
      BY <1>1, <3>1 DEF DataOK
  <2> QED
    BY <2>1, <2>2
<1>9. /\ lazy' \in [Cells -> [loader : {"none", "select", "user"}, gen : 0..MaxResets,
                               value : Values \union {Unset}]]
      /\ \A cell \in Cells : lazy'[cell].value # Unset => lazy'[cell].loader = "none"
  <2>1. CASE UNCHANGED lazy
    BY <1>1, <2>1 DEF DataOK
  <2>2. CASE lazy' = [lazy EXCEPT ![Fill] = [@ EXCEPT !.loader = "select"]]
    BY <1>1, <1>5, <2>2 DEF DataOK
  <2> QED
    BY <2>1, <2>2 DEF Assemble, SkipMissing, AttachLoader, FillEager, FailAssembly
<1>10. DataOK'
  BY <1>1, <1>2, <1>3, <1>4, <1>8, <1>9 DEF DataOK
<1> QED
  BY <1>5, <1>6, <1>10 DEF Base

----------------------------------------------------------------------------
(* Nothing is loaded before the rows are out.                              *)
HandedOutLast ==
    assembly # <<>> =>
        /\ \A c \in Callers : pc[c] = "idle"
        /\ \A cell \in Cells : lazy[cell].value = Unset /\ lazy[cell].gen = 0

(* Only the query gives a lazy value the loader of a select, and a Reset   *)
(* takes it away.                                                          *)
SelectsAreFirst == \A cell \in Cells : lazy[cell].loader = "select" => lazy[cell].gen = 0

(* The context has values of the type their key asks for.                  *)
ContextTyped == \A k \in DOMAIN context : context[k].load = k[2]

(* What a goroutine has in hand for the cell it is loading belongs to the  *)
(* loader the value has now.                                               *)
InHand(c, cell) ==
    /\ pc[c] \in {"select", "query", "store"} => lazy[cell].gen = 0
    /\ pc[c] = "store" => got[c].load = PlanOf(cell).load
    /\ pc[c] = "set" =>
          \/ got[c].load = "user" /\ got[c].ver = lazy[cell].gen
          \/ got[c].load = PlanOf(cell).load /\ lazy[cell].gen = 0
HandOf(c) == pc[c] \notin {"idle", "lock"} => InHand(c, Loading(c))

AsAsked ==
    \A cell \in Cells :
        /\ eager[cell].load \in {"", PlanOf(cell).load}
        /\ lazy[cell].value.load \in {"", "user", PlanOf(cell).load}

Meaning ==
    /\ HandedOutLast /\ SelectsAreFirst /\ ContextTyped /\ AsAsked /\ ResetWins
    /\ \A c \in Callers : HandOf(c)

LEMMA UnsetHasNoType == Unset.load = ""
BY DEF Unset

LEMMA KeyHasType == ASSUME NEW cell PROVE NestedSelectCacheKey(cell)[2] = PlanOf(cell).load
BY DEF NestedSelectCacheKey

(* Nobody can change the loader of a value that is being loaded.           *)
LEMMA HandFrame ==
    ASSUME DataOK, UNCHANGED query, NEW d \in Callers, StackOf(d), HandOf(d),
           pc'[d] = pc[d], stack'[d] = stack[d], got'[d] = got[d],
           \A x \in Cells : holder[x] = d => lazy'[x].gen = lazy[x].gen
    PROVE  HandOf(d)'
<1> SUFFICES ASSUME pc[d] \notin {"idle", "lock"} PROVE InHand(d, Loading(d))'
  BY DEF HandOf
<1>1. Loading(d)' = Loading(d)
  BY DEF Loading
<1>2. Loading(d) \in Cells /\ holder[Loading(d)] = d
  BY Held
<1>3. lazy'[Loading(d)].gen = lazy[Loading(d)].gen
  BY <1>2
<1>4. \A cell : PlanOf(cell)' = PlanOf(cell)
  BY QueryFrame
<1> QED
  BY <1>1, <1>3, <1>4 DEF HandOf, InHand

(* A step of one goroutine's Load that changes no lazy value.              *)
LEMMA MeaningOfCall ==
    ASSUME Base, Meaning, NEW c \in Callers, assembly = <<>> \/ UNCHANGED <<pc, lazy>>,
           UNCHANGED <<rows, lazy>>, ContextTyped', HandOf(c)',
           \A d \in Callers \ {c} : pc'[d] = pc[d] /\ stack'[d] = stack[d] /\ got'[d] = got[d]
    PROVE  Meaning'
<1>1. DataOK /\ StacksOK /\ UNCHANGED query
  BY DEF Base, rows
<1>2. Cells' = Cells /\ \A cell : PlanOf(cell)' = PlanOf(cell)
  BY <1>1, QueryFrame
<1>3. \A d \in Callers : HandOf(d)'
  <2> SUFFICES ASSUME NEW d \in Callers \ {c} PROVE HandOf(d)'
    OBVIOUS
  <2>1. StackOf(d) /\ HandOf(d)
    BY <1>1 DEF StacksOK, Meaning
  <2> QED
    BY <1>1, <2>1, HandFrame
<1>4. HandedOutLast'
  BY <1>2 DEF Meaning, HandedOutLast, rows
<1>5. SelectsAreFirst' /\ AsAsked' /\ ResetWins'
  BY <1>2 DEF Meaning, SelectsAreFirst, AsAsked, ResetWins, rows
<1> QED
  BY <1>3, <1>4, <1>5 DEF Meaning

(* While a goroutine is in a Load, the rows are out.                       *)
LEMMA RowsAreOut ==
    ASSUME Meaning, NEW c \in Callers, pc[c] # "idle"
    PROVE  assembly = <<>>
BY DEF Meaning, HandedOutLast

LEMMA ErrorMeaning ==
    ASSUME Base, Meaning, NEW c \in Callers, pc[c] # "idle", ReturnError(c)
    PROVE  Meaning'
<1>1. DataOK
  BY DEF Base
<1>2. /\ pc' = [pc EXCEPT ![c] = "idle"] /\ UNCHANGED <<rows, lazy, context>>
      /\ stack' = [stack EXCEPT ![c] = <<>>] /\ got' = [got EXCEPT ![c] = Unset]
  BY DEF ReturnError, Go
<1>3. HandOf(c)'
  BY <1>1, <1>2 DEF HandOf, DataOK
<1>4. ContextTyped'
  BY <1>2 DEF Meaning, ContextTyped
<1>5. \A d \in Callers \ {c} : pc'[d] = pc[d] /\ stack'[d] = stack[d] /\ got'[d] = got[d]
  BY <1>1, <1>2 DEF DataOK
<1> QED
  BY <1>2, <1>3, <1>4, <1>5, RowsAreOut, MeaningOfCall

(* What a Load that returns to a user's loader leaves it with.             *)
LEMMA HandOfReturn ==
    ASSUME DataOK, NEW c \in Callers, StackOf(c), pc[c] # "idle", Return(c),
           \A x \in Cells : lazy'[x].gen = lazy[x].gen
    PROVE  HandOf(c)'
<1>1. \/ /\ pc'[c] = "set"
         /\ Loading(c)' \in Cells /\ got'[c] = UserValue(Loading(c)')
      \/ pc'[c] = "idle"
  BY PoppedStack
<1>2. CASE pc'[c] = "idle"
  BY <1>2 DEF HandOf
<1>3. CASE pc'[c] = "set" /\ Loading(c)' \in Cells /\ got'[c] = UserValue(Loading(c)')
  <2>1. got'[c].load = "user" /\ got'[c].ver = lazy[Loading(c)'].gen
    BY <1>3, LoadedValues
  <2> QED
    BY <1>3, <2>1 DEF HandOf, InHand
<1> QED
  BY <1>1, <1>2, <1>3

LEMMA LockMeaning == ASSUME Base, Meaning, NEW c \in Callers, Lock(c) PROVE Meaning'
<1>1. /\ DataOK /\ StackOf(c) /\ pc[c] = "lock" /\ assembly = <<>>
  BY RowsAreOut DEF Base, StacksOK, Lock, LoadLoaded, LoadWithoutLoader, LoadCallsLoader
<1>2. CASE LoadLoaded(c)
  <2>1. Return(c) /\ UNCHANGED <<rows, lazy, context>>
    BY <1>2 DEF LoadLoaded
  <2>2. \A d \in Callers \ {c} : pc'[d] = pc[d] /\ stack'[d] = stack[d] /\ got'[d] = got[d]
    BY <1>1, <2>1, PoppedStack
  <2>3. HandOf(c)'
    BY <1>1, <2>1, HandOfReturn
  <2>4. ContextTyped'
    BY <2>1 DEF Meaning, ContextTyped
  <2> QED
    BY <1>1, <2>1, <2>2, <2>3, <2>4, MeaningOfCall
<1>3. CASE LoadWithoutLoader(c)
  BY <1>1, <1>3, ErrorMeaning DEF LoadWithoutLoader
<1>4. CASE LoadCallsLoader(c)
  <2>1. /\ pc' = [pc EXCEPT ![c] = lazy[Loading(c)].loader]
        /\ lazy[Loading(c)].loader # "none"
        /\ UNCHANGED <<rows, lazy, context, stack, got>>
    BY <1>4 DEF LoadCallsLoader, Go
  <2>2. Loading(c) \in Cells
    BY <1>1, Held
  <2>3. /\ pc'[c] = "user" \/ (pc'[c] = "select" /\ lazy[Loading(c)].gen = 0)
        /\ \A d \in Callers \ {c} : pc'[d] = pc[d]
    BY <1>1, <2>1, <2>2 DEF DataOK, Meaning, SelectsAreFirst
  <2>4. Loading(c)' = Loading(c)
    BY <2>1 DEF Loading
  <2>5. HandOf(c)'
    BY <2>1, <2>3, <2>4 DEF HandOf, InHand
  <2>6. ContextTyped'
    BY <2>1 DEF Meaning, ContextTyped
  <2> QED
    BY <1>1, <2>1, <2>3, <2>5, <2>6, MeaningOfCall
<1> QED
  BY <1>2, <1>3, <1>4 DEF Lock

LEMMA LoadMeaning ==
    ASSUME Base, Meaning, NEW c \in Callers,
           LoaderLookup(c) \/ LoaderQuery(c) \/ LoaderStore(c) \/ UserLoader(c)
    PROVE  Meaning'
<1>1. /\ DataOK /\ StackOf(c) /\ pc[c] \notin {"idle", "lock"} /\ assembly = <<>>
      /\ UNCHANGED <<rows, lazy>>
  BY RowsAreOut DEF Base, StacksOK, LoaderLookup, LoaderQuery, LoaderStore, UserLoader
<1>2. Loading(c) \in Cells /\ InHand(c, Loading(c))
  BY <1>1, Held DEF Meaning, HandOf
<1>3. ASSUME NEW s \in Stages, pc' = [pc EXCEPT ![c] = s], stack' = stack,
             NEW v, got' = [got EXCEPT ![c] = v],
             ContextTyped',
             s \in {"select", "query", "store"} => lazy[Loading(c)].gen = 0,
             s = "store" => v.load = PlanOf(Loading(c)).load,
             s = "set" => \/ v.load = "user" /\ v.ver = lazy[Loading(c)].gen
                          \/ v.load = PlanOf(Loading(c)).load /\ lazy[Loading(c)].gen = 0
      PROVE  Meaning'
  <2>1. /\ pc'[c] = s /\ got'[c] = v
        /\ \A d \in Callers \ {c} : pc'[d] = pc[d] /\ stack'[d] = stack[d] /\ got'[d] = got[d]
    BY <1>1, <1>3 DEF DataOK
  <2>2. Loading(c)' = Loading(c) /\ \A cell : PlanOf(cell)' = PlanOf(cell)
    BY <1>1, <1>3, QueryFrame DEF Loading, rows
  <2>3. HandOf(c)'
    BY <1>1, <1>3, <2>1, <2>2 DEF HandOf, InHand
  <2> QED
    BY <1>1, <1>3, <2>1, <2>3, MeaningOfCall
<1>4. ASSUME UNCHANGED context PROVE ContextTyped'
  BY <1>4 DEF Meaning, ContextTyped
<1>5. CASE LoaderLookup(c)
  <2> DEFINE key == NestedSelectCacheKey(Loading(c))
  <2>1. /\ UNCHANGED <<context, stack>> /\ pc[c] = "select"
        /\ \/ /\ key \in DOMAIN context
              /\ got' = [got EXCEPT ![c] = context[key]] /\ pc' = [pc EXCEPT ![c] = "set"]
           \/ got' = got /\ pc' = [pc EXCEPT ![c] = "query"]
    BY <1>5 DEF LoaderLookup, Go
  <2>2. lazy[Loading(c)].gen = 0
    BY <1>2, <2>1 DEF InHand
  <2>3. CASE key \in DOMAIN context /\ got' = [got EXCEPT ![c] = context[key]] /\ pc' = [pc EXCEPT ![c] = "set"]
    <3>1. context[key].load = PlanOf(Loading(c)).load
      BY <2>3, KeyHasType DEF Meaning, ContextTyped
    <3> HIDE DEF key
    <3> QED
      BY <1>3, <1>4, <2>1, <2>2, <2>3, <3>1 DEF Stages
  <2>4. CASE got' = got /\ pc' = [pc EXCEPT ![c] = "query"]
    <3>1. got' = [got EXCEPT ![c] = got[c]]
      BY <1>1, <2>4 DEF DataOK
    <3> QED
      BY <1>3, <1>4, <2>1, <2>2, <2>4, <3>1 DEF Stages
  <2> QED
    BY <2>1, <2>3, <2>4
<1>6. CASE LoaderQuery(c)
  <2>1. /\ UNCHANGED <<context, stack>> /\ pc[c] = "query"
        /\ got' = [got EXCEPT ![c] = Read(Loading(c))] /\ pc' = [pc EXCEPT ![c] = "store"]
    BY <1>6 DEF LoaderQuery, Go
  <2>2. lazy[Loading(c)].gen = 0 /\ Read(Loading(c)).load = PlanOf(Loading(c)).load
    BY <1>1, <1>2, <2>1, LoadedValues DEF InHand
  <2> QED
    BY <1>3, <1>4, <2>1, <2>2 DEF Stages
<1>7. CASE LoaderStore(c)
  <2> DEFINE key == NestedSelectCacheKey(Loading(c))
  <2>1. /\ UNCHANGED <<stack, got>> /\ pc[c] = "store" /\ pc' = [pc EXCEPT ![c] = "set"]
        /\ StoreInContext(key, got[c])
    BY <1>7 DEF LoaderStore, Go
  <2>2. lazy[Loading(c)].gen = 0 /\ got[c].load = PlanOf(Loading(c)).load
    BY <1>2, <2>1 DEF InHand
  <2>3. got[c].load = key[2]
    BY <2>2, KeyHasType
  <2>4. ContextTyped'
    BY <2>1, <2>3 DEF Meaning, ContextTyped, StoreInContext
  <2>5. got' = [got EXCEPT ![c] = got[c]]
    BY <1>1, <2>1 DEF DataOK
  <2> QED
    BY <1>3, <2>1, <2>2, <2>4, <2>5 DEF Stages
<1>8. CASE UserLoader(c) /\ query.loads[Loading(c)] = Nil
  <2>1. /\ UNCHANGED <<context, stack>> /\ pc' = [pc EXCEPT ![c] = "set"]
        /\ got' = [got EXCEPT ![c] = UserValue(Loading(c))]
    BY <1>8 DEF UserLoader, Go
  <2>2. UserValue(Loading(c)).load = "user" /\ UserValue(Loading(c)).ver = lazy[Loading(c)].gen
    BY <1>1, <1>2, LoadedValues
  <2> QED
    BY <1>3, <1>4, <2>1, <2>2 DEF Stages
<1>9. CASE UserLoader(c) /\ query.loads[Loading(c)] # Nil
  <2>1. /\ UNCHANGED <<context, got>> /\ pc' = [pc EXCEPT ![c] = "lock"]
        /\ stack' = [stack EXCEPT ![c] = Append(@, query.loads[Loading(c)])]
    BY <1>9 DEF UserLoader, Go
  <2>2. /\ \A d \in Callers \ {c} : pc'[d] = pc[d] /\ stack'[d] = stack[d] /\ got'[d] = got[d]
        /\ pc'[c] = "lock"
    BY <1>1, <2>1 DEF DataOK
  <2>3. HandOf(c)'
    BY <2>2 DEF HandOf
  <2> QED
    BY <1>1, <1>4, <2>1, <2>2, <2>3, MeaningOfCall
<1> QED
  BY <1>5, <1>6, <1>7, <1>8, <1>9

LEMMA SetMeaning == ASSUME Base, Meaning, NEW c \in Callers, LoadSet(c) PROVE Meaning'
<1>1. /\ DataOK /\ StackOf(c) /\ StacksOK /\ pc[c] = "set" /\ assembly = <<>> /\ Return(c)
      /\ UNCHANGED <<rows, context>> /\ UNCHANGED query
      /\ lazy' = [lazy EXCEPT ![Loading(c)] = [@ EXCEPT !.value = got[c], !.loader = "none"]]
  BY RowsAreOut DEF Base, StacksOK, LoadSet, rows
<1>2. /\ Loading(c) \in Cells /\ HandOf(c)
  BY <1>1, Held DEF Meaning
<1>3. /\ Cells' = Cells /\ \A cell : PlanOf(cell)' = PlanOf(cell)
      /\ UNCHANGED <<assembly, eager>>
  BY <1>1, QueryFrame DEF rows
<1>4. /\ lazy'[Loading(c)].gen = lazy[Loading(c)].gen /\ lazy'[Loading(c)].value = got[c]
      /\ lazy'[Loading(c)].loader = "none"
      /\ \A x \in Cells \ {Loading(c)} : lazy'[x] = lazy[x]
  <2>1. got[c] \in Values \union {Unset} /\ DataOK
    BY <1>1 DEF DataOK
  <2> QED
    BY <1>1, <1>2, <2>1, LoadedCell
<1>5. \A x \in Cells : lazy'[x].gen = lazy[x].gen
  BY <1>4
<1>6. /\ PlanOf(Loading(c)).load \notin {"", "user"}
      /\ \/ got[c].load = "user" /\ got[c].ver = lazy[Loading(c)].gen
         \/ got[c].load = PlanOf(Loading(c)).load /\ lazy[Loading(c)].gen = 0
  BY <1>1, <1>2, LoadedValues DEF HandOf, InHand
<1>7. \A d \in Callers : HandOf(d)'
  <2>1. \A d \in Callers \ {c} : pc'[d] = pc[d] /\ stack'[d] = stack[d] /\ got'[d] = got[d]
    BY <1>1, PoppedStack
  <2>2. ASSUME NEW d \in Callers \ {c} PROVE HandOf(d)'
    <3>1. StackOf(d) /\ HandOf(d)
      BY <1>1 DEF StacksOK, Meaning
    <3> QED
      BY <1>1, <1>5, <2>1, <3>1, HandFrame
  <2>3. HandOf(c)'
    BY <1>1, <1>5, HandOfReturn
  <2> QED
    BY <2>2, <2>3
<1>8. HandedOutLast'
  BY <1>1, <1>3 DEF HandedOutLast
<1>9. SelectsAreFirst'
  BY <1>3, <1>4 DEF Meaning, SelectsAreFirst
<1>10. AsAsked'
  BY <1>3, <1>4, <1>6 DEF Meaning, AsAsked
<1>11. ResetWins'
  <2>1. ASSUME NEW cell \in Cells \ {Loading(c)}
        PROVE  /\ lazy'[cell].value.load = "user" => lazy'[cell].value.ver = lazy'[cell].gen
               /\ lazy'[cell].value # Unset /\ lazy'[cell].value.load # "user"
                  => lazy'[cell].gen = 0
    <3>1. ResetWins /\ lazy'[cell] = lazy[cell] /\ cell \in Cells
      BY <1>4 DEF Meaning
    <3> QED
      BY <3>1 DEF ResetWins
  <2>2. /\ lazy'[Loading(c)].value.load = "user"
           => lazy'[Loading(c)].value.ver = lazy'[Loading(c)].gen
        /\ lazy'[Loading(c)].value.load # "user" => lazy'[Loading(c)].gen = 0
    BY <1>4, <1>6
  <2> QED
    BY <1>3, <2>1, <2>2 DEF ResetWins
<1>12. ContextTyped'
  BY <1>1 DEF Meaning, ContextTyped
<1> QED
  BY <1>7, <1>8, <1>9, <1>10, <1>11, <1>12 DEF Meaning

LEMMA CallerMeaning ==
    ASSUME Base, Meaning, NEW c \in Callers, NEW cell \in Cells,
           \/ LoadStart(c, cell)
           \/ \E loader \in {"none", "user"} : Reset(c, cell, loader)
    PROVE  Meaning'
<1>1. /\ DataOK /\ StacksOK /\ assembly = <<>> /\ UNCHANGED <<rows, context>>
  BY DEF Base, LoadStart, Reset, HandedOut
<1>2. ContextTyped'
  BY <1>1 DEF Meaning, ContextTyped
<1>3. CASE LoadStart(c, cell)
  <2>1. /\ stack' = [stack EXCEPT ![c] = <<cell>>] /\ pc' = [pc EXCEPT ![c] = "lock"]
        /\ UNCHANGED <<lazy, got>>
    BY <1>3 DEF LoadStart, Go
  <2>2. /\ \A d \in Callers \ {c} : pc'[d] = pc[d] /\ stack'[d] = stack[d] /\ got'[d] = got[d]
        /\ pc'[c] = "lock"
    BY <1>1, <2>1 DEF DataOK
  <2>3. HandOf(c)'
    BY <2>2 DEF HandOf
  <2> QED
    BY <1>1, <1>2, <2>1, <2>2, <2>3, MeaningOfCall
<1>4. ASSUME NEW loader \in {"none", "user"}, Reset(c, cell, loader) PROVE Meaning'
  <2>1. /\ UNCHANGED calls /\ holder[cell] = Nil
        /\ lazy' = [lazy EXCEPT ![cell] =
                      [loader |-> loader, gen |-> lazy[cell].gen + 1, value |-> Unset]]
    BY <1>4 DEF Reset
  <2>2. /\ lazy'[cell].loader = loader /\ lazy'[cell].value = Unset
        /\ \A x \in Cells \ {cell} : lazy'[x] = lazy[x]
    BY <1>1, <2>1 DEF DataOK
  <2>3. /\ Cells' = Cells /\ \A x : PlanOf(x)' = PlanOf(x)
        /\ UNCHANGED <<query, assembly, eager, pc, stack, got>>
    BY <1>1, <2>1, QueryFrame DEF rows, calls
  <2>4. \A d \in Callers : \A x \in Cells : holder[x] = d => lazy'[x].gen = lazy[x].gen
    BY <2>1, <2>2
  <2>5. ASSUME NEW d \in Callers PROVE HandOf(d)'
    <3>1. StackOf(d) /\ HandOf(d)
      BY <1>1 DEF StacksOK, Meaning
    <3> QED
      BY <1>1, <2>3, <2>4, <3>1, HandFrame
  <2>6. HandedOutLast'
    BY <1>1, <2>3 DEF HandedOutLast
  <2>7. SelectsAreFirst'
    BY <2>2, <2>3 DEF Meaning, SelectsAreFirst
  <2>8. AsAsked'
    BY <2>2, <2>3, UnsetHasNoType DEF Meaning, AsAsked
  <2>9. ResetWins'
    BY <2>2, <2>3, UnsetHasNoType DEF Meaning, ResetWins
  <2> QED
    BY <1>2, <2>5, <2>6, <2>7, <2>8, <2>9 DEF Meaning
<1> QED
  BY <1>3, <1>4

LEMMA AssembleMeaning == ASSUME Base, Meaning, Assemble PROVE Meaning'
<1>1. DataOK /\ AssemblyOK /\ assembly # <<>> /\ Fill \in Cells
  BY TailOfSeq DEF Base, Assemble, SkipMissing, AttachLoader, FillEager, FailAssembly, Assembling,
                   AssemblyOK, Fill
<1>2. /\ \A d \in Callers : pc[d] = "idle"
      /\ \A x \in Cells : lazy[x].value = Unset /\ lazy[x].gen = 0
  BY <1>1 DEF Meaning, HandedOutLast
<1>3. /\ UNCHANGED <<query, calls>> /\ (assembly' = assembly \/ assembly' = Tail(assembly))
  BY DEF Assemble, SkipMissing, AttachLoader, FillEager, FailAssembly, Filled
<1>4. /\ Cells' = Cells /\ \A x : PlanOf(x)' = PlanOf(x)
      /\ UNCHANGED <<pc, stack, got>>
  BY <1>3, QueryFrame DEF calls
<1>5. \A x \in Cells : lazy'[x].value = Unset /\ lazy'[x].gen = 0
  <2>1. \/ UNCHANGED lazy
        \/ lazy' = [lazy EXCEPT ![Fill] = [@ EXCEPT !.loader = "select"]]
    BY DEF Assemble, SkipMissing, AttachLoader, FillEager, FailAssembly
  <2> QED
    BY <1>1, <1>2, <2>1 DEF DataOK
<1>6. /\ \A d \in Callers : HandOf(d)'
      /\ HandedOutLast' /\ SelectsAreFirst' /\ ResetWins'
  BY <1>2, <1>4, <1>5, UnsetHasNoType DEF HandOf, HandedOutLast, SelectsAreFirst, ResetWins
<1>7. ContextTyped' /\ \A x \in Cells : eager'[x].load \in {"", PlanOf(x).load}
  <2> DEFINE key == NestedSelectCacheKey(Fill)
  <2>1. Read(Fill).load = PlanOf(Fill).load /\ key[2] = PlanOf(Fill).load
    BY <1>1, LoadedValues, KeyHasType
  <2>2. ContextTyped /\ \A x \in Cells : eager[x].load \in {"", PlanOf(x).load}
    BY DEF Meaning, AsAsked
  <2>3. \/ UNCHANGED <<context, eager>>
        \/ /\ key \in DOMAIN context /\ eager' = [eager EXCEPT ![Fill] = context[key]]
           /\ UNCHANGED context
        \/ eager' = [eager EXCEPT ![Fill] = Read(Fill)] /\ StoreInContext(key, Read(Fill))
    BY DEF Assemble, SkipMissing, AttachLoader, FillEager, FailAssembly
  <2> HIDE DEF key
  <2>4. CASE UNCHANGED <<context, eager>>
    BY <2>2, <2>4 DEF ContextTyped
  <2>5. CASE /\ key \in DOMAIN context /\ eager' = [eager EXCEPT ![Fill] = context[key]]
             /\ UNCHANGED context
    BY <1>1, <2>1, <2>2, <2>5 DEF ContextTyped, DataOK
  <2>6. CASE eager' = [eager EXCEPT ![Fill] = Read(Fill)] /\ StoreInContext(key, Read(Fill))
    BY <1>1, <2>1, <2>2, <2>6 DEF ContextTyped, DataOK, StoreInContext
  <2> QED
    BY <2>3, <2>4, <2>5, <2>6
<1>8. AsAsked'
  BY <1>4, <1>5, <1>7, UnsetHasNoType DEF AsAsked
<1> QED
  BY <1>6, <1>7, <1>8 DEF Meaning

----------------------------------------------------------------------------
Reading(c) == pc[c] \in {"query", "store"}
KeyOf(c) == NestedSelectCacheKey(Loading(c))

(* A key that no two goroutines read at the same time is read by one, and  *)
(* only while the context has no value for it.                             *)
ReadOnce ==
    \A c \in Callers :
        Reading(c) /\ KeyOf(c) \notin overlapped =>
            /\ KeyOf(c) \notin DOMAIN context
            /\ \A d \in Callers \ {c} : Reading(d) => KeyOf(d) # KeyOf(c)

(* Its value is in the context ctx, unless it was overlapped or is no      *)
(* value of a select.                                                      *)
Agrees(k, value, ctx, over) ==
    value # Unset /\ value.load # "user" /\ k \notin over => k \in DOMAIN ctx /\ ctx[k] = value

Kept ==
    /\ \A cell \in Cells : Agrees(NestedSelectCacheKey(cell), Shown(cell), context, overlapped)
    /\ \A c \in Callers : pc[c] = "set" => Agrees(KeyOf(c), got[c], context, overlapped)

LEMMA KeptMeansAgree == Kept => RowsAgree
<1> SUFFICES ASSUME Kept, NEW a \in Cells, NEW b \in Cells,
                    Unset \notin {Shown(a), Shown(b)},
                    "user" \notin {Shown(a).load, Shown(b).load},
                    NestedSelectCacheKey(a) = NestedSelectCacheKey(b),
                    NestedSelectCacheKey(a) \notin overlapped
             PROVE  Shown(a) = Shown(b)
  BY DEF RowsAgree
<1>1. /\ Agrees(NestedSelectCacheKey(a), Shown(a), context, overlapped)
      /\ Agrees(NestedSelectCacheKey(b), Shown(b), context, overlapped)
  BY DEF Kept
<1> QED
  BY <1>1 DEF Agrees

LEMMA AgreesStill ==
    ASSUME NEW k, NEW value, NEW ctx, NEW over, NEW ctx2, NEW over2,
           Agrees(k, value, ctx, over), over \subseteq over2,
           k \in DOMAIN ctx /\ k \notin over2 => k \in DOMAIN ctx2 /\ ctx2[k] = ctx[k]
    PROVE  Agrees(k, value, ctx2, over2)
BY DEF Agrees

LEMMA KeyFrame ==
    ASSUME UNCHANGED query, NEW d, stack'[d] = stack[d]
    PROVE  KeyOf(d)' = KeyOf(d)
BY DEF KeyOf, NestedSelectCacheKey, NestedSelectArgs, PlanOf, Loading

(* A step of one goroutine that leaves the context alone.                  *)
LEMMA KeptOfCall ==
    ASSUME Base, ReadOnce, Kept, NEW c \in Callers, UNCHANGED <<rows, context, overlapped>>,
           \A d \in Callers \ {c} : pc'[d] = pc[d] /\ stack'[d] = stack[d] /\ got'[d] = got[d],
           Reading(c)' => Reading(c) /\ stack'[c] = stack[c],
           pc'[c] = "set" => Agrees(KeyOf(c)', got'[c], context, overlapped),
           \A cell \in Cells :
               \/ lazy'[cell].value \in {lazy[cell].value, Unset}
               \/ Agrees(NestedSelectCacheKey(cell), lazy'[cell].value, context, overlapped)
    PROVE  ReadOnce' /\ Kept'
<1>1. /\ UNCHANGED <<query, eager, context, overlapped>>
      /\ Cells' = Cells
      /\ \A cell : PlanOf(cell)' = PlanOf(cell)
                   /\ NestedSelectCacheKey(cell)' = NestedSelectCacheKey(cell)
  BY QueryFrame DEF rows
<1>2. \A d \in Callers \ {c} : KeyOf(d)' = KeyOf(d) /\ (Reading(d)' <=> Reading(d))
  BY <1>1, KeyFrame DEF Reading
<1>3. Reading(c)' => Reading(c) /\ KeyOf(c)' = KeyOf(c)
  BY <1>1, KeyFrame
<1>4. ReadOnce'
  BY <1>1, <1>2, <1>3 DEF ReadOnce
<1>5. ASSUME NEW cell \in Cells
      PROVE  Agrees(NestedSelectCacheKey(cell), Shown(cell)', context, overlapped)
  <2>1. Agrees(NestedSelectCacheKey(cell), Shown(cell), context, overlapped)
    BY DEF Kept
  <2>2. CASE PlanOf(cell).lazy
    <3>1. Shown(cell)' = lazy'[cell].value /\ Shown(cell) = lazy[cell].value
      BY <1>1, <2>2 DEF Shown
    <3> QED
      BY <2>1, <3>1 DEF Agrees
  <2>3. CASE ~PlanOf(cell).lazy
    <3>1. Shown(cell)' = Shown(cell)
      BY <1>1, <2>3 DEF Shown
    <3> QED
      BY <2>1, <3>1
  <2> QED
    BY <2>2, <2>3
<1>6. ASSUME NEW d \in Callers, pc'[d] = "set"
      PROVE  Agrees(KeyOf(d)', got'[d], context, overlapped)
  BY <1>2, <1>6 DEF Kept
<1>7. Kept'
  BY <1>1, <1>5, <1>6 DEF Kept, Agrees
<1> QED
  BY <1>4, <1>7

(* A value that a user's loader returned is in nobody's way.               *)
LEMMA UserAgrees ==
    ASSUME NEW k, NEW value, value.load = "user"
    PROVE  Agrees(k, value, context, overlapped)
BY DEF Agrees

LEMMA KeptOfReturn ==
    ASSUME Base, ReadOnce, Kept, NEW c \in Callers, pc[c] # "idle",
           Return(c) \/ ReturnError(c), UNCHANGED <<rows, context, overlapped>>,
           \A cell \in Cells :
               \/ lazy'[cell].value \in {lazy[cell].value, Unset}
               \/ Agrees(NestedSelectCacheKey(cell), lazy'[cell].value, context, overlapped)
    PROVE  ReadOnce' /\ Kept'
<1>1. DataOK /\ StackOf(c)
  BY DEF Base, StacksOK
<1>2. CASE Return(c)
  <2>1. /\ \A d \in Callers \ {c} : pc'[d] = pc[d] /\ stack'[d] = stack[d] /\ got'[d] = got[d]
        /\ \/ pc'[c] = "set" /\ Loading(c)' \in Cells /\ got'[c] = UserValue(Loading(c)')
           \/ pc'[c] = "idle"
    BY <1>1, <1>2, PoppedStack
  <2>2. ~Reading(c)'
    BY <2>1 DEF Reading
  <2>3. pc'[c] = "set" => Agrees(KeyOf(c)', got'[c], context, overlapped)
    BY <1>1, <2>1, LoadedValues, UserAgrees
  <2> QED
    BY <2>1, <2>2, <2>3, KeptOfCall
<1>3. CASE ReturnError(c)
  <2>1. /\ pc' = [pc EXCEPT ![c] = "idle"]
        /\ stack' = [stack EXCEPT ![c] = <<>>] /\ got' = [got EXCEPT ![c] = Unset]
    BY <1>3 DEF ReturnError, Go
  <2>2. /\ \A d \in Callers \ {c} : pc'[d] = pc[d] /\ stack'[d] = stack[d] /\ got'[d] = got[d]
        /\ pc'[c] = "idle"
    BY <1>1, <2>1 DEF DataOK
  <2>3. ~Reading(c)'
    BY <2>2 DEF Reading
  <2> QED
    BY <2>2, <2>3, KeptOfCall
<1> QED
  BY <1>2, <1>3

(* A goroutine that finds its key missing starts to read it: if another    *)
(* reads it already, the key is overlapped from now on.                    *)
LEMMA LookupKept == ASSUME Base, ReadOnce, Kept, NEW c \in Callers, LoaderLookup(c) PROVE ReadOnce' /\ Kept'
<1> DEFINE key == NestedSelectCacheKey(Loading(c))
<1>1. /\ DataOK /\ pc[c] = "select" /\ UNCHANGED <<rows, query, eager, context, lazy, stack>>
  BY DEF Base, LoaderLookup, rows
<1>2. CASE /\ key \in DOMAIN context
           /\ got' = [got EXCEPT ![c] = context[key]] /\ Go(c, "set")
           /\ UNCHANGED overlapped
  <2>1. /\ pc'[c] = "set" /\ got'[c] = context[key]
        /\ \A d \in Callers \ {c} : pc'[d] = pc[d] /\ stack'[d] = stack[d] /\ got'[d] = got[d]
    BY <1>1, <1>2 DEF DataOK, Go
  <2>2. KeyOf(c)' = key
    BY <1>1, KeyFrame DEF KeyOf
  <2>3. Agrees(KeyOf(c)', got'[c], context, overlapped) /\ ~Reading(c)'
    BY <1>2, <2>1, <2>2 DEF Agrees, Reading
  <2> QED
    BY <1>1, <1>2, <2>1, <2>3, KeptOfCall
<1>3. CASE /\ key \notin DOMAIN context /\ Go(c, "query") /\ UNCHANGED got
           /\ overlapped' = IF \E d \in Callers \ {c} :
                                  /\ pc[d] \in {"query", "store"}
                                  /\ NestedSelectCacheKey(Loading(d)) = key
                            THEN overlapped \union {key} ELSE overlapped
  <2>1. /\ pc'[c] = "query" /\ \A d \in Callers \ {c} : pc'[d] = pc[d]
    BY <1>1, <1>3 DEF DataOK, Go
  <2>2. /\ \A d \in Callers : KeyOf(d)' = KeyOf(d)
        /\ \A d \in Callers \ {c} : Reading(d)' <=> Reading(d)
        /\ KeyOf(c) = key
    BY <1>1, <2>1, KeyFrame DEF Reading, KeyOf
  <2>3. /\ overlapped \subseteq overlapped'
        /\ \A d \in Callers \ {c} : Reading(d) /\ KeyOf(d) = key => key \in overlapped'
    BY <1>3 DEF Reading, KeyOf
  <2> HIDE DEF key
  <2>4. ReadOnce'
    <3>1. /\ KeyOf(c)' = key /\ key \notin DOMAIN context'
          /\ \A d \in Callers \ {c} : Reading(d)' /\ key \notin overlapped' => KeyOf(d)' # key
      BY <1>1, <1>3, <2>2, <2>3
    <3>2. ASSUME NEW d \in Callers \ {c}, Reading(d)', KeyOf(d)' \notin overlapped'
          PROVE  /\ KeyOf(d)' \notin DOMAIN context'
                 /\ \A e \in Callers \ {d} : Reading(e)' => KeyOf(e)' # KeyOf(d)'
      <4>1. /\ Reading(d) /\ KeyOf(d) \notin overlapped /\ KeyOf(d) # key
        BY <2>2, <2>3, <3>1, <3>2
      <4>2. /\ KeyOf(d) \notin DOMAIN context
            /\ \A e \in Callers \ {d} : Reading(e) => KeyOf(e) # KeyOf(d)
        BY <4>1 DEF ReadOnce
      <4> QED
        BY <1>1, <2>2, <4>1, <4>2
    <3> QED
      BY <3>1, <3>2 DEF ReadOnce
  <2>5. Kept'
    <3>1. /\ Cells' = Cells
          /\ \A cell : /\ NestedSelectCacheKey(cell)' = NestedSelectCacheKey(cell)
                       /\ Shown(cell)' = Shown(cell)
      BY <1>1, QueryFrame DEF Shown
    <3>2. ASSUME NEW cell \in Cells
          PROVE  Agrees(NestedSelectCacheKey(cell), Shown(cell), context, overlapped')
      BY <2>3, AgreesStill DEF Kept
    <3>3. ASSUME NEW d \in Callers, pc'[d] = "set"
          PROVE  Agrees(KeyOf(d), got[d], context, overlapped')
      <4>1. pc[d] = "set"
        BY <2>1, <3>3
      <4> QED
        BY <2>3, <4>1, AgreesStill DEF Kept
    <3> QED
      BY <1>1, <1>3, <2>2, <3>1, <3>2, <3>3 DEF Kept, Agrees
  <2> QED
    BY <2>4, <2>5
<1> QED
  BY <1>2, <1>3 DEF LoaderLookup

(* The value that was read enters the context: nobody else has one for its *)
(* key, unless the key was overlapped.                                     *)
LEMMA StoreKept ==
    ASSUME Base, ReadOnce, Kept, NEW c \in Callers, LoaderStore(c)
    PROVE  ReadOnce' /\ Kept'
<1> DEFINE key == KeyOf(c)
<1>1. /\ DataOK /\ pc[c] = "store" /\ UNCHANGED <<query, eager, lazy, stack, got, overlapped>>
      /\ pc' = [pc EXCEPT ![c] = "set"]
      /\ context' = [k \in DOMAIN context \union {key} |-> IF k = key THEN got[c] ELSE context[k]]
  BY DEF Base, LoaderStore, StoreInContext, Go, KeyOf, rows
<1>2. pc'[c] = "set" /\ \A d \in Callers \ {c} : pc'[d] = pc[d]
  BY <1>1 DEF DataOK
<1>3. /\ \A d \in Callers : KeyOf(d)' = KeyOf(d)
      /\ \A d \in Callers \ {c} : Reading(d)' <=> Reading(d)
      /\ Reading(c) /\ ~Reading(c)'
  BY <1>1, <1>2, KeyFrame DEF Reading
<1>4. /\ Cells' = Cells
      /\ \A cell : /\ NestedSelectCacheKey(cell)' = NestedSelectCacheKey(cell)
                   /\ Shown(cell)' = Shown(cell)
  BY <1>1, QueryFrame DEF Shown
<1>5. key \notin overlapped => key \notin DOMAIN context
  BY <1>3 DEF ReadOnce
<1>6. \A k \in DOMAIN context : k \notin overlapped => k \in DOMAIN context' /\ context'[k] = context[k]
  BY <1>1, <1>5
<1>7. key \in DOMAIN context' /\ context'[key] = got[c]
  BY <1>1
<1>8. DOMAIN context' = DOMAIN context \union {key}
  BY <1>1
<1> HIDE DEF key
<1>9. ReadOnce'
  <2>1. ASSUME NEW d \in Callers \ {c}, Reading(d), KeyOf(d) \notin overlapped
        PROVE  /\ KeyOf(d) \notin DOMAIN context'
               /\ \A e \in Callers \ {d} : Reading(e) => KeyOf(e) # KeyOf(d)
    BY <1>3, <1>8, <2>1 DEF ReadOnce, key
  <2> QED
    BY <1>1, <1>3, <2>1 DEF ReadOnce
<1>10. Kept'
  <2>1. ASSUME NEW cell \in Cells
        PROVE  Agrees(NestedSelectCacheKey(cell), Shown(cell), context', overlapped)
    BY <1>6, AgreesStill DEF Kept
  <2>2. ASSUME NEW d \in Callers, pc'[d] = "set"
        PROVE  Agrees(KeyOf(d), got[d], context', overlapped)
    <3>1. CASE d = c
      BY <1>7, <3>1 DEF Agrees, key
    <3>2. CASE d # c
      BY <1>2, <1>6, <2>2, <3>2, AgreesStill DEF Kept
    <3> QED
      BY <3>1, <3>2
  <2> QED
    BY <1>1, <1>3, <1>4, <2>1, <2>2 DEF Kept, Agrees
<1> QED
  BY <1>9, <1>10

LEMMA LoadKept ==
    ASSUME Base, ReadOnce, Kept, NEW c \in Callers, LoaderQuery(c) \/ UserLoader(c) \/ LoadSet(c)
    PROVE  ReadOnce' /\ Kept'
<1>1. /\ DataOK /\ StackOf(c) /\ pc[c] \notin {"idle", "lock"}
      /\ UNCHANGED <<rows, context, overlapped>>
  BY DEF Base, StacksOK, LoaderQuery, UserLoader, LoadSet
<1>2. Loading(c) \in Cells
  BY <1>1, Held
<1>3. CASE LoaderQuery(c)
  <2>1. /\ pc' = [pc EXCEPT ![c] = "store"] /\ got' = [got EXCEPT ![c] = Read(Loading(c))]
        /\ UNCHANGED <<stack, lazy>> /\ pc[c] = "query"
    BY <1>3 DEF LoaderQuery, Go
  <2>2. /\ \A d \in Callers \ {c} : pc'[d] = pc[d] /\ stack'[d] = stack[d] /\ got'[d] = got[d]
        /\ pc'[c] = "store" /\ Reading(c) /\ stack'[c] = stack[c]
    BY <1>1, <2>1 DEF DataOK, Reading
  <2> QED
    BY <1>1, <2>1, <2>2, KeptOfCall
<1>4. CASE UserLoader(c)
  <2>1. /\ UNCHANGED lazy
        /\ \/ /\ pc' = [pc EXCEPT ![c] = "set"] /\ got' = [got EXCEPT ![c] = UserValue(Loading(c))]
              /\ UNCHANGED stack
           \/ /\ pc' = [pc EXCEPT ![c] = "lock"] /\ UNCHANGED got
              /\ stack' = [stack EXCEPT ![c] = Append(@, query.loads[Loading(c)])]
    BY <1>4 DEF UserLoader, Go
  <2>2. /\ \A d \in Callers \ {c} : pc'[d] = pc[d] /\ stack'[d] = stack[d] /\ got'[d] = got[d]
        /\ pc'[c] = "lock" \/ (pc'[c] = "set" /\ got'[c] = UserValue(Loading(c)))
    BY <1>1, <2>1 DEF DataOK
  <2>3. pc'[c] = "set" => Agrees(KeyOf(c)', got'[c], context, overlapped)
    BY <1>1, <1>2, <2>2, LoadedValues, UserAgrees
  <2>4. ~Reading(c)'
    BY <2>2 DEF Reading
  <2> QED
    BY <1>1, <2>1, <2>2, <2>3, <2>4, KeptOfCall
<1>5. CASE LoadSet(c)
  <2>1. /\ Return(c) /\ pc[c] = "set"
        /\ lazy' = [lazy EXCEPT ![Loading(c)] = [@ EXCEPT !.value = got[c], !.loader = "none"]]
    BY <1>5 DEF LoadSet
  <2>2. /\ lazy'[Loading(c)].value = got[c]
        /\ \A x \in Cells \ {Loading(c)} : lazy'[x] = lazy[x]
    <3>1. got[c] \in Values \union {Unset}
      BY <1>1 DEF DataOK
    <3> QED
      BY <1>1, <1>2, <2>1, <3>1, LoadedCell
  <2>3. Agrees(NestedSelectCacheKey(Loading(c)), got[c], context, overlapped)
    BY <2>1 DEF Kept, KeyOf
  <2>4. \A cell \in Cells :
            \/ lazy'[cell].value \in {lazy[cell].value, Unset}
            \/ Agrees(NestedSelectCacheKey(cell), lazy'[cell].value, context, overlapped)
    BY <2>2, <2>3
  <2> QED
    BY <1>1, <2>1, <2>4, KeptOfReturn
<1> QED
  BY <1>3, <1>4, <1>5

LEMMA LockKept == ASSUME Base, ReadOnce, Kept, NEW c \in Callers, Lock(c) PROVE ReadOnce' /\ Kept'
<1>1. /\ DataOK /\ StackOf(c) /\ pc[c] = "lock" /\ UNCHANGED <<rows, context, overlapped, lazy>>
  BY DEF Base, StacksOK, Lock, LoadLoaded, LoadWithoutLoader, LoadCallsLoader, ReturnError
<1>2. CASE LoadLoaded(c) \/ LoadWithoutLoader(c)
  <2>1. Return(c) \/ ReturnError(c)
    BY <1>2 DEF LoadLoaded, LoadWithoutLoader
  <2> QED
    BY <1>1, <2>1, KeptOfReturn
<1>3. CASE LoadCallsLoader(c)
  <2>1. /\ pc' = [pc EXCEPT ![c] = lazy[Loading(c)].loader] /\ UNCHANGED <<stack, got>>
        /\ lazy[Loading(c)].loader # "none"
    BY <1>3 DEF LoadCallsLoader, Go
  <2>2. Loading(c) \in Cells
    BY <1>1, Held
  <2>3. pc'[c] \in {"select", "user"} /\ \A d \in Callers \ {c} : pc'[d] = pc[d]
    BY <1>1, <2>1, <2>2 DEF DataOK
  <2>4. ~Reading(c)'
    BY <2>3 DEF Reading
  <2> QED
    BY <1>1, <2>1, <2>3, <2>4, KeptOfCall
<1> QED
  BY <1>2, <1>3 DEF Lock

LEMMA CallerKept ==
    ASSUME Base, ReadOnce, Kept, NEW c \in Callers, NEW cell \in Cells,
           \/ LoadStart(c, cell)
           \/ \E loader \in {"none", "user"} : Reset(c, cell, loader)
    PROVE  ReadOnce' /\ Kept'
<1>1. DataOK /\ UNCHANGED <<rows, context, overlapped>> /\ pc[c] = "idle"
  BY DEF Base, LoadStart, Reset, calls
<1>2. CASE LoadStart(c, cell)
  <2>1. /\ pc' = [pc EXCEPT ![c] = "lock"] /\ stack' = [stack EXCEPT ![c] = <<cell>>]
        /\ UNCHANGED <<got, lazy>>
    BY <1>2 DEF LoadStart, Go
  <2>2. /\ \A d \in Callers \ {c} : pc'[d] = pc[d] /\ stack'[d] = stack[d] /\ got'[d] = got[d]
        /\ pc'[c] = "lock"
    BY <1>1, <2>1 DEF DataOK
  <2>3. ~Reading(c)'
    BY <2>2 DEF Reading
  <2> QED
    BY <1>1, <2>1, <2>2, <2>3, KeptOfCall
<1>3. ASSUME NEW loader \in {"none", "user"}, Reset(c, cell, loader) PROVE ReadOnce' /\ Kept'
  <2>1. /\ UNCHANGED calls
        /\ lazy' = [lazy EXCEPT ![cell] =
                      [loader |-> loader, gen |-> lazy[cell].gen + 1, value |-> Unset]]
    BY <1>3 DEF Reset
  <2>2. \A x \in Cells : lazy'[x].value \in {lazy[x].value, Unset}
    BY <1>1, <2>1 DEF DataOK
  <2>3. UNCHANGED <<pc, stack, got>> /\ ~Reading(c)' /\ pc'[c] # "set"
    BY <1>1, <2>1 DEF calls, Reading
  <2> QED
    BY <1>1, <2>2, <2>3, KeptOfCall
<1> QED
  BY <1>2, <1>3

LEMMA AssembleKept == ASSUME Base, Meaning, ReadOnce, Kept, Assemble PROVE ReadOnce' /\ Kept'
<1>1. DataOK /\ AssemblyOK /\ assembly # <<>> /\ Fill \in Cells
  BY TailOfSeq DEF Base, Assemble, SkipMissing, AttachLoader, FillEager, FailAssembly, Assembling,
                   AssemblyOK, Fill
<1>2. /\ \A d \in Callers : pc[d] = "idle"
      /\ \A x \in Cells : lazy[x].value = Unset
  BY <1>1 DEF Meaning, HandedOutLast
<1>3. /\ UNCHANGED <<query, pc, stack, got, overlapped>>
      /\ \/ UNCHANGED lazy
         \/ lazy' = [lazy EXCEPT ![Fill] = [@ EXCEPT !.loader = "select"]]
  BY DEF Assemble, SkipMissing, AttachLoader, FillEager, FailAssembly, Filled, calls
<1>4. \A x \in Cells : lazy'[x].value = Unset
  <2>1. CASE UNCHANGED lazy
    BY <1>2, <2>1
  <2>2. CASE lazy' = [lazy EXCEPT ![Fill] = [@ EXCEPT !.loader = "select"]]
    BY <1>1, <1>2, <2>2, LoaderMarked
  <2> QED
    BY <1>3, <2>1, <2>2
<1>5. ReadOnce' /\ \A d \in Callers : pc'[d] # "set"
  BY <1>2, <1>3 DEF ReadOnce, Reading
<1>6. /\ Cells' = Cells
      /\ \A cell : /\ PlanOf(cell)' = PlanOf(cell)
                   /\ NestedSelectCacheKey(cell)' = NestedSelectCacheKey(cell)
  BY <1>3, QueryFrame
<1> DEFINE key == NestedSelectCacheKey(Fill)
<1>7. CASE UNCHANGED <<context, eager>>
  <2>1. ASSUME NEW cell \in Cells
        PROVE  Agrees(NestedSelectCacheKey(cell), Shown(cell)', context, overlapped)
    <3>1. Shown(cell)' \in {Shown(cell), Unset}
      BY <1>4, <1>6, <1>7 DEF Shown
    <3>2. Agrees(NestedSelectCacheKey(cell), Shown(cell), context, overlapped)
      BY DEF Kept
    <3> QED
      BY <3>1, <3>2 DEF Agrees
  <2> QED
    BY <1>3, <1>5, <1>6, <1>7, <2>1 DEF Kept, Agrees
<1>8. ASSUME NEW value, eager' = [eager EXCEPT ![Fill] = value],
             key \in DOMAIN context' /\ context'[key] = value,
             \A k \in DOMAIN context : k \in DOMAIN context' /\ context'[k] = context[k]
      PROVE  ReadOnce' /\ Kept'
  <2>1. ASSUME NEW cell \in Cells
        PROVE  Agrees(NestedSelectCacheKey(cell), Shown(cell)', context', overlapped)
    <3>1. Agrees(NestedSelectCacheKey(cell), Shown(cell), context', overlapped)
      BY <1>8, AgreesStill DEF Kept
    <3>2. CASE PlanOf(cell).lazy
      <4>1. Shown(cell)' = Unset
        BY <1>4, <1>6, <3>2 DEF Shown
      <4> QED
        BY <4>1 DEF Agrees
    <3>3. CASE ~PlanOf(cell).lazy /\ cell # Fill
      <4>1. Shown(cell)' = Shown(cell)
        BY <1>1, <1>6, <1>8, <3>3 DEF Shown, DataOK
      <4> QED
        BY <3>1, <4>1
    <3>4. CASE ~PlanOf(cell).lazy /\ cell = Fill
      <4>1. Shown(cell)' = value
        BY <1>1, <1>6, <1>8, <3>4 DEF Shown, DataOK
      <4> QED
        BY <1>8, <3>4, <4>1 DEF Agrees
    <3> QED
      BY <3>2, <3>3, <3>4
  <2> QED
    BY <1>3, <1>5, <1>6, <2>1 DEF Kept, Agrees
<1>9. CASE FillEager
  <2>1. \/ /\ key \in DOMAIN context
           /\ eager' = [eager EXCEPT ![Fill] = context[key]]
           /\ UNCHANGED context
        \/ /\ key \notin DOMAIN context
           /\ eager' = [eager EXCEPT ![Fill] = Read(Fill)]
           /\ context' = [k \in DOMAIN context \union {key} |->
                            IF k = key THEN Read(Fill) ELSE context[k]]
    BY <1>9 DEF FillEager, StoreInContext
  <2> HIDE DEF key
  <2>2. CASE key \in DOMAIN context /\ eager' = [eager EXCEPT ![Fill] = context[key]]
             /\ UNCHANGED context
    BY <1>8, <2>2
  <2>3. CASE /\ key \notin DOMAIN context
             /\ eager' = [eager EXCEPT ![Fill] = Read(Fill)]
             /\ context' = [k \in DOMAIN context \union {key} |->
                              IF k = key THEN Read(Fill) ELSE context[k]]
    BY <1>8, <2>3
  <2> QED
    BY <2>1, <2>2, <2>3
<1> QED
  BY <1>7, <1>9 DEF Assemble, SkipMissing, AttachLoader, FailAssembly

----------------------------------------------------------------------------
LEMMA DivMod ==
    ASSUME NEW n \in Nat, NEW p \in Nat \ {0}
    PROVE  n = p * (n \div p) + (n % p) /\ n % p \in 0..(p - 1) /\ n \div p \in Nat
OBVIOUS

LEMMA DivLess ==
    ASSUME NEW n \in Nat, NEW p \in Nat \ {0}, NEW r \in Nat, n < r * p
    PROVE  n \div p < r
OBVIOUS

(* Row by row and plan by plan, every cell comes once at most.             *)
LEMMA RowByRowIsTyped ==
    ASSUME query \in Queries
    PROVE  RowByRow \in Seq(Cells) /\ IsInjective(RowByRow)
<1> DEFINE p == Len(query.plans)
           r == Len(query.rows)
<1>1. /\ r \in Nat /\ DOMAIN query.rows = 1..r
      /\ p \in Nat /\ DOMAIN query.plans = 1..p
  BY QueriesAreShaped
<1>2. Cells = (1..r) \X (1..p)
  BY <1>1 DEF Cells, CellsOf
<1> HIDE DEF p, r
<1>3. r * p \in Nat
  BY <1>1
<1>4. RowByRow = [n \in 1..(r * p) |-> <<((n - 1) \div p) + 1, ((n - 1) % p) + 1>>]
  BY DEF RowByRow, p, r
<1>5. ASSUME NEW n \in 1..(r * p)
      PROVE  /\ p \in Nat \ {0} /\ n - 1 \in Nat
             /\ n - 1 = p * ((n - 1) \div p) + ((n - 1) % p)
             /\ ((n - 1) \div p) + 1 \in 1..r /\ ((n - 1) % p) + 1 \in 1..p
             /\ (n - 1) \div p \in Nat /\ (n - 1) % p \in Nat
  <2>1. p # 0
    BY <1>1, <1>5
  <2>2. n - 1 \in Nat /\ n - 1 < r * p
    BY <1>3, <1>5
  <2>3. /\ n - 1 = p * ((n - 1) \div p) + ((n - 1) % p)
        /\ (n - 1) % p \in 0..(p - 1) /\ (n - 1) \div p \in Nat
    BY <1>1, <2>1, <2>2, DivMod
  <2>4. (n - 1) \div p < r
    BY <1>1, <2>1, <2>2, DivLess
  <2> QED
    BY <1>1, <2>1, <2>2, <2>3, <2>4
<1>6. RowByRow \in Seq(Cells)
  <2>1. \A n \in 1..(r * p) : RowByRow[n] \in Cells
    BY <1>2, <1>4, <1>5
  <2> QED
    BY <1>3, <1>4, <2>1
<1>7. ASSUME NEW m \in 1..(r * p), NEW n \in 1..(r * p), RowByRow[m] = RowByRow[n]
      PROVE  m = n
  <2>1. (m - 1) \div p = (n - 1) \div p /\ (m - 1) % p = (n - 1) % p
    <3>1. /\ ((m - 1) \div p) + 1 = ((n - 1) \div p) + 1
          /\ ((m - 1) % p) + 1 = ((n - 1) % p) + 1
      BY <1>4, <1>7
    <3> QED
      BY <1>5, <3>1
  <2>2. m - 1 = n - 1
    BY <1>5, <2>1
  <2> QED
    BY <1>3, <2>2
<1> QED
  BY <1>4, <1>6, <1>7 DEF IsInjective

IInv == Base /\ Meaning /\ ReadOnce /\ Kept

LEMMA InvInit == Init => IInv
<1> SUFFICES ASSUME Init PROVE IInv
  OBVIOUS
<1>1. query \in Queries /\ assembly = RowByRow /\ context = [k \in {} |-> Unset]
  BY DEF Init
<1>2. AssemblyOK
  BY <1>1, RowByRowIsTyped DEF AssemblyOK
<1>3. /\ eager = [cell \in Cells |-> Unset] /\ lazy = [cell \in Cells |-> NoLoader]
      /\ holder = [cell \in Cells |-> Nil]
      /\ pc = [c \in Callers |-> "idle"] /\ stack = [c \in Callers |-> <<>>]
      /\ got = [c \in Callers |-> Unset] /\ failed = FALSE
      /\ db \in [{SelectedBy(cell) : cell \in Cells} -> {0, 1}]
  BY DEF Init
<1>4. DOMAIN context = {}
  BY <1>1
<1>5. NoLoader.loader = "none" /\ NoLoader.gen = 0 /\ NoLoader.value = Unset
  BY DEF NoLoader
<1>6. lazy \in [Cells -> [loader : {"none", "select", "user"}, gen : 0..MaxResets,
                          value : Values \union {Unset}]]
  BY <1>3 DEF NoLoader
<1>7. DataOK
  <2>1. db \in [{SelectedBy(cell) : cell \in Cells} -> 0..MaxWrites]
    <3>1. {0, 1} \subseteq 0..MaxWrites
      OBVIOUS
    <3> QED
      BY <1>3, <3>1
  <2>2. /\ eager \in [Cells -> Values \union {Unset}] /\ got \in [Callers -> Values \union {Unset}]
        /\ holder \in [Cells -> Callers \union {Nil}]
        /\ pc \in [Callers -> Stages] /\ stack \in [Callers -> Seq(Cells)]
    BY <1>3 DEF Stages
  <2>3. \A cell \in Cells : lazy[cell].value # Unset => lazy[cell].loader = "none"
    BY <1>3, <1>5
  <2> QED
    BY <1>1, <1>3, <1>4, <1>6, <2>1, <2>2, <2>3 DEF DataOK
<1>8. StacksOK
  BY <1>3 DEF StacksOK, StackOf
<1>9. Meaning
  BY <1>3, <1>4, <1>5, UnsetHasNoType
     DEF Meaning, HandedOutLast, SelectsAreFirst, ContextTyped, AsAsked, ResetWins, HandOf
<1>10. \A cell \in Cells : Shown(cell) = Unset
  BY <1>3, <1>5 DEF Shown
<1>11. ReadOnce /\ Kept
  BY <1>3, <1>10 DEF ReadOnce, Kept, Reading, Agrees
<1> QED
  BY <1>2, <1>7, <1>8, <1>9, <1>11 DEF IInv, Base

(* A write of a selected row and a context that ends touch nothing of it.  *)
LEMMA QuietStep ==
    ASSUME IInv, UNCHANGED <<rows, context, lazy, holder, pc, stack, got, overlapped>>,
           db' \in [{SelectedBy(cell) : cell \in Cells} -> 0..MaxWrites]
    PROVE  IInv'
<1>1. Base /\ Meaning /\ ReadOnce /\ Kept /\ DataOK /\ AssemblyOK /\ StacksOK
  BY DEF IInv, Base
<1>2. /\ Cells' = Cells /\ Values' = Values
      /\ \A cell : /\ PlanOf(cell)' = PlanOf(cell) /\ SelectedBy(cell)' = SelectedBy(cell)
                   /\ NestedSelectCacheKey(cell)' = NestedSelectCacheKey(cell)
                   /\ Shown(cell)' = Shown(cell)
      /\ UNCHANGED <<query, assembly, failed, eager>>
  BY QueryFrame DEF rows, Shown
<1>3. Base'
  <2>1. DataOK'
    BY <1>1, <1>2 DEF DataOK
  <2>2. StacksOK'
    BY <1>1, StacksFrame
  <2> QED
    BY <1>1, <1>2, <2>1, <2>2 DEF Base, AssemblyOK
<1>4. \A d \in Callers : HandOf(d)' /\ KeyOf(d)' = KeyOf(d) /\ (Reading(d)' <=> Reading(d))
  <2> SUFFICES ASSUME NEW d \in Callers
               PROVE  HandOf(d)' /\ KeyOf(d)' = KeyOf(d) /\ (Reading(d)' <=> Reading(d))
    OBVIOUS
  <2>1. StackOf(d) /\ HandOf(d)
    BY <1>1 DEF StacksOK, Meaning
  <2> QED
    BY <1>1, <1>2, <2>1, HandFrame, KeyFrame DEF Reading
<1>5. Meaning'
  BY <1>1, <1>2, <1>4
     DEF Meaning, HandedOutLast, SelectsAreFirst, ContextTyped, AsAsked, ResetWins
<1>6. ReadOnce'
  BY <1>1, <1>4 DEF ReadOnce
<1>7. Kept'
  BY <1>1, <1>2, <1>4 DEF Kept
<1> QED
  BY <1>3, <1>5, <1>6, <1>7 DEF IInv

LEMMA InvStep == IInv /\ [Next]_vars => IInv'
<1> SUFFICES ASSUME IInv, [Next]_vars PROVE IInv'
  OBVIOUS
<1>i. Base /\ Meaning /\ ReadOnce /\ Kept /\ DataOK /\ StacksOK
  BY DEF IInv, Base
<1>1. CASE Assemble
  <2>1. assembly # <<>>
    BY <1>1 DEF Assemble, SkipMissing, AttachLoader, FillEager, FailAssembly, Assembling
  <2>2. \A cell \in Cells : lazy[cell].value = Unset
    BY <1>i, <2>1 DEF Meaning, HandedOutLast
  <2>3. Base'
    BY <1>1, <1>i, <2>2, AssembleBase
  <2> QED
    BY <1>1, <1>i, <2>3, AssembleMeaning, AssembleKept DEF IInv
<1>2. ASSUME NEW c \in Callers, Lock(c) PROVE IInv'
  BY <1>2, <1>i, LockBase, LockMeaning, LockKept DEF IInv
<1>3. ASSUME NEW c \in Callers,
             LoaderCancelled(c) \/ LoaderQueryFails(c) \/ UserLoaderFails(c)
      PROVE  IInv'
  <2>1. ReturnError(c) /\ pc[c] # "idle"
    BY <1>3 DEF LoaderCancelled, LoaderQueryFails, UserLoaderFails
  <2>2. UNCHANGED <<rows, context, overlapped, lazy>>
    BY <2>1 DEF ReturnError
  <2> QED
    BY <1>i, <2>1, <2>2, ErrorBase, ErrorMeaning, KeptOfReturn DEF IInv
<1>4. ASSUME NEW c \in Callers,
             LoaderLookup(c) \/ LoaderQuery(c) \/ LoaderStore(c) \/ UserLoader(c) \/ LoadSet(c)
      PROVE  IInv'
  <2>1. pc[c] = "store" => got[c] # Unset
    <3> SUFFICES ASSUME pc[c] = "store" PROVE got[c] # Unset
      OBVIOUS
    <3>1. Loading(c) \in Cells /\ HandOf(c)
      BY <1>i, Held DEF StacksOK, Meaning
    <3>2. got[c].load = PlanOf(Loading(c)).load /\ PlanOf(Loading(c)).load # ""
      BY <1>i, <3>1, LoadedValues DEF HandOf, InHand
    <3> QED
      BY <3>2, UnsetHasNoType
  <2>2. Base'
    BY <1>4, <1>i, <2>1, LoadBase
  <2>3. Meaning'
    BY <1>4, <1>i, LoadMeaning, SetMeaning
  <2>4. ReadOnce' /\ Kept'
    BY <1>4, <1>i, LookupKept, StoreKept, LoadKept
  <2> QED
    BY <2>2, <2>3, <2>4 DEF IInv
<1>5. ASSUME NEW c \in Callers, NEW cell \in Cells,
             \/ LoadStart(c, cell)
             \/ \E loader \in {"none", "user"} : Reset(c, cell, loader)
      PROVE  IInv'
  BY <1>5, <1>i, CallerBase, CallerMeaning, CallerKept DEF IInv
<1>6. ASSUME NEW c \in Callers, Cancel(c) PROVE IInv'
  <2>1. UNCHANGED <<db, rows, context, lazy, holder, pc, stack, got, overlapped>>
    BY <1>6 DEF Cancel
  <2> QED
    BY <1>i, <2>1, QuietStep DEF DataOK
<1>7. ASSUME NEW selected \in DOMAIN db, Write(selected) PROVE IInv'
  <2>1. /\ UNCHANGED <<rows, context, lazy, holder, pc, stack, got, overlapped>>
        /\ db[selected] < MaxWrites /\ db' = [db EXCEPT ![selected] = @ + 1]
    BY <1>7 DEF Write, calls
  <2>2. db' \in [{SelectedBy(cell) : cell \in Cells} -> 0..MaxWrites]
    <3>1. db[selected] + 1 \in 0..MaxWrites
      BY <1>i, <2>1 DEF DataOK
    <3> QED
      BY <1>i, <2>1, <3>1 DEF DataOK
  <2> QED
    BY <2>1, <2>2, QuietStep
<1>8. CASE UNCHANGED vars
  <2>1. UNCHANGED <<db, rows, context, lazy, holder, pc, stack, got, overlapped>>
    BY <1>8 DEF vars, rows
  <2> QED
    BY <1>i, <2>1, QuietStep DEF DataOK
<1>9. CASE Dropped
  BY <1>8, <1>9 DEF Dropped
<1> QED
  BY <1>1, <1>2, <1>3, <1>4, <1>5, <1>6, <1>7, <1>8, <1>9 DEF Next, Load

LEMMA Invariant == Spec => []IInv
BY InvInit, InvStep, PTL DEF Spec

(* The variables keep their types, and a goroutine holds the mutex of every *)
(* value it is loading (lazy.go:57-75).                                     *)
THEOREM TypeCorrect == Spec => []TypeOK
<1>1. IInv => TypeOK
  BY BaseIsTyped DEF IInv
<1> QED
  BY <1>1, Invariant, PTL

(* Rows of one result that ask for the same association show one version of *)
(* it, however loads, writes and Resets interleave (nested_select.go:125).  *)
THEOREM RowsShowOneVersion == Spec => []RowsAgree
<1>1. IInv => RowsAgree
  BY KeptMeansAgree DEF IInv
<1> QED
  BY <1>1, Invariant, PTL

(* A field shows a value of the type it loads: values of one select that    *)
(* are loaded as different types do not take each other's place.            *)
THEOREM FieldsShowTheirType == Spec => []ShownAsAsked
<1>1. Meaning => ShownAsAsked
  BY DEF Meaning, AsAsked, ShownAsAsked, Shown
<1>2. IInv => ShownAsAsked
  BY <1>1 DEF IInv
<1> QED
  BY <1>2, Invariant, PTL

(* A Reset is not undone by a load that was running (lazy.go:97-113).       *)
THEOREM ResetsAreNotUndone == Spec => []ResetWins
<1>1. IInv => ResetWins
  BY DEF IInv, Meaning
<1> QED
  BY <1>1, Invariant, PTL
===========================================================================
