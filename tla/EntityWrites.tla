--------------------------- MODULE EntityWrites ---------------------------
(***************************************************************************)
(* The writes of BaseMapper (internal/runtime/base_mapper.go) on the rows  *)
(* of one entity: UpdateByID with its optimistic lock, updates by wrapper, *)
(* logical and physical deletes, Insert, SaveOrUpdate and Upsert.          *)
(*                                                                         *)
(* Each statement is one atomic step of the database; what a mapper method *)
(* does between two statements interleaves with everyone else.  Only the   *)
(* identity of a row's content matters: contents are numbered in the order *)
(* they are written.  A goroutine works on one entity it loaded or made;   *)
(* the mapper never writes the new version back into the entity.  Over a   *)
(* BatchSession (Batched) a method queues its statements, is told that no  *)
(* row was affected, and the statements run at the next flush.             *)
(***************************************************************************)
EXTENDS Integers, Sequences

CONSTANTS
    Proc,         \* goroutines, each with one entity
    None,         \* no row, no entity
    Versioned,    \* the entity has a version field
    SoftDelete,   \* the entity has a logical delete field
    AutoId,       \* the database generates the key (IDTypeAuto)
    Batched,      \* the mapper's session is a BatchSession
    MaxId,        \* bound: keys
    MaxWrites     \* bound: contents written in a behaviour

ASSUME SwitchesAreBoolean ==
    /\ Versioned \in BOOLEAN /\ SoftDelete \in BOOLEAN
    /\ AutoId \in BOOLEAN /\ Batched \in BOOLEAN
ASSUME BoundsAreNat == MaxId \in Nat /\ MaxWrites \in Nat

VARIABLES
    row,       \* the table
    entity,    \* the entity of each goroutine
    todo,      \* the statements its method has still to run
    writes,    \* history: how many contents were written
    tainted,   \* history: the entity's row was written without a new version, or
               \* came back, after the entity was read
    lost,      \* history: the updates by key that replaced another content than the
               \* one their entity was read with
    hit,       \* history: the running save has updated its row
    doubled,   \* history: a save both updated a row and inserted one
    copied     \* history: a save of an existing row inserted another

vars == <<row, entity, todo, writes, tainted, lost, hit, doubled, copied>>

Id == 1..MaxId
Row == [content : 1..MaxWrites, version : Nat, live : BOOLEAN]
Entity == [id : 0..MaxId, version : Nat, read : 0..MaxWrites]

(* What a method has left to run: a "save" is an update by key that falls  *)
(* back to an insert.                                                      *)
Plan == {<<>>, <<"update">>, <<"save">>, <<"insert">>, <<"upsert">>, <<"fallback">>,
         <<"update", "fallback">>}

ASSUME NoneIsNoRow == None \notin Row
ASSUME NoneIsNoEntity == None \notin Entity

Init ==
    /\ row = [i \in Id |-> None]
    /\ entity = [p \in Proc |-> None]
    /\ todo = [p \in Proc |-> <<>>]
    /\ writes = 0
    /\ tainted = [p \in Proc |-> FALSE]
    /\ lost = {} /\ hit = [p \in Proc |-> FALSE]
    /\ doubled = FALSE /\ copied = FALSE

Live(i) == row[i] # None /\ row[i].live
Idle(p) == todo[p] = <<>>

----------------------------------------------------------------------------
Loads(p, i) ==
    /\ Idle(p) /\ row[i] # None
    /\ entity' = [entity EXCEPT ![p] =
                    [id |-> i, version |-> row[i].version, read |-> row[i].content]]
    /\ tainted' = [tainted EXCEPT ![p] = FALSE]
    /\ UNCHANGED <<row, todo, writes, lost, hit, doubled, copied>>

(* Only live rows are found, but by a wrapper with a top-level OR: the     *)
(* condition on the mark binds to its last operand only.                   *)
SelectByID(p, i) == Live(i) /\ Loads(p, i)
SelectListOr(p, i) == Loads(p, i)

(* The application makes an entity, with a key of its own or without one. *)
MakeEntity(p, i) ==
    /\ Idle(p) /\ (AutoId => i = 0)
    /\ entity' = [entity EXCEPT ![p] = [id |-> i, version |-> 0, read |-> 0]]
    /\ tainted' = [tainted EXCEPT ![p] = FALSE]
    /\ UNCHANGED <<row, todo, writes, lost, hit, doubled, copied>>

(* A method is called: its first statement, or all it queues. *)
Calls(p, statements) ==
    /\ todo' = [todo EXCEPT ![p] = statements]
    /\ hit' = [hit EXCEPT ![p] = FALSE]
    /\ UNCHANGED <<row, writes, tainted, lost, doubled, copied>>

HasKey(p) == entity[p] # None /\ entity[p].id # 0

UpdateByID(p) == Idle(p) /\ HasKey(p) /\ Calls(p, <<"update">>) /\ UNCHANGED entity

(* An entity without a key is given an unused one (IDTypeAssignID), unless *)
(* the database generates it.                                              *)
AssignInsertID(p) ==
    IF AutoId \/ HasKey(p) THEN UNCHANGED entity
    ELSE \E i \in Id : /\ row[i] = None
                       /\ \A q \in Proc : entity[q] # None => entity[q].id # i
                       /\ entity' = [entity EXCEPT ![p].id = i]

Insert(p) == Idle(p) /\ entity[p] # None /\ AssignInsertID(p) /\ Calls(p, <<"insert">>)

Upsert(p) == Idle(p) /\ entity[p] # None /\ AssignInsertID(p) /\ Calls(p, <<"upsert">>)

(* Told "no row", a SaveOrUpdate over a batch goes on and queues the insert.*)
SaveOrUpdate(p) ==
    \/ ~HasKey(p) /\ Insert(p)
    \/ /\ Idle(p) /\ HasKey(p) /\ UNCHANGED entity
       /\ Calls(p, IF Batched THEN <<"update", "fallback">> ELSE <<"save">>)

----------------------------------------------------------------------------
CanWrite == writes < MaxWrites
NextWrite == writes + 1

(* Mutants: the version is not compared; the delete mark is not compared.  *)
MatchesAnyVersion(p) ==
    LET e == entity[p] IN
    /\ row[e.id] # None
    /\ SoftDelete => row[e.id].live
MatchesDeleted(p) ==
    LET e == entity[p] IN
    /\ row[e.id] # None
    /\ Versioned => row[e.id].version = e.version
(* WHERE id = ? AND version = ? AND not deleted. *)
Matches(p) ==
    LET e == entity[p] IN
    /\ row[e.id] # None
    /\ Versioned => row[e.id].version = e.version
    /\ SoftDelete => row[e.id].live

(* SET version = version + 1 *)
Raise(v) == IF Versioned THEN v + 1 ELSE v

Rewritten(r, v) == [r EXCEPT !.content = NextWrite, !.version = v]

(* What a method does when its statement has answered. *)
Answered(p, rest) == todo' = [todo EXCEPT ![p] = rest]
Continue(p) == Answered(p, Tail(todo[p]))

(* UPDATE by key hits its row: it writes a content over another. *)
Overwrites(p) ==
    LET e == entity[p] IN
    /\ ~Idle(p) /\ Head(todo[p]) \in {"update", "save"} /\ Matches(p) /\ CanWrite
    /\ row' = [row EXCEPT ![e.id] = Rewritten(@, Raise(@.version))]
    /\ writes' = NextWrite
    /\ lost' = IF e.read \notin {0, row[e.id].content}
               THEN lost \cup {[over |-> row[e.id].content, tainted |-> tainted[p]]}
               ELSE lost
    /\ hit' = [hit EXCEPT ![p] = TRUE]
    /\ entity' = [entity EXCEPT ![p].read = NextWrite]
    /\ UNCHANGED <<tainted, doubled, copied>>

(* A save that hit is done. *)
UpdateHits(p) == Overwrites(p) /\ Continue(p)

(* The row is written and its answer is lost: the method returns an error. *)
AnswerLost(p) == Overwrites(p) /\ Answered(p, <<>>)

(* UPDATE by key affects no row: a save goes on to insert the entity.      *)
UpdateMisses(p) ==
    /\ ~Idle(p) /\ Head(todo[p]) \in {"update", "save"} /\ ~Matches(p)
    /\ IF Head(todo[p]) = "save" THEN Answered(p, <<"fallback">>) ELSE Continue(p)
    /\ UNCHANGED <<row, entity, writes, tainted, lost, hit, doubled, copied>>

(* The statement fails and changes nothing: the method returns an error. *)
StatementFails(p) ==
    /\ ~Idle(p)
    /\ Answered(p, <<>>)
    /\ UNCHANGED <<row, entity, writes, tainted, lost, hit, doubled, copied>>

(* INSERT: a generated key leaves the entity's own out and is above every  *)
(* row's; otherwise the key must be new, logically deleted rows included.  *)
(* An Upsert in conflict on the key inserts the entity's own in any case.  *)
GeneratedKeys == {i \in Id : \A j \in Id : j >= i => row[j] = None}
OwnKey(p) == {i \in Id : i = entity[p].id /\ row[i] = None}
InsertKeys(p) ==
    IF ~AutoId THEN OwnKey(p)
    ELSE GeneratedKeys \cup (IF Head(todo[p]) = "upsert" THEN OwnKey(p) ELSE {})

InsertRow(p) ==
    LET e == entity[p] IN
    /\ ~Idle(p) /\ Head(todo[p]) \in {"insert", "upsert", "fallback"} /\ CanWrite
    /\ \E i \in InsertKeys(p) :
         /\ row' = [row EXCEPT ![i] = [content |-> NextWrite, version |-> e.version, live |-> TRUE]]
         /\ tainted' = [q \in Proc |->
              tainted[q] \/ (q # p /\ entity[q] # None /\ entity[q].id = i)]
         /\ entity' = IF e.id = i THEN [entity EXCEPT ![p].read = NextWrite] ELSE entity
         /\ copied' = (copied \/ (Head(todo[p]) = "fallback" /\ i # e.id /\ Live(e.id)))
    /\ writes' = NextWrite
    /\ Continue(p)
    /\ doubled' = (doubled \/ hit[p])
    /\ UNCHANGED <<lost, hit>>

----------------------------------------------------------------------------
(* A write past the version, which is neither compared nor raised. *)
WritesPast(i) ==
    /\ row[i] # None /\ CanWrite
    /\ row' = [row EXCEPT ![i] = Rewritten(@, @.version)]
    /\ writes' = NextWrite
    /\ tainted' = [q \in Proc |-> tainted[q] \/ (entity[q] # None /\ entity[q].id = i)]
    /\ UNCHANGED <<entity, lost, hit, doubled, copied>>

(* ON CONFLICT DO UPDATE, ON DUPLICATE KEY UPDATE: the row in conflict, on *)
(* the key or on another unique column, is written whatever its mark.      *)
UpsertHits(p) ==
    /\ ~Idle(p) /\ Head(todo[p]) = "upsert"
    /\ \E i \in Id : WritesPast(i)
    /\ Continue(p)

(* ON CONFLICT DO NOTHING *)
UpsertSkips(p) ==
    /\ ~Idle(p) /\ Head(todo[p]) = "upsert" /\ \E i \in Id : row[i] # None
    /\ Continue(p)
    /\ UNCHANGED <<row, entity, writes, tainted, lost, hit, doubled, copied>>

(* Update by wrapper, UpdateWithWrapper, and a mapped UPDATE that is given *)
(* no version.  What an UpdateWrapper sets is the application's choice: one*)
(* that sets the version or the mark itself is left out.                   *)
UpdateWhere(i) == (SoftDelete => Live(i)) /\ WritesPast(i) /\ UNCHANGED todo

(* The same with a top-level OR in the wrapper: any row can match. *)
UpdateWhereOr(i) == WritesPast(i) /\ UNCHANGED todo

DeleteByID(i) ==
    /\ row[i] # None /\ (SoftDelete => row[i].live)
    /\ row' = [row EXCEPT ![i] = IF SoftDelete THEN [@ EXCEPT !.live = FALSE] ELSE None]
    /\ UNCHANGED <<entity, todo, writes, tainted, lost, hit, doubled, copied>>

----------------------------------------------------------------------------
Next ==
    \/ \E p \in Proc :
         \/ \E i \in Id : SelectByID(p, i) \/ SelectListOr(p, i)
         \/ \E i \in 0..MaxId : MakeEntity(p, i)
         \/ UpdateByID(p) \/ Insert(p) \/ SaveOrUpdate(p) \/ Upsert(p)
         \/ UpdateHits(p) \/ AnswerLost(p) \/ UpdateMisses(p) \/ StatementFails(p) \/ InsertRow(p)
         \/ UpsertHits(p) \/ UpsertSkips(p)
    \/ \E i \in Id : UpdateWhere(i) \/ UpdateWhereOr(i) \/ DeleteByID(i)

Spec == Init /\ [][Next]_vars

----------------------------------------------------------------------------
(* The variables keep their types: a method has at most an update and the  *)
(* insert it falls back to left to run.                                    *)
TypeOK ==
    /\ row \in [Id -> Row \cup {None}]
    /\ entity \in [Proc -> Entity \cup {None}]
    /\ todo \in [Proc -> Plan]
    /\ writes \in 0..MaxWrites
    /\ tainted \in [Proc -> BOOLEAN] /\ hit \in [Proc -> BOOLEAN]
    /\ lost \subseteq [over : 1..MaxWrites, tainted : BOOLEAN]
    /\ doubled \in BOOLEAN /\ copied \in BOOLEAN

(* An UpdateByID replaces a content its entity was not read from only if   *)
(* the row was written past the version, or deleted and inserted again,    *)
(* after the entity was read (base_mapper.go:541-568).                     *)
LostUpdatesHaveCause == Versioned => \A l \in lost : l.tainted

(* The version names the content: unless the row was written past the      *)
(* version or came back, it still has the version the entity was read with *)
(* only if it has that content (base_mapper.go:541-568, 938-941).          *)
VersionNamesContent ==
    Versioned =>
      \A p \in Proc :
        LET e == entity[p] IN
        e # None /\ e.read # 0 /\ ~tainted[p] =>
          /\ e.id # 0
          /\ row[e.id] # None =>
               /\ row[e.id].version >= e.version
               /\ row[e.id].version = e.version => row[e.id].content = e.read

(* No method of BaseMapper brings a logically deleted row back or removes  *)
(* it, and none changes it but an Upsert that finds it in conflict and an  *)
(* update whose wrapper has a top-level OR (base_mapper.go:560-567,        *)
(* 600-625, 1126-1185; base_mapper_upsert.go:124-151).                     *)
DeletedStaysDeleted ==
    [][SoftDelete => \A i \in Id : row[i] # None /\ ~row[i].live =>
          /\ row'[i] # None /\ ~row'[i].live
          /\ row'[i] # row[i] => UpdateWhereOr(i) \/ \E p \in Proc : UpsertHits(p)]_vars

(* A SaveOrUpdate that updated its row does not insert one too: "only when *)
(* the update affects 0 rows" (base_mapper_batch.go:71).                   *)
SavesOnce == ~doubled

(* SaveOrUpdate inserts or updates "by whether the key is zero"            *)
(* (base_mapper.go:489): an existing row is never inserted a second time.  *)
NoCopies == ~copied
===========================================================================
