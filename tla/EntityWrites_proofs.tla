----------------------- MODULE EntityWrites_proofs ------------------------
(***************************************************************************)
(* Proofs about EntityWrites, for any goroutines, keys, kinds of entity    *)
(* and bounds.                                                             *)
(***************************************************************************)
EXTENDS EntityWrites, TLAPS

USE SwitchesAreBoolean, BoundsAreNat, NoneIsNoRow, NoneIsNoEntity

(* A method runs on an entity, an update by key on one that has a key. *)
PlansHaveEntity ==
    \A p \in Proc : todo[p] # <<>> =>
        /\ entity[p] # None
        /\ Head(todo[p]) \in {"update", "save"} => entity[p].id # 0

(* What was read or written under a key has one. *)
ReadHasKey == \A p \in Proc : entity[p] # None /\ entity[p].read # 0 => entity[p].id # 0

IInv ==
    /\ TypeOK /\ PlansHaveEntity /\ ReadHasKey
    /\ VersionNamesContent /\ LostUpdatesHaveCause

LEMMA RowType ==
    /\ \A r \in Row : r.content \in 1..MaxWrites /\ r.version \in Nat /\ r.live \in BOOLEAN
    /\ \A c \in 1..MaxWrites, v \in Nat, l \in BOOLEAN :
         [content |-> c, version |-> v, live |-> l] \in Row
BY DEF Row

LEMMA EntityType ==
    /\ \A e \in Entity : e.id \in 0..MaxId /\ e.version \in Nat /\ e.read \in 0..MaxWrites
    /\ \A i \in 0..MaxId, v \in Nat, r \in 0..MaxWrites :
         [id |-> i, version |-> v, read |-> r] \in Entity
BY DEF Entity

LEMMA EntityUpdate ==
    ASSUME NEW e \in Entity
    PROVE  /\ \A i \in 0..MaxId : [e EXCEPT !.id = i]
                = [id |-> i, version |-> e.version, read |-> e.read]
           /\ \A r \in 0..MaxWrites : [e EXCEPT !.read = r]
                = [id |-> e.id, version |-> e.version, read |-> r]
BY DEF Entity

LEMMA RowUpdate ==
    ASSUME NEW r \in Row, NEW v \in Nat, NextWrite \in 1..MaxWrites
    PROVE  LET n == Rewritten(r, v) IN
           n \in Row /\ n.content = NextWrite /\ n.version = v /\ n.live = r.live
<1> DEFINE c == NextWrite
<1>1. [r EXCEPT !.content = c] \in Row
  BY DEF Row
<1>2. [r EXCEPT !.content = c, !.version = v] \in Row
  BY <1>1 DEF Row
<1>3. /\ [r EXCEPT !.content = c, !.version = v].content = c
      /\ [r EXCEPT !.content = c, !.version = v].version = v
      /\ [r EXCEPT !.content = c, !.version = v].live = r.live
  BY <1>1 DEF Row
<1> HIDE DEF c
<1> QED
  BY <1>2, <1>3 DEF Rewritten, c

LEMMA RowDelete ==
    ASSUME NEW r \in Row
    PROVE  [r EXCEPT !.live = FALSE] \in Row
BY DEF Row

LEMMA PlanHeads ==
    \A s \in Plan : s # <<>> =>
        /\ Tail(s) \in Plan /\ Head(s) \in {"update", "save", "insert", "upsert", "fallback"}
        /\ Tail(s) # <<>> => Head(Tail(s)) = "fallback"
        /\ Head(s) # "update" => Tail(s) = <<>>
<1> SUFFICES ASSUME NEW s \in Plan, s # <<>>
             PROVE  /\ Tail(s) \in Plan
                    /\ Head(s) \in {"update", "save", "insert", "upsert", "fallback"}
                    /\ Tail(s) # <<>> => Head(Tail(s)) = "fallback"
                    /\ Head(s) # "update" => Tail(s) = <<>>
  OBVIOUS
<1>1. CASE s = <<"update">>
  BY <1>1 DEF Plan
<1>2. CASE s = <<"save">>
  BY <1>2 DEF Plan
<1>3. CASE s = <<"insert">>
  BY <1>3 DEF Plan
<1>4. CASE s = <<"fallback">>
  BY <1>4 DEF Plan
<1>5. CASE s = <<"update", "fallback">>
  BY <1>5 DEF Plan
<1>6. CASE s = <<"upsert">>
  BY <1>6 DEF Plan
<1> QED
  BY <1>1, <1>2, <1>3, <1>4, <1>5, <1>6 DEF Plan

(* How an entity relates to the table; the three invariants in one. *)
Agrees(e, t, r) ==
    /\ e.read # 0 => e.id # 0
    /\ Versioned /\ e.read # 0 /\ ~t /\ r[e.id] # None =>
         /\ r[e.id].version >= e.version
         /\ r[e.id].version = e.version => r[e.id].content = e.read

LEMMA Agreement ==
    (ReadHasKey /\ VersionNamesContent)
      <=> \A p \in Proc : entity[p] # None => Agrees(entity[p], tainted[p], row)
BY DEF ReadHasKey, VersionNamesContent, Agrees

LEMMA AgreementNext ==
    (ReadHasKey /\ VersionNamesContent)'
      <=> \A p \in Proc : entity'[p] # None => Agrees(entity'[p], tainted'[p], row')
BY DEF ReadHasKey, VersionNamesContent, Agrees

LEMMA InvInit == Init => IInv
<1> SUFFICES ASSUME Init PROVE IInv
  OBVIOUS
<1> USE DEF Init
<1>1. TypeOK
  <2>1. <<>> \in Plan
    BY DEF Plan
  <2>2. row \in [Id -> Row \cup {None}] /\ entity \in [Proc -> Entity \cup {None}]
    BY Zenon
  <2>3. todo \in [Proc -> Plan]
    BY <2>1, Zenon
  <2>4. tainted \in [Proc -> BOOLEAN] /\ hit \in [Proc -> BOOLEAN]
    BY Zenon
  <2>5. lost \subseteq [over : 1..MaxWrites, tainted : BOOLEAN]
    OBVIOUS
  <2>6. writes \in 0..MaxWrites
    OBVIOUS
  <2>7. doubled \in BOOLEAN /\ copied \in BOOLEAN
    BY Zenon
  <2> QED
    BY <2>2, <2>3, <2>4, <2>5, <2>6, <2>7 DEF TypeOK
<1>2. PlansHaveEntity /\ ReadHasKey /\ VersionNamesContent
  BY Zenon DEF PlansHaveEntity, ReadHasKey, VersionNamesContent
<1>3. LostUpdatesHaveCause
  BY DEF LostUpdatesHaveCause
<1> QED
  BY <1>1, <1>2, <1>3 DEF IInv

----------------------------------------------------------------------------
(* A method goes on: its goroutine's plan and entity change.               *)
LEMMA PlansGoOn ==
    ASSUME TypeOK, PlansHaveEntity, NEW p \in Proc, NEW s \in Plan,
           todo' = [todo EXCEPT ![p] = s],
           \A q \in Proc : q # p => entity'[q] = entity[q],
           s # <<>> => /\ entity'[p] # None
                       /\ Head(s) \in {"update", "save"} => entity'[p].id # 0
    PROVE  todo' \in [Proc -> Plan] /\ PlansHaveEntity'
<1>1. todo \in [Proc -> Plan]
  BY DEF TypeOK
<1>2. todo'[p] = s /\ \A q \in Proc : q # p => todo'[q] = todo[q]
  BY <1>1
<1>3. \A q \in Proc : q # p => (todo'[q] # <<>> =>
          /\ entity'[q] # None
          /\ Head(todo'[q]) \in {"update", "save"} => entity'[q].id # 0)
  BY <1>2 DEF PlansHaveEntity
<1>4. PlansHaveEntity'
  BY <1>2, <1>3 DEF PlansHaveEntity
<1> QED
  BY <1>1, <1>4

(* A plan's rest starts with no update by key. *)
LEMMA PlansContinue ==
    ASSUME TypeOK, PlansHaveEntity, NEW p \in Proc, ~Idle(p),
           todo' = [todo EXCEPT ![p] = Tail(todo[p])] \/ todo' = [todo EXCEPT ![p] = <<>>]
             \/ todo' = [todo EXCEPT ![p] = <<"fallback">>],
           entity'[p] # None,
           \A q \in Proc : q # p => entity'[q] = entity[q]
    PROVE  todo' \in [Proc -> Plan] /\ PlansHaveEntity'
<1> DEFINE Goal == todo' \in [Proc -> Plan] /\ PlansHaveEntity'
<1>1. todo[p] \in Plan /\ todo[p] # <<>>
  BY DEF TypeOK, Idle
<1>2. Tail(todo[p]) \in Plan /\ <<>> \in Plan /\ <<"fallback">> \in Plan
  BY <1>1, PlanHeads DEF Plan
<1>3. Tail(todo[p]) # <<>> => Head(Tail(todo[p])) = "fallback"
  BY <1>1, PlanHeads
<1>4. CASE todo' = [todo EXCEPT ![p] = Tail(todo[p])]
  BY <1>2, <1>3, <1>4, PlansGoOn
<1>5. CASE todo' = [todo EXCEPT ![p] = <<>>]
  BY <1>2, <1>5, PlansGoOn
<1>6. CASE todo' = [todo EXCEPT ![p] = <<"fallback">>]
  <2>1. Head(<<"fallback">>) = "fallback"
    OBVIOUS
  <2> QED
    BY <1>2, <1>6, <2>1, PlansGoOn
<1> QED
  BY <1>4, <1>5, <1>6

(* An entity goes on agreeing with a table in which its row is the same,   *)
(* is gone, has a higher version, or was tainted.                          *)
LEMMA StillAgrees ==
    ASSUME NEW e \in Entity, NEW t \in BOOLEAN, NEW u \in BOOLEAN,
           NEW r \in [Id -> Row \cup {None}], NEW s \in [Id -> Row \cup {None}],
           Agrees(e, t, r), t => u,
           e.id # 0 => \/ u \/ s[e.id] = None
                       \/ /\ r[e.id] # None /\ s[e.id].version = r[e.id].version
                          /\ s[e.id].content = r[e.id].content
                       \/ r[e.id] # None /\ s[e.id].version > r[e.id].version
    PROVE  Agrees(e, u, s)
<1> SUFFICES ASSUME Versioned, e.read # 0, ~u, s[e.id] # None
             PROVE  /\ s[e.id].version >= e.version
                    /\ s[e.id].version = e.version => s[e.id].content = e.read
  BY DEF Agrees
<1>1. e.id \in Id /\ e.version \in Nat
  BY EntityType DEF Agrees, Id
<1>2. s[e.id] \in Row /\ s[e.id].version \in Nat
  BY <1>1, RowType
<1>3. r[e.id] # None /\ r[e.id] \in Row /\ r[e.id].version \in Nat
  BY <1>1, RowType DEF Agrees
<1> QED
  BY <1>1, <1>2, <1>3 DEF Agrees

----------------------------------------------------------------------------
(* The table and what was lost stay: only entities and plans change. *)
LEMMA TableStays ==
    ASSUME IInv, UNCHANGED <<row, writes, lost, copied>>,
           entity' \in [Proc -> Entity \cup {None}],
           todo' \in [Proc -> Plan] /\ PlansHaveEntity',
           tainted' \in [Proc -> BOOLEAN], hit' \in [Proc -> BOOLEAN], doubled' = doubled,
           \A p \in Proc : entity'[p] # None => Agrees(entity'[p], tainted'[p], row)
    PROVE  IInv'
<1>1. TypeOK'
  BY DEF IInv, TypeOK
<1>2. ReadHasKey' /\ VersionNamesContent'
  BY AgreementNext
<1>3. LostUpdatesHaveCause'
  BY DEF IInv, LostUpdatesHaveCause
<1> QED
  BY <1>1, <1>2, <1>3 DEF IInv

LEMMA LoadsStep ==
    ASSUME IInv, NEW p \in Proc, NEW i \in Id, Loads(p, i)
    PROVE  IInv'
<1> DEFINE e == [id |-> i, version |-> row[i].version, read |-> row[i].content]
<1>1. TypeOK
  BY DEF IInv
<1>2. row[i] \in Row /\ row[i] # None
  BY <1>1 DEF TypeOK, Loads
<1>3. e \in Entity
  BY <1>2, RowType, EntityType DEF Id
<1>4. entity' = [entity EXCEPT ![p] = e] /\ tainted' = [tainted EXCEPT ![p] = FALSE]
  BY DEF Loads
<1>5. entity' \in [Proc -> Entity \cup {None}] /\ tainted' \in [Proc -> BOOLEAN]
  BY <1>1, <1>3, <1>4 DEF TypeOK
<1>6. Agrees(e, FALSE, row)
  BY <1>2, RowType DEF Agrees, Id
<1>7. entity'[p] = e /\ tainted'[p] = FALSE
  BY <1>1, <1>4 DEF TypeOK
<1>8. \A q \in Proc : q # p => entity'[q] = entity[q] /\ tainted'[q] = tainted[q]
  BY <1>1, <1>4 DEF TypeOK
<1>9. \A q \in Proc : entity'[q] # None => Agrees(entity'[q], tainted'[q], row)
  BY <1>6, <1>7, <1>8, Agreement DEF IInv
<1>10. todo[p] = <<>> /\ todo' = todo
  BY DEF Loads, Idle
<1>11. todo' \in [Proc -> Plan] /\ PlansHaveEntity'
  BY <1>1, <1>8, <1>10 DEF TypeOK, IInv, PlansHaveEntity
<1>12. UNCHANGED <<row, writes, lost, copied>> /\ hit' \in [Proc -> BOOLEAN] /\ doubled' = doubled
  BY <1>1 DEF Loads, TypeOK
<1> QED
  BY <1>5, <1>9, <1>11, <1>12, TableStays

LEMMA MakeEntityStep ==
    ASSUME IInv, NEW p \in Proc, NEW i \in 0..MaxId, MakeEntity(p, i)
    PROVE  IInv'
<1> DEFINE e == [id |-> i, version |-> 0, read |-> 0]
<1>1. TypeOK
  BY DEF IInv
<1>3. e \in Entity
  BY EntityType
<1>4. entity' = [entity EXCEPT ![p] = e] /\ tainted' = [tainted EXCEPT ![p] = FALSE]
  BY DEF MakeEntity
<1>5. entity' \in [Proc -> Entity \cup {None}] /\ tainted' \in [Proc -> BOOLEAN]
  BY <1>1, <1>3, <1>4 DEF TypeOK
<1>6. Agrees(e, FALSE, row)
  BY DEF Agrees
<1>7. entity'[p] = e /\ tainted'[p] = FALSE
  BY <1>1, <1>4 DEF TypeOK
<1>8. \A q \in Proc : q # p => entity'[q] = entity[q] /\ tainted'[q] = tainted[q]
  BY <1>1, <1>4 DEF TypeOK
<1>9. \A q \in Proc : entity'[q] # None => Agrees(entity'[q], tainted'[q], row)
  BY <1>6, <1>7, <1>8, Agreement DEF IInv
<1>10. todo[p] = <<>> /\ todo' = todo
  BY DEF MakeEntity, Idle
<1>11. todo' \in [Proc -> Plan] /\ PlansHaveEntity'
  BY <1>1, <1>8, <1>10 DEF TypeOK, IInv, PlansHaveEntity
<1>12. UNCHANGED <<row, writes, lost, copied>> /\ hit' \in [Proc -> BOOLEAN] /\ doubled' = doubled
  BY <1>1 DEF MakeEntity, TypeOK
<1> QED
  BY <1>5, <1>9, <1>11, <1>12, TableStays

(* A method's call: its plan is set and its entity at most gets a key. *)
LEMMA CallsStep ==
    ASSUME IInv, NEW p \in Proc, NEW s \in Plan, entity[p] # None,
           Head(s) \in {"update", "save"} => HasKey(p),
           Calls(p, s), AssignInsertID(p) \/ UNCHANGED entity
    PROVE  IInv'
<1>1. TypeOK /\ entity[p] \in Entity
  BY DEF IInv, TypeOK
<1>2. UNCHANGED <<row, writes, tainted, lost, copied, doubled>>
      /\ todo' = [todo EXCEPT ![p] = s] /\ hit' = [hit EXCEPT ![p] = FALSE]
  BY DEF Calls
<1>3. CASE UNCHANGED entity
  <2>1. todo' \in [Proc -> Plan] /\ PlansHaveEntity'
    BY <1>1, <1>2, <1>3, PlansGoOn DEF IInv, HasKey
  <2>2. \A q \in Proc : entity'[q] # None => Agrees(entity'[q], tainted'[q], row)
    BY <1>2, <1>3, Agreement DEF IInv
  <2> QED
    BY <1>1, <1>2, <1>3, <2>1, <2>2, TableStays DEF TypeOK
<1>4. CASE AssignInsertID(p) /\ entity' # entity
  <2>1. PICK i \in Id : entity' = [entity EXCEPT ![p].id = i]
    BY <1>4 DEF AssignInsertID
  <2>2. ~HasKey(p)
    BY <1>4 DEF AssignInsertID
  <2>3. entity[p].id = 0 /\ entity[p].read = 0
    BY <1>1, <2>2, EntityType DEF HasKey, IInv, ReadHasKey
  <2> DEFINE e == [id |-> i, version |-> entity[p].version, read |-> 0]
  <2>4. [entity[p] EXCEPT !.id = i] = e /\ e \in Entity
    BY <1>1, <2>3, EntityType, EntityUpdate DEF Id
  <2>5. entity'[p] = e /\ entity' \in [Proc -> Entity \cup {None}]
        /\ \A q \in Proc : q # p => entity'[q] = entity[q]
    BY <1>1, <2>1, <2>4 DEF TypeOK
  <2>6. e # None /\ e.id # 0 /\ Agrees(e, tainted[p], row)
    BY <2>4 DEF Agrees, Id
  <2>7. todo' \in [Proc -> Plan] /\ PlansHaveEntity'
    BY <1>1, <1>2, <2>5, <2>6, PlansGoOn DEF IInv
  <2>8. \A q \in Proc : entity'[q] # None => Agrees(entity'[q], tainted'[q], row)
    BY <1>2, <2>5, <2>6, Agreement DEF IInv
  <2> QED
    BY <1>1, <1>2, <2>5, <2>7, <2>8, TableStays DEF TypeOK
<1> QED
  BY <1>3, <1>4

(* A statement is answered without a change of the table. *)
LEMMA AnsweredStep ==
    ASSUME IInv, NEW p \in Proc, UpdateMisses(p) \/ UpsertSkips(p) \/ StatementFails(p)
    PROVE  IInv'
<1>1. TypeOK /\ ~Idle(p) /\ UNCHANGED <<row, entity, writes, tainted, lost, hit, doubled, copied>>
  BY DEF IInv, UpdateMisses, UpsertSkips, StatementFails
<1>2. entity[p] # None
  BY <1>1 DEF IInv, PlansHaveEntity, Idle
<1>3. \/ todo' = [todo EXCEPT ![p] = Tail(todo[p])] \/ todo' = [todo EXCEPT ![p] = <<>>]
      \/ todo' = [todo EXCEPT ![p] = <<"fallback">>]
  BY DEF UpdateMisses, UpsertSkips, StatementFails, Continue, Answered
<1>4. todo' \in [Proc -> Plan] /\ PlansHaveEntity'
  BY <1>1, <1>2, <1>3, PlansContinue DEF IInv
<1>5. \A q \in Proc : entity'[q] # None => Agrees(entity'[q], tainted'[q], row)
  BY <1>1, Agreement DEF IInv
<1> QED
  BY <1>1, <1>4, <1>5, TableStays DEF TypeOK

----------------------------------------------------------------------------
(* UPDATE by key: the version it raises tells every other entity. *)
LEMMA OverwritesStep ==
    ASSUME IInv, NEW p \in Proc, UpdateHits(p) \/ AnswerLost(p)
    PROVE  IInv'
<1> DEFINE e == entity[p]
           i == e.id
           v == Raise(row[i].version)
           new == Rewritten(row[i], v)
<1>1. TypeOK /\ Overwrites(p) /\ ~Idle(p) /\ Matches(p) /\ CanWrite
  BY DEF IInv, UpdateHits, AnswerLost, Overwrites
<1>2. e # None /\ e \in Entity /\ e.id # 0
  BY <1>1 DEF IInv, PlansHaveEntity, TypeOK, Idle, Overwrites
<1>3. i \in Id
  BY <1>2, EntityType DEF Id
<1>4. row[i] # None /\ row[i] \in Row /\ row[i].version \in Nat /\ row[i].content \in 1..MaxWrites
  BY <1>1, <1>3, RowType DEF TypeOK, Matches
<1>5. v \in Nat /\ (Versioned => v = row[i].version + 1)
  BY <1>4 DEF Raise
<1>6. NextWrite \in 1..MaxWrites
  BY <1>1 DEF NextWrite, CanWrite, TypeOK
<1>7. new \in Row /\ new.version = v /\ new.content = NextWrite
  BY <1>4, <1>5, <1>6, RowUpdate
<1>8. row' = [row EXCEPT ![i] = new]
  BY <1>1 DEF Overwrites
<1>9. /\ row' \in [Id -> Row \cup {None}]
      /\ row'[i] = new /\ \A j \in Id : j # i => row'[j] = row[j]
  BY <1>1, <1>3, <1>7, <1>8 DEF TypeOK
<1>10. /\ writes' = NextWrite /\ UNCHANGED <<tainted, doubled, copied>>
       /\ hit' = [hit EXCEPT ![p] = TRUE]
       /\ entity' = [entity EXCEPT ![p].read = NextWrite]
  BY <1>1 DEF Overwrites
<1> DEFINE f == [id |-> i, version |-> e.version, read |-> NextWrite]
<1>11. [e EXCEPT !.read = NextWrite] = f /\ f \in Entity
  <2>1. NextWrite \in 0..MaxWrites /\ e.version \in Nat /\ i \in 0..MaxId
    BY <1>2, <1>6, EntityType
  <2> QED
    BY <1>2, <2>1, EntityUpdate, EntityType
<1>12. entity' = [entity EXCEPT ![p] = f]
  BY <1>10, <1>11
<1> HIDE DEF f, new, v
<1>13. /\ entity' \in [Proc -> Entity \cup {None}] /\ entity'[p] = f
       /\ \A q \in Proc : q # p => entity'[q] = entity[q]
  BY <1>1, <1>11, <1>12 DEF TypeOK
<1>14. todo' \in [Proc -> Plan] /\ PlansHaveEntity'
  <2>1. todo' = [todo EXCEPT ![p] = Tail(todo[p])] \/ todo' = [todo EXCEPT ![p] = <<>>]
    BY DEF UpdateHits, AnswerLost, Continue, Answered
  <2>2. entity'[p] # None
    BY <1>11, <1>13
  <2> QED
    BY <1>1, <1>13, <2>1, <2>2, PlansContinue DEF IInv
<1>15. Agrees(f, tainted[p], row')
  <2>1. f.id = i /\ f.version = e.version
    BY DEF f
  <2>2. Versioned => row[i].version = e.version
    BY <1>1 DEF Matches
  <2>3. Versioned => row'[i].version = e.version + 1
    BY <1>5, <1>7, <1>9, <2>2
  <2>4. e.version \in Nat
    BY <1>2, EntityType
  <2> QED
    BY <1>2, <2>1, <2>3, <2>4 DEF Agrees
<1>16. ASSUME NEW q \in Proc, q # p, entity[q] # None
       PROVE  Agrees(entity[q], tainted[q], row')
  <2>1. entity[q] \in Entity /\ Agrees(entity[q], tainted[q], row) /\ tainted[q] \in BOOLEAN
    BY <1>1, <1>16, Agreement DEF IInv, TypeOK
  <2>2. CASE entity[q].id = i
    <3>1. Versioned => row'[i].version > row[i].version
      BY <1>4, <1>5, <1>7, <1>9
    <3>2. Versioned => Agrees(entity[q], tainted[q], row')
      BY <1>1, <1>4, <1>9, <2>1, <2>2, <3>1, StillAgrees DEF TypeOK
    <3>3. ~Versioned => Agrees(entity[q], tainted[q], row')
      BY <2>1 DEF Agrees
    <3> QED
      BY <3>2, <3>3
  <2>3. CASE entity[q].id # i
    <3>1. entity[q].id # 0 => row'[entity[q].id] = row[entity[q].id]
      BY <1>9, <2>1, <2>3, EntityType DEF Id
    <3> QED
      BY <2>1, <3>1 DEF Agrees
  <2> QED
    BY <2>2, <2>3
<1>17. ReadHasKey' /\ VersionNamesContent'
  BY <1>10, <1>13, <1>15, <1>16, AgreementNext
<1> DEFINE l == [over |-> row[i].content, tainted |-> tainted[p]]
<1>18. e.read \notin {0, row[i].content} => (Versioned => l.tainted)
  BY <1>1, <1>2, <1>4 DEF IInv, VersionNamesContent, Matches
<1>19. l \in [over : 1..MaxWrites, tainted : BOOLEAN]
  BY <1>1, <1>4 DEF TypeOK
<1>20. lost' = lost \/ (lost' = lost \cup {l} /\ e.read \notin {0, row[i].content})
  BY <1>1 DEF Overwrites
<1> HIDE DEF l
<1>21. LostUpdatesHaveCause'
  BY <1>18, <1>20 DEF IInv, LostUpdatesHaveCause
<1>22. TypeOK'
  <2>1. lost' \subseteq [over : 1..MaxWrites, tainted : BOOLEAN]
    BY <1>1, <1>19, <1>20 DEF TypeOK
  <2>2. writes' \in 0..MaxWrites
    BY <1>6, <1>10
  <2>3. hit' \in [Proc -> BOOLEAN]
    BY <1>1, <1>10 DEF TypeOK
  <2> QED
    BY <1>1, <1>9, <1>10, <1>13, <1>14, <2>1, <2>2, <2>3 DEF TypeOK
<1> QED
  BY <1>14, <1>17, <1>21, <1>22 DEF IInv

LEMMA InsertRowStep ==
    ASSUME IInv, NEW p \in Proc, InsertRow(p)
    PROVE  IInv'
<1> DEFINE e == entity[p]
<1>1. TypeOK /\ ~Idle(p) /\ CanWrite
  BY DEF IInv, InsertRow
<1>2. e # None /\ e \in Entity /\ e.version \in Nat
  BY <1>1, EntityType DEF IInv, PlansHaveEntity, TypeOK, Idle
<1> DEFINE New == [content |-> NextWrite, version |-> e.version, live |-> TRUE]
<1>3. PICK i \in InsertKeys(p) :
        /\ row' = [row EXCEPT ![i] = New]
        /\ tainted' = [q \in Proc |->
             tainted[q] \/ (q # p /\ entity[q] # None /\ entity[q].id = i)]
        /\ entity' = IF e.id = i THEN [entity EXCEPT ![p].read = NextWrite] ELSE entity
        /\ copied' = (copied \/ (Head(todo[p]) = "fallback" /\ i # e.id /\ Live(e.id)))
  BY DEF InsertRow
<1>4. /\ writes' = NextWrite /\ todo' = [todo EXCEPT ![p] = Tail(todo[p])]
      /\ doubled' = (doubled \/ hit[p]) /\ UNCHANGED <<lost, hit>>
  BY DEF InsertRow, Continue, Answered
<1>5. i \in Id /\ i # 0
  BY DEF InsertKeys, GeneratedKeys, OwnKey, Id
<1>6. NextWrite \in 1..MaxWrites
  BY <1>1 DEF NextWrite, CanWrite, TypeOK
<1>7. New \in Row
  BY <1>2, <1>6, RowType
<1>8. /\ row' \in [Id -> Row \cup {None}] /\ row'[i] = New
      /\ \A j \in Id : j # i => row'[j] = row[j]
  BY <1>1, <1>3, <1>5, <1>7 DEF TypeOK
<1>9. tainted' \in [Proc -> BOOLEAN]
  BY <1>3, Zenon
<1>10. \A q \in Proc : tainted'[q]
         <=> (tainted[q] \/ (q # p /\ entity[q] # None /\ entity[q].id = i))
  BY <1>3, Zenon
<1> DEFINE f == [id |-> e.id, version |-> e.version, read |-> NextWrite]
<1>11. [e EXCEPT !.read = NextWrite] = f /\ f \in Entity /\ f # None
  BY <1>2, <1>6, EntityType, EntityUpdate
<1>12. /\ entity' \in [Proc -> Entity \cup {None}]
       /\ entity'[p] = (IF e.id = i THEN f ELSE e)
       /\ \A q \in Proc : q # p => entity'[q] = entity[q]
  <2>1. CASE e.id = i
    <3>1. entity' = [entity EXCEPT ![p] = f]
      BY <1>3, <1>11, <2>1
    <3> HIDE DEF f
    <3> QED
      BY <1>1, <1>11, <2>1, <3>1 DEF TypeOK
  <2>2. CASE e.id # i
    BY <1>1, <1>3, <2>2 DEF TypeOK
  <2> QED
    BY <2>1, <2>2
<1>13. todo' \in [Proc -> Plan] /\ PlansHaveEntity'
  BY <1>1, <1>2, <1>4, <1>11, <1>12, PlansContinue DEF IInv
<1>14. Agrees(entity'[p], tainted'[p], row')
  <2>1. CASE e.id = i
    <3>1. row'[f.id].content = NextWrite /\ row'[f.id].version = e.version
      BY <1>8, <2>1
    <3> QED
      BY <1>2, <1>5, <1>12, <2>1, <3>1 DEF Agrees
  <2>2. CASE e.id # i
    <3>1. entity'[p] = e /\ (tainted'[p] <=> tainted[p])
      BY <1>10, <1>12, <2>2
    <3>2. e.id # 0 => row'[e.id] = row[e.id]
      BY <1>2, <1>8, <2>2, EntityType DEF Id
    <3>3. Agrees(e, tainted[p], row)
      BY <1>2, Agreement DEF IInv
    <3> HIDE DEF e
    <3> QED
      BY <3>1, <3>2, <3>3 DEF Agrees
  <2> QED
    BY <2>1, <2>2
<1>15. ASSUME NEW q \in Proc, q # p, entity[q] # None
       PROVE  Agrees(entity[q], tainted'[q], row')
  <2>1. entity[q] \in Entity /\ Agrees(entity[q], tainted[q], row)
    BY <1>1, <1>15, Agreement DEF IInv, TypeOK
  <2>2. CASE entity[q].id = i
    BY <1>5, <1>10, <1>15, <2>2 DEF Agrees
  <2>3. CASE entity[q].id # i
    <3>1. entity[q].id # 0 => row'[entity[q].id] = row[entity[q].id]
      BY <1>8, <2>1, <2>3, EntityType DEF Id
    <3>2. tainted[q] => tainted'[q]
      BY <1>10
    <3> QED
      BY <2>1, <3>1, <3>2 DEF Agrees
  <2> QED
    BY <2>2, <2>3
<1>16. ReadHasKey' /\ VersionNamesContent'
  BY <1>12, <1>14, <1>15, AgreementNext
<1>17. LostUpdatesHaveCause'
  BY <1>4 DEF IInv, LostUpdatesHaveCause
<1>18. TypeOK'
  <2>1. writes' \in 0..MaxWrites
    BY <1>4, <1>6
  <2>2. doubled' \in BOOLEAN /\ copied' \in BOOLEAN
    BY <1>3, <1>4, Zenon
  <2>3. lost' = lost /\ hit' = hit
    BY <1>4
  <2> QED
    BY <1>1, <1>8, <1>9, <1>12, <1>13, <2>1, <2>2, <2>3 DEF TypeOK
<1> QED
  BY <1>13, <1>16, <1>17, <1>18 DEF IInv

----------------------------------------------------------------------------
(* A write past the version taints whoever holds the row's entity. *)
LEMMA WritesPastStep ==
    ASSUME IInv, NEW i \in Id, WritesPast(i), todo' \in [Proc -> Plan], PlansHaveEntity'
    PROVE  IInv'
<1> DEFINE new == Rewritten(row[i], row[i].version)
<1>1. TypeOK /\ CanWrite /\ row[i] # None
  BY DEF IInv, WritesPast
<1>2. NextWrite \in 1..MaxWrites
  BY <1>1 DEF NextWrite, CanWrite, TypeOK
<1>3. row[i] \in Row /\ row[i].version \in Nat
  BY <1>1, RowType DEF TypeOK
<1>4. new \in Row
  BY <1>2, <1>3, RowUpdate
<1>5. row' = [row EXCEPT ![i] = new]
  BY DEF WritesPast
<1> HIDE DEF new
<1>6. row' \in [Id -> Row \cup {None}] /\ \A j \in Id : j # i => row'[j] = row[j]
  BY <1>1, <1>4, <1>5 DEF TypeOK
<1>7. /\ writes' = NextWrite /\ UNCHANGED <<entity, lost, hit, doubled, copied>>
      /\ tainted' = [q \in Proc |-> tainted[q] \/ (entity[q] # None /\ entity[q].id = i)]
  BY DEF WritesPast
<1>8. tainted' \in [Proc -> BOOLEAN]
  BY <1>7, Zenon
<1>9. \A q \in Proc : tainted'[q] <=> (tainted[q] \/ (entity[q] # None /\ entity[q].id = i))
  BY <1>7, Zenon
<1>10. ASSUME NEW q \in Proc, entity[q] # None
       PROVE  Agrees(entity[q], tainted'[q], row')
  <2>1. entity[q] \in Entity /\ Agrees(entity[q], tainted[q], row)
    BY <1>1, <1>10, Agreement DEF IInv, TypeOK
  <2>2. CASE entity[q].id = i
    BY <1>9, <1>10, <2>1, <2>2 DEF Agrees
  <2>3. CASE entity[q].id # i
    <3>1. entity[q].id # 0 => row'[entity[q].id] = row[entity[q].id]
      BY <1>6, <2>1, <2>3, EntityType DEF Id
    <3>2. tainted[q] => tainted'[q]
      BY <1>9
    <3> QED
      BY <2>1, <3>1, <3>2 DEF Agrees
  <2> QED
    BY <2>2, <2>3
<1>11. ReadHasKey' /\ VersionNamesContent'
  BY <1>7, <1>10, AgreementNext
<1>12. LostUpdatesHaveCause'
  BY <1>7 DEF IInv, LostUpdatesHaveCause
<1>13. TypeOK'
  <2>1. writes' \in 0..MaxWrites
    BY <1>2, <1>7
  <2> QED
    BY <1>1, <1>6, <1>7, <1>8, <2>1 DEF TypeOK
<1> QED
  BY <1>11, <1>12, <1>13 DEF IInv

LEMMA UpsertHitsStep ==
    ASSUME IInv, NEW p \in Proc, UpsertHits(p)
    PROVE  IInv'
<1>1. PICK i \in Id : WritesPast(i)
  BY DEF UpsertHits
<1>2. ~Idle(p) /\ todo' = [todo EXCEPT ![p] = Tail(todo[p])] /\ entity' = entity
  BY <1>1 DEF UpsertHits, Continue, Answered, WritesPast
<1>3. entity'[p] # None
  BY <1>2 DEF IInv, PlansHaveEntity, Idle
<1>4. todo' \in [Proc -> Plan] /\ PlansHaveEntity'
  BY <1>2, <1>3, PlansContinue DEF IInv
<1> QED
  BY <1>1, <1>4, WritesPastStep

LEMMA UpdateWhereStep ==
    ASSUME IInv, NEW i \in Id, UpdateWhere(i) \/ UpdateWhereOr(i)
    PROVE  IInv'
<1>1. WritesPast(i) /\ UNCHANGED <<todo, entity>>
  BY DEF UpdateWhere, UpdateWhereOr, WritesPast
<1>2. todo' \in [Proc -> Plan] /\ PlansHaveEntity'
  BY <1>1 DEF IInv, TypeOK, PlansHaveEntity
<1> QED
  BY <1>1, <1>2, WritesPastStep

(* A delete leaves the row's version and content, or no row. *)
LEMMA DeleteByIDStep ==
    ASSUME IInv, NEW i \in Id, DeleteByID(i)
    PROVE  IInv'
<1> DEFINE new == IF SoftDelete THEN [row[i] EXCEPT !.live = FALSE] ELSE None
<1>1. TypeOK /\ row[i] # None /\ row' = [row EXCEPT ![i] = new]
      /\ UNCHANGED <<entity, todo, writes, tainted, lost, hit, doubled, copied>>
  BY DEF IInv, DeleteByID
<1>2. row[i] \in Row
  BY <1>1 DEF TypeOK
<1>3. /\ new \in Row \cup {None}
      /\ new # None => new.version = row[i].version /\ new.content = row[i].content
  BY <1>2, RowDelete DEF Row
<1> HIDE DEF new
<1>4. row' \in [Id -> Row \cup {None}] /\ row'[i] = new
      /\ \A j \in Id : j # i => row'[j] = row[j]
  BY <1>1, <1>3 DEF TypeOK
<1>5. ASSUME NEW q \in Proc, entity[q] # None
      PROVE  Agrees(entity[q], tainted[q], row')
  <2>1. entity[q] \in Entity /\ Agrees(entity[q], tainted[q], row)
    BY <1>1, <1>5, Agreement DEF IInv, TypeOK
  <2>2. entity[q].id # 0 => entity[q].id \in Id
    BY <2>1, EntityType DEF Id
  <2>3. entity[q].id # 0 => \/ row'[entity[q].id] = None
                            \/ row'[entity[q].id] = row[entity[q].id]
                            \/ /\ row[entity[q].id] # None
                               /\ row'[entity[q].id].version = row[entity[q].id].version
                               /\ row'[entity[q].id].content = row[entity[q].id].content
    BY <1>1, <1>3, <1>4, <2>2
  <2> QED
    BY <2>1, <2>3 DEF Agrees
<1>6. ReadHasKey' /\ VersionNamesContent'
  BY <1>1, <1>5, AgreementNext
<1>7. PlansHaveEntity' /\ LostUpdatesHaveCause'
  BY <1>1 DEF IInv, PlansHaveEntity, LostUpdatesHaveCause
<1>8. TypeOK'
  BY <1>1, <1>4 DEF TypeOK
<1> QED
  BY <1>6, <1>7, <1>8 DEF IInv

----------------------------------------------------------------------------
LEMMA CallStep ==
    ASSUME IInv, NEW p \in Proc, UpdateByID(p) \/ Insert(p) \/ SaveOrUpdate(p) \/ Upsert(p)
    PROVE  IInv'
<1>1. /\ <<"update">> \in Plan /\ <<"save">> \in Plan /\ <<"insert">> \in Plan
      /\ <<"update", "fallback">> \in Plan /\ <<"upsert">> \in Plan
  BY DEF Plan
<1>2. CASE Insert(p)
  <2>1. Head(<<"insert">>) = "insert"
    OBVIOUS
  <2> QED
    BY <1>1, <1>2, <2>1, CallsStep DEF Insert
<1>3. CASE HasKey(p) /\ UNCHANGED entity /\ \E s \in {<<"update">>, <<"save">>, <<"update", "fallback">>} : Calls(p, s)
  BY <1>1, <1>3, CallsStep DEF HasKey
<1>4. CASE UpdateByID(p)
  BY <1>3, <1>4 DEF UpdateByID
<1>5. CASE SaveOrUpdate(p)
  BY <1>2, <1>3, <1>5 DEF SaveOrUpdate
<1>6. CASE Upsert(p)
  <2>1. Head(<<"upsert">>) = "upsert"
    OBVIOUS
  <2> QED
    BY <1>1, <1>6, <2>1, CallsStep DEF Upsert
<1> QED
  BY <1>2, <1>4, <1>5, <1>6

LEMMA InvStep == IInv /\ [Next]_vars => IInv'
<1> SUFFICES ASSUME IInv, [Next]_vars PROVE IInv'
  OBVIOUS
<1>1. ASSUME NEW p \in Proc, NEW i \in Id, SelectByID(p, i) \/ SelectListOr(p, i) PROVE IInv'
  BY <1>1, LoadsStep DEF SelectByID, SelectListOr
<1>2. ASSUME NEW p \in Proc, NEW i \in 0..MaxId, MakeEntity(p, i) PROVE IInv'
  BY <1>2, MakeEntityStep
<1>3. ASSUME NEW p \in Proc, UpdateByID(p) \/ Insert(p) \/ SaveOrUpdate(p) \/ Upsert(p)
      PROVE  IInv'
  BY <1>3, CallStep
<1>4. ASSUME NEW p \in Proc, UpdateHits(p) \/ AnswerLost(p) PROVE IInv'
  BY <1>4, OverwritesStep
<1>5. ASSUME NEW p \in Proc, UpdateMisses(p) \/ UpsertSkips(p) \/ StatementFails(p)
      PROVE  IInv'
  BY <1>5, AnsweredStep
<1>6. ASSUME NEW p \in Proc, InsertRow(p) PROVE IInv'
  BY <1>6, InsertRowStep
<1>7. ASSUME NEW i \in Id, UpdateWhere(i) \/ UpdateWhereOr(i) PROVE IInv'
  BY <1>7, UpdateWhereStep
<1>8. ASSUME NEW i \in Id, DeleteByID(i) PROVE IInv'
  BY <1>8, DeleteByIDStep
<1>9. CASE UNCHANGED vars
  BY <1>9 DEF vars, IInv, TypeOK, PlansHaveEntity, ReadHasKey, VersionNamesContent,
              LostUpdatesHaveCause
<1>10. ASSUME NEW p \in Proc, UpsertHits(p) PROVE IInv'
  BY <1>10, UpsertHitsStep
<1> QED
  BY <1>1, <1>2, <1>3, <1>4, <1>5, <1>6, <1>7, <1>8, <1>9, <1>10 DEF Next

LEMMA Invariant == Spec => []IInv
BY InvInit, InvStep, PTL DEF Spec

(* The variables keep their types, for any goroutines, keys and kinds of   *)
(* entity (base_mapper.go:209-691).                                        *)
THEOREM TypeCorrect == Spec => []TypeOK
<1>1. IInv => TypeOK
  BY DEF IInv
<1> QED
  BY <1>1, Invariant, PTL

(* A row has the version an entity was read with only if it has the content*)
(* it was read with, unless it was written past the version or came back   *)
(* (base_mapper.go:541-568, 938-941).                                      *)
THEOREM VersionsNameContents == Spec => []VersionNamesContent
<1>1. IInv => VersionNamesContent
  BY DEF IInv
<1> QED
  BY <1>1, Invariant, PTL

(* The optimistic lock of UpdateByID loses no update but past a write that *)
(* went around it (base_mapper.go:541-568, 582-670).                       *)
THEOREM LostUpdatesAreCaused == Spec => []LostUpdatesHaveCause
<1>1. IInv => LostUpdatesHaveCause
  BY DEF IInv
<1> QED
  BY <1>1, Invariant, PTL

(* No method of BaseMapper brings a logically deleted row back or removes  *)
(* it, and none changes it but an Upsert that finds it in conflict and an  *)
(* update whose wrapper has a top-level OR (base_mapper.go:560-567,        *)
(* 600-625, 1126-1185; base_mapper_upsert.go:124-151).                     *)
THEOREM DeletedRowsStay == Spec => DeletedStaysDeleted
<1> DEFINE Deleted(i) == row[i] # None /\ ~row[i].live
           Past(i) == UpdateWhereOr(i) \/ \E p \in Proc : UpsertHits(p)
           Kept == SoftDelete => \A i \in Id : Deleted(i) =>
                     /\ row'[i] # None /\ ~row'[i].live
                     /\ row'[i] # row[i] => Past(i)
           Same == SoftDelete => \A i \in Id : Deleted(i) => row'[i] = row[i]
<1>1. ASSUME IInv, [Next]_vars PROVE Kept
  <2>1. row \in [Id -> Row \cup {None}]
    BY <1>1 DEF IInv, TypeOK
  <2>2. Same => Kept
    OBVIOUS
  <2>3. ASSUME NEW p \in Proc, UpdateHits(p) \/ AnswerLost(p) PROVE Same
    <3>1. Matches(p) /\ row' = [row EXCEPT ![entity[p].id] = Rewritten(@, Raise(@.version))]
      BY <2>3 DEF UpdateHits, AnswerLost, Overwrites
    <3> QED
      BY <2>1, <3>1 DEF Matches
  <2>4. ASSUME NEW p \in Proc, InsertRow(p) PROVE Same
    <3>1. PICK i \in InsertKeys(p) :
            row' = [row EXCEPT ![i] =
                     [content |-> NextWrite, version |-> entity[p].version, live |-> TRUE]]
      BY <2>4 DEF InsertRow
    <3>2. row[i] = None
      BY DEF InsertKeys, GeneratedKeys, OwnKey, Id
    <3> QED
      BY <2>1, <3>1, <3>2
  <2>5. ASSUME NEW i \in Id, UpdateWhere(i) PROVE Same
    BY <2>1, <2>5 DEF UpdateWhere, WritesPast, Live
  <2>6. ASSUME NEW i \in Id, DeleteByID(i) PROVE Same
    BY <2>1, <2>6 DEF DeleteByID
  <2>7. ASSUME NEW i \in Id, WritesPast(i)
        PROVE  \A j \in Id : /\ j # i => row'[j] = row[j]
                             /\ Deleted(j) => row'[j] # None /\ ~row'[j].live
    <3>1. NextWrite \in 1..MaxWrites
      BY <1>1, <2>7 DEF NextWrite, CanWrite, WritesPast, IInv, TypeOK
    <3>2. row[i] \in Row /\ row[i].version \in Nat
      BY <2>1, <2>7, RowType DEF WritesPast
    <3> DEFINE new == Rewritten(row[i], row[i].version)
    <3>3. new \in Row /\ new # None /\ new.live = row[i].live
      BY <3>1, <3>2, RowUpdate
    <3>4. row' = [row EXCEPT ![i] = new]
      BY <2>7 DEF WritesPast
    <3> HIDE DEF new
    <3>5. row'[i] = new /\ \A j \in Id : j # i => row'[j] = row[j]
      BY <2>1, <3>4
    <3> QED
      BY <3>3, <3>5
  <2>8. ASSUME NEW i \in Id, UpdateWhereOr(i) PROVE Kept
    BY <2>7, <2>8 DEF UpdateWhereOr
  <2>9. ASSUME NEW p \in Proc, UpsertHits(p) PROVE Kept
    <3>1. PICK i \in Id : WritesPast(i)
      BY <2>9 DEF UpsertHits
    <3> QED
      BY <2>7, <2>9, <3>1
  <2>10. \/ UNCHANGED row
         \/ \E p \in Proc : UpdateHits(p) \/ AnswerLost(p) \/ InsertRow(p) \/ UpsertHits(p)
         \/ \E i \in Id : UpdateWhere(i) \/ UpdateWhereOr(i) \/ DeleteByID(i)
    BY <1>1 DEF Next, vars, SelectByID, SelectListOr, Loads, MakeEntity, UpdateByID, Insert,
                SaveOrUpdate, Upsert, Calls, UpdateMisses, UpsertSkips, StatementFails
  <2> QED
    BY <2>2, <2>3, <2>4, <2>5, <2>6, <2>8, <2>9, <2>10
<1>2. IInv /\ [Next]_vars => [Kept]_vars
  BY <1>1
<1> QED
  BY <1>2, Invariant, PTL DEF Spec, DeletedStaysDeleted
===========================================================================
