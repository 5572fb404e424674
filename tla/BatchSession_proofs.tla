----------------------- MODULE BatchSession_proofs ------------------------
(***************************************************************************)
(* Proofs about BatchSession, for any goroutines, delegate and bounds.     *)
(***************************************************************************)
EXTENDS BatchSession, SequenceTheorems, TLAPS

USE FreeIsNoProc, BoundsAreNat

(* What the running flush has executed is in the database, and a write is  *)
(* queued behind every earlier one that is neither executed nor dropped.   *)
ExecutedIsSent == \A k \in 1..index : items[k] \in Members(sent)
QueueIsOrdered ==
    \A k \in DOMAIN items : \A e \in 1..(items[k] - 1) :
        \/ \E j \in 1..(k - 1) : items[j] = e
        \/ e \in Members(sent) \cup dropped

IInv == TypeOK /\ NothingLost /\ ExecutedIsSent /\ QueueIsOrdered /\ FlushedFirst

LEMMA InMembers == ASSUME NEW s PROVE Members(s) = {s[i] : i \in DOMAIN s}
BY DEF Members, Seqs!ToSet

(* What Append, Tail and the rest of a sequence are made of. *)
LEMMA AppendMembers ==
    ASSUME NEW S, NEW s \in Seq(S), NEW e
    PROVE  Members(Append(s, e)) = Members(s) \cup {e}
<1> DEFINE t == Append(s, e)
<1>1. Len(t) = Len(s) + 1 /\ Len(s) \in Nat /\ t[Len(s) + 1] = e
  OBVIOUS
<1>2. \A i \in 1..Len(s) : t[i] = s[i]
  OBVIOUS
<1>3. DOMAIN t = 1..(Len(s) + 1) /\ DOMAIN s = 1..Len(s)
  OBVIOUS
<1> HIDE DEF t
<1>4. {t[i] : i \in DOMAIN t} = {s[i] : i \in DOMAIN s} \cup {e}
  BY <1>1, <1>2, <1>3
<1>5. Members(t) = Members(s) \cup {e}
  BY <1>4, InMembers, Zenon
<1> QED
  BY <1>5 DEF t

LEMMA RestOfSeq ==
    ASSUME NEW S, NEW s \in Seq(S), NEW i \in 0..Len(s)
    PROVE  LET r == SubSeq(s, i + 1, Len(s)) IN
           /\ r \in Seq(S) /\ Len(r) = Len(s) - i
           /\ \A k \in 1..(Len(s) - i) : r[k] = s[k + i]
OBVIOUS

LEMMA StartOfSeq ==
    ASSUME NEW S, NEW s \in Seq(S), NEW i \in 0..Len(s)
    PROVE  LET r == SubSeq(s, 1, i) IN
           r \in Seq(S) /\ Len(r) = i /\ \A k \in 1..i : r[k] = s[k]
<1>1. \A k \in 1..i : s[k] \in S
  OBVIOUS
<1>2. SubSeq(s, 1, i) \in Seq(S)
  BY <1>1
<1>3. Len(SubSeq(s, 1, i)) = i
  OBVIOUS
<1>4. \A k \in 1..i : SubSeq(s, 1, i)[k] = s[k]
  OBVIOUS
<1> QED
  BY <1>2, <1>3, <1>4

LEMMA SeqOfMore ==
    ASSUME NEW n \in Nat, NEW s \in Seq(1..n)
    PROVE  s \in Seq(1..(n + 1))
OBVIOUS

LEMMA MembersType ==
    ASSUME NEW S, NEW s \in Seq(S)
    PROVE  Members(s) \subseteq S
BY InMembers

(* Every way a goroutine's call can end or go on keeps the three variables *)
(* of the call in their types.                                             *)
Moved(p) ==
    /\ pc' \in [Proc -> {"idle", "lock", "flush", "delegate"}]
    /\ call' \in [Proc -> Calls] /\ need' \in [Proc -> 0..fresh]
    /\ pc'[p] # "flush"
    /\ \A q \in Proc \ {p} : pc'[q] = pc[q] /\ need'[q] = need[q]

LEMMA IdleIsTyped ==
    ASSUME TypeOK, NEW p \in Proc, GoIdle(p)
    PROVE  Moved(p)
BY DEF TypeOK, GoIdle, Calls, Moved

LEMMA AfterQueueIsTyped ==
    ASSUME TypeOK, NEW p \in Proc, AfterQueue(p)
    PROVE  Moved(p)
<1>1. CASE GoIdle(p)
  BY <1>1, IdleIsTyped
<1>2. CASE pc' = [pc EXCEPT ![p] = "delegate"] /\ UNCHANGED <<call, need>>
  BY <1>2 DEF TypeOK, Moved
<1> QED
  BY <1>1, <1>2 DEF AfterQueue

LEMMA TypeInit == Init => TypeOK
BY DEF Init, TypeOK, Calls

LEMMA TypeStep == TypeOK /\ [Next]_vars => TypeOK'
<1> SUFFICES ASSUME TypeOK, [Next]_vars PROVE TypeOK'
  OBVIOUS
<1> USE DEF Calls, FlushingCall, DroppingCall
<1>1. ASSUME NEW p \in Proc, Enqueue(p) PROVE TypeOK'
  <2>1. Append(items, fresh + 1) \in Seq(1..(fresh + 1)) /\ sent \in Seq(1..(fresh + 1))
    BY SeqOfMore DEF TypeOK
  <2>2. index \in 0..Len(Append(items, fresh + 1))
    BY DEF TypeOK
  <2> QED
    BY <1>1, <2>1, <2>2 DEF TypeOK, Enqueue
<1>2. ASSUME NEW p \in Proc, NEW c \in FlushingCall \cup DroppingCall, Start(p, c) PROVE TypeOK'
  BY <1>2 DEF TypeOK, Start
<1>3. ASSUME NEW p \in Proc, Drop(p) PROVE TypeOK'
  <2>1. dropped' \subseteq 1..fresh
    BY <1>3, MembersType DEF TypeOK, Drop
  <2>2. Moved(p)
    BY <1>3, AfterQueueIsTyped DEF Drop
  <2> QED
    BY <1>3, <2>1, <2>2 DEF TypeOK, Drop, Moved
<1>4. ASSUME NEW p \in Proc, FlushNothing(p) PROVE TypeOK'
  <2>1. Moved(p)
    BY <1>4, AfterQueueIsTyped DEF FlushNothing
  <2> QED
    BY <1>4, <2>1 DEF TypeOK, FlushNothing, Moved
<1>5. ASSUME NEW p \in Proc, BeginFlush(p) PROVE TypeOK'
  BY <1>5 DEF TypeOK, BeginFlush
<1>6. ASSUME NEW p \in Proc, ExecItem(p) PROVE TypeOK'
  <2>1. /\ sent' = Append(sent, items[index + 1]) /\ index' = index + 1 /\ index < Len(items)
        /\ pc[p] = "flush"
        /\ UNCHANGED <<items, holder, pc, call, tx, fresh, need, dropped, unsure, failures>>
    BY <1>6 DEF ExecItem, Running, Current
  <2>2. items \in Seq(1..fresh) /\ sent \in Seq(1..fresh) /\ index \in 0..Len(items)
    BY DEF TypeOK
  <2>3. sent' \in Seq(1..fresh) /\ index' \in 0..Len(items')
    <3>1. items[index + 1] \in 1..fresh
      <4>1. index + 1 \in 1..Len(items)
        BY <2>1, <2>2
      <4> QED
        BY <2>2, <4>1, ElementOfSeq
    <3>2. Append(sent, items[index + 1]) \in Seq(1..fresh)
      BY <2>2, <3>1, AppendProperties
    <3>3. index + 1 \in 0..Len(items) /\ items' = items
      BY <2>1, <2>2
    <3> QED
      BY <2>1, <3>2, <3>3, Zenon
  <2>4. holder' # Free
    BY <2>1 DEF TypeOK
  <2> QED
    BY <2>1, <2>3, <2>4 DEF TypeOK
<1>7. ASSUME NEW p \in Proc, ItemFails(p) PROVE TypeOK'
  <2>1. items' \in Seq(1..fresh) /\ 0 \in 0..Len(items')
    <3>1. items \in Seq(1..fresh) /\ index \in 0..Len(items)
      BY DEF TypeOK
    <3>2. SubSeq(items, index + 1, Len(items)) \in Seq(1..fresh)
      BY <3>1, RestOfSeq
    <3> QED
      BY <1>7, <3>2 DEF ItemFails
  <2>2. Moved(p)
    BY <1>7, IdleIsTyped DEF ItemFails, Abandon
  <2> QED
    BY <1>7, <2>1, <2>2 DEF TypeOK, ItemFails, Running, Abandon, Moved
<1>8. ASSUME NEW p \in Proc, ItemFailsLate(p) PROVE TypeOK'
  <2>1. items' \in Seq(1..fresh) /\ 0 \in 0..Len(items')
    <3>1. items \in Seq(1..fresh) /\ index \in 0..Len(items)
      BY DEF TypeOK
    <3>2. SubSeq(items, index + 1, Len(items)) \in Seq(1..fresh)
      BY <3>1, RestOfSeq
    <3> QED
      BY <1>8, <3>2 DEF ItemFailsLate
  <2>2. Current \in 1..fresh
    BY <1>8 DEF TypeOK, ItemFailsLate, Running, Current
  <2>3. sent' \in Seq(1..fresh) /\ unsure' \subseteq 1..fresh /\ failures' \in Nat
    BY <1>8, <2>2 DEF TypeOK, ItemFailsLate
  <2>4. Moved(p)
    BY <1>8, IdleIsTyped DEF ItemFailsLate, Abandon
  <2> QED
    BY <1>8, <2>1, <2>3, <2>4 DEF TypeOK, ItemFailsLate, Running, Abandon, Moved
<1>9. ASSUME NEW p \in Proc, ItemPanics(p) PROVE TypeOK'
  <2>1. /\ Running(p) /\ Abandon(p)
        /\ unsure' = unsure \cup Members(SubSeq(items, 1, index))
        /\ failures' = failures + 1
        /\ UNCHANGED <<items, sent, tx, fresh, dropped>>
    BY <1>9, Zenon DEF ItemPanics
  <2>2. items \in Seq(1..fresh) /\ index \in 0..Len(items)
    BY DEF TypeOK
  <2>3. Members(SubSeq(items, 1, index)) \subseteq 1..fresh
    BY <2>2, StartOfSeq, MembersType
  <2>4. Moved(p)
    BY <2>1, IdleIsTyped DEF Abandon
  <2>5. unsure' \subseteq 1..fresh /\ failures' \in Nat /\ 0 \in 0..Len(items)
    <3>1. unsure \subseteq 1..fresh /\ failures \in Nat
      BY DEF TypeOK
    <3>2. unsure' \subseteq 1..fresh
      BY <2>1, <2>3, <3>1, Zenon
    <3>3. failures' \in Nat
      BY <2>1, <3>1
    <3>4. 0 \in 0..Len(items)
      BY <2>2
    <3> QED
      BY <3>2, <3>3, <3>4
  <2>6. UNCHANGED <<items, sent, tx, fresh, dropped>> /\ Abandon(p) /\ Running(p)
    BY <2>1
  <2> QED
    BY <2>4, <2>5, <2>6 DEF TypeOK, Running, Abandon, Moved
<1>10. ASSUME NEW p \in Proc, EndFlush(p) PROVE TypeOK'
  <2>1. Moved(p)
    BY <1>10, AfterQueueIsTyped DEF EndFlush
  <2>2. \A q \in Proc : pc'[q] # "flush"
    BY <1>10, <2>1 DEF TypeOK, EndFlush, Moved
  <2>3. items' \in Seq(1..fresh) /\ 0 \in 0..Len(items')
    BY <1>10 DEF EndFlush
  <2> QED
    BY <1>10, <2>1, <2>2, <2>3 DEF TypeOK, EndFlush, Moved
<1>11. ASSUME NEW p \in Proc, Delegate(p) PROVE TypeOK'
  <2>1. PICK t : Return(p, t) /\ t \in {tx, "committed", "failed", "rolledback"}
    BY <1>11 DEF Delegate, Query, Commit, Rollback
  <2>2. Moved(p)
    BY <2>1, IdleIsTyped DEF Return
  <2> QED
    BY <2>1, <2>2 DEF TypeOK, Return, Moved
<1>12. CASE UNCHANGED vars
  BY <1>12 DEF TypeOK, vars
<1> QED
  BY <1>1, <1>2, <1>3, <1>4, <1>5, <1>6, <1>7, <1>8, <1>9, <1>10, <1>11, <1>12
     DEF Next, Step, FlushSteps

(* The variables keep their types and the mutex is held exactly while a    *)
(* flush runs (batch.go:171-204).                                          *)
THEOREM TypeCorrect == Spec => []TypeOK
BY TypeInit, TypeStep, PTL DEF Spec

----------------------------------------------------------------------------
Rest == SubSeq(items, index + 1, Len(items))

LEMMA WaitsBehind ==
    ASSUME QueueIsOrdered, NEW k \in DOMAIN items, NEW e \in 1..(items[k] - 1),
           e \notin Members(sent) \cup dropped
    PROVE  \E j \in 1..(k - 1) : items[j] = e
BY DEF QueueIsOrdered

(* Dropping the executed writes from the queue keeps the others, in order. *)
LEMMA RestOfQueue ==
    ASSUME TypeOK, items' = Rest, index' = 0, Members(sent) \subseteq Members(sent'),
           UNCHANGED <<fresh, dropped>>, NothingLost, ExecutedIsSent, QueueIsOrdered
    PROVE  NothingLost' /\ ExecutedIsSent' /\ QueueIsOrdered'
<1>1. items \in Seq(1..fresh) /\ index \in 0..Len(items)
  BY DEF TypeOK
<1>2. /\ items' \in Seq(1..fresh) /\ Len(items') = Len(items) - index
      /\ \A k \in 1..(Len(items) - index) : items'[k] = items[k + index]
  BY <1>1, RestOfSeq DEF Rest
<1>3. ASSUME NEW e \in Members(items) PROVE e \in Members(items') \cup Members(sent)
  <2>1. PICK k \in 1..Len(items) : items[k] = e
    BY <1>1, InMembers
  <2>2. CASE k \in 1..index
    BY <2>1, <2>2 DEF ExecutedIsSent
  <2>3. CASE k \notin 1..index
    <3>1. k - index \in 1..Len(items') /\ items'[k - index] = e
      BY <1>1, <1>2, <2>1, <2>3
    <3> QED
      BY <1>2, <3>1, InMembers
  <2> QED
    BY <2>2, <2>3
<1>4. NothingLost'
  BY <1>3 DEF NothingLost
<1>5. ExecutedIsSent'
  BY DEF ExecutedIsSent
<1>6. QueueIsOrdered'
  <2> SUFFICES ASSUME NEW k \in 1..Len(items'), NEW e \in 1..(items'[k] - 1),
                      e \notin Members(sent') \cup dropped'
               PROVE  \E j \in 1..(k - 1) : items'[j] = e
    BY <1>2 DEF QueueIsOrdered
  <2>1. k + index \in DOMAIN items /\ items'[k] = items[k + index]
    BY <1>1, <1>2
  <2>2. PICK n \in DOMAIN items : n = k + index /\ e \in 1..(items[n] - 1)
    BY <2>1
  <2>3. e \notin Members(sent) \cup dropped
    OBVIOUS
  <2>4. PICK j \in 1..(n - 1) : items[j] = e
    BY <2>2, <2>3, WaitsBehind
  <2>5. j \notin 1..index
    BY <2>3, <2>4 DEF ExecutedIsSent
  <2>6. j - index \in 1..(k - 1) /\ items'[j - index] = e
    <3>1. /\ j \in Int /\ index \in Nat /\ k \in 1..(Len(items) - index) /\ Len(items) \in Nat
          /\ n = k + index /\ j \in 1..(n - 1)
      BY <1>1, <1>2, <2>2, <2>4
    <3>2. j - index \in 1..(k - 1) /\ (j - index) + index = j
      BY <2>5, <3>1
    <3>3. j - index \in 1..(Len(items) - index)
      BY <3>1, <3>2
    <3> QED
      BY <1>2, <2>4, <3>2, <3>3
  <2> QED
    BY <2>6
<1> QED
  BY <1>4, <1>5, <1>6

LEMMA SentGrows ==
    ASSUME TypeOK, NEW e, sent' = Append(sent, e)
    PROVE  Members(sent') = Members(sent) \cup {e}
BY AppendMembers DEF TypeOK

LEMMA FlushedFirstKept ==
    ASSUME FlushedFirst, NEW p \in Proc,
           \A q \in Proc \ {p} : pc'[q] = pc[q] /\ need'[q] = need[q],
           Members(sent) \cup dropped \subseteq Members(sent') \cup dropped',
           pc'[p] = "delegate" => 1..need'[p] \subseteq Members(sent') \cup dropped'
    PROVE  FlushedFirst'
BY DEF FlushedFirst

----------------------------------------------------------------------------
LEMMA InvInit == Init => IInv
<1> SUFFICES ASSUME Init PROVE IInv
  OBVIOUS
<1>1. TypeOK
  BY TypeInit
<1> QED
  BY <1>1 DEF Init, IInv, NothingLost, ExecutedIsSent, QueueIsOrdered, FlushedFirst

LEMMA InvStep == IInv /\ [Next]_vars => IInv'
<1> SUFFICES ASSUME IInv, [Next]_vars PROVE IInv'
  OBVIOUS
<1>t. TypeOK /\ TypeOK'
  BY TypeStep DEF IInv
<1>i. NothingLost /\ ExecutedIsSent /\ QueueIsOrdered /\ FlushedFirst
  BY DEF IInv
<1> DEFINE Data == NothingLost /\ ExecutedIsSent /\ QueueIsOrdered
<1>1. ASSUME NEW p \in Proc, Enqueue(p) PROVE IInv'
  <2>1. items \in Seq(1..fresh) /\ fresh \in Nat /\ index = 0
    BY <1>1, <1>t DEF TypeOK, Enqueue
  <2>2. Members(items') = Members(items) \cup {fresh + 1}
    BY <1>1, <2>1, AppendMembers DEF Enqueue
  <2>3. NothingLost'
    BY <1>1, <1>i, <2>1, <2>2 DEF NothingLost, Enqueue
  <2>4. ExecutedIsSent'
    BY <1>1, <2>1 DEF ExecutedIsSent, Enqueue
  <2>5. QueueIsOrdered'
    <3>1. /\ Len(items') = Len(items) + 1 /\ items'[Len(items) + 1] = fresh + 1
          /\ \A k \in 1..Len(items) : items'[k] = items[k]
          /\ DOMAIN items' = 1..(Len(items) + 1) /\ DOMAIN items = 1..Len(items)
          /\ Len(items) \in Nat
      BY <1>1, <2>1 DEF Enqueue
    <3>2. ASSUME NEW k \in 1..Len(items), NEW e \in 1..(items'[k] - 1),
                 e \notin Members(sent') \cup dropped'
          PROVE  \E j \in 1..(k - 1) : items'[j] = e
      <4>1. e \in 1..(items[k] - 1) /\ e \notin Members(sent) \cup dropped
        BY <1>1, <3>1, <3>2 DEF Enqueue
      <4>2. PICK j \in 1..(k - 1) : items[j] = e
        BY <1>i, <3>1, <4>1 DEF QueueIsOrdered
      <4> QED
        BY <3>1, <4>2
    <3>3. ASSUME NEW e \in 1..fresh, e \notin Members(sent') \cup dropped'
          PROVE  \E j \in 1..Len(items) : items'[j] = e
      <4>1. e \in Members(items)
        BY <1>1, <1>i, <3>3 DEF NothingLost, Enqueue
      <4>2. PICK j \in DOMAIN items : items[j] = e
        BY <4>1, InMembers
      <4> QED
        BY <3>1, <4>2
    <3> SUFFICES ASSUME NEW k \in 1..(Len(items) + 1), NEW e \in 1..(items'[k] - 1),
                        e \notin Members(sent') \cup dropped'
                 PROVE  \E j \in 1..(k - 1) : items'[j] = e
      BY <3>1 DEF QueueIsOrdered
    <3>4. CASE k = Len(items) + 1
      BY <2>1, <3>1, <3>3, <3>4
    <3>5. CASE k \in 1..Len(items)
      BY <3>2, <3>5
    <3> QED
      BY <3>1, <3>4, <3>5
  <2>6. FlushedFirst'
    BY <1>1, <1>i DEF FlushedFirst, Enqueue
  <2> QED
    BY <1>t, <2>3, <2>4, <2>5, <2>6 DEF IInv
<1>2. ASSUME NEW p \in Proc, NEW c \in FlushingCall \cup DroppingCall, Start(p, c) PROVE IInv'
  <2>1. Data'
    BY <1>2, <1>i DEF NothingLost, ExecutedIsSent, QueueIsOrdered, Start
  <2>2. FlushedFirst'
    BY <1>2, <1>i, <1>t DEF FlushedFirst, Start, TypeOK
  <2> QED
    BY <1>t, <2>1, <2>2 DEF IInv
<1>3. ASSUME NEW p \in Proc, items' = <<>>, index' = 0, Moved(p), UNCHANGED <<fresh, sent>>,
             1..fresh \subseteq Members(sent) \cup dropped', dropped \subseteq dropped'
      PROVE  IInv'
  <2>1. Data'
    BY <1>3 DEF NothingLost, ExecutedIsSent, QueueIsOrdered
  <2>2. 1..need'[p] \subseteq 1..fresh
    BY <1>t, <1>3 DEF Moved, TypeOK
  <2>3. FlushedFirst'
    BY <1>3, <1>i, <2>2, FlushedFirstKept DEF Moved
  <2> QED
    BY <1>t, <2>1, <2>3 DEF IInv
<1>4. ASSUME NEW p \in Proc, Drop(p) PROVE IInv'
  <2>1. Moved(p) /\ index' = 0
    BY <1>4, <1>t, AfterQueueIsTyped DEF Drop, TypeOK
  <2>2. 1..fresh \subseteq Members(sent) \cup dropped'
    BY <1>4, <1>i DEF Drop, NothingLost
  <2> QED
    BY <1>3, <1>4, <2>1, <2>2 DEF Drop
<1>5. ASSUME NEW p \in Proc, FlushNothing(p) PROVE IInv'
  <2>1. Moved(p) /\ index' = 0
    BY <1>5, <1>t, AfterQueueIsTyped DEF FlushNothing, TypeOK
  <2>2. Members(items) = {}
    BY <1>5, InMembers DEF FlushNothing
  <2>3. 1..fresh \subseteq Members(sent) \cup dropped'
    BY <1>5, <1>i, <2>2 DEF FlushNothing, NothingLost
  <2> QED
    BY <1>3, <1>5, <2>1, <2>3 DEF FlushNothing
<1>6. ASSUME NEW p \in Proc, EndFlush(p) PROVE IInv'
  <2>1. Moved(p)
    BY <1>6, <1>t, AfterQueueIsTyped DEF EndFlush
  <2>2. Members(items) \subseteq Members(sent)
    <3>1. items \in Seq(1..fresh) /\ index = Len(items)
      BY <1>6, <1>t DEF EndFlush, TypeOK
    <3> QED
      BY <1>i, <3>1, InMembers DEF ExecutedIsSent
  <2>3. 1..fresh \subseteq Members(sent) \cup dropped'
    BY <1>6, <1>i, <2>2 DEF EndFlush, NothingLost
  <2> QED
    BY <1>3, <1>6, <2>1, <2>3 DEF EndFlush
<1>7. ASSUME NEW p \in Proc, BeginFlush(p) PROVE IInv'
  <2>1. Data'
    BY <1>7, <1>i DEF NothingLost, ExecutedIsSent, QueueIsOrdered, BeginFlush
  <2>2. FlushedFirst'
    BY <1>7, <1>i, <1>t DEF FlushedFirst, BeginFlush, TypeOK
  <2> QED
    BY <1>t, <2>1, <2>2 DEF IInv
<1>8. ASSUME NEW p \in Proc, ExecItem(p) PROVE IInv'
  <2>1. Members(sent') = Members(sent) \cup {items[index + 1]}
    BY <1>8, <1>t, SentGrows DEF ExecItem, Current
  <2>2. NothingLost'
    BY <1>8, <1>i, <2>1 DEF NothingLost, ExecItem
  <2>3. ExecutedIsSent'
    <3>1. index \in Nat /\ index' = index + 1 /\ items' = items
      BY <1>8, <1>t DEF ExecItem, TypeOK
    <3> QED
      BY <1>i, <2>1, <3>1 DEF ExecutedIsSent
  <2>4. QueueIsOrdered'
    BY <1>8, <1>i, <2>1 DEF QueueIsOrdered, ExecItem
  <2>5. FlushedFirst'
    BY <1>8, <1>i, <2>1 DEF FlushedFirst, ExecItem
  <2> QED
    BY <1>t, <2>2, <2>3, <2>4, <2>5 DEF IInv
<1>9. ASSUME NEW p \in Proc, ItemFails(p) PROVE IInv'
  <2>1. Moved(p) /\ pc'[p] = "idle"
    BY <1>9, <1>t, IdleIsTyped DEF ItemFails, Abandon, GoIdle, TypeOK
  <2>2. Data'
    BY <1>9, <1>t, <1>i, RestOfQueue DEF ItemFails, Abandon, Rest
  <2>3. FlushedFirst'
    BY <1>9, <1>i, <2>1, FlushedFirstKept DEF Moved, ItemFails
  <2> QED
    BY <1>t, <2>2, <2>3 DEF IInv
<1>10. ASSUME NEW p \in Proc, ItemFailsLate(p) PROVE IInv'
  <2>1. Moved(p) /\ pc'[p] = "idle"
    BY <1>10, <1>t, IdleIsTyped DEF ItemFailsLate, Abandon, GoIdle, TypeOK
  <2>2. Members(sent) \subseteq Members(sent')
    BY <1>10, <1>t, SentGrows DEF ItemFailsLate
  <2>3. Data'
    BY <1>10, <1>t, <1>i, <2>2, RestOfQueue DEF ItemFailsLate, Abandon, Rest
  <2>4. FlushedFirst'
    BY <1>10, <1>i, <2>1, <2>2, FlushedFirstKept DEF Moved, ItemFailsLate
  <2> QED
    BY <1>t, <2>3, <2>4 DEF IInv
<1>11. ASSUME NEW p \in Proc, ItemPanics(p) PROVE IInv'
  <2>1. Abandon(p) /\ UNCHANGED <<items, sent, fresh, dropped>>
    BY <1>11, Zenon DEF ItemPanics
  <2>2. Moved(p) /\ pc'[p] = "idle"
    BY <2>1, <1>t, IdleIsTyped DEF Abandon, GoIdle, TypeOK
  <2>3. Data'
    BY <1>i, <2>1 DEF NothingLost, ExecutedIsSent, QueueIsOrdered, Abandon
  <2>4. FlushedFirst'
    BY <1>i, <2>1, <2>2, FlushedFirstKept DEF Moved
  <2> QED
    BY <1>t, <2>3, <2>4 DEF IInv
<1>12. ASSUME NEW p \in Proc, Delegate(p) PROVE IInv'
  <2>1. PICK t : Return(p, t)
    BY <1>12 DEF Delegate, Query, Commit, Rollback
  <2>2. Moved(p) /\ pc'[p] = "idle"
    BY <2>1, <1>t, IdleIsTyped DEF Return, GoIdle, TypeOK
  <2>3. Data'
    BY <1>i, <2>1 DEF NothingLost, ExecutedIsSent, QueueIsOrdered, Return
  <2>4. FlushedFirst'
    BY <1>i, <2>1, <2>2, FlushedFirstKept DEF Moved, Return
  <2> QED
    BY <1>t, <2>3, <2>4 DEF IInv
<1>13. CASE UNCHANGED vars
  BY <1>13, <1>t, <1>i
     DEF IInv, NothingLost, ExecutedIsSent, QueueIsOrdered, FlushedFirst, vars
<1> QED
  BY <1>1, <1>2, <1>4, <1>5, <1>6, <1>7, <1>8, <1>9, <1>10, <1>11, <1>12, <1>13
     DEF Next, Step, FlushSteps

LEMMA Invariant == Spec => []IInv
BY InvInit, InvStep, PTL DEF Spec

(* A write whose Exec succeeded is never lost by a failed, partial,        *)
(* panicking or concurrent flush (batch.go:184-202).                       *)
THEOREM WritesAreNotLost == Spec => []NothingLost
<1>1. IInv => NothingLost
  BY DEF IInv
<1> QED
  BY <1>1, Invariant, PTL

(* The delegate reads or commits only after every write queued before the  *)
(* call was executed or thrown away (batch.go:90-93, 246-252).             *)
THEOREM DelegateRunsFlushed == Spec => []FlushedFirst
<1>1. IInv => FlushedFirst
  BY DEF IInv
<1> QED
  BY <1>1, Invariant, PTL

(* The database executes the writes in the order they were queued, however *)
(* flushes fail, are retried and interleave (batch.go:184-188).            *)
THEOREM WritesAreSentInOrder == Spec => SendsInOrder
<1> DEFINE InOrder == sent' # sent =>
             1..(sent'[Len(sent')] - 1) \subseteq Members(sent) \cup dropped
<1>1. ASSUME IInv, [Next]_vars PROVE [InOrder]_vars
  <2>1. CASE UNCHANGED vars
    BY <2>1
  <2>2. ASSUME NEW p \in Proc, ExecItem(p) \/ ItemFailsLate(p) PROVE InOrder
    <3>1. /\ sent' = Append(sent, items[index + 1]) /\ index < Len(items)
          /\ items \in Seq(1..fresh) /\ index \in Nat /\ sent \in Seq(1..fresh)
      <4>1. /\ sent' = Append(sent, items[index + 1]) /\ index < Len(items)
        BY <2>2 DEF ExecItem, ItemFailsLate, Running, Current
      <4>2. /\ items \in Seq(1..fresh) /\ index \in Nat /\ sent \in Seq(1..fresh)
        BY <1>1 DEF IInv, TypeOK
      <4> QED
        BY <4>1, <4>2
    <3>2. sent'[Len(sent')] = items[index + 1]
      BY <3>1
    <3>3. ASSUME NEW e \in 1..(items[index + 1] - 1) PROVE e \in Members(sent) \cup dropped
      <4>1. \/ \E j \in 1..index : items[j] = e
            \/ e \in Members(sent) \cup dropped
        BY <1>1, <3>1 DEF IInv, QueueIsOrdered
      <4> QED
        BY <1>1, <4>1 DEF IInv, ExecutedIsSent
    <3> QED
      BY <3>2, <3>3
  <2>3. ASSUME NEW p \in Proc,
               \/ Enqueue(p) \/ Drop(p) \/ FlushNothing(p) \/ BeginFlush(p)
               \/ ItemFails(p) \/ EndFlush(p)
               \/ \E c \in FlushingCall \cup DroppingCall : Start(p, c)
        PROVE  InOrder
    BY <2>3 DEF Enqueue, Drop, FlushNothing, BeginFlush, ItemFails, EndFlush, Start
  <2>4. ASSUME NEW p \in Proc, ItemPanics(p) \/ Delegate(p) PROVE InOrder
    <3>1. sent' = sent
      BY <2>4, Zenon DEF ItemPanics, Delegate, Query, Commit, Rollback, Return
    <3> QED
      BY <3>1
  <2> QED
    BY <1>1, <2>1, <2>2, <2>3, <2>4 DEF Next, Step, FlushSteps
<1> QED
  BY <1>1, Invariant, PTL DEF Spec, SendsInOrder

----------------------------------------------------------------------------
(* Why a write runs twice: no write is queued twice, and one that is still *)
(* to be executed and ran already ran in a flush that reported failure.    *)
QueuedOnce == \A i, j \in DOMAIN items : items[i] = items[j] => i = j
SentAgain == \A k \in DOMAIN items : k > index /\ items[k] \in Members(sent) => items[k] \in unsure

RepInv == RepeatsHaveCause /\ QueuedOnce /\ SentAgain

(* The database executes one write more.                                   *)
LEMMA SentOnceMore ==
    ASSUME TypeOK, RepeatsHaveCause, NEW w \in 1..fresh, sent' = Append(sent, w),
           unsure \subseteq unsure', w \in Members(sent) => w \in unsure
    PROVE  RepeatsHaveCause'
<1>1. sent \in Seq(1..fresh)
  BY DEF TypeOK
<1>2. /\ DOMAIN sent' = 1..(Len(sent) + 1) /\ DOMAIN sent = 1..Len(sent) /\ Len(sent) \in Nat
      /\ sent'[Len(sent) + 1] = w /\ \A i \in 1..Len(sent) : sent'[i] = sent[i]
  BY <1>1
<1>3. \A i \in 1..Len(sent) : sent[i] = w => w \in unsure
  BY <1>2, InMembers
<1> SUFFICES ASSUME NEW i \in 1..(Len(sent) + 1), NEW j \in 1..(Len(sent) + 1),
                    i # j, sent'[i] = sent'[j]
             PROVE  sent'[i] \in unsure'
  BY <1>2 DEF RepeatsHaveCause
<1>4. CASE i \in 1..Len(sent) /\ j \in 1..Len(sent)
  BY <1>2, <1>4 DEF RepeatsHaveCause
<1>5. CASE i = Len(sent) + 1
  <2>1. j \in 1..Len(sent)
    BY <1>2, <1>5
  <2> QED
    BY <1>2, <1>3, <1>5, <2>1
<1>6. CASE j = Len(sent) + 1
  <2>1. i \in 1..Len(sent)
    BY <1>2, <1>6
  <2> QED
    BY <1>2, <1>3, <1>6, <2>1
<1> QED
  BY <1>2, <1>4, <1>5, <1>6

(* A flush that failed leaves the rest of the queue; what it sent without  *)
(* an answer is unsure.                                                    *)
LEMMA RestHasCause ==
    ASSUME TypeOK, QueuedOnce, SentAgain, items' = Rest, index' = 0, unsure \subseteq unsure',
           \A w \in Members(sent') : w \in Members(sent) \cup unsure'
    PROVE  QueuedOnce' /\ SentAgain'
<1>1. items \in Seq(1..fresh) /\ index \in 0..Len(items)
  BY DEF TypeOK
<1>2. /\ items' \in Seq(1..fresh) /\ Len(items') = Len(items) - index
      /\ \A k \in 1..(Len(items) - index) : items'[k] = items[k + index]
  BY <1>1, RestOfSeq DEF Rest
<1>3. /\ DOMAIN items' = 1..(Len(items) - index) /\ DOMAIN items = 1..Len(items)
      /\ \A k \in 1..(Len(items) - index) : k + index \in 1..Len(items) /\ k + index > index
  BY <1>1, <1>2
<1>4. QueuedOnce'
  <2> SUFFICES ASSUME NEW i \in 1..(Len(items) - index), NEW j \in 1..(Len(items) - index),
                      items[i + index] = items[j + index]
               PROVE  i = j
    BY <1>2, <1>3 DEF QueuedOnce
  <2>1. i + index = j + index
    BY <1>3 DEF QueuedOnce
  <2> QED
    BY <1>1, <2>1
<1>5. SentAgain'
  BY <1>2, <1>3 DEF SentAgain
<1> QED
  BY <1>4, <1>5

LEMMA RepStep == TypeOK /\ RepInv /\ [Next]_vars => RepInv'
<1> SUFFICES ASSUME TypeOK, RepInv, [Next]_vars PROVE RepInv'
  OBVIOUS
<1>t. /\ items \in Seq(1..fresh) /\ sent \in Seq(1..fresh) /\ index \in 0..Len(items) /\ fresh \in Nat
      /\ (holder = Free => index = 0)
  BY DEF TypeOK
<1>r. RepeatsHaveCause /\ QueuedOnce /\ SentAgain
  BY DEF RepInv
<1>s. ASSUME UNCHANGED <<sent, unsure>> PROVE RepeatsHaveCause'
  BY <1>s, <1>r DEF RepeatsHaveCause
<1>e. ASSUME items' = <<>> PROVE QueuedOnce' /\ SentAgain'
  BY <1>e DEF QueuedOnce, SentAgain
<1>1. ASSUME NEW p \in Proc, Enqueue(p) PROVE RepInv'
  <2>1. /\ index = 0 /\ index' = 0 /\ items' = Append(items, fresh + 1)
        /\ UNCHANGED <<sent, unsure>>
    BY <1>1, <1>t DEF Enqueue
  <2>2. /\ DOMAIN items' = 1..(Len(items) + 1) /\ DOMAIN items = 1..Len(items) /\ Len(items) \in Nat
        /\ items'[Len(items) + 1] = fresh + 1
        /\ \A i \in 1..Len(items) : items'[i] = items[i] /\ items[i] \in 1..fresh
    BY <1>t, <2>1
  <2>3. QueuedOnce'
    <3>1. \A i \in 1..Len(items) : items'[i] # fresh + 1
      BY <1>t, <2>2
    <3>2. \A i, j \in 1..Len(items) : items'[i] = items'[j] => i = j
      BY <1>r, <2>2 DEF QueuedOnce
    <3>3. \A i \in 1..(Len(items) + 1) : i \in 1..Len(items) \/ i = Len(items) + 1
      BY <2>2
    <3> QED
      BY <2>2, <3>1, <3>2, <3>3 DEF QueuedOnce
  <2>4. fresh + 1 \notin Members(sent)
    BY <1>t, MembersType
  <2>5. SentAgain'
    BY <1>r, <2>1, <2>2, <2>4 DEF SentAgain
  <2> QED
    BY <1>s, <2>1, <2>3, <2>5 DEF RepInv
<1>2. ASSUME UNCHANGED <<items, index, sent, unsure>> PROVE RepInv'
  BY <1>2, <1>r DEF RepInv, RepeatsHaveCause, QueuedOnce, SentAgain
<1>3. ASSUME NEW p \in Proc, FlushNothing(p) PROVE RepInv'
  BY <1>2, <1>3 DEF FlushNothing
<1>4. ASSUME NEW p \in Proc, BeginFlush(p) PROVE RepInv'
  BY <1>2, <1>4, <1>t DEF BeginFlush
<1>5. ASSUME NEW p \in Proc, NEW c \in FlushingCall \cup DroppingCall, Start(p, c) PROVE RepInv'
  BY <1>2, <1>5 DEF Start
<1>6. ASSUME NEW p \in Proc, Drop(p) \/ EndFlush(p) PROVE RepInv'
  <2>1. items' = <<>> /\ UNCHANGED <<sent, unsure>>
    BY <1>6 DEF Drop, EndFlush
  <2> QED
    BY <1>s, <1>e, <2>1 DEF RepInv
<1>7. ASSUME NEW p \in Proc, Running(p)
      PROVE  /\ index + 1 \in DOMAIN items /\ index + 1 > index /\ Current \in 1..fresh
             /\ (Current \in Members(sent) => Current \in unsure)
  <2>1. index + 1 \in DOMAIN items /\ index + 1 > index
    BY <1>7, <1>t DEF Running
  <2> QED
    BY <1>r, <1>t, <2>1 DEF Current, SentAgain
<1>8. ASSUME NEW p \in Proc, ExecItem(p) PROVE RepInv'
  <2>1. /\ sent' = Append(sent, Current) /\ index' = index + 1 /\ UNCHANGED <<items, unsure>>
        /\ Running(p)
    BY <1>8 DEF ExecItem
  <2>2. RepeatsHaveCause'
    BY <1>7, <1>r, <2>1, SentOnceMore
  <2>3. Members(sent') = Members(sent) \cup {Current}
    BY <2>1, SentGrows
  <2>4. QueuedOnce'
    BY <1>r, <2>1 DEF QueuedOnce
  <2>5. SentAgain'
    <3> SUFFICES ASSUME NEW k \in DOMAIN items, k > index + 1, items[k] \in Members(sent')
                 PROVE  items[k] \in unsure
      BY <2>1 DEF SentAgain
    <3>1. k \in Nat /\ index \in Nat /\ k > index /\ k # index + 1
      BY <1>t
    <3>2. items[k] # Current
      BY <1>7, <1>r, <2>1, <3>1 DEF QueuedOnce, Current
    <3> QED
      BY <1>r, <2>3, <3>1, <3>2 DEF SentAgain
  <2> QED
    BY <2>2, <2>4, <2>5 DEF RepInv
<1>9. ASSUME NEW p \in Proc, ItemFails(p) PROVE RepInv'
  <2>1. items' = Rest /\ index' = 0 /\ UNCHANGED <<sent, unsure>>
    BY <1>9 DEF ItemFails, Abandon, Rest
  <2> QED
    BY <1>r, <1>s, <2>1, RestHasCause DEF RepInv
<1>10. ASSUME NEW p \in Proc, ItemFailsLate(p) PROVE RepInv'
  <2>1. /\ items' = Rest /\ index' = 0 /\ sent' = Append(sent, Current)
        /\ unsure' = unsure \cup {Current} /\ Running(p)
    BY <1>10 DEF ItemFailsLate, Abandon, Rest
  <2>2. RepeatsHaveCause'
    BY <1>7, <1>r, <2>1, SentOnceMore
  <2>3. Members(sent') = Members(sent) \cup {Current}
    BY <2>1, SentGrows
  <2> QED
    BY <1>r, <2>1, <2>2, <2>3, RestHasCause DEF RepInv
<1>11. ASSUME NEW p \in Proc, ItemPanics(p) PROVE RepInv'
  <2>1. /\ index' = 0 /\ UNCHANGED <<items, sent>>
        /\ unsure' = unsure \cup Members(SubSeq(items, 1, index))
    BY <1>11, Zenon DEF ItemPanics, Abandon
  <2>2. RepeatsHaveCause'
    BY <1>r, <2>1, Zenon DEF RepeatsHaveCause
  <2>3. QueuedOnce'
    BY <1>r, <2>1 DEF QueuedOnce
  <2>4. \A k \in 1..index : items[k] \in Members(SubSeq(items, 1, index))
    <3> DEFINE done == SubSeq(items, 1, index)
    <3>1. done \in Seq(1..fresh) /\ Len(done) = index /\ \A k \in 1..index : done[k] = items[k]
      BY <1>t, StartOfSeq
    <3> HIDE DEF done
    <3>2. DOMAIN done = 1..index
      BY <3>1
    <3>3. \A k \in 1..index : items[k] \in Members(done)
      BY <3>1, <3>2, InMembers
    <3> QED
      BY <3>3 DEF done
  <2>5. \A k \in DOMAIN items : k \in 1..index \/ k > index
    BY <1>t
  <2>6. SentAgain'
    <3> SUFFICES ASSUME NEW k \in DOMAIN items, items[k] \in Members(sent)
                 PROVE  items[k] \in unsure'
      BY <2>1, Zenon DEF SentAgain
    <3> QED
      BY <1>r, <2>1, <2>4, <2>5, Zenon DEF SentAgain
  <2> QED
    BY <2>2, <2>3, <2>6 DEF RepInv
<1>12. ASSUME NEW p \in Proc, Delegate(p) PROVE RepInv'
  BY <1>2, <1>12 DEF Delegate, Query, Commit, Rollback, Return
<1>13. CASE UNCHANGED vars
  BY <1>2, <1>13 DEF vars
<1> QED
  BY <1>1, <1>3, <1>4, <1>5, <1>6, <1>8, <1>9, <1>10, <1>11, <1>12, <1>13
     DEF Next, Step, FlushSteps

(* No write runs twice unless the flush that ran it first reported failure *)
(* or panicked, however many goroutines flush (batch.go:184-202).          *)
THEOREM RepeatsAreCaused == Spec => []RepeatsHaveCause
<1>1. Init => RepInv
  BY InMembers DEF Init, RepInv, RepeatsHaveCause, QueuedOnce, SentAgain
<1>2. IInv => TypeOK
  BY DEF IInv
<1>3. RepInv => RepeatsHaveCause
  BY DEF RepInv
<1> QED
  BY <1>1, <1>2, <1>3, RepStep, Invariant, PTL DEF Spec

----------------------------------------------------------------------------
(* What the abstract queue is after each kind of step.                     *)
LEMMA WholeSeq == ASSUME NEW S, NEW s \in Seq(S) PROVE SubSeq(s, 1, Len(s)) = s
OBVIOUS

LEMMA EmptyRest == ASSUME NEW S, NEW s \in Seq(S) PROVE SubSeq(s, Len(s) + 1, Len(s)) = <<>>
OBVIOUS

LEMMA RestAfterOne ==
    ASSUME NEW S, NEW s \in Seq(S), NEW i \in Nat, i < Len(s)
    PROVE  LET r == SubSeq(s, i + 1, Len(s)) IN
           /\ r # <<>> /\ Head(r) = s[i + 1]
           /\ SubSeq(s, (i + 1) + 1, Len(s)) = Tail(r)
<1> DEFINE r == SubSeq(s, i + 1, Len(s))
           t == SubSeq(s, (i + 1) + 1, Len(s))
<1>1. /\ r \in Seq(S) /\ Len(r) = Len(s) - i
      /\ \A k \in 1..(Len(s) - i) : r[k] = s[k + i]
  BY RestOfSeq
<1>2. /\ t \in Seq(S) /\ Len(t) = Len(s) - (i + 1)
      /\ \A k \in 1..(Len(s) - (i + 1)) : t[k] = s[k + (i + 1)]
  <2>1. i + 1 \in 0..Len(s)
    OBVIOUS
  <2> QED
    BY <2>1, RestOfSeq
<1> HIDE DEF r, t
<1>3. r # <<>> /\ Head(r) = s[i + 1]
  BY <1>1
<1>4. Tail(r) \in Seq(S) /\ Len(Tail(r)) = Len(t)
  BY <1>1, <1>2, <1>3
<1>5. \A k \in 1..Len(t) : Tail(r)[k] = t[k]
  BY <1>1, <1>2, <1>3
<1>6. Tail(r) = t
  BY <1>2, <1>4, <1>5, SeqEqual
<1> QED
  BY <1>3, <1>6 DEF r, t

(* What the running flush has executed are the last writes sent: these are *)
(* what a panic lets come back.                                            *)
LastSent ==
    index <= Len(sent) /\ \A k \in 1..index : items[k] = sent[Len(sent) - index + k]

LEMMA LastSentStep == TypeOK /\ LastSent /\ [Next]_vars => LastSent'
<1> SUFFICES ASSUME TypeOK, LastSent, [Next]_vars PROVE LastSent'
  OBVIOUS
<1>t. /\ items \in Seq(1..fresh) /\ sent \in Seq(1..fresh) /\ index \in 0..Len(items)
      /\ (holder = Free => index = 0) /\ TypeOK'
  BY TypeStep DEF TypeOK
<1>1. ASSUME index' = 0 PROVE LastSent'
  BY <1>1, <1>t DEF LastSent, TypeOK
<1>2. ASSUME UNCHANGED <<items, sent, index>> PROVE LastSent'
  BY <1>2 DEF LastSent
<1>3. ASSUME NEW p \in Proc, Enqueue(p) \/ Drop(p) \/ FlushNothing(p) PROVE index' = 0
  BY <1>3, <1>t DEF Enqueue, Drop, FlushNothing
<1>4. ASSUME NEW p \in Proc, BeginFlush(p) \/ EndFlush(p) \/ ItemFails(p) \/ ItemFailsLate(p)
             \/ ItemPanics(p)
      PROVE  index' = 0
  BY <1>4 DEF BeginFlush, EndFlush, ItemFails, ItemFailsLate, ItemPanics, Abandon
<1>5. ASSUME NEW p \in Proc, ExecItem(p) PROVE LastSent'
  <2>1. /\ items' = items /\ index' = index + 1 /\ index \in Nat
        /\ sent' = Append(sent, items[index + 1])
    BY <1>5, <1>t DEF ExecItem, Running, Current
  <2>2. /\ Len(sent') = Len(sent) + 1 /\ sent'[Len(sent) + 1] = items[index + 1]
        /\ \A j \in 1..Len(sent) : sent'[j] = sent[j]
    BY <1>t, <2>1
  <2>3. index' <= Len(sent')
    BY <1>t, <2>1, <2>2 DEF LastSent
  <2>4. ASSUME NEW k \in 1..index' PROVE items'[k] = sent'[Len(sent') - index' + k]
    <3>1. Len(sent') - index' + k = Len(sent) - index + k
      BY <1>t, <2>1, <2>2
    <3>2. CASE k = index + 1
      BY <1>t, <2>1, <2>2, <3>1, <3>2
    <3>3. CASE k \in 1..index
      <4>1. Len(sent) - index + k \in 1..Len(sent)
        BY <1>t, <2>1, <3>3 DEF LastSent
      <4>2. sent'[Len(sent) - index + k] = sent[Len(sent) - index + k]
        BY <2>2, <4>1
      <4> QED
        BY <2>1, <3>1, <3>3, <4>2 DEF LastSent
    <3>4. k = index + 1 \/ k \in 1..index
      BY <2>1
    <3> QED
      BY <3>2, <3>3, <3>4
  <2> QED
    BY <2>3, <2>4 DEF LastSent
<1>6. ASSUME NEW p \in Proc, Delegate(p) PROVE UNCHANGED <<items, sent, index>>
  BY <1>6 DEF Delegate, Query, Commit, Rollback, Return
<1>7. ASSUME NEW p \in Proc, NEW c \in FlushingCall \cup DroppingCall, Start(p, c)
      PROVE  UNCHANGED <<items, sent, index>>
  BY <1>7 DEF Start
<1>8. CASE UNCHANGED vars
  BY <1>2, <1>8 DEF vars
<1> QED
  BY <1>1, <1>2, <1>3, <1>4, <1>5, <1>6, <1>7, <1>8 DEF Next, Step, FlushSteps

LEMMA StartAndRest ==
    ASSUME NEW S, NEW s \in Seq(S), NEW t \in Seq(S), NEW n \in 1..Len(t), n <= Len(s),
           \A k \in 1..n : s[k] = t[Len(t) - n + k]
    PROVE  s = SubSeq(t, Len(t) - n + 1, Len(t)) \o SubSeq(s, n + 1, Len(s))
<1> DEFINE last == SubSeq(t, Len(t) - n + 1, Len(t))
           rest == SubSeq(s, n + 1, Len(s))
<1>1. /\ last \in Seq(S) /\ Len(last) = n
      /\ \A k \in 1..n : last[k] = t[k + (Len(t) - n)]
  <2>1. Len(t) - n \in 0..Len(t) /\ Len(t) - (Len(t) - n) = n
    OBVIOUS
  <2> QED
    BY <2>1, RestOfSeq
<1>2. /\ rest \in Seq(S) /\ Len(rest) = Len(s) - n
      /\ \A k \in 1..(Len(s) - n) : rest[k] = s[k + n]
  <2>1. n \in 0..Len(s)
    OBVIOUS
  <2> QED
    BY <2>1, RestOfSeq
<1> HIDE DEF last, rest
<1>3. last \o rest \in Seq(S) /\ Len(last \o rest) = Len(s)
  BY <1>1, <1>2
<1>4. ASSUME NEW k \in 1..Len(s) PROVE (last \o rest)[k] = s[k]
  <2>1. CASE k <= n
    BY <1>1, <1>2, <2>1
  <2>2. CASE k > n
    <3>1. (last \o rest)[k] = rest[k - n]
      BY <1>1, <1>2, <2>2
    <3>2. k - n \in 1..(Len(s) - n) /\ (k - n) + n = k
      BY <2>2
    <3> QED
      BY <1>2, <3>1, <3>2
  <2>3. k <= n \/ k > n
    OBVIOUS
  <2> QED
    BY <2>1, <2>2, <2>3
<1> QED
  BY <1>3, <1>4, SeqEqual DEF last, rest

(* The session is a WriteQueue, whatever fails or panics (batch.go:171-204).*)
THEOREM SessionIsAQueue == Spec => ImplementsQueue
<1> USE DEF Rest
<1>1. Init => Contract!Init
  BY DEF Init, Contract!Init
<1>2. ASSUME IInv, LastSent, [Next]_vars PROVE [Contract!Next]_(Contract!vars)
  <2>t. /\ items \in Seq(1..fresh) /\ sent \in Seq(1..fresh) /\ index \in 0..Len(items) /\ fresh \in Nat
        /\ (holder = Free => index = 0)
    BY <1>2 DEF IInv, TypeOK
  <2> DEFINE Same == UNCHANGED <<fresh, Rest, sent>>
  <2>0. ASSUME Same PROVE UNCHANGED Contract!vars
    BY <2>0, Zenon DEF Contract!vars
  <2>1. ASSUME NEW p \in Proc, Enqueue(p) PROVE Contract!Queue
    <3>1. index = 0 /\ index' = 0 /\ items' = Append(items, fresh + 1)
      BY <2>1, <2>t DEF Enqueue
    <3>2. Rest = items
      BY <2>t, <3>1, WholeSeq
    <3>3. Append(items, fresh + 1) \in Seq(1..(fresh + 1))
      BY <2>t, SeqOfMore
    <3>4. Rest' = Append(items, fresh + 1)
      BY <3>1, <3>3, WholeSeq
    <3> QED
      BY <2>1, <3>2, <3>4 DEF Contract!Queue, Enqueue
  <2>2. ASSUME NEW p \in Proc, Drop(p) PROVE Contract!GiveUp
    <3>1. items' = <<>> /\ index' = 0 /\ fresh' = fresh /\ sent' = sent
      BY <2>2, <2>t DEF Drop
    <3>2. Rest' = <<>>
      BY <3>1, EmptyRest
    <3> QED
      BY <3>1, <3>2 DEF Contract!GiveUp
  <2>3. ASSUME NEW p \in Proc, FlushNothing(p) \/ BeginFlush(p) PROVE Same
    BY <2>3, <2>t DEF FlushNothing, BeginFlush
  <2>4. ASSUME NEW p \in Proc, ExecItem(p) PROVE Contract!Send
    <3>1. /\ items' = items /\ index' = index + 1 /\ fresh' = fresh
          /\ index \in Nat /\ index < Len(items)
          /\ sent' = Append(sent, items[index + 1])
      BY <2>4, <2>t DEF ExecItem, Running, Current
    <3>2. Rest # <<>> /\ Head(Rest) = items[index + 1] /\ Rest' = Tail(Rest)
      BY <2>t, <3>1, RestAfterOne
    <3> QED
      BY <3>1, <3>2 DEF Contract!Send
  <2>5. ASSUME items' = Rest, index' = 0 PROVE Rest' = Rest
    <3>1. Rest \in Seq(1..fresh)
      BY <2>t, RestOfSeq
    <3>2. SubSeq(Rest, 1, Len(Rest)) = Rest
      BY <3>1, WholeSeq
    <3>3. index' + 1 = 1
      BY <2>5
    <3>4. Rest' = SubSeq(items', 1, Len(items'))
      BY <3>3, Zenon
    <3> HIDE DEF Rest
    <3> QED
      BY <2>5, <3>2, <3>4, Zenon
  <2>6. ASSUME NEW p \in Proc, ItemFails(p) PROVE Same
    BY <2>5, <2>6 DEF ItemFails, Abandon
  <2>7. ASSUME NEW p \in Proc, ItemFailsLate(p) PROVE Contract!SendUnsure
    <3>1. /\ index \in Nat /\ index < Len(items) /\ fresh' = fresh
          /\ sent' = Append(sent, items[index + 1])
      BY <2>7, <2>t DEF ItemFailsLate, Running, Current
    <3>2. Rest # <<>> /\ Head(Rest) = items[index + 1]
      BY <2>t, <3>1, RestAfterOne
    <3>3. Rest' = Rest
      BY <2>5, <2>7 DEF ItemFailsLate, Abandon
    <3> QED
      BY <3>1, <3>2, <3>3 DEF Contract!SendUnsure
  <2>8. ASSUME NEW p \in Proc, ItemPanics(p) PROVE Same \/ Contract!ComeBack
    <3>1. items' = items /\ index' = 0 /\ fresh' = fresh /\ sent' = sent
      BY <2>8 DEF ItemPanics, Abandon
    <3>2. Rest' = items
      BY <2>t, <3>1, WholeSeq
    <3>3. CASE index = 0
      BY <2>t, <3>1, <3>2, <3>3, WholeSeq
    <3>4. CASE index # 0
      <4>1. index \in 1..Len(sent) /\ index <= Len(items)
        BY <1>2, <2>t, <3>4 DEF LastSent
      <4>2. items = SubSeq(sent, Len(sent) - index + 1, Len(sent)) \o Rest
        BY <1>2, <2>t, <4>1, StartAndRest DEF LastSent
      <4> QED
        BY <3>1, <3>2, <4>1, <4>2 DEF Contract!ComeBack
    <3> QED
      BY <3>3, <3>4
  <2>9. ASSUME NEW p \in Proc, EndFlush(p) PROVE Same
    <3>1. items' = <<>> /\ index' = 0 /\ fresh' = fresh /\ sent' = sent /\ index = Len(items)
      BY <2>9, <2>t DEF EndFlush
    <3>2. Rest' = <<>> /\ Rest = <<>>
      BY <2>t, <3>1, EmptyRest
    <3>3. Rest' = Rest
      BY <3>2, Zenon
    <3> QED
      BY <3>1, <3>3, Zenon
  <2>10. ASSUME NEW p \in Proc, Delegate(p) PROVE Same
    BY <2>10 DEF Delegate, Query, Commit, Rollback, Return
  <2>11. ASSUME NEW p \in Proc, NEW c \in FlushingCall \cup DroppingCall, Start(p, c) PROVE Same
    BY <2>11 DEF Start
  <2>12. CASE UNCHANGED vars
    BY <2>0, <2>12 DEF vars
  <2> QED
    BY <1>2, <2>0, <2>1, <2>2, <2>3, <2>4, <2>6, <2>7, <2>8, <2>9, <2>10, <2>11, <2>12
       DEF Next, Step, FlushSteps, Contract!Next
<1>3. Init => LastSent
  BY DEF Init, LastSent
<1>4. IInv => TypeOK
  BY DEF IInv
<1>5. Spec => []LastSent
  BY <1>3, <1>4, LastSentStep, Invariant, PTL DEF Spec
<1> QED
  BY <1>1, <1>2, <1>5, Invariant, PTL DEF Spec, ImplementsQueue, Contract!Spec
===========================================================================
