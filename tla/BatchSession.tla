--------------------------- MODULE BatchSession ---------------------------
(***************************************************************************)
(* BatchSession (internal/runtime/batch.go): a session that queues writes  *)
(* and sends them, in order, on Flush; reads, calls, cursors, pages and a  *)
(* commit flush first.                                                     *)
(*                                                                         *)
(* Writes are numbered in the order they were queued.  One mutex guards    *)
(* the queue; Flush holds it while its statements run, so a flush takes    *)
(* many steps, and what follows it (the read, the commit, the rollback of  *)
(* the delegate) runs after the mutex is released: other goroutines may    *)
(* queue and flush in between.                                             *)
(*                                                                         *)
(* The delegate is a TxSession or an auto-commit SQLSession.  An execution *)
(* may fail before the database ran it, or after: the answer is lost, the  *)
(* cache flush, RowsAffected or the select key that follow it fail         *)
(* (executor.go:227-250).                                                  *)
(***************************************************************************)
EXTENDS Naturals, Sequences

CONSTANTS
    Proc,            \* goroutines sharing the session
    Free,            \* the mutex is not held
    Transactional,   \* the delegate is a TxSession
    MaxItems,        \* bound: writes queued in a behaviour
    MaxFailures      \* bound: failures after which a write may be repeated

ASSUME FreeIsNoProc == Free \notin Proc
ASSUME SwitchIsBoolean == Transactional \in BOOLEAN
ASSUME BoundsAreNat == MaxItems \in Nat /\ MaxFailures \in Nat

VARIABLES
    items,      \* the queue
    holder,     \* who holds the mutex across steps: a running flush
    pc,         \* what each goroutine is at
    call,       \* the call it is making
    index,      \* how many writes of the queue the running flush has executed
    sent,       \* the writes the database executed, in its order
    tx,         \* the delegate's transaction
    fresh,      \* history: how many writes were queued
    need,       \* history: how many were queued when the goroutine's call began
    dropped,    \* history: the writes Clear, Rollback or Close threw away
    unsure,     \* history: the writes that ran though their flush reported failure
    failures    \* history: how many flushes failed so

vars == <<items, holder, pc, call, index, sent, tx, fresh, need, dropped, unsure, failures>>

Seqs == INSTANCE SequencesExt
Members(s) == Seqs!ToSet(s)

Init ==
    /\ items = <<>> /\ holder = Free /\ index = 0
    /\ pc = [p \in Proc |-> "idle"]
    /\ call = [p \in Proc |-> "none"]
    /\ sent = <<>> /\ tx = "open"
    /\ fresh = 0 /\ need = [p \in Proc |-> 0]
    /\ dropped = {} /\ unsure = {} /\ failures = 0

----------------------------------------------------------------------------
(* Mutants of Enqueue: the write goes to the head; it is appended without  *)
(* the mutex and overwritten by the end of the running flush.              *)
EnqueueFirst(p) ==
    /\ pc[p] = "idle" /\ holder = Free /\ fresh < MaxItems
    /\ fresh' = fresh + 1
    /\ items' = <<fresh + 1>> \o items
    /\ UNCHANGED <<holder, pc, call, index, sent, tx, need, dropped, unsure, failures>>

EnqueueUnlocked(p) ==
    /\ pc[p] = "idle" /\ fresh < MaxItems
    /\ fresh' = fresh + 1
    /\ items' = IF holder = Free THEN Append(items, fresh + 1) ELSE items
    /\ UNCHANGED <<holder, pc, call, index, sent, tx, need, dropped, unsure, failures>>

(* Exec and ExecStatement: a write is queued as soon as the mutex is free. *)
Enqueue(p) ==
    /\ pc[p] = "idle" /\ holder = Free /\ fresh < MaxItems
    /\ fresh' = fresh + 1
    /\ items' = Append(items, fresh + 1)
    /\ UNCHANGED <<holder, pc, call, index, sent, tx, need, dropped, unsure, failures>>

FlushingCall == {"flush", "query", "commit"}
DroppingCall == {"clear", "rollback", "close"}

(* A call begins, and waits for the mutex. *)
Start(p, c) ==
    /\ pc[p] = "idle"
    /\ call' = [call EXCEPT ![p] = c]
    /\ pc' = [pc EXCEPT ![p] = "lock"]
    /\ need' = [need EXCEPT ![p] = fresh]
    /\ UNCHANGED <<items, holder, index, sent, tx, fresh, dropped, unsure, failures>>

GoIdle(p) ==
    /\ pc' = [pc EXCEPT ![p] = "idle"]
    /\ call' = [call EXCEPT ![p] = "none"]
    /\ need' = [need EXCEPT ![p] = 0]

(* Where a call goes when its use of the queue is over. *)
AfterQueue(p) ==
    \/ call[p] \in {"flush", "clear"} /\ GoIdle(p)
    \/ /\ call[p] \notin {"flush", "clear"}
       /\ pc' = [pc EXCEPT ![p] = "delegate"]
       /\ UNCHANGED <<call, need>>

Drop(p) ==
    /\ pc[p] = "lock" /\ call[p] \in DroppingCall /\ holder = Free
    /\ dropped' = dropped \cup Members(items)
    /\ items' = <<>>
    /\ AfterQueue(p)
    /\ UNCHANGED <<holder, index, sent, tx, fresh, unsure, failures>>

FlushNothing(p) ==
    /\ pc[p] = "lock" /\ call[p] \in FlushingCall /\ holder = Free
    /\ items = <<>>
    /\ AfterQueue(p)
    /\ UNCHANGED <<items, holder, index, sent, tx, fresh, dropped, unsure, failures>>

BeginFlush(p) ==
    /\ pc[p] = "lock" /\ call[p] \in FlushingCall /\ holder = Free
    /\ items # <<>>
    /\ holder' = p /\ index' = 0
    /\ pc' = [pc EXCEPT ![p] = "flush"]
    /\ UNCHANGED <<items, call, sent, tx, fresh, need, dropped, unsure, failures>>

Running(p) == pc[p] = "flush" /\ index < Len(items)
Current == items[index + 1]

ExecItem(p) ==
    /\ Running(p) /\ tx = "open"
    /\ sent' = Append(sent, Current)
    /\ index' = index + 1
    /\ UNCHANGED <<items, holder, pc, call, tx, fresh, need, dropped, unsure, failures>>

(* The flush stops and reports an error; the call it was part of returns. *)
Abandon(p) ==
    /\ holder' = Free /\ index' = 0
    /\ GoIdle(p)

(* Mutants of ItemFails: the executed writes stay queued; the mutex stays  *)
(* held; the call goes on to its delegate.                                 *)
ItemFailsKeeps(p) ==
    /\ Running(p)
    /\ Abandon(p)
    /\ UNCHANGED <<items, sent, tx, fresh, dropped, unsure, failures>>

ItemFailsLocked(p) ==
    /\ Running(p)
    /\ items' = SubSeq(items, index + 1, Len(items))
    /\ GoIdle(p)
    /\ UNCHANGED <<holder, index, sent, tx, fresh, dropped, unsure, failures>>

ItemFailsProceeds(p) ==
    /\ Running(p)
    /\ items' = SubSeq(items, index + 1, Len(items))
    /\ holder' = Free /\ index' = 0
    /\ AfterQueue(p)
    /\ UNCHANGED <<sent, tx, fresh, dropped, unsure, failures>>

(* An error: the executed writes leave the queue, the failed one stays at  *)
(* its head, a completed transaction among the causes.                     *)
ItemFails(p) ==
    /\ Running(p)
    /\ items' = SubSeq(items, index + 1, Len(items))
    /\ Abandon(p)
    /\ UNCHANGED <<sent, tx, fresh, dropped, unsure, failures>>

(* The same error, after the database has executed the statement. *)
ItemFailsLate(p) ==
    /\ Running(p) /\ tx = "open" /\ failures < MaxFailures
    /\ sent' = Append(sent, Current)
    /\ unsure' = unsure \cup {Current}
    /\ failures' = failures + 1
    /\ items' = SubSeq(items, index + 1, Len(items))
    /\ Abandon(p)
    /\ UNCHANGED <<tx, fresh, dropped>>

(* A panic unwinds Flush: the deferred Unlock runs, the assignment that    *)
(* removes what was executed does not.                                     *)
ItemPanics(p) ==
    /\ Running(p) /\ failures < MaxFailures
    /\ unsure' = unsure \cup Members(SubSeq(items, 1, index))
    /\ failures' = failures + 1
    /\ Abandon(p)
    /\ UNCHANGED <<items, sent, tx, fresh, dropped>>

EndFlush(p) ==
    /\ pc[p] = "flush" /\ index = Len(items)
    /\ items' = <<>> /\ holder' = Free /\ index' = 0
    /\ AfterQueue(p)
    /\ UNCHANGED <<sent, tx, fresh, dropped, unsure, failures>>

----------------------------------------------------------------------------
(* The delegate's part of a call, outside the mutex. *)
Return(p, t) ==
    /\ pc[p] = "delegate"
    /\ GoIdle(p)
    /\ tx' = t
    /\ UNCHANGED <<items, holder, index, sent, fresh, dropped, unsure, failures>>

Query(p) == call[p] = "query" /\ Return(p, tx)

(* Commit of an auto-commit session and of a completed transaction changes *)
(* nothing; COMMIT may fail, and then the transaction is over all the same.*)
Commit(p) ==
    /\ call[p] = "commit"
    /\ IF Transactional /\ tx = "open"
       THEN \E t \in {"committed", "failed"} : Return(p, t)
       ELSE Return(p, tx)

Rollback(p) ==
    /\ call[p] \in {"rollback", "close"}
    /\ Return(p, IF Transactional /\ tx = "open" THEN "rolledback" ELSE tx)

----------------------------------------------------------------------------
FlushSteps(p) ==
    \/ FlushNothing(p) \/ BeginFlush(p) \/ ExecItem(p) \/ ItemFails(p)
    \/ ItemFailsLate(p) \/ ItemPanics(p) \/ EndFlush(p)

Delegate(p) == Query(p) \/ Commit(p) \/ Rollback(p)

Step(p) == Drop(p) \/ FlushSteps(p) \/ Delegate(p)

Next ==
    \E p \in Proc :
        \/ Enqueue(p)
        \/ \E c \in FlushingCall \cup DroppingCall : Start(p, c)
        \/ Step(p)

Spec == Init /\ [][Next]_vars

(* The scheduler runs every goroutine, the database answers every          *)
(* statement, and Go's mutex hands over to a waiter that has starved.      *)
TakesMutex(p) == Drop(p) \/ FlushNothing(p) \/ BeginFlush(p)
FairSpec == Spec /\ \A p \in Proc : SF_vars(TakesMutex(p)) /\ WF_vars(Step(p))

----------------------------------------------------------------------------
(* The variables keep their types, and the mutex is held by exactly the    *)
(* goroutine whose flush is running (batch.go:178-179).                    *)
Calls == FlushingCall \cup DroppingCall \cup {"none"}
TypeOK ==
    /\ items \in Seq(1..fresh) /\ sent \in Seq(1..fresh)
    /\ holder \in Proc \cup {Free}
    /\ pc \in [Proc -> {"idle", "lock", "flush", "delegate"}]
    /\ call \in [Proc -> Calls]
    /\ index \in 0..Len(items)
    /\ tx \in {"open", "committed", "failed", "rolledback"}
    /\ fresh \in Nat /\ need \in [Proc -> 0..fresh]
    /\ dropped \subseteq 1..fresh /\ unsure \subseteq 1..fresh
    /\ failures \in Nat
    /\ \A p \in Proc : pc[p] = "flush" <=> holder = p
    /\ holder = Free => index = 0

(* A write whose Exec returned success is queued, executed or was thrown   *)
(* away by an explicit call: no failed, partial or panicking flush and no  *)
(* concurrent call loses it (batch.go:187, batch.go:202).                  *)
NothingLost == 1..fresh \subseteq Members(items) \cup Members(sent) \cup dropped

(* The database executes a write only when every write queued before it    *)
(* was executed or thrown away: retries and interleaved flushes do not     *)
(* reorder (batch.go:184-188).                                             *)
SendsInOrder ==
    [][sent' # sent =>
         1..(sent'[Len(sent')] - 1) \subseteq Members(sent) \cup dropped]_vars

(* A write is executed twice only if the flush that executed it first did  *)
(* not report its success: it reported an error or panicked (batch.go:187).*)
RepeatsHaveCause ==
    \A i, j \in DOMAIN sent : i # j /\ sent[i] = sent[j] => sent[i] \in unsure

(* When the delegate reads or commits, every write queued before the call  *)
(* began was executed or thrown away, whatever the other goroutines do     *)
(* between the flush and the delegate (batch.go:90-93, 246-252).           *)
FlushedFirst ==
    \A p \in Proc : pc[p] = "delegate" =>
        1..need[p] \subseteq Members(sent) \cup dropped

(* Every call on the session ends: no failing or panicking statement       *)
(* leaves the mutex held (batch.go:178-179).                               *)
CallEnds == \A p \in Proc : pc[p] # "idle" ~> pc[p] = "idle"

(* The session is a WriteQueue whose queue is what the running flush has   *)
(* not executed yet; a panic lets what it executed come back               *)
(* (batch.go:171-204).                                                     *)
Contract == INSTANCE WriteQueue WITH todo <- SubSeq(items, index + 1, Len(items))
ImplementsQueue == Contract!Spec

===========================================================================
