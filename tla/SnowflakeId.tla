---------------------------- MODULE SnowflakeId ----------------------------
(***************************************************************************)
(* DefaultIdentifierGenerator (internal/runtime/identifier_generator.go):  *)
(* the keys of ASSIGN_ID entities, made of the wall clock's millisecond, a *)
(* node number and a sequence number within the millisecond.               *)
(*                                                                         *)
(* NextID runs under the generator's mutex.  It is one step unless the     *)
(* sequence wraps: then it waits, still holding the mutex, until the clock *)
(* has passed the millisecond or its context is done.  Every session has a *)
(* generator of its own, with a random node (sqlsession.go:123), so two    *)
(* sessions may draw the same node.  The wall clock may be set back.       *)
(***************************************************************************)
EXTENDS Integers, Sequences

CONSTANTS
    Proc,        \* goroutines
    Gen,         \* generators
    GenOf,       \* the generator each goroutine uses
    Free,        \* the mutex is not held
    Nodes,       \* how many node numbers there are (2^10)
    SeqLimit,    \* how many sequence numbers a millisecond has (2^12)
    Epoch,       \* the millisecond the timestamp counts from
    MaxClock,    \* bound: the last millisecond the clock goes to by itself
    MaxBacks,    \* bound: how often the clock is set back
    MaxIds       \* bound: ids issued in a behaviour

ASSUME GenOfIsTyped == GenOf \in [Proc -> Gen]
ASSUME FreeIsNoProc == Free \notin Proc
ASSUME SizesAreNat ==
    /\ Nodes \in Nat \ {0} /\ SeqLimit \in Nat \ {0} /\ Epoch \in Nat
    /\ MaxClock \in Nat /\ MaxBacks \in Nat /\ MaxIds \in Nat

VARIABLES
    clock,        \* time.Now().UnixMilli()
    backs,        \* how often it was set back
    node,         \* the node each generator drew
    lastMillis,   \* of each generator
    sequence,     \* of each generator
    holder,       \* the goroutine that waits inside NextID, holding the mutex
    pc,           \* what each goroutine is at
    issued,       \* history: the ids, in the order they were returned
    cancelled     \* history: the <<generator, millisecond>> of given-up waits

vars == <<clock, backs, node, lastMillis, sequence, holder, pc, issued, cancelled>>

Init ==
    /\ clock \in 1..MaxClock /\ backs = 0
    /\ node \in [Gen -> 0..(Nodes - 1)]
    /\ lastMillis = [g \in Gen |-> 0]
    /\ sequence = [g \in Gen |-> 0]
    /\ holder = [g \in Gen |-> Free]
    /\ pc = [p \in Proc |-> "idle"]
    /\ issued = <<>> /\ cancelled = {}

----------------------------------------------------------------------------
(* Bound: past MaxClock the clock goes on only for a goroutine that waits. *)
Tick ==
    /\ clock < MaxClock \/ \E p \in Proc : pc[p] = "waiting" /\ clock <= lastMillis[GenOf[p]]
    /\ clock' = clock + 1
    /\ UNCHANGED <<backs, node, lastMillis, sequence, holder, pc, issued, cancelled>>

SetBack ==
    /\ backs < MaxBacks
    /\ \E t \in 1..(clock - 1) : clock' = t
    /\ backs' = backs + 1
    /\ UNCHANGED <<node, lastMillis, sequence, holder, pc, issued, cancelled>>

----------------------------------------------------------------------------
(* A clock before the epoch is used as it is. *)
Timestamp(now) == IF now - Epoch < 0 THEN now ELSE now - Epoch

Pack(now, n, s) == (Timestamp(now) * Nodes + n) * SeqLimit + s

Issue(p, now, s) ==
    LET g == GenOf[p] IN
    /\ lastMillis' = [lastMillis EXCEPT ![g] = now]
    /\ sequence' = [sequence EXCEPT ![g] = s]
    /\ issued' = Append(issued, [gen |-> g, at |-> now, seq |-> s, id |-> Pack(now, node[g], s)])
    /\ pc' = [pc EXCEPT ![p] = "idle"]

(* A clock that went back is taken to stand still (mutant: it is not). *)
RawNow(g) == clock
Now(g) == IF clock < lastMillis[g] THEN lastMillis[g] ELSE clock

(* Mutant: the mask is forgotten. *)
UnmaskedSequence(g) == sequence[g] + 1
NextSequence(g) == (sequence[g] + 1) % SeqLimit

Call(p) ==
    /\ pc[p] = "idle" /\ Len(issued) < MaxIds
    /\ pc' = [pc EXCEPT ![p] = "lock"]
    /\ UNCHANGED <<clock, backs, node, lastMillis, sequence, holder, issued, cancelled>>

Locks(p) == pc[p] = "lock" /\ holder[GenOf[p]] = Free

NewMillis(p) ==
    LET g == GenOf[p] IN
    /\ Locks(p) /\ Now(g) # lastMillis[g]
    /\ Issue(p, Now(g), 0)
    /\ UNCHANGED <<clock, backs, node, holder, cancelled>>

SameMillis(p) ==
    LET g == GenOf[p] IN
    /\ Locks(p) /\ Now(g) = lastMillis[g] /\ NextSequence(g) # 0
    /\ Issue(p, Now(g), NextSequence(g))
    /\ UNCHANGED <<clock, backs, node, holder, cancelled>>

(* The sequence has wrapped: wait for the next millisecond. *)
BeginWait(p) ==
    LET g == GenOf[p] IN
    /\ Locks(p) /\ Now(g) = lastMillis[g] /\ NextSequence(g) = 0
    /\ sequence' = [sequence EXCEPT ![g] = 0]
    /\ holder' = [holder EXCEPT ![g] = p]
    /\ pc' = [pc EXCEPT ![p] = "waiting"]
    /\ UNCHANGED <<clock, backs, node, lastMillis, issued, cancelled>>

EndWait(p) ==
    LET g == GenOf[p] IN
    /\ pc[p] = "waiting" /\ clock > lastMillis[g]
    /\ Issue(p, clock, 0)
    /\ holder' = [holder EXCEPT ![g] = Free]
    /\ UNCHANGED <<clock, backs, node, cancelled>>

(* Mutant: the error path forgets the mutex. *)
CancelWaitLocked(p) ==
    LET g == GenOf[p] IN
    /\ pc[p] = "waiting"
    /\ cancelled' = cancelled \cup {<<g, lastMillis[g]>>}
    /\ pc' = [pc EXCEPT ![p] = "idle"]
    /\ UNCHANGED <<clock, backs, node, lastMillis, sequence, holder, issued>>

(* The context is done: an error, and the sequence stays at zero. *)
CancelWait(p) ==
    LET g == GenOf[p] IN
    /\ pc[p] = "waiting"
    /\ cancelled' = cancelled \cup {<<g, lastMillis[g]>>}
    /\ holder' = [holder EXCEPT ![g] = Free]
    /\ pc' = [pc EXCEPT ![p] = "idle"]
    /\ UNCHANGED <<clock, backs, node, lastMillis, sequence, issued>>

NextID(p) == NewMillis(p) \/ SameMillis(p) \/ BeginWait(p)

Next ==
    \/ Tick \/ SetBack
    \/ \E p \in Proc : Call(p) \/ NextID(p) \/ EndWait(p) \/ CancelWait(p)

Spec == Init /\ [][Next]_vars

(* The clock goes on, the scheduler runs every goroutine, and the mutex    *)
(* hands over to a waiter that has starved.  Nothing makes contexts end.   *)
FairSpec ==
    /\ Spec /\ WF_vars(Tick)
    /\ \A p \in Proc : SF_vars(NextID(p)) /\ SF_vars(EndWait(p))

----------------------------------------------------------------------------
Entry == [gen : Gen, at : Nat, seq : 0..(SeqLimit - 1), id : Nat]

(* The variables keep their types, a sequence number fits its bits, and    *)
(* the mutex is held by exactly the goroutine that waits for the clock     *)
(* (identifier_generator.go:66-67).                                        *)
TypeOK ==
    /\ clock \in Nat /\ backs \in Nat
    /\ node \in [Gen -> 0..(Nodes - 1)]
    /\ lastMillis \in [Gen -> Nat]
    /\ sequence \in [Gen -> 0..(SeqLimit - 1)]
    /\ holder \in [Gen -> Proc \cup {Free}]
    /\ pc \in [Proc -> {"idle", "lock", "waiting"}]
    /\ issued \in Seq(Entry)
    /\ cancelled \subseteq Gen \X Nat
    /\ \A p \in Proc : pc[p] = "waiting" <=> holder[GenOf[p]] = p

(* The ids of one generator increase, whatever the clock does, except in a *)
(* millisecond in which a wait for the clock was given up, and except when *)
(* the clock crosses the epoch (identifier_generator.go:69-89).            *)
IdsIncrease ==
    \A i, j \in DOMAIN issued :
        i < j /\ issued[i].gen = issued[j].gen =>
            \/ issued[i].id < issued[j].id
            \/ <<issued[j].gen, issued[j].at>> \in cancelled
            \/ issued[i].at < Epoch /\ Epoch <= issued[j].at

(* Two generators issue the same id only if they drew the same node: no    *)
(* sequence number runs into the node's bits (identifier_generator.go:74,  *)
(* 90).                                                                    *)
NodesKeepApart ==
    \A i, j \in DOMAIN issued :
        issued[i].id = issued[j].id => node[issued[i].gen] = node[issued[j].gen]

(* A generator never issues an id twice: "the default primary key          *)
(* generator" (identifier_generator.go:35, 58).                            *)
UniqueIds ==
    \A i, j \in DOMAIN issued :
        i # j /\ issued[i].gen = issued[j].gen => issued[i].id # issued[j].id

(* Every NextID returns once the clock goes on, the ones queued behind a   *)
(* waiting one included (identifier_generator.go:169-182).                 *)
CallEnds == \A p \in Proc : pc[p] # "idle" ~> pc[p] = "idle"
===========================================================================
