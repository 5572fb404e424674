---------------------------- MODULE WriteQueue ----------------------------
(***************************************************************************)
(* What a batch session promises of the writes given to it: a queue whose  *)
(* head is sent to the database and leaves the queue, in order.  A send    *)
(* whose outcome is unsure leaves the head where it is, so the next send   *)
(* repeats it; the last writes sent may come back to the head, in order,   *)
(* when the sender did not live to take note of them; nothing but the head *)
(* is ever sent, nothing is skipped, and only the whole rest of the queue  *)
(* can be given up.                                                        *)
(***************************************************************************)
EXTENDS Naturals, Sequences

VARIABLES
    fresh,   \* how many writes were queued; they are numbered 1, 2, ...
    todo,    \* the writes still to be sent
    sent     \* the writes the database executed, in its order

vars == <<fresh, todo, sent>>

Init == fresh = 0 /\ todo = <<>> /\ sent = <<>>

Queue ==
    /\ fresh' = fresh + 1
    /\ todo' = Append(todo, fresh + 1)
    /\ UNCHANGED sent

Send ==
    /\ todo # <<>>
    /\ todo' = Tail(todo)
    /\ sent' = Append(sent, Head(todo))
    /\ UNCHANGED fresh

SendUnsure ==
    /\ todo # <<>>
    /\ sent' = Append(sent, Head(todo))
    /\ UNCHANGED <<fresh, todo>>

ComeBack ==
    /\ \E n \in 1..Len(sent) : todo' = SubSeq(sent, Len(sent) - n + 1, Len(sent)) \o todo
    /\ UNCHANGED <<fresh, sent>>

GiveUp ==
    /\ todo' = <<>>
    /\ UNCHANGED <<fresh, sent>>

Next == Queue \/ Send \/ SendUnsure \/ ComeBack \/ GiveUp

Spec == Init /\ [][Next]_vars
===========================================================================
