----------------------- MODULE BlockingCacheContract -----------------------
(***************************************************************************)
(* BlockingCache with its answers made visible: the same steps, and a      *)
(* history variable that records the last answer.  It shows that the       *)
(* decorator keeps the contract of the Cache it decorates.                 *)
(***************************************************************************)
EXTENDS BlockingCache

VARIABLE reply     \* the last answer the cache gave

Answer(op, ks, value) == reply' = [op |-> op, keys |-> ks, value |-> value]

InitA == Init /\ reply = [op |-> "none", keys |-> {}, value |-> Nothing]

(* The steps in which a Get is answered. *)
AnswerGet(p) ==
    \/ (LookupFails(p) \/ AbandonWait(p)) /\ Answer("error", arg[p], Nothing)
    \/ LookupHits(p) /\ \E k \in arg[p] : Answer("get", arg[p], store[k])
    \/ (PlainMiss(p) \/ BeginFlight(p)) /\ Answer("get", arg[p], Nothing)

(* A change is answered with what the delegate answered, once its step is  *)
(* taken; the release of the flights that follows adds nothing to it.      *)
AnswerChange(p, op, ks, value) ==
    IF p \in done THEN Answer("error", ks, Nothing) ELSE Answer(op, ks, value)

CallChange(p) ==
    \/ \E k \in Key :
          \/ \E v \in Value : Put(p, k, v) /\ AnswerChange(p, "put", {k}, v)
          \/ Remove(p, k) /\ AnswerChange(p, "remove", {k}, Nothing)
    \/ \E n \in Namespace : Clear(p, n) /\ AnswerChange(p, "clear", KeysOf(n), Nothing)

Unanswered ==
    \/ \E p \in Proc :
          \/ LookupMisses(p) \/ JoinFlight(p) \/ Wake(p) \/ Release(p)
          \/ Cancel(p) \/ Renew(p)
          \/ \E k \in Key : Get(p, k) \/ ReleaseMiss(p, k)
    \/ \E k \in Key : Lose(k)

NextA ==
    \/ \E p \in Proc : AnswerGet(p) \/ CallChange(p)
    \/ Unanswered /\ UNCHANGED reply

SpecA == InitA /\ [][NextA]_<<vars, reply>>
FairSpecA == SpecA /\ \A p \in Proc : WF_vars(Step(p))

Contract == INSTANCE CacheContract

(* The decorator is itself a Cache: what it answers, under every           *)
(* interleaving of its two mutexes, is what the contract of the SPI allows *)
(* of the delegate's content.                                              *)
ImplementsContract == Contract!Spec
=============================================================================
