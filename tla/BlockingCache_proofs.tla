----------------------- MODULE BlockingCache_proofs -----------------------
(***************************************************************************)
(* Proofs about BlockingCache and its answers, for any goroutines, keys,   *)
(* namespaces and channels and any order of their calls.                   *)
(***************************************************************************)
EXTENDS BlockingCacheContract, TLAPS

USE NothingIsNoValue, NoChanIsNoChan, NsOfTotal

(* A call has the arguments its stage needs, and only a waiting goroutine  *)
(* refers to a channel.                                                    *)
CallShape ==
    /\ \A p \in Proc : pc[p] \in {"lookup", "begin", "wait"} => \E k \in Key : arg[p] = {k}
    /\ \A p \in Proc : pc[p] # "wait" => chan[p] = NoChan

(* The inductive invariant: FlightTable and NoLostWakeup need each other,  *)
(* and both need that a fresh channel is one that nobody waits on.         *)
IInv == TypeOK /\ CallShape /\ FlightTable /\ NoLostWakeup

(* The initial state has no calls and no flights.                          *)
LEMMA InitIInv == Init => IInv
  BY DEF Init, IInv, TypeOK, CallShape, FlightTable, NoLostWakeup, Stage

(* Every step keeps the types of the variables.                            *)
LEMMA TypeStep == TypeOK /\ [Next]_vars => TypeOK'
<1> SUFFICES ASSUME TypeOK, [Next]_vars PROVE TypeOK'
  OBVIOUS
<1> USE DEF TypeOK, Stage, Goto, Return
<1>1. ASSUME NEW p \in Proc, Step(p) PROVE TypeOK'
  <2>1. CASE LookupFails(p)
    BY <2>1 DEF LookupFails
  <2>2. CASE LookupHits(p)
    BY <2>2 DEF LookupHits
  <2>3. CASE LookupMisses(p)
    BY <2>3 DEF LookupMisses
  <2>4. CASE BeginFlight(p)
    <3> DEFINE c == CHOOSE c \in Fresh : TRUE
    <3>1. c \in Chan
      BY <2>4 DEF BeginFlight, Fresh
    <3> QED
      BY <2>4, <3>1 DEF BeginFlight
  <2>5. CASE JoinFlight(p)
    BY <2>5 DEF JoinFlight
  <2>6. CASE Wake(p)
    BY <2>6 DEF Wake
  <2>7. CASE AbandonWait(p)
    BY <2>7 DEF AbandonWait
  <2>8. CASE Release(p)
    BY <2>8 DEF Release, Close
  <2>9. CASE PlainMiss(p)
    BY <2>9 DEF PlainMiss
  <2> QED
    BY <1>1, <2>1, <2>2, <2>3, <2>4, <2>5, <2>6, <2>7, <2>8, <2>9 DEF Step
<1>2. ASSUME NEW p \in Proc, Call(p) PROVE TypeOK'
  <2>1. CASE \E k \in Key : Get(p, k)
    BY <2>1 DEF Get
  <2>2. CASE \E k \in Key, v \in Value : Put(p, k, v)
    BY <2>2 DEF Put, Change
  <2>3. CASE \E k \in Key : Remove(p, k)
    BY <2>3 DEF Remove, Change
  <2>4. CASE \E n \in Namespace : Clear(p, n)
    BY <2>4 DEF Clear, Change, KeysOf
  <2>5. CASE \E k \in Key : ReleaseMiss(p, k)
    BY <2>5 DEF ReleaseMiss, Close
  <2> QED
    BY <1>2, <2>1, <2>2, <2>3, <2>4, <2>5 DEF Call
<1>3. ASSUME NEW p \in Proc, Cancel(p) \/ Renew(p) PROVE TypeOK'
  BY <1>3 DEF Cancel, Renew
<1>4. ASSUME NEW k \in Key, Lose(k) PROVE TypeOK'
  BY <1>4 DEF Lose
<1>5. CASE UNCHANGED vars
  BY <1>5 DEF vars
<1> QED
  BY <1>1, <1>2, <1>3, <1>4, <1>5 DEF Next

(* Closing the flights of some keys closes no other channel: what is open  *)
(* afterwards is what is left in the table.                                *)
LEMMA CloseKeepsTable ==
  ASSUME TypeOK, FlightTable, NEW ks \in SUBSET Key, Close(ks)
  PROVE  FlightTable'
  BY DEF TypeOK, FlightTable, Close

(* ... and a waiter whose channel is still open still finds its key there. *)
LEMMA CloseKeepsWaiters ==
  ASSUME TypeOK, FlightTable, NoLostWakeup, NEW ks \in SUBSET Key, Close(ks),
         NEW q \in Proc, pc'[q] = "wait" => pc[q] = "wait" /\ arg'[q] = arg[q],
         UNCHANGED chan
  PROVE  pc'[q] = "wait" =>
            /\ chan'[q] # NoChan
            /\ chan'[q] \in open' => \E k \in Key : arg'[q] = {k} /\ flights'[k] = chan'[q]
  BY DEF TypeOK, FlightTable, NoLostWakeup, Close

(* Every step keeps the shape of the calls.                                *)
LEMMA ShapeStep == IInv /\ [Next]_vars => CallShape'
<1> SUFFICES ASSUME IInv, [Next]_vars PROVE CallShape'
  OBVIOUS
<1> USE DEF IInv, TypeOK, CallShape, Stage, Goto, Return
<1>1. ASSUME NEW p \in Proc, Step(p) PROVE CallShape'
  BY <1>1 DEF Step, LookupFails, LookupHits, LookupMisses, PlainMiss, BeginFlight,
              JoinFlight, Wake, AbandonWait, Release
<1>2. ASSUME NEW p \in Proc, Call(p) PROVE CallShape'
  BY <1>2 DEF Call, Get, Put, Remove, Clear, Change, ReleaseMiss
<1>3. ASSUME NEW p \in Proc, Cancel(p) \/ Renew(p) PROVE CallShape'
  BY <1>3 DEF Cancel, Renew
<1>4. ASSUME NEW k \in Key, Lose(k) PROVE CallShape'
  BY <1>4 DEF Lose
<1>5. CASE UNCHANGED vars
  BY <1>5 DEF vars
<1> QED
  BY <1>1, <1>2, <1>3, <1>4, <1>5 DEF Next

(* Every step keeps the flight table and loses no wake-up.                 *)
LEMMA FlightStep == IInv /\ [Next]_vars => FlightTable' /\ NoLostWakeup'
<1> SUFFICES ASSUME IInv, [Next]_vars PROVE FlightTable' /\ NoLostWakeup'
  OBVIOUS
<1>t. TypeOK'
  BY TypeStep DEF IInv
<1>a. TypeOK /\ CallShape /\ FlightTable /\ NoLostWakeup
  BY DEF IInv
<1>1. ASSUME NEW p \in Proc, \/ LookupFails(p) \/ LookupHits(p) \/ LookupMisses(p)
                             \/ PlainMiss(p) \/ Wake(p) \/ AbandonWait(p)
      PROVE FlightTable' /\ NoLostWakeup'
  BY <1>1, <1>a DEF TypeOK, FlightTable, NoLostWakeup, Goto, Return,
       LookupFails, LookupHits, LookupMisses, PlainMiss, Wake, AbandonWait
<1>2. ASSUME NEW p \in Proc, BeginFlight(p) PROVE FlightTable' /\ NoLostWakeup'
  <2> DEFINE c == CHOOSE c \in Fresh : TRUE
  <2>1. c \in Chan \ open /\ \A q \in Proc : chan[q] # c
    BY <1>2 DEF BeginFlight, Fresh
  <2>2. PICK k \in arg[p] : /\ flights[k] = NoChan
                            /\ flights' = [flights EXCEPT ![k] = c]
                            /\ open' = open \cup {c}
    BY <1>2 DEF BeginFlight
  <2>3. k \in Key
    BY <1>a DEF TypeOK
  <2> HIDE DEF c
  <2>4. FlightTable'
    <3>1. \A j \in Key : flights'[j] = IF j = k THEN c ELSE flights[j]
      BY <1>a, <2>2, <2>3 DEF TypeOK
    <3>2. c # NoChan /\ \A j \in Key : flights[j] # c
      BY <1>a, <2>1 DEF FlightTable
    <3>3. open' = {flights'[j] : j \in Key} \ {NoChan}
      BY <1>a, <2>2, <2>3, <3>1, <3>2 DEF FlightTable
    <3>4. \A i, j \in Key : flights'[i] = flights'[j] /\ flights'[i] # NoChan => i = j
      BY <1>a, <3>1, <3>2 DEF FlightTable
    <3> QED
      BY <3>3, <3>4 DEF FlightTable
  <2>5. NoLostWakeup'
    BY <1>a, <1>2, <2>1, <2>2, <2>3 DEF TypeOK, FlightTable, NoLostWakeup, BeginFlight, Return, Goto
  <2> QED
    BY <2>4, <2>5
<1>3. ASSUME NEW p \in Proc, JoinFlight(p) PROVE FlightTable' /\ NoLostWakeup'
  <2>1. PICK k \in arg[p] : flights[k] # NoChan /\ chan' = [chan EXCEPT ![p] = flights[k]]
    BY <1>3 DEF JoinFlight
  <2>2. k \in Key /\ arg[p] = {k}
    BY <1>a, <1>3, <2>1 DEF TypeOK, CallShape, JoinFlight
  <2> QED
    BY <1>a, <1>3, <2>1, <2>2 DEF TypeOK, FlightTable, NoLostWakeup, JoinFlight, Goto
<1>4. ASSUME NEW p \in Proc, Release(p) PROVE FlightTable' /\ NoLostWakeup'
  <2>1. Close(arg[p]) /\ arg[p] \in SUBSET Key /\ UNCHANGED chan
    BY <1>4, <1>a DEF Release, TypeOK
  <2>2. \A q \in Proc : pc'[q] = "wait" => pc[q] = "wait" /\ arg'[q] = arg[q]
    BY <1>4, <1>a DEF Release, TypeOK, Return, Goto
  <2> QED
    BY <1>a, <2>1, <2>2, CloseKeepsTable, CloseKeepsWaiters DEF NoLostWakeup
<1>5. ASSUME NEW p \in Proc, NEW k \in Key, ReleaseMiss(p, k) PROVE FlightTable' /\ NoLostWakeup'
  <2>1. Close({k}) /\ {k} \in SUBSET Key /\ UNCHANGED <<pc, arg, chan>>
    BY <1>5 DEF ReleaseMiss
  <2> QED
    BY <1>a, <2>1, CloseKeepsTable, CloseKeepsWaiters DEF NoLostWakeup
<1>6. ASSUME NEW p \in Proc, \/ \E k \in Key : Get(p, k) \/ Remove(p, k) \/ \E v \in Value : Put(p, k, v)
                             \/ \E n \in Namespace : Clear(p, n)
      PROVE FlightTable' /\ NoLostWakeup'
  BY <1>6, <1>a DEF TypeOK, FlightTable, NoLostWakeup, Goto, Get, Put, Remove, Clear, Change
<1>7. CASE \/ \E p \in Proc : Cancel(p) \/ Renew(p)
           \/ \E k \in Key : Lose(k)
           \/ UNCHANGED vars
  BY <1>7, <1>a DEF FlightTable, NoLostWakeup, Cancel, Renew, Lose, vars
<1> QED
  BY <1>1, <1>2, <1>3, <1>4, <1>5, <1>6, <1>7 DEF Next, Step, Call

(* The inductive invariant holds in every reachable state.                 *)
LEMMA Invariance == Spec => []IInv
<1>1. IInv /\ [Next]_vars => IInv'
  BY TypeStep, ShapeStep, FlightStep DEF IInv
<1> QED
  BY InitIInv, <1>1, PTL DEF Spec

(* The variables of the cache keep their types, whoever calls what.        *)
THEOREM TypeCorrect == Spec => []TypeOK
<1>1. IInv => TypeOK
  BY DEF IInv
<1> QED
  BY Invariance, <1>1, PTL

(* No channel is closed twice and none is left open without a flight,      *)
(* for any number of goroutines, keys and channels.                        *)
THEOREM FlightTableCorrect == Spec => []FlightTable
<1>1. IInv => FlightTable
  BY DEF IInv
<1> QED
  BY Invariance, <1>1, PTL

(* A waiting Get never misses the release of its key.                      *)
THEOREM WakeupsAreNotLost == Spec => []NoLostWakeup
<1>1. IInv => NoLostWakeup
  BY DEF IInv
<1> QED
  BY Invariance, <1>1, PTL

-----------------------------------------------------------------------------
(* What the cache answers adds nothing to what it does.                    *)
LEMMA AnswersAreSteps == NextA => Next
BY DEF NextA, AnswerGet, CallChange, Unanswered, Next, Step, Call

LEMMA AnsweredInvariance == SpecA => []IInv
<1>1. InitA => Init
  BY DEF InitA
<1>2. [NextA]_<<vars, reply>> => [Next]_vars
  BY AnswersAreSteps
<1>3. IInv /\ [Next]_vars => IInv'
  BY TypeStep, ShapeStep, FlightStep DEF IInv
<1> QED
  BY InitIInv, <1>1, <1>2, <1>3, PTL DEF SpecA

(* A step that leaves the delegate's content alone loses nothing of it.    *)
LEMMA NothingIsLost ==
    ASSUME TypeOK, UNCHANGED store
    PROVE  Contract!LosesOnly(store, store')
BY DEF TypeOK, Contract!LosesOnly

(* The answers of a Get: an error, the content of the delegate, a miss.    *)
LEMMA AnswerGetStep ==
    ASSUME TypeOK, CallShape, NEW p \in Proc, AnswerGet(p)
    PROVE  Contract!Next
<1>k. PICK k \in Key : arg[p] = {k}
  BY DEF AnswerGet, LookupFails, AbandonWait, LookupHits, PlainMiss, BeginFlight, CallShape
<1>s. Contract!LosesOnly(store, store')
  <2>1. UNCHANGED store
    BY DEF AnswerGet, LookupFails, AbandonWait, LookupHits, PlainMiss, BeginFlight
  <2> QED
    BY <2>1, NothingIsLost
<1>1. CASE (LookupFails(p) \/ AbandonWait(p)) /\ Answer("error", arg[p], Nothing)
  <2>1. Contract!Fail({k})
    BY <1>1, <1>k, <1>s DEF Answer, Contract!Fail, Contract!Answer
  <2> QED
    BY <2>1 DEF Contract!Next
<1>2. CASE LookupHits(p) /\ \E j \in arg[p] : Answer("get", arg[p], store[j])
  <2>1. Contract!Hit(k)
    BY <1>2, <1>k, <1>s DEF LookupHits, Answer, Contract!Hit, Contract!Answer
  <2> QED
    BY <2>1 DEF Contract!Next
<1>3. CASE (PlainMiss(p) \/ BeginFlight(p)) /\ Answer("get", arg[p], Nothing)
  <2>1. Contract!Miss(k)
    BY <1>3, <1>k, <1>s DEF Answer, Contract!Miss, Contract!Answer
  <2> QED
    BY <2>1 DEF Contract!Next
<1> QED
  BY <1>1, <1>2, <1>3 DEF AnswerGet

(* A change whose context is done fails and changes nothing, although its  *)
(* flights are released.                                                   *)
LEMMA FailedChange ==
    ASSUME TypeOK, NEW p \in Proc, p \in done, NEW ks \in SUBSET Key, NEW new, NEW op, NEW value,
           Change(p, ks, new), AnswerChange(p, op, ks, value)
    PROVE  Contract!Next
<1>1. Contract!LosesOnly(store, store')
  BY NothingIsLost DEF Change
<1>2. Contract!Fail(ks)
  BY <1>1 DEF AnswerChange, Answer, Contract!Fail, Contract!Answer
<1> QED
  BY <1>2 DEF Contract!Next

(* One that succeeds leaves what the contract says.                        *)
LEMMA CallChangeStep ==
    ASSUME TypeOK, NEW p \in Proc, CallChange(p)
    PROVE  Contract!Next
<1>1. ASSUME NEW k \in Key, NEW v \in Value, Put(p, k, v), AnswerChange(p, "put", {k}, v)
      PROVE  Contract!Next
  <2>1. CASE p \in done
    BY <1>1, <2>1, FailedChange DEF Put
  <2>2. CASE p \notin done
    <3>1. Contract!LosesOnly([store EXCEPT ![k] = v], store')
      BY <1>1, <2>2 DEF Put, Change, TypeOK, Contract!LosesOnly
    <3>2. Contract!Put(k, v)
      BY <1>1, <2>2, <3>1 DEF AnswerChange, Answer, Contract!Put, Contract!Answer
    <3> QED
      BY <3>2 DEF Contract!Next
  <2> QED
    BY <2>1, <2>2
<1>2. ASSUME NEW k \in Key, Remove(p, k), AnswerChange(p, "remove", {k}, Nothing)
      PROVE  Contract!Next
  <2>1. CASE p \in done
    BY <1>2, <2>1, FailedChange DEF Remove
  <2>2. CASE p \notin done
    <3>1. Contract!LosesOnly([store EXCEPT ![k] = Nothing], store')
      BY <1>2, <2>2 DEF Remove, Change, TypeOK, Contract!LosesOnly
    <3>2. Contract!Remove(k)
      BY <1>2, <2>2, <3>1 DEF AnswerChange, Answer, Contract!Remove, Contract!Answer
    <3> QED
      BY <3>2 DEF Contract!Next
  <2> QED
    BY <2>1, <2>2
<1>3. ASSUME NEW n \in Namespace, Clear(p, n), AnswerChange(p, "clear", KeysOf(n), Nothing)
      PROVE  Contract!Next
  <2>0. KeysOf(n) \in SUBSET Key
    BY DEF KeysOf
  <2>1. CASE p \in done
    BY <1>3, <2>0, <2>1, FailedChange DEF Clear
  <2>2. CASE p \notin done
    <3>1. Contract!LosesOnly([k \in Key |-> IF k \in KeysOf(n) THEN Nothing ELSE store[k]], store')
      BY <1>3, <2>2 DEF Clear, Change, KeysOf, TypeOK, Contract!LosesOnly
    <3>2. Contract!Clear(KeysOf(n))
      BY <1>3, <2>2, <3>1 DEF AnswerChange, Answer, Contract!Clear, Contract!Answer
    <3> QED
      BY <2>0, <3>2 DEF Contract!Next
  <2> QED
    BY <2>1, <2>2
<1> QED
  BY <1>1, <1>2, <1>3 DEF CallChange

(* What is not answered changes nothing but for an entry that is lost.     *)
LEMMA UnansweredStep ==
    ASSUME TypeOK, Unanswered, UNCHANGED reply
    PROVE  Contract!Next
<1>1. Contract!LosesOnly(store, store')
  <2>1. CASE \E k \in Key : Lose(k)
    BY <2>1 DEF Lose, TypeOK, Contract!LosesOnly
  <2>2. CASE ~\E k \in Key : Lose(k)
    <3>1. UNCHANGED store
      BY <2>2 DEF Unanswered, LookupMisses, JoinFlight, Wake, Release, Cancel, Renew, Get, ReleaseMiss
    <3> QED
      BY <3>1, NothingIsLost
  <2> QED
    BY <2>1, <2>2
<1> QED
  BY <1>1 DEF Contract!Next, Contract!Lose

(* A blocking cache is a Cache: whatever order its calls take the mutexes  *)
(* of the delegate and of the decorator in, and whoever releases whose     *)
(* flight, it answers a Get with the value of the last Put or a miss, and  *)
(* a call that fails has changed nothing.                                  *)
THEOREM DecoratorIsACache == SpecA => ImplementsContract
<1>1. InitA => Contract!Init
  BY DEF InitA, Init, Contract!Init, Contract!NoReply
<1>2. IInv /\ [NextA]_<<vars, reply>> => [Contract!Next]_Contract!vars
  <2> SUFFICES ASSUME IInv, [NextA]_<<vars, reply>> PROVE [Contract!Next]_Contract!vars
    OBVIOUS
  <2>1. TypeOK /\ CallShape
    BY DEF IInv
  <2>2. ASSUME NEW p \in Proc, AnswerGet(p) \/ CallChange(p) PROVE Contract!Next
    BY <2>1, <2>2, AnswerGetStep, CallChangeStep
  <2>3. CASE Unanswered /\ UNCHANGED reply
    BY <2>1, <2>3, UnansweredStep
  <2>4. CASE UNCHANGED <<vars, reply>>
    BY <2>4 DEF vars, Contract!vars
  <2> QED
    BY <2>2, <2>3, <2>4 DEF NextA
<1> QED
  BY <1>1, <1>2, AnsweredInvariance, PTL DEF SpecA, ImplementsContract, Contract!Spec
=============================================================================
