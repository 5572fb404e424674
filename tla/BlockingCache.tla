--------------------------- MODULE BlockingCache ---------------------------
(***************************************************************************)
(* BlockingCache (internal/runtime/blocking_cache.go): the decorator that  *)
(* coalesces the concurrent misses of a key.  The first goroutine that     *)
(* misses a key opens a flight, a channel others wait on until a Put,      *)
(* Remove, Clear or ReleaseMiss of the key closes it.                      *)
(*                                                                         *)
(* The delegate's mutex and the decorator's own mutex are different, so a  *)
(* call is two steps (the delegate's, then the flight's) and Get is a loop *)
(* of them.  The delegate is a Cache in the sense of CacheContract.        *)
(*                                                                         *)
(* The module covers the caches of every namespace at once: a key belongs  *)
(* to one namespace, and only Clear ranges over a namespace.  A namespace  *)
(* whose cache is not blocking has a bare MemoryCache: its misses return   *)
(* at once, and there are no flights to release.  Callers are              *)
(* unrestricted: any goroutine calls anything.  The sessions that use the  *)
(* caches are in QueryCache, which composes its steps with these.          *)
(***************************************************************************)
CONSTANTS
    Proc, Key, Value, Nothing,
    Namespace,   \* the namespaces that have a cache
    NsOf,        \* the namespace of each key
    Blocking,    \* the namespaces whose CacheMeta.Blocking is set
    Chan,        \* channels; a channel nobody refers to is collected
    NoChan       \* no flight, not waiting

ASSUME NothingIsNoValue == Nothing \notin Value
ASSUME NoChanIsNoChan == NoChan \notin Chan
ASSUME NsOfTotal == NsOf \in [Key -> Namespace] /\ Blocking \subseteq Namespace

VARIABLES
    store,       \* the delegate: key -> value, or Nothing
    flights,     \* key -> the channel of the running load, or NoChan
    open,        \* the channels that are made and not closed
    pc,          \* where each goroutine is in its call
    arg,         \* the keys of that call: one key, or a whole namespace
    chan,        \* the channel a goroutine waits on
    done         \* goroutines whose context is done

vars == <<store, flights, open, pc, arg, chan, done>>

Stage == {"idle", "lookup", "begin", "wait", "release"}

KeysOf(n) == {k \in Key : NsOf[k] = n}

Init ==
    /\ store = [k \in Key |-> Nothing]
    /\ flights = [k \in Key |-> NoChan]
    /\ open = {}
    /\ pc = [p \in Proc |-> "idle"]
    /\ arg = [p \in Proc |-> {}]
    /\ chan = [p \in Proc |-> NoChan]
    /\ done = {}

Goto(p, stage) == pc' = [pc EXCEPT ![p] = stage]
Return(p) == Goto(p, "idle") /\ arg' = [arg EXCEPT ![p] = {}]

(***************************************************************************)
(* Get, one iteration of its loop: the delegate's Get, then beginFlight,   *)
(* then the wait for the flight of another goroutine.                      *)
(***************************************************************************)
Get(p, k) ==
    /\ pc[p] = "idle"
    /\ arg' = [arg EXCEPT ![p] = {k}]
    /\ Goto(p, "lookup")
    /\ UNCHANGED <<store, flights, open, chan, done>>

(* A context that is done fails the call, before or after a wait. *)
LookupFails(p) ==
    /\ pc[p] = "lookup" /\ p \in done
    /\ Return(p)
    /\ UNCHANGED <<store, flights, open, chan, done>>

LookupHits(p) ==
    /\ pc[p] = "lookup" /\ p \notin done
    /\ \A k \in arg[p] : store[k] # Nothing
    /\ Return(p)
    /\ UNCHANGED <<store, flights, open, chan, done>>

LookupMisses(p) ==
    /\ pc[p] = "lookup" /\ p \notin done
    /\ \A k \in arg[p] : store[k] = Nothing
    /\ Goto(p, "begin")
    /\ UNCHANGED <<store, flights, open, arg, chan, done>>

(* A bare MemoryCache returns the miss. *)
PlainMiss(p) ==
    /\ pc[p] = "begin"
    /\ \A k \in arg[p] : NsOf[k] \notin Blocking
    /\ Return(p)
    /\ UNCHANGED <<store, flights, open, chan, done>>

(* make(chan struct{}): a channel that is neither open nor waited on. *)
Fresh == {c \in Chan \ open : \A p \in Proc : chan[p] # c}

(* The goroutine becomes the owner of a new flight and returns the miss. *)
BeginFlight(p) ==
    /\ pc[p] = "begin"
    /\ Fresh # {}
    /\ LET c == CHOOSE c \in Fresh : TRUE IN
          \E k \in arg[p] :
              /\ NsOf[k] \in Blocking /\ flights[k] = NoChan
              /\ flights' = [flights EXCEPT ![k] = c]
              /\ open' = open \cup {c}
    /\ Return(p)
    /\ UNCHANGED <<store, chan, done>>

JoinFlight(p) ==
    /\ pc[p] = "begin"
    /\ \E k \in arg[p] :
          /\ NsOf[k] \in Blocking /\ flights[k] # NoChan
          /\ chan' = [chan EXCEPT ![p] = flights[k]]
    /\ Goto(p, "wait")
    /\ UNCHANGED <<store, flights, open, arg, done>>

(* A closed channel wakes its waiters, who go round the loop again. *)
Wake(p) ==
    /\ pc[p] = "wait" /\ chan[p] \notin open
    /\ chan' = [chan EXCEPT ![p] = NoChan]
    /\ Goto(p, "lookup")
    /\ UNCHANGED <<store, flights, open, arg, done>>

(* Fault: the wait does not watch the context. *)
NeverAbandonWait(p) == FALSE

AbandonWait(p) ==
    /\ pc[p] = "wait" /\ p \in done
    /\ chan' = [chan EXCEPT ![p] = NoChan]
    /\ Return(p)
    /\ UNCHANGED <<store, flights, open, done>>

(***************************************************************************)
(* Put, Remove and Clear: the delegate's operation, which fails when the   *)
(* context is done, then the release of the flights whatever it answered.  *)
(***************************************************************************)
Change(p, ks, new) ==
    /\ pc[p] = "idle"
    /\ arg' = [arg EXCEPT ![p] = ks]
    /\ store' = IF p \in done THEN store ELSE new
    /\ Goto(p, "release")
    /\ UNCHANGED <<flights, open, chan, done>>

Put(p, k, v) == Change(p, {k}, [store EXCEPT ![k] = v])
(* Fault: the delegate's Remove is not called. *)
RemoveOnlyReleases(p, k) == Change(p, {k}, store)

Remove(p, k) == Change(p, {k}, [store EXCEPT ![k] = Nothing])
Clear(p, n) ==
    Change(p, KeysOf(n), [k \in Key |-> IF NsOf[k] = n THEN Nothing ELSE store[k]])

(* Fault: the entries are deleted and their channels stay open. *)
CloseNothing(ks) ==
    /\ flights' = [k \in Key |-> IF k \in ks THEN NoChan ELSE flights[k]]
    /\ UNCHANGED open

(* releaseFlight and releaseAllFlights: delete the entries, close their    *)
(* channels.  Whose flight it is is not asked.                             *)
Close(ks) ==
    /\ flights' = [k \in Key |-> IF k \in ks THEN NoChan ELSE flights[k]]
    /\ open' = open \ {flights[k] : k \in ks}

Release(p) ==
    /\ pc[p] = "release"
    /\ Close(arg[p])
    /\ Return(p)
    /\ UNCHANGED <<store, chan, done>>

ReleaseMiss(p, k) ==
    /\ pc[p] = "idle"
    /\ Close({k})
    /\ UNCHANGED <<store, pc, arg, chan, done>>

(***************************************************************************)
(* The environment: a caller's context ends or the caller starts with a    *)
(* new one, and the delegate evicts or expires an entry.                   *)
(***************************************************************************)
Cancel(p) ==
    /\ p \notin done
    /\ done' = done \cup {p}
    /\ UNCHANGED <<store, flights, open, pc, arg, chan>>

Renew(p) ==
    /\ pc[p] = "idle" /\ p \in done
    /\ done' = done \ {p}
    /\ UNCHANGED <<store, flights, open, pc, arg, chan>>

Lose(k) ==
    /\ store[k] # Nothing
    /\ store' = [store EXCEPT ![k] = Nothing]
    /\ UNCHANGED <<flights, open, pc, arg, chan, done>>

Step(p) ==
    \/ LookupFails(p) \/ LookupHits(p) \/ LookupMisses(p)
    \/ PlainMiss(p) \/ BeginFlight(p) \/ JoinFlight(p) \/ Wake(p) \/ AbandonWait(p)
    \/ Release(p)

Call(p) ==
    \/ \E k \in Key :
          \/ Get(p, k) \/ Remove(p, k) \/ ReleaseMiss(p, k)
          \/ \E v \in Value : Put(p, k, v)
    \/ \E n \in Namespace : Clear(p, n)

Next ==
    \/ \E p \in Proc : Step(p) \/ Call(p) \/ Cancel(p) \/ Renew(p)
    \/ \E k \in Key : Lose(k)

Spec == Init /\ [][Next]_vars
(***************************************************************************)
(* Properties.                                                             *)
(***************************************************************************)

(* The variables have the types of the struct's fields and of the call's   *)
(* local variables.                                                        *)
TypeOK ==
    /\ store \in [Key -> Value \cup {Nothing}]
    /\ flights \in [Key -> Chan \cup {NoChan}]
    /\ open \in SUBSET Chan
    /\ pc \in [Proc -> Stage]
    /\ arg \in [Proc -> SUBSET Key]
    /\ chan \in [Proc -> Chan \cup {NoChan}]
    /\ done \in SUBSET Proc

(* The open channels are exactly the flights, one for each: releaseFlight  *)
(* and releaseAllFlights never close a channel twice (which would panic),  *)
(* and no channel stays open without a flight through which to close it.   *)
FlightTable ==
    /\ open = {flights[k] : k \in Key} \ {NoChan}
    /\ \A j, k \in Key : flights[j] = flights[k] /\ flights[j] # NoChan => j = k

(* No lost wake-up: the channel a Get waits on is closed already or is the *)
(* flight of the very key the Get asks for, so that the next release of    *)
(* that key, whoever calls it, wakes the Get.                              *)
NoLostWakeup ==
    \A p \in Proc :
        pc[p] = "wait" =>
            /\ chan[p] # NoChan
            /\ chan[p] \in open => \E k \in Key : arg[p] = {k} /\ flights[k] = chan[p]

(* Goroutines that can go on do: the Go scheduler is fair to each of them. *)
FairSpec == Spec /\ \A p \in Proc : WF_vars(Step(p))

(* A call whose context is done returns, even from the wait for a flight   *)
(* that nobody ever releases.                                              *)
CancelledCallReturns ==
    \A p \in Proc : (p \in done /\ pc[p] # "idle") ~> pc[p] = "idle"
=============================================================================
