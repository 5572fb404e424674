------------------------ MODULE PreparedStatements ------------------------
(***************************************************************************)
(* The prepared statements of a session whose executor type is REUSE       *)
(* (internal/runtime/prepared.go, prepared_cache.go): an LRU cache under   *)
(* preparedMu that goroutines look into, prepare beside, publish to, and   *)
(* close evicted statements of, while the session may be closed.           *)
(*                                                                         *)
(* The driver prepares and closes outside the lock, each as one step.  The *)
(* list holds the entries, the most recent first; the map beside it always *)
(* has the same queries.  put never finds its query: preparedStatement     *)
(* looked for it under the same lock.                                      *)
(***************************************************************************)
EXTENDS Integers, Sequences, FiniteSets

CONSTANTS
    Proc,           \* goroutines that use the session
    Query,          \* SQL texts
    MaxEntries,     \* capacity of the cache (PreparedStatementCacheSize)
    MaxStatements   \* bound: statements the driver prepares

ASSUME CapacityIsPositive == MaxEntries \in Nat \ {0}
ASSUME MaxStatementsIsNat == MaxStatements \in Nat

VARIABLES
    cache,     \* the cached entries, most recent first
    opened,    \* the statements that are open in the driver
    prepared,  \* how many statements were prepared
    stage,     \* what each goroutine does next
    query,     \* the SQL of its call
    held,      \* the statement it prepared or will use, 0 if none
    toClose    \* the statements it will close

vars == <<cache, opened, prepared, stage, query, held, toClose>>

Statement == 1..MaxStatements
Entry == [query : Query, statement : Statement]
Stage == {"idle", "lookup", "prepare", "publish", "close", "use"}

Seqs == INSTANCE SequencesExt

Cached == {cache[i].statement : i \in DOMAIN cache}
IsCached(q) == \E i \in DOMAIN cache : cache[i].query = q
IndexOf(q) == CHOOSE i \in DOMAIN cache : cache[i].query = q

Init ==
    /\ cache = <<>> /\ opened = {} /\ prepared = 0
    /\ stage = [p \in Proc |-> "idle"]
    /\ query \in [Proc -> Query]
    /\ held = [p \in Proc |-> 0]
    /\ toClose = [p \in Proc |-> {}]

GoTo(p, s) == stage' = [stage EXCEPT ![p] = s]
Hold(p, s) == held' = [held EXCEPT ![p] = s]
WillClose(p, S) == toClose' = [toClose EXCEPT ![p] = S]

----------------------------------------------------------------------------
Call(p, q) ==
    /\ stage[p] = "idle"
    /\ query' = [query EXCEPT ![p] = q]
    /\ GoTo(p, "lookup")
    /\ UNCHANGED <<cache, opened, prepared, held, toClose>>

(* The entry of a query that is found moves to the front. *)
MoveToFront(q) == cache' = <<cache[IndexOf(q)]>> \o Seqs!RemoveAt(cache, IndexOf(q))

Hit(p) ==
    /\ stage[p] = "lookup" /\ IsCached(query[p])
    /\ MoveToFront(query[p])
    /\ Hold(p, cache[IndexOf(query[p])].statement)
    /\ GoTo(p, "use")
    /\ UNCHANGED <<opened, prepared, query, toClose>>

Miss(p) ==
    /\ stage[p] = "lookup" /\ ~IsCached(query[p])
    /\ GoTo(p, "prepare")
    /\ UNCHANGED <<cache, opened, prepared, query, held, toClose>>

(* The driver prepares the statement, or fails. *)
Prepare(p) ==
    /\ stage[p] = "prepare" /\ prepared < MaxStatements
    /\ prepared' = prepared + 1
    /\ opened' = opened \cup {prepared + 1}
    /\ Hold(p, prepared + 1)
    /\ GoTo(p, "publish")
    /\ UNCHANGED <<cache, query, toClose>>

PrepareFails(p) ==
    /\ stage[p] = "prepare"
    /\ GoTo(p, "idle")
    /\ UNCHANGED <<cache, opened, prepared, query, held, toClose>>

(* Another goroutine published the query meanwhile: its statement is used, *)
(* the own one closed.  Mutant: it is not.                                 *)
PublishLateLeaks(p) ==
    /\ stage[p] = "publish" /\ IsCached(query[p])
    /\ MoveToFront(query[p])
    /\ Hold(p, cache[IndexOf(query[p])].statement)
    /\ GoTo(p, "use")
    /\ UNCHANGED <<opened, prepared, query, toClose>>
PublishLate(p) ==
    /\ stage[p] = "publish" /\ IsCached(query[p])
    /\ MoveToFront(query[p])
    /\ WillClose(p, {held[p]})
    /\ Hold(p, cache[IndexOf(query[p])].statement)
    /\ GoTo(p, "close")
    /\ UNCHANGED <<opened, prepared, query>>

(* put, evicting the entry that was not used for the longest time.         *)
(* Mutant: the evicted entry stays in the list.                            *)
Entered(p) == <<[query |-> query[p], statement |-> held[p]]>> \o cache
PublishKeepsEvicted(p) ==
    /\ stage[p] = "publish" /\ ~IsCached(query[p])
    /\ cache' = Entered(p)
    /\ WillClose(p, IF Len(cache) < MaxEntries THEN {} ELSE {Seqs!Last(cache).statement})
    /\ GoTo(p, "close")
    /\ UNCHANGED <<opened, prepared, query, held>>
Publish(p) ==
    /\ stage[p] = "publish" /\ ~IsCached(query[p])
    /\ IF Len(cache) < MaxEntries
       THEN cache' = Entered(p) /\ WillClose(p, {})
       ELSE cache' = Seqs!Front(Entered(p)) /\ WillClose(p, {Seqs!Last(cache).statement})
    /\ GoTo(p, "close")
    /\ UNCHANGED <<opened, prepared, query, held>>

(* The session, or its transaction, ends: the whole cache is taken, and    *)
(* whoever still prepares will publish to a new one.                       *)
CloseSession(p) ==
    /\ stage[p] = "idle"
    /\ WillClose(p, Cached)
    /\ cache' = <<>>
    /\ Hold(p, 0)
    /\ GoTo(p, "close")
    /\ UNCHANGED <<opened, prepared, query>>

(* Outside the lock, one statement after the other. *)
CloseStatement(p) ==
    /\ stage[p] = "close"
    /\ \E s \in toClose[p] :
         opened' = opened \ {s} /\ WillClose(p, toClose[p] \ {s})
    /\ UNCHANGED <<cache, prepared, stage, query, held>>

CloseDone(p) ==
    /\ stage[p] = "close" /\ toClose[p] = {}
    /\ GoTo(p, IF held[p] = 0 THEN "idle" ELSE "use")
    /\ UNCHANGED <<cache, opened, prepared, query, held, toClose>>

(* The statement runs, or fails because it was closed meanwhile. *)
Use(p) ==
    /\ stage[p] = "use"
    /\ Hold(p, 0)
    /\ GoTo(p, "idle")
    /\ UNCHANGED <<cache, opened, prepared, query, toClose>>

Next ==
    \E p \in Proc :
        \/ \E q \in Query : Call(p, q)
        \/ Hit(p) \/ Miss(p) \/ Prepare(p) \/ PrepareFails(p)
        \/ PublishLate(p) \/ Publish(p)
        \/ CloseSession(p) \/ CloseStatement(p) \/ CloseDone(p) \/ Use(p)

(* A goroutine that runs goes on, and the driver answers. *)
Steps(p) ==
    \/ Hit(p) \/ Miss(p) \/ Prepare(p) \/ PrepareFails(p)
    \/ PublishLate(p) \/ Publish(p) \/ CloseStatement(p) \/ CloseDone(p) \/ Use(p)

Spec == Init /\ [][Next]_vars
FairSpec == Spec /\ \A p \in Proc : WF_vars(Steps(p))

----------------------------------------------------------------------------
(* The variables keep their types. *)
TypeOK ==
    /\ cache \in Seq(Entry)
    /\ opened \subseteq Statement
    /\ prepared \in 0..MaxStatements
    /\ stage \in [Proc -> Stage]
    /\ query \in [Proc -> Query]
    /\ held \in [Proc -> 0..MaxStatements]
    /\ toClose \in [Proc -> SUBSET Statement]

(* A goroutine is responsible for the statement it prepared until it       *)
(* publishes it, and for those it took out of the cache.                   *)
Owns(p) == toClose[p] \cup (IF stage[p] = "publish" THEN {held[p]} ELSE {})

(* A cached statement is open and nobody is about to close it: the cache   *)
(* hands out no closed statement, and one that fails as closed was evicted *)
(* or its session closed after it was handed out (prepared.go:137-160).    *)
CachedAreUsable ==
    \A s \in Cached : s \in opened /\ \A p \in Proc : s \notin Owns(p)

(* Every open statement is cached or someone's to publish or close, so     *)
(* none is leaked (prepared.go:145-160, 165-174).                          *)
NothingLeaks == opened = Cached \cup UNION {Owns(p) : p \in Proc}

(* No statement is closed by two goroutines (prepared_cache.go:76-105). *)
ClosedByOne ==
    \A p, q \in Proc : p # q => Owns(p) \cap Owns(q) = {}

(* The cache has one entry for a query and holds no more statements than   *)
(* its capacity (prepared_cache.go:46-74; CHANGELOG.md:94).                *)
WithinCapacity ==
    /\ Len(cache) <= MaxEntries
    /\ \A i, j \in DOMAIN cache : i # j =>
         cache[i].query # cache[j].query /\ cache[i].statement # cache[j].statement

(* A call that was made ends and what was evicted is closed, whatever the  *)
(* others do (prepared.go:124-163).                                        *)
CallEnds ==
    \A p \in Proc : stage[p] # "idle" ~> (stage[p] = "idle" /\ toClose[p] = {})
===========================================================================
