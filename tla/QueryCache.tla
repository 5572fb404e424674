----------------------------- MODULE QueryCache -----------------------------
(***************************************************************************)
(* Statements of several sessions over one database and the second-level   *)
(* caches of the Mapper namespaces (internal/runtime: executor.go,         *)
(* local_cache.go, second_level_cache.go, transaction.go).                 *)
(*                                                                         *)
(* A row is a key: the cached query of key k reads row k, a write changes  *)
(* it, and its data is a version number, new for every write.  A session   *)
(* is auto-commit (SQLSession) or a transaction (TxSession).  Each         *)
(* goroutine runs one call at a time on its session; the calls on the      *)
(* shared cache are the steps of BlockingCache, taken here by INSTANCE.    *)
(*                                                                         *)
(* The database is external.  It is read-committed: a transaction sees its *)
(* own writes and what is committed, and holds the rows it wrote until it  *)
(* ends.  Any statement or commit may fail; one that reports a failure may *)
(* nevertheless have been applied when its session is auto-commit, or when *)
(* it is a commit, because the answer may be what was lost.                *)
(***************************************************************************)
EXTENDS Integers, FiniteSets

CONSTANTS
    Proc, Key, Namespace, NsOf, Chan, NoChan, Nothing,
    NoKey,          \* no statement
    Session,        \* the sessions
    TxSession,      \* those that are transactions
    SessionOf,      \* the session each goroutine works with
    CacheEnabled,   \* the sessions configured with cacheEnabled
    Blocking,       \* the namespaces whose CacheMeta.Blocking is set
    MaxVersion,     \* bound: writes in a behaviour
    MaxCalls        \* bound: calls of each goroutine

Version == 0..MaxVersion

ASSUME NothingIsNoVersion == Nothing \notin Version
ASSUME NoChanIsNoChan == NoChan \notin Chan
ASSUME NoKeyIsNoKey == NoKey \notin Key
ASSUME NsOfTotal == NsOf \in [Key -> Namespace] /\ Blocking \subseteq Namespace
ASSUME SessionsTotal ==
    TxSession \subseteq Session /\ CacheEnabled \subseteq Session /\ SessionOf \in [Proc -> Session]
ASSUME BoundsAreNat == MaxVersion \in Nat /\ MaxCalls \in [Proc -> Nat]

VARIABLES
    store, flights, open, pc, arg, chan, done,   \* the shared caches
    db,           \* the committed version of each row
    dirty,        \* session -> row -> uncommitted version, or Nothing
    written,      \* how many versions were written
    durable,      \* history: the versions that ever were committed
    local,        \* session -> key -> version in its local cache, or Nothing
    ended,        \* the transactions marked completed
    flushes,      \* session -> namespaces in pendingSecondLevelCacheFlush
    puts,         \* session -> key -> pendingSecondLevelCachePuts, or Nothing
    stage,        \* where each goroutine is in its call
    key,          \* the row of its statement, or NoKey
    val,          \* the version its statement read, or Nothing
    toClear,      \* namespaces commitSecondLevelCache has still to clear
    toPut,        \* key -> version it has still to put, or Nothing
    calls,        \* how many calls each goroutine made
    exposed,      \* history: <<row, cause>>, see StaleHasCause
    unflushed     \* history: <<session, row>> of the writes that flush nothing

cacheVars == <<store, flights, open, pc, arg, chan, done>>
dbVars == <<db, dirty, written, durable, exposed, unflushed>>
sessionVars == <<local, ended, flushes, puts>>
procVars == <<stage, key, val, toClear, toPut, calls>>
vars == <<cacheVars, dbVars, sessionVars, procVars>>

Cache == INSTANCE BlockingCache WITH Value <- Version

Stage == {"idle", "cache", "read", "store", "publish", "release", "write", "flush",
          "cleared", "preflush", "preflushed", "affect", "bare", "commit", "take", "apply",
          "rollback"}

Cause == {"overlap", "flush failed", "answer lost", "flushed early", "flush missed"}

NoVersions == [k \in Key |-> Nothing]

Init ==
    /\ Cache!Init
    /\ db = [k \in Key |-> 0] /\ written = 0 /\ durable = {0}
    /\ exposed = {} /\ unflushed = {}
    /\ dirty = [s \in Session |-> NoVersions]
    /\ local = [s \in Session |-> NoVersions]
    /\ ended = {}
    /\ flushes = [s \in Session |-> {}]
    /\ puts = [s \in Session |-> NoVersions]
    /\ stage = [p \in Proc |-> "idle"]
    /\ key = [p \in Proc |-> NoKey]
    /\ val = [p \in Proc |-> Nothing]
    /\ toClear = [p \in Proc |-> {}]
    /\ toPut = [p \in Proc |-> NoVersions]
    /\ calls = [p \in Proc |-> 0]

InTx(p) == SessionOf[p] \in TxSession
Caches(p) == SessionOf[p] \in CacheEnabled
Goto(p, next) == stage' = [stage EXCEPT ![p] = next]
PutLocal(p, v) == local' = [local EXCEPT ![SessionOf[p]][key[p]] = v]
ClearLocal(p) == local' = [local EXCEPT ![SessionOf[p]] = NoVersions]

(* The statement is over: its result is with the caller. *)
Finish(p) ==
    /\ Goto(p, "idle")
    /\ key' = [key EXCEPT ![p] = NoKey]
    /\ val' = [val EXCEPT ![p] = Nothing]
    /\ UNCHANGED <<toClear, toPut, calls>>

Continue(p, next) == Goto(p, next) /\ UNCHANGED <<key, val, toClear, toPut, calls>>

(* A call begins: ensureActive has found the transaction not completed. *)
Begin(p, k, next) ==
    /\ stage[p] = "idle"
    /\ SessionOf[p] \notin ended
    /\ calls[p] < MaxCalls[p]
    /\ calls' = [calls EXCEPT ![p] = @ + 1]
    /\ key' = [key EXCEPT ![p] = k]
    /\ Goto(p, next)
    /\ UNCHANGED <<val, toClear, toPut>>

(***************************************************************************)
(* Query and QueryOne: the local cache, then the shared cache unless the   *)
(* session does without or a flush of the namespace is pending in the      *)
(* transaction, then the rows.                                             *)
(***************************************************************************)
QueryLocal(p, k) ==
    /\ local[SessionOf[p]][k] # Nothing
    /\ Begin(p, NoKey, "idle")
    /\ UNCHANGED <<cacheVars, dbVars, sessionVars>>

QuerySkipsCache(p, k) ==
    /\ local[SessionOf[p]][k] = Nothing
    /\ ~Caches(p) \/ NsOf[k] \in flushes[SessionOf[p]]
    /\ Begin(p, k, "read")
    /\ UNCHANGED <<cacheVars, dbVars, sessionVars>>

(* Fault: a pending flush does not keep the query from the shared cache. *)
QueryCachedAnyway(p, k) ==
    /\ local[SessionOf[p]][k] = Nothing /\ Caches(p)
    /\ Begin(p, k, "cache")
    /\ Cache!Get(p, k)
    /\ UNCHANGED <<dbVars, sessionVars>>

QueryCached(p, k) ==
    /\ local[SessionOf[p]][k] = Nothing
    /\ Caches(p) /\ NsOf[k] \notin flushes[SessionOf[p]]
    /\ Begin(p, k, "cache")
    /\ Cache!Get(p, k)
    /\ UNCHANGED <<dbVars, sessionVars>>

(* Steps inside BlockingCache.Get that do not return from it. *)
CacheWaits(p) ==
    /\ stage[p] = "cache"
    /\ Cache!LookupMisses(p) \/ Cache!JoinFlight(p) \/ Cache!Wake(p)
    /\ UNCHANGED <<dbVars, sessionVars, procVars>>

CacheHits(p) ==
    /\ stage[p] = "cache"
    /\ Cache!LookupHits(p)
    /\ PutLocal(p, store[key[p]])
    /\ Finish(p)
    /\ UNCHANGED <<dbVars, ended, flushes, puts>>

CacheFails(p) ==
    /\ stage[p] = "cache"
    /\ Cache!LookupFails(p) \/ Cache!AbandonWait(p)
    /\ Finish(p)
    /\ UNCHANGED <<dbVars, sessionVars>>

(* The miss: with a flight of its own when the namespace is blocking. *)
CacheMisses(p) ==
    /\ stage[p] = "cache"
    /\ Cache!PlainMiss(p) \/ Cache!BeginFlight(p)
    /\ Continue(p, "read")
    /\ UNCHANGED <<dbVars, sessionVars>>

(* database/sql refuses the statements of a transaction from its Commit or *)
(* Rollback on: what passed ensureActive goes on until then, whichever     *)
(* goroutine has marked the session completed.                             *)
TxDone(s) ==
    s \in ended /\ \A q \in Proc : SessionOf[q] = s => stage[q] \notin {"commit", "rollback"}

(* What a statement of p reads in row k. *)
Visible(p, k) == LET own == dirty[SessionOf[p]][k] IN IF own # Nothing THEN own ELSE db[k]

ReadRows(p) ==
    /\ stage[p] = "read" /\ p \notin done
    /\ ~TxDone(SessionOf[p])
    /\ val' = [val EXCEPT ![p] = Visible(p, key[p])]
    /\ Goto(p, "store")
    /\ UNCHANGED <<cacheVars, dbVars, sessionVars, key, toClear, toPut, calls>>

(* Fault: a failed query returns without releasing its miss. *)
ReadFailsUnreleased(p) ==
    /\ stage[p] = "read"
    /\ Finish(p)
    /\ UNCHANGED <<cacheVars, dbVars, sessionVars>>

(* The query, the scan or the close of the rows fails. *)
ReadFails(p) ==
    /\ stage[p] = "read"
    /\ Continue(p, "release")
    /\ UNCHANGED <<cacheVars, dbVars, sessionVars>>

(* putLocalCache and putSecondLevelCache: a transaction's put is pending,  *)
(* and a session without the shared caches puts nothing.                   *)
StorePending(p) ==
    /\ stage[p] = "store" /\ (InTx(p) \/ ~Caches(p))
    /\ PutLocal(p, val[p])
    /\ puts' = IF Caches(p) THEN [puts EXCEPT ![SessionOf[p]][key[p]] = val[p]] ELSE puts
    /\ Continue(p, "release")
    /\ UNCHANGED <<cacheVars, dbVars, ended, flushes>>

(* Fault: a transaction puts what it read into the shared cache at once. *)
StoreSharedAlways(p) ==
    /\ stage[p] = "store"
    /\ PutLocal(p, val[p])
    /\ Cache!Put(p, key[p], val[p])
    /\ Continue(p, "publish")
    /\ UNCHANGED <<dbVars, ended, flushes, puts>>

StoreShared(p) ==
    /\ stage[p] = "store" /\ ~InTx(p) /\ Caches(p)
    /\ PutLocal(p, val[p])
    /\ Cache!Put(p, key[p], val[p])
    /\ Continue(p, "publish")
    /\ UNCHANGED <<dbVars, ended, flushes, puts>>

Published(p) ==
    /\ stage[p] = "publish"
    /\ Cache!Release(p)
    /\ Continue(p, "release")
    /\ UNCHANGED <<dbVars, sessionVars>>

(* The deferred releaseSecondLevelCacheMiss, whatever the query did. *)
ReleaseMiss(p) ==
    /\ stage[p] = "release"
    /\ IF Caches(p) THEN Cache!ReleaseMiss(p, key[p]) ELSE UNCHANGED cacheVars
    /\ Finish(p)
    /\ UNCHANGED <<dbVars, sessionVars>>

(***************************************************************************)
(* A row gets a new committed version.  Whoever still holds an older one   *)
(* and may yet put it in the shared cache overlaps with the write.         *)
(***************************************************************************)
Holds(k, v) ==
    \/ \E q \in Proc : stage[q] = "store" /\ key[q] = k /\ val[q] # v
    \/ \E s \in Session : puts[s][k] \notin {Nothing, v}
    \/ \E q \in Proc : toPut[q][k] \notin {Nothing, v}

(* The rows of new get its versions; causes are noted for them. *)
Publish(new, causes) ==
    LET ks == {k \in Key : new[k] # Nothing} IN
    /\ db' = [k \in Key |-> IF k \in ks THEN new[k] ELSE db[k]]
    /\ durable' = durable \cup {new[k] : k \in ks}
    /\ exposed' = exposed \cup (ks \X causes)
                           \cup ({k \in ks : Holds(k, new[k])} \X {"overlap"})

Next1 == written + 1

(* Another transaction that wrote the row and has not ended blocks a write. *)
RowFree(p, k) == \A s \in Session \ {SessionOf[p]} : dirty[s][k] = Nothing

(* The write of row k by p is applied: for p's transaction, or for all. *)
Applied(p, causes) ==
    /\ written < MaxVersion /\ RowFree(p, key[p])
    /\ written' = Next1
    /\ IF InTx(p)
       THEN /\ ~TxDone(SessionOf[p])
            /\ dirty' = [dirty EXCEPT ![SessionOf[p]][key[p]] = Next1]
            /\ UNCHANGED <<db, durable, exposed>>
       ELSE /\ Publish([NoVersions EXCEPT ![key[p]] = Next1], causes)
            /\ UNCHANGED dirty

(***************************************************************************)
(* Exec: the local cache is cleared, the write is executed, the namespace  *)
(* is flushed (now, or at commit) if the statement asks for it.            *)
(***************************************************************************)
Exec(p, k) ==
    /\ Begin(p, k, "write")
    /\ ClearLocal(p)
    /\ UNCHANGED <<cacheVars, dbVars, ended, flushes, puts>>

Write(p) ==
    /\ stage[p] = "write" /\ p \notin done /\ Caches(p)
    /\ Applied(p, {}) /\ UNCHANGED unflushed
    /\ Continue(p, "flush")
    /\ UNCHANGED <<cacheVars, sessionVars>>

(* The statement's FlushCache is disabled, or the session is without the   *)
(* shared caches: nothing is flushed.  So is nothing of this namespace by  *)
(* a statement of another Mapper that writes the row.                      *)
WriteUnflushed(p) ==
    /\ stage[p] \in {"write", "bare"} /\ p \notin done
    /\ Applied(p, {})
    /\ unflushed' = unflushed \cup {<<SessionOf[p], key[p]>>}
    /\ Finish(p)
    /\ UNCHANGED <<cacheVars, sessionVars>>

WriteFails(p) ==
    /\ stage[p] \in {"write", "affect", "bare"}
    /\ Finish(p)
    /\ UNCHANGED <<cacheVars, dbVars, sessionVars>>

(* An auto-commit write is applied but its answer is an error: no flush. *)
WriteAnswerLost(p) ==
    /\ stage[p] = "write" /\ ~InTx(p)
    /\ Applied(p, {"answer lost"}) /\ UNCHANGED unflushed
    /\ Finish(p)
    /\ UNCHANGED <<cacheVars, sessionVars>>

(* Fault: a session marked completed notes no more flushes. *)
MarkFlushUnlessEnded(p) ==
    LET s == SessionOf[p]  n == NsOf[key[p]] IN
    /\ flushes' = IF s \in ended THEN flushes ELSE [flushes EXCEPT ![s] = @ \cup {n}]
    /\ puts' = [puts EXCEPT ![s] = [k \in Key |-> IF NsOf[k] = n THEN Nothing ELSE @[k]]]
    /\ UNCHANGED <<local, ended>>

(* flushSecondLevelCache in a transaction: the flush is pending, and the   *)
(* puts of the namespace that were pending before it are dropped.          *)
MarkFlush(p) ==
    LET s == SessionOf[p]  n == NsOf[key[p]] IN
    /\ flushes' = [flushes EXCEPT ![s] = @ \cup {n}]
    /\ puts' = [puts EXCEPT ![s] = [k \in Key |-> IF NsOf[k] = n THEN Nothing ELSE @[k]]]
    /\ UNCHANGED <<local, ended>>

FlushPending(p) ==
    /\ stage[p] = "flush" /\ InTx(p)
    /\ MarkFlush(p)
    /\ Finish(p)
    /\ UNCHANGED <<cacheVars, dbVars>>

(* Otherwise the cache is cleared with the statement's context, which may  *)
(* be done by now.                                                         *)
FlushShared(p) ==
    /\ stage[p] = "flush" /\ ~InTx(p)
    /\ Cache!Clear(p, NsOf[key[p]])
    /\ exposed' = IF p \in done THEN exposed \cup {<<key[p], "flush failed">>} ELSE exposed
    /\ Continue(p, "cleared")
    /\ UNCHANGED <<db, dirty, written, durable, unflushed, sessionVars>>

Flushed(p) ==
    /\ stage[p] = "cleared"
    /\ Cache!Release(p)
    /\ Finish(p)
    /\ UNCHANGED <<dbVars, sessionVars>>

(***************************************************************************)
(* A select with affectData, or a CallStatement: the caches are flushed    *)
(* first (flushStatementCaches) and the statement writes afterwards.  A    *)
(* plain select whose FlushCache is enabled is such a flush, after which   *)
(* nothing is written (WriteFails), and then a query.                      *)
(***************************************************************************)
Affect(p, k) ==
    /\ Begin(p, k, IF Caches(p) THEN "preflush" ELSE "bare")
    /\ ClearLocal(p)
    /\ UNCHANGED <<cacheVars, dbVars, ended, flushes, puts>>

(* With FlushCache disabled neither cache is touched: WriteUnflushed.      *)
AffectBare(p, k) ==
    /\ Begin(p, k, "bare")
    /\ UNCHANGED <<cacheVars, dbVars, sessionVars>>

PreFlushPending(p) ==
    /\ stage[p] = "preflush" /\ InTx(p)
    /\ MarkFlush(p)
    /\ Continue(p, "affect")
    /\ UNCHANGED <<cacheVars, dbVars>>

PreFlushShared(p) ==
    /\ stage[p] = "preflush" /\ ~InTx(p)
    /\ Cache!Clear(p, NsOf[key[p]])
    /\ Continue(p, "preflushed")
    /\ UNCHANGED <<dbVars, sessionVars>>

PreFlushed(p) ==
    /\ stage[p] = "preflushed"
    /\ Cache!Release(p)
    /\ Continue(p, "affect")
    /\ UNCHANGED <<dbVars, sessionVars>>

AffectWrite(p) ==
    /\ stage[p] = "affect" /\ p \notin done
    /\ Applied(p, {"flushed early"}) /\ UNCHANGED unflushed
    /\ Finish(p)
    /\ UNCHANGED <<cacheVars, sessionVars>>

(***************************************************************************)
(* TxSession.Commit: mark completed, clear the local cache, commit, then   *)
(* publish the pending changes: the flushes first, then the puts, with a   *)
(* background context.                                                     *)
(***************************************************************************)
Complete(p, next) ==
    /\ InTx(p)
    /\ Begin(p, NoKey, next)
    /\ ended' = ended \cup {SessionOf[p]}
    /\ ClearLocal(p)

Commit(p) ==
    /\ p \notin done
    /\ Complete(p, "commit")
    /\ UNCHANGED <<cacheVars, dbVars, flushes, puts>>

DropPending(p) ==
    /\ flushes' = [flushes EXCEPT ![SessionOf[p]] = {}]
    /\ puts' = [puts EXCEPT ![SessionOf[p]] = NoVersions]

EndTx(p, causes) ==
    /\ Publish(dirty[SessionOf[p]], causes)
    /\ dirty' = [dirty EXCEPT ![SessionOf[p]] = NoVersions]
    /\ UNCHANGED <<written, unflushed>>

AbortTx(p) ==
    /\ dirty' = [dirty EXCEPT ![SessionOf[p]] = NoVersions]
    /\ UNCHANGED <<db, written, durable, exposed, unflushed>>

CommitDone(p) ==
    /\ stage[p] = "commit"
    /\ EndTx(p, {})
    /\ Continue(p, "take")
    /\ UNCHANGED <<cacheVars, sessionVars>>

(* Commit reports an error; the database aborted, or had committed.        *)
CommitFails(p) ==
    /\ stage[p] = "commit"
    /\ AbortTx(p) \/ EndTx(p, {"answer lost"})
    /\ DropPending(p)
    /\ Finish(p)
    /\ UNCHANGED <<cacheVars, local, ended>>

(* A write of the transaction whose flush is not pending yet. *)
Flushing(s, k) == \E q \in Proc : SessionOf[q] = s /\ stage[q] = "flush" /\ key[q] = k

(* takePendingSecondLevelCacheChanges. The flush of another goroutine's    *)
(* write comes too late when it is not pending by now.                     *)
TakePending(p) ==
    /\ stage[p] = "take"
    /\ exposed' = exposed \cup {<<k, "flush missed">> : k \in {j \in Key : Flushing(SessionOf[p], j)}}
    /\ toClear' = [toClear EXCEPT ![p] = flushes[SessionOf[p]]]
    /\ toPut' = [toPut EXCEPT ![p] = puts[SessionOf[p]]]
    /\ DropPending(p)
    /\ Goto(p, "apply")
    /\ UNCHANGED <<cacheVars, db, dirty, written, durable, unflushed, local, ended, key, val, calls>>

ApplyClear(p) ==
    /\ stage[p] = "apply"
    /\ \E n \in toClear[p] :
          /\ Cache!Clear(p, n)
          /\ toClear' = [toClear EXCEPT ![p] = @ \ {n}]
    /\ UNCHANGED <<dbVars, sessionVars, stage, key, val, toPut, calls>>

ApplyPut(p) ==
    /\ stage[p] = "apply" /\ toClear[p] = {}
    /\ \E k \in Key :
          /\ toPut[p][k] # Nothing
          /\ Cache!Put(p, k, toPut[p][k])
          /\ toPut' = [toPut EXCEPT ![p][k] = Nothing]
    /\ UNCHANGED <<dbVars, sessionVars, stage, key, val, toClear, calls>>

ApplyReleases(p) ==
    /\ stage[p] = "apply"
    /\ Cache!Release(p)
    /\ UNCHANGED <<dbVars, sessionVars, procVars>>

ApplyDone(p) ==
    /\ stage[p] = "apply" /\ pc[p] = "idle"
    /\ toClear[p] = {} /\ toPut[p] = NoVersions
    /\ Finish(p)
    /\ UNCHANGED <<cacheVars, dbVars, sessionVars>>

(* Rollback, and Close of a transaction that has not completed. *)
Rollback(p) ==
    /\ Complete(p, "rollback")
    /\ DropPending(p)
    /\ UNCHANGED <<cacheVars, dbVars>>

RollbackDone(p) ==
    /\ stage[p] = "rollback"
    /\ AbortTx(p)
    /\ Finish(p)
    /\ UNCHANGED <<cacheVars, sessionVars>>

(* Commit, Rollback and Close of an auto-commit session. *)
EndUnit(p) ==
    /\ ~InTx(p)
    /\ Begin(p, NoKey, "idle")
    /\ ClearLocal(p)
    /\ UNCHANGED <<cacheVars, dbVars, ended, flushes, puts>>

(***************************************************************************)
(* The environment: the context of a statement ends, the next statement    *)
(* has a new one, an entry is evicted or expires.                          *)
(***************************************************************************)
Cancel(p) ==
    /\ stage[p] \notin {"idle", "commit", "take", "apply", "rollback"}
    /\ Cache!Cancel(p)
    /\ UNCHANGED <<dbVars, sessionVars, procVars>>

Renew(p) ==
    /\ stage[p] = "idle"
    /\ Cache!Renew(p)
    /\ UNCHANGED <<dbVars, sessionVars, procVars>>

Lose(k) ==
    /\ Cache!Lose(k)
    /\ UNCHANGED <<dbVars, sessionVars, procVars>>

Call(p) ==
    \/ \E k \in Key : QueryLocal(p, k) \/ QuerySkipsCache(p, k) \/ QueryCached(p, k)
                     \/ Exec(p, k) \/ Affect(p, k) \/ AffectBare(p, k)
    \/ Commit(p) \/ Rollback(p) \/ EndUnit(p)

Step(p) ==
    \/ CacheWaits(p) \/ CacheHits(p) \/ CacheFails(p) \/ CacheMisses(p)
    \/ ReadRows(p) \/ ReadFails(p) \/ StorePending(p) \/ StoreShared(p)
    \/ Published(p) \/ ReleaseMiss(p)
    \/ Write(p) \/ WriteUnflushed(p) \/ WriteFails(p) \/ WriteAnswerLost(p)
    \/ FlushPending(p) \/ FlushShared(p) \/ Flushed(p)
    \/ PreFlushPending(p) \/ PreFlushShared(p) \/ PreFlushed(p) \/ AffectWrite(p)
    \/ CommitDone(p) \/ CommitFails(p) \/ TakePending(p)
    \/ ApplyClear(p) \/ ApplyPut(p) \/ ApplyReleases(p) \/ ApplyDone(p)
    \/ RollbackDone(p)

Next ==
    \/ \E p \in Proc : Call(p) \/ Step(p) \/ Cancel(p) \/ Renew(p)
    \/ \E k \in Key : Lose(k)

Spec == Init /\ [][Next]_vars
(***************************************************************************)
(* Properties.                                                             *)
(***************************************************************************)

(* The variables have the types of the fields and locals they stand for.   *)
TypeOK ==
    /\ Cache!TypeOK
    /\ db \in [Key -> Version] /\ written \in Version /\ durable \in SUBSET Version
    /\ dirty \in [Session -> [Key -> Version \cup {Nothing}]]
    /\ local \in [Session -> [Key -> Version \cup {Nothing}]]
    /\ ended \in SUBSET TxSession
    /\ flushes \in [Session -> SUBSET Namespace]
    /\ puts \in [Session -> [Key -> Version \cup {Nothing}]]
    /\ stage \in [Proc -> Stage]
    /\ key \in [Proc -> Key \cup {NoKey}]
    /\ val \in [Proc -> Version \cup {Nothing}]
    /\ toClear \in [Proc -> SUBSET Namespace]
    /\ toPut \in [Proc -> [Key -> Version \cup {Nothing}]]
    /\ calls \in [Proc -> Nat]
    /\ exposed \in SUBSET (Key \X Cause)
    /\ unflushed \in SUBSET (Session \X Key)

(* A TxSession is not shared between goroutines.                           *)
OneCallerPerTx ==
    \A p, q \in Proc : SessionOf[p] \in TxSession /\ SessionOf[p] = SessionOf[q] => p = q

(* The session wrote the row with a statement that flushed nothing.        *)
WroteUnflushed(s, k) == <<s, k>> \in unflushed

(* No other session ever gets, through the shared cache, data that a       *)
(* transaction wrote and did not commit: not while it runs, not after it   *)
(* rolls back, and not after its commit fails.  Two things are asked of    *)
(* the transactions: none is used by several goroutines at once, and none  *)
(* writes the row with FlushCache disabled, for then what it read between  *)
(* two such writes is put at its commit.                                   *)
NoUncommittedShared ==
    OneCallerPerTx =>
        \A k \in Key : store[k] # Nothing =>
            store[k] \in durable \/ \E s \in TxSession : WroteUnflushed(s, k)

(* A transaction of one goroutine reads its own writes: once it wrote a    *)
(* row, with statements that flush, no cache it consults answers an older  *)
(* version of the row, and what it will publish for the row at commit is   *)
(* its own last version.                                                   *)
ReadYourWrites ==
    OneCallerPerTx =>
      \A s \in TxSession, k \in Key :
        dirty[s][k] # Nothing /\ ~WroteUnflushed(s, k) =>
            \/ \E p \in Proc : SessionOf[p] = s /\ stage[p] = "flush" /\ key[p] = k
            \/ /\ local[s][k] \in {Nothing, dirty[s][k]}
               /\ puts[s][k] \in {Nothing, dirty[s][k]}
               /\ \A p \in Proc :
                     SessionOf[p] = s /\ key[p] = k =>
                        stage[p] # "cache" /\ val[p] \in {Nothing, dirty[s][k]}

(* Nothing stays pending in a transaction that has ended, whichever way it *)
(* ended: no flush is forgotten after a commit, no put survives a rollback.*)
NothingPendingAfterEnd ==
    \A s \in ended :
        (\A p \in Proc : SessionOf[p] = s => stage[p] \notin {"commit", "take"}) =>
            flushes[s] = {} /\ puts[s] = NoVersions

(* A clear of the namespace of k that a goroutine still has to make for a  *)
(* write of row k that is committed already.                               *)
WillClear(k) ==
    \E p \in Proc :
        \/ stage[p] = "flush" /\ ~InTx(p) /\ key[p] = k
        \/ stage[p] = "take" /\ (NsOf[k] \in flushes[SessionOf[p]] \/ Flushing(SessionOf[p], k))
        \/ NsOf[k] \in toClear[p]

Stale(k) == store[k] \notin {Nothing, db[k]}

(* The shared cache holds a stale row only while the flush of the write is *)
(* still to come, or a write of that row flushed nothing (its FlushCache   *)
(* is disabled, or its session is without the shared caches), or for a     *)
(* cause noted at a write of that row: another goroutine held the old row, *)
(* read but not yet published ("overlap"); the flush itself failed; the    *)
(* write was reported as failed ("answer lost"); the statement flushed     *)
(* before it wrote ("flushed early"); or another goroutine committed the   *)
(* write before its flush was pending ("flush missed").  There is no other *)
(* way to stale data, whoever shares what.                                 *)
StaleHasCause ==
    \A k \in Key : Stale(k) =>
        \/ WillClear(k)
        \/ \E s \in Session : WroteUnflushed(s, k)
        \/ \E c \in Cause : <<k, c>> \in exposed

Loading(p) ==
    /\ Caches(p) /\ key[p] # NoKey /\ NsOf[key[p]] \in Blocking
    /\ stage[p] \in {"read", "store"}
    /\ NsOf[key[p]] \notin flushes[SessionOf[p]]

(* No flight is abandoned: whatever a loader runs into, some goroutine is  *)
(* on its way to release the key, so the waiters of NoLostWakeup do wake.  *)
FlightWillBeReleased ==
    \A k \in Key :
        flights[k] # NoChan =>
            \E p \in Proc : Caches(p) /\ key[p] = k /\ stage[p] \in {"read", "store", "publish", "release"}

(* The same of the composed cache: see BlockingCache.                      *)
NoLostWakeup == Cache!NoLostWakeup

(* blocking_cache.go:9 promises one load right for each key, and line 82   *)
(* that ReleaseMiss gives up the right of a miss that was not written to   *)
(* the cache: then the deferred release of one query does not take away    *)
(* the right another goroutine is loading the same key with.               *)
ReleasesOwnRight ==
    [][\A p \in Proc :
         stage[p] = "release" /\ stage'[p] = "idle" /\ flights[key[p]] # NoChan =>
            \A q \in Proc \ {p} : Loading(q) => key[q] # key[p]]_vars

(* Goroutines that can go on do, and the database answers each statement.  *)
FairSpec == Spec /\ \A p \in Proc : WF_vars(Step(p))

(* Every statement, commit and rollback ends.                              *)
CallEnds == \A p \in Proc : stage[p] # "idle" ~> stage[p] = "idle"
=============================================================================
