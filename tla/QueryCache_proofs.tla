------------------------- MODULE QueryCache_proofs -------------------------
(***************************************************************************)
(* Proofs about QueryCache, for any goroutines, sessions, rows, namespaces *)
(* and bounds.                                                             *)
(***************************************************************************)
EXTENDS QueryCache, TLAPS

(* The answers of the caches are the sessions' here, and not recorded.     *)
CacheProofs == INSTANCE BlockingCache_proofs WITH Value <- Version, reply <- Nothing

USE NothingIsNoVersion, NoChanIsNoChan, NoKeyIsNoKey, NsOfTotal, SessionsTotal, BoundsAreNat

(* The stages of a call on the shared cache, and of a statement.           *)
InCall == {"cache", "publish", "cleared", "preflushed", "apply"}
InStatement == {"cache", "read", "store", "publish", "release", "write", "flush",
                "cleared", "preflush", "preflushed", "affect", "bare"}

(* A statement has a row, a result to store has a version, the call on the *)
(* shared cache a goroutine is in is the one its stage says, only a session*)
(* with the shared caches consults them, and only a transaction commits or *)
(* rolls back.                                                             *)
ShapeOf(p) ==
    /\ stage[p] \in InStatement => key[p] \in Key
    /\ stage[p] = "store" => val[p] # Nothing
    /\ stage[p] = "cache" => arg[p] = {key[p]} /\ pc[p] \in {"lookup", "begin", "wait"} /\ Caches(p)
    /\ stage[p] \in {"publish", "cleared", "preflushed"} => pc[p] = "release" /\ ~InTx(p)
    /\ stage[p] = "apply" => pc[p] \in {"idle", "release"}
    /\ stage[p] \notin InCall => pc[p] = "idle"
    /\ stage[p] \in {"commit", "take", "apply", "rollback"} => InTx(p)

StmtShape == \A p \in Proc : ShapeOf(p)

(* The steps that leave the shared caches alone.                           *)
LEMMA QuietSteps ==
  ASSUME NEW p \in Proc,
         \/ \E k \in Key : \/ QueryLocal(p, k) \/ QuerySkipsCache(p, k) \/ Exec(p, k)
                            \/ Affect(p, k) \/ AffectBare(p, k)
         \/ Commit(p) \/ Rollback(p) \/ EndUnit(p)
         \/ ReadRows(p) \/ ReadFails(p) \/ StorePending(p)
         \/ Write(p) \/ WriteUnflushed(p) \/ WriteFails(p) \/ WriteAnswerLost(p) \/ FlushPending(p)
         \/ PreFlushPending(p) \/ AffectWrite(p) \/ CommitDone(p) \/ CommitFails(p)
         \/ TakePending(p) \/ ApplyDone(p) \/ RollbackDone(p)
  PROVE  UNCHANGED Cache!vars
  BY DEF QueryLocal, QuerySkipsCache, Exec, Affect, AffectBare, Commit, Rollback, EndUnit, ReadRows,
         ReadFails, StorePending, Write, WriteUnflushed, WriteFails, WriteAnswerLost, FlushPending,
         PreFlushPending, AffectWrite, CommitDone, CommitFails, TakePending, ApplyDone,
         RollbackDone, cacheVars, Cache!vars

(* Every step of a session is a step BlockingCache allows its callers, or  *)
(* none.                                                                   *)
CacheStepOf(p) ==
    Cache!Step(p) \/ Cache!Call(p) \/ Cache!Cancel(p) \/ Cache!Renew(p) \/ UNCHANGED Cache!vars

LEMMA StepIsCacheStepOf ==
  ASSUME TypeOK, StmtShape, NEW p \in Proc, Call(p) \/ Step(p) \/ Cancel(p) \/ Renew(p)
  PROVE  CacheStepOf(p)
<1> USE DEF CacheStepOf
<1>1. CASE Call(p)
  <2>1. CASE \E k \in Key : QueryCached(p, k)
    BY <2>1 DEF QueryCached, Cache!Call
  <2> QED
    BY <1>1, <2>1, QuietSteps DEF Call
<1>2. CASE Step(p)
  <2>1. CASE CacheWaits(p) \/ CacheHits(p) \/ CacheFails(p) \/ CacheMisses(p)
    BY <2>1 DEF CacheWaits, CacheHits, CacheFails, CacheMisses, Cache!Step
  <2>2. CASE Published(p) \/ Flushed(p) \/ PreFlushed(p) \/ ApplyReleases(p)
    BY <2>2 DEF Published, Flushed, PreFlushed, ApplyReleases, Cache!Step
  <2>3. CASE StoreShared(p)
    <3>1. key[p] \in Key /\ val[p] \in Version
      BY <2>3 DEF StoreShared, TypeOK, StmtShape, ShapeOf, InStatement
    <3> QED
      BY <2>3, <3>1 DEF StoreShared, Cache!Call
  <2>4. CASE ReleaseMiss(p)
    <3>1. key[p] \in Key
      BY <2>4 DEF ReleaseMiss, StmtShape, ShapeOf, InStatement
    <3> QED
      BY <2>4, <3>1 DEF ReleaseMiss, Cache!Call, cacheVars, Cache!vars
  <2>5. CASE FlushShared(p) \/ PreFlushShared(p)
    <3>1. NsOf[key[p]] \in Namespace
      BY <2>5 DEF FlushShared, PreFlushShared, StmtShape, ShapeOf, InStatement
    <3> QED
      BY <2>5, <3>1 DEF FlushShared, PreFlushShared, Cache!Call
  <2>6. CASE ApplyClear(p)
    BY <2>6 DEF ApplyClear, TypeOK, Cache!Call
  <2>7. CASE ApplyPut(p)
    BY <2>7 DEF ApplyPut, TypeOK, Cache!Call
  <2> QED
    BY <1>2, <2>1, <2>2, <2>3, <2>4, <2>5, <2>6, <2>7, QuietSteps DEF Step
<1>3. CASE Cancel(p) \/ Renew(p)
  BY <1>3 DEF Cancel, Renew
<1> QED
  BY <1>1, <1>2, <1>3

LEMMA StepIsCacheStep ==
  ASSUME TypeOK, StmtShape, [Next]_vars
  PROVE  Cache!Next \/ UNCHANGED Cache!vars
<1>1. CASE \E p \in Proc : Call(p) \/ Step(p) \/ Cancel(p) \/ Renew(p)
  BY <1>1, StepIsCacheStepOf DEF CacheStepOf, Cache!Next
<1>2. ASSUME NEW k \in Key, Lose(k) PROVE Cache!Next
  BY <1>2 DEF Lose, Cache!Next
<1>3. CASE UNCHANGED vars
  BY <1>3 DEF vars, cacheVars, Cache!vars
<1> QED
  BY <1>1, <1>2, <1>3 DEF Next

(* BlockingCache and its proofs are instantiated side by side: their       *)
(* definitions are the same.                                               *)
LEMMA SameCache ==
  /\ Cache!Init => CacheProofs!Init
  /\ Cache!Next \/ UNCHANGED Cache!vars => [CacheProofs!Next]_CacheProofs!vars
  /\ Cache!TypeOK <=> CacheProofs!TypeOK
  /\ Cache!TypeOK' <=> CacheProofs!TypeOK'
  /\ Cache!NoLostWakeup <=> CacheProofs!NoLostWakeup
<1> USE DEF Cache!vars, CacheProofs!vars
<1>1. Cache!Init => CacheProofs!Init
  BY DEF Cache!Init, CacheProofs!Init
<1>2. \A p \in Proc : Cache!Step(p) => CacheProofs!Step(p)
  BY DEF Cache!Step, CacheProofs!Step, Cache!LookupFails, CacheProofs!LookupFails,
     Cache!LookupHits, CacheProofs!LookupHits, Cache!LookupMisses, CacheProofs!LookupMisses,
     Cache!PlainMiss, CacheProofs!PlainMiss, Cache!BeginFlight, CacheProofs!BeginFlight,
     Cache!JoinFlight, CacheProofs!JoinFlight, Cache!Wake, CacheProofs!Wake,
     Cache!AbandonWait, CacheProofs!AbandonWait, Cache!Release, CacheProofs!Release,
     Cache!Close, CacheProofs!Close, Cache!Return, CacheProofs!Return,
     Cache!Goto, CacheProofs!Goto, Cache!Fresh, CacheProofs!Fresh
<1>3. \A p \in Proc : Cache!Call(p) => CacheProofs!Call(p)
  BY DEF Cache!Call, CacheProofs!Call, Cache!Get, CacheProofs!Get, Cache!Put, CacheProofs!Put,
     Cache!Remove, CacheProofs!Remove, Cache!Clear, CacheProofs!Clear,
     Cache!Change, CacheProofs!Change, Cache!ReleaseMiss, CacheProofs!ReleaseMiss,
     Cache!Close, CacheProofs!Close, Cache!Goto, CacheProofs!Goto,
     Cache!KeysOf, CacheProofs!KeysOf
<1>4. \A p \in Proc : Cache!Cancel(p) \/ Cache!Renew(p) => CacheProofs!Cancel(p) \/ CacheProofs!Renew(p)
  BY DEF Cache!Cancel, CacheProofs!Cancel, Cache!Renew, CacheProofs!Renew
<1>5. \A k \in Key : Cache!Lose(k) => CacheProofs!Lose(k)
  BY DEF Cache!Lose, CacheProofs!Lose
<1>6. Cache!TypeOK <=> CacheProofs!TypeOK
  BY DEF Cache!TypeOK, CacheProofs!TypeOK, Cache!Stage, CacheProofs!Stage
<1>7. Cache!TypeOK' <=> CacheProofs!TypeOK'
  BY DEF Cache!TypeOK, CacheProofs!TypeOK, Cache!Stage, CacheProofs!Stage
<1>8. Cache!NoLostWakeup <=> CacheProofs!NoLostWakeup
  BY DEF Cache!NoLostWakeup, CacheProofs!NoLostWakeup
<1> QED
  BY <1>1, <1>2, <1>3, <1>4, <1>5, <1>6, <1>7, <1>8 DEF Cache!Next, CacheProofs!Next

(* The statements keep the types of the shared caches' variables.          *)
LEMMA CacheTypeStep ==
  ASSUME TypeOK, StmtShape, [Next]_vars
  PROVE  Cache!TypeOK'
BY StepIsCacheStep, SameCache, CacheProofs!TypeStep DEF TypeOK

(* The types of the other variables, those of a group together.            *)
DbType ==
    /\ db \in [Key -> Version] /\ written \in Version /\ durable \in SUBSET Version
    /\ dirty \in [Session -> [Key -> Version \cup {Nothing}]]
    /\ exposed \in SUBSET (Key \X Cause)
    /\ unflushed \in SUBSET (Session \X Key)

SessionType ==
    /\ local \in [Session -> [Key -> Version \cup {Nothing}]]
    /\ ended \in SUBSET TxSession
    /\ flushes \in [Session -> SUBSET Namespace]
    /\ puts \in [Session -> [Key -> Version \cup {Nothing}]]

ProcType ==
    /\ stage \in [Proc -> Stage]
    /\ key \in [Proc -> Key \cup {NoKey}]
    /\ val \in [Proc -> Version \cup {Nothing}]
    /\ toClear \in [Proc -> SUBSET Namespace]
    /\ toPut \in [Proc -> [Key -> Version \cup {Nothing}]]
    /\ calls \in [Proc -> Nat]

LEMMA TypeParts == TypeOK <=> Cache!TypeOK /\ DbType /\ SessionType /\ ProcType
BY DEF TypeOK, DbType, SessionType, ProcType

LEMMA TypePartsNext == TypeOK' <=> Cache!TypeOK' /\ DbType' /\ SessionType' /\ ProcType'
BY DEF TypeOK, DbType, SessionType, ProcType

LEMMA NoVersionsType == NoVersions \in [Key -> Version \cup {Nothing}]
BY DEF NoVersions

(* A commit of versions keeps the types of the database.                   *)
LEMMA PublishType ==
  ASSUME TypeOK, NEW new \in [Key -> Version \cup {Nothing}], NEW causes \in SUBSET Cause,
         Publish(new, causes)
  PROVE  /\ db' \in [Key -> Version] /\ durable' \in SUBSET Version
         /\ exposed' \in SUBSET (Key \X Cause)
<1> DEFINE ks == {k \in Key : new[k] # Nothing}
<1>1. db' \in [Key -> Version] /\ durable' \in SUBSET Version
  BY DEF Publish, TypeOK
<1>2. exposed' = exposed \cup (ks \X causes)
                         \cup ({k \in ks : Holds(k, new[k])} \X {"overlap"})
  BY DEF Publish
<1>3. {k \in ks : Holds(k, new[k])} \subseteq Key /\ {"overlap"} \subseteq Cause
  BY DEF Cause
<1> QED
  BY <1>1, <1>2, <1>3 DEF TypeOK

LEMMA AppliedType ==
  ASSUME TypeOK, NEW p \in Proc, key[p] \in Key, NEW causes \in SUBSET Cause,
         Applied(p, causes), unflushed' \in SUBSET (Session \X Key)
  PROVE  DbType'
<1>1. written < MaxVersion /\ written' = written + 1 /\ written' \in Version
  BY DEF Applied, Next1, TypeOK, Version
<1>2. [NoVersions EXCEPT ![key[p]] = Next1] \in [Key -> Version \cup {Nothing}]
  BY <1>1, NoVersionsType DEF Next1
<1>3. CASE InTx(p)
  <2> DEFINE s == SessionOf[p]
  <2>1. s \in Session /\ dirty \in [Session -> [Key -> Version \cup {Nothing}]]
    BY DEF TypeOK
  <2>2. dirty' = [dirty EXCEPT ![s][key[p]] = written + 1]
    BY <1>3 DEF Applied, Next1
  <2>3. dirty' \in [Session -> [Key -> Version \cup {Nothing}]]
    BY <2>1, <2>2, <1>1
  <2> QED
    BY <2>3, <1>1, <1>3 DEF Applied, TypeOK, DbType
<1>4. CASE ~InTx(p)
  BY <1>1, <1>2, <1>4, PublishType DEF Applied, TypeOK, DbType
<1> QED
  BY <1>3, <1>4

(* The helpers of the actions keep the types too.                          *)
LEMMA BeginType ==
  ASSUME TypeOK, NEW p \in Proc, NEW k \in Key \cup {NoKey}, NEW next \in Stage,
         Begin(p, k, next)
  PROVE  ProcType'
BY DEF TypeOK, ProcType, Begin, Goto

LEMMA ContinueType ==
  ASSUME TypeOK, NEW p \in Proc, NEW next \in Stage, Continue(p, next)
  PROVE  ProcType'
BY DEF TypeOK, ProcType, Continue, Goto

LEMMA FinishType ==
  ASSUME TypeOK, NEW p \in Proc, Finish(p)
  PROVE  ProcType'
BY DEF TypeOK, ProcType, Finish, Goto, Stage

LEMMA PutLocalType ==
  ASSUME TypeOK, NEW p \in Proc, key[p] \in Key, NEW v \in Version, PutLocal(p, v)
  PROVE  local' \in [Session -> [Key -> Version \cup {Nothing}]]
<1> DEFINE s == SessionOf[p]
<1>1. s \in Session /\ local \in [Session -> [Key -> Version \cup {Nothing}]]
  BY DEF TypeOK
<1>2. local' = [local EXCEPT ![s][key[p]] = v]
  BY DEF PutLocal
<1> QED
  BY <1>1, <1>2

LEMMA ClearLocalType ==
  ASSUME TypeOK, NEW p \in Proc, ClearLocal(p)
  PROVE  local' \in [Session -> [Key -> Version \cup {Nothing}]]
BY NoVersionsType DEF TypeOK, ClearLocal

LEMMA MarkFlushType ==
  ASSUME TypeOK, NEW p \in Proc, key[p] \in Key, MarkFlush(p)
  PROVE  SessionType'
<1> DEFINE s == SessionOf[p]
           n == NsOf[key[p]]
           left == [k \in Key |-> IF NsOf[k] = n THEN Nothing ELSE puts[s][k]]
<1>1. s \in Session /\ n \in Namespace
  OBVIOUS
<1>2. puts \in [Session -> [Key -> Version \cup {Nothing}]] /\ flushes \in [Session -> SUBSET Namespace]
  BY DEF TypeOK
<1>3. left \in [Key -> Version \cup {Nothing}]
  BY <1>1, <1>2
<1>4. flushes' = [flushes EXCEPT ![s] = flushes[s] \cup {n}] /\ puts' = [puts EXCEPT ![s] = left]
  BY DEF MarkFlush
<1>5. puts' \in [Session -> [Key -> Version \cup {Nothing}]]
  BY <1>2, <1>3, <1>4
<1>6. flushes' \in [Session -> SUBSET Namespace]
  BY <1>1, <1>2, <1>4
<1> QED
  BY <1>5, <1>6 DEF MarkFlush, TypeOK, SessionType

LEMMA DropPendingType ==
  ASSUME TypeOK, NEW p \in Proc, DropPending(p)
  PROVE  /\ flushes' \in [Session -> SUBSET Namespace]
         /\ puts' \in [Session -> [Key -> Version \cup {Nothing}]]
BY NoVersionsType DEF TypeOK, DropPending

LEMMA Quiet ==
  ASSUME TypeOK
  PROVE  /\ UNCHANGED dbVars => DbType'
         /\ UNCHANGED sessionVars => SessionType'
         /\ UNCHANGED procVars => ProcType'
BY DEF TypeOK, dbVars, sessionVars, procVars, DbType, SessionType, ProcType

(* A statement or a transaction begins.                                    *)
LEMMA CallType ==
  ASSUME TypeOK, NEW p \in Proc, Call(p)
  PROVE  DbType' /\ SessionType' /\ ProcType'
<1> USE Quiet DEF Stage
<1>1. ASSUME NEW k \in Key, QueryLocal(p, k) \/ QuerySkipsCache(p, k) \/ QueryCached(p, k)
      PROVE  DbType' /\ SessionType' /\ ProcType'
  BY <1>1, BeginType DEF QueryLocal, QuerySkipsCache, QueryCached
<1>2. ASSUME NEW k \in Key, Exec(p, k) \/ Affect(p, k) \/ AffectBare(p, k)
      PROVE  DbType' /\ SessionType' /\ ProcType'
  <2>1. ProcType' /\ DbType'
    BY <1>2, BeginType DEF Exec, Affect, AffectBare
  <2>2. SessionType'
    BY <1>2, ClearLocalType DEF Exec, Affect, AffectBare, SessionType, TypeOK
  <2> QED
    BY <2>1, <2>2
<1>3. CASE Commit(p) \/ Rollback(p)
  <2>1. \E next \in Stage : Complete(p, next)
    BY <1>3 DEF Commit, Rollback
  <2>2. ProcType'
    BY <2>1, BeginType DEF Complete
  <2>3. local' \in [Session -> [Key -> Version \cup {Nothing}]]
    BY <2>1, ClearLocalType DEF Complete
  <2>4. ended' \in SUBSET TxSession
    BY <2>1 DEF Complete, InTx, TypeOK
  <2>5. SessionType'
    BY <1>3, <2>3, <2>4, DropPendingType DEF Commit, Rollback, SessionType, TypeOK
  <2> QED
    BY <1>3, <2>2, <2>5 DEF Commit, Rollback
<1>4. CASE EndUnit(p)
  <2>1. ProcType' /\ DbType'
    BY <1>4, BeginType DEF EndUnit
  <2>2. SessionType'
    BY <1>4, ClearLocalType DEF EndUnit, SessionType, TypeOK
  <2> QED
    BY <2>1, <2>2
<1> QED
  BY <1>1, <1>2, <1>3, <1>4 DEF Call

(* A statement goes on, or ends.                                           *)
LEMMA StepType ==
  ASSUME TypeOK, StmtShape, NEW p \in Proc, Step(p)
  PROVE  DbType' /\ SessionType' /\ ProcType'
<1> USE Quiet DEF Stage
<1>d. stage[p] \in InStatement => key[p] \in Key
  BY DEF StmtShape, ShapeOf
<1>1. CASE CacheWaits(p) \/ CacheFails(p) \/ CacheMisses(p) \/ ReadFails(p)
           \/ Published(p) \/ ReleaseMiss(p) \/ WriteFails(p) \/ Flushed(p)
           \/ PreFlushed(p) \/ PreFlushShared(p)
  BY <1>1, ContinueType, FinishType DEF CacheWaits, CacheFails, CacheMisses, ReadFails,
     Published, ReleaseMiss, WriteFails, Flushed, PreFlushed, PreFlushShared
<1>2. CASE CacheHits(p)
  <2>1. key[p] \in Key /\ store[key[p]] \in Version
    BY <1>2, <1>d DEF CacheHits, Cache!LookupHits, InStatement, TypeOK, Cache!TypeOK, StmtShape, ShapeOf
  <2>2. local' \in [Session -> [Key -> Version \cup {Nothing}]]
    BY <1>2, <2>1, PutLocalType DEF CacheHits
  <2> QED
    BY <1>2, <2>2, FinishType DEF CacheHits, SessionType, TypeOK
<1>3. CASE ReadRows(p)
  <2>1. key[p] \in Key
    BY <1>3, <1>d DEF ReadRows, InStatement
  <2>2. Visible(p, key[p]) \in Version
    BY <2>1 DEF Visible, TypeOK
  <2>3. ProcType'
    BY <1>3, <2>2 DEF ReadRows, Goto, TypeOK, ProcType
  <2> QED
    BY <1>3, <2>3 DEF ReadRows
<1>4. CASE StorePending(p) \/ StoreShared(p)
  <2>1. key[p] \in Key /\ val[p] \in Version
    BY <1>4, <1>d DEF StorePending, StoreShared, InStatement, TypeOK, StmtShape, ShapeOf
  <2>2. local' \in [Session -> [Key -> Version \cup {Nothing}]]
    BY <1>4, <2>1, PutLocalType DEF StorePending, StoreShared
  <2>3. puts' \in [Session -> [Key -> Version \cup {Nothing}]]
    <3> DEFINE s == SessionOf[p]
    <3>1. s \in Session /\ puts \in [Session -> [Key -> Version \cup {Nothing}]]
      BY DEF TypeOK
    <3>2. puts' = puts \/ puts' = [puts EXCEPT ![s][key[p]] = val[p]]
      BY <1>4 DEF StorePending, StoreShared
    <3>3. CASE puts' = puts
      BY <3>1, <3>3
    <3>4. CASE puts' = [puts EXCEPT ![s][key[p]] = val[p]]
      BY <2>1, <3>1, <3>4
    <3> QED
      BY <3>2, <3>3, <3>4
  <2>4. SessionType'
    BY <1>4, <2>2, <2>3 DEF StorePending, StoreShared, SessionType, TypeOK
  <2> QED
    BY <1>4, <2>4, ContinueType DEF StorePending, StoreShared
<1>5. CASE Write(p) \/ WriteUnflushed(p) \/ WriteAnswerLost(p) \/ AffectWrite(p)
  <2>1. key[p] \in Key
    BY <1>5, <1>d DEF Write, WriteUnflushed, WriteAnswerLost, AffectWrite, InStatement
  <2>2. {} \in SUBSET Cause /\ {"answer lost"} \in SUBSET Cause /\ {"flushed early"} \in SUBSET Cause
    BY DEF Cause
  <2>4. unflushed' = unflushed \/ unflushed' = unflushed \cup {<<SessionOf[p], key[p]>>}
    BY <1>5 DEF Write, WriteUnflushed, WriteAnswerLost, AffectWrite
  <2>5. unflushed' \in SUBSET (Session \X Key)
    BY <2>1, <2>4 DEF TypeOK
  <2>3. DbType'
    BY <1>5, <2>1, <2>2, <2>5, AppliedType DEF Write, WriteUnflushed, WriteAnswerLost, AffectWrite
  <2> QED
    BY <1>5, <2>3, ContinueType, FinishType DEF Write, WriteUnflushed, WriteAnswerLost, AffectWrite
<1>6. CASE FlushPending(p) \/ PreFlushPending(p)
  <2>1. SessionType'
    BY <1>6, <1>d, MarkFlushType DEF FlushPending, PreFlushPending, InStatement
  <2> QED
    BY <1>6, <2>1, ContinueType, FinishType DEF FlushPending, PreFlushPending
<1>7. CASE FlushShared(p)
  <2>1. <<key[p], "flush failed">> \in Key \X Cause
    BY <1>7, <1>d DEF FlushShared, InStatement, Cause
  <2>2. DbType'
    BY <1>7, <2>1 DEF FlushShared, DbType, TypeOK
  <2> QED
    BY <1>7, <2>2, ContinueType DEF FlushShared
<1>8. CASE CommitDone(p) \/ CommitFails(p) \/ RollbackDone(p)
  <2>1. dirty[SessionOf[p]] \in [Key -> Version \cup {Nothing}]
    BY DEF TypeOK
  <2>2. {} \in SUBSET Cause /\ {"answer lost"} \in SUBSET Cause
    BY DEF Cause
  <2>3. ASSUME NEW causes \in SUBSET Cause, EndTx(p, causes) PROVE DbType'
    BY <2>1, <2>3, PublishType, NoVersionsType DEF EndTx, DbType, TypeOK
  <2>4. AbortTx(p) => DbType'
    BY NoVersionsType DEF AbortTx, DbType, TypeOK
  <2>5. DbType'
    BY <1>8, <2>2, <2>3, <2>4 DEF CommitDone, CommitFails, RollbackDone
  <2>6. SessionType'
    BY <1>8, DropPendingType DEF CommitDone, CommitFails, RollbackDone, SessionType, TypeOK
  <2> QED
    BY <1>8, <2>5, <2>6, ContinueType, FinishType DEF CommitDone, CommitFails, RollbackDone
<1>9. CASE TakePending(p)
  <2>3. DbType'
    <3>1. PICK c \in Cause :
            exposed' = exposed \cup {<<k, c>> : k \in {j \in Key : Flushing(SessionOf[p], j)}}
      BY <1>9 DEF TakePending, Cause
    <3>2. exposed' \in SUBSET (Key \X Cause)
      BY <3>1 DEF TypeOK
    <3> QED
      BY <1>9, <3>2 DEF TakePending, DbType, TypeOK
  <2>1. SessionType'
    BY <1>9, DropPendingType DEF TakePending, SessionType, TypeOK
  <2>2. ProcType'
    BY <1>9 DEF TakePending, Goto, ProcType, TypeOK
  <2> QED
    BY <1>9, <2>1, <2>2, <2>3 DEF TakePending
<1>10. CASE ApplyClear(p)
  BY <1>10 DEF ApplyClear, ProcType, TypeOK
<1>11. CASE ApplyPut(p)
  <2>1. PICK k \in Key : toPut' = [toPut EXCEPT ![p][k] = Nothing]
    BY <1>11 DEF ApplyPut
  <2>2. toPut' \in [Proc -> [Key -> Version \cup {Nothing}]]
    BY <2>1 DEF TypeOK
  <2> QED
    BY <1>11, <2>2 DEF ApplyPut, ProcType, TypeOK
<1>12. CASE ApplyReleases(p) \/ ApplyDone(p)
  BY <1>12, FinishType DEF ApplyReleases, ApplyDone
<1> QED
  BY <1>1, <1>2, <1>3, <1>4, <1>5, <1>6, <1>7, <1>8, <1>9, <1>10, <1>11, <1>12 DEF Step

(* ... and of their own.                                                   *)
LEMMA TypeStep ==
  ASSUME TypeOK, StmtShape, [Next]_vars
  PROVE  TypeOK'
<1>1. CASE \/ \E p \in Proc : Cancel(p) \/ Renew(p)
           \/ \E k \in Key : Lose(k)
           \/ UNCHANGED vars
  BY <1>1, Quiet, CacheTypeStep, TypePartsNext DEF Cancel, Renew, Lose, vars
<1> QED
  BY <1>1, CallType, StepType, CacheTypeStep, TypePartsNext DEF Next

(* What a goroutine does leaves the calls of the others where they are.    *)
LEMMA CacheFrame ==
  ASSUME TypeOK, NEW p \in Proc, NEW q \in Proc \ {p},
         CacheStepOf(p)
  PROVE  pc'[q] = pc[q] /\ arg'[q] = arg[q]
<1> USE DEF TypeOK, Cache!TypeOK, Cache!Goto, Cache!Return
<1>1. CASE Cache!Step(p)
  BY <1>1 DEF Cache!Step, Cache!LookupFails, Cache!LookupHits, Cache!LookupMisses,
     Cache!PlainMiss, Cache!BeginFlight, Cache!JoinFlight, Cache!Wake, Cache!AbandonWait,
     Cache!Release
<1>2. CASE Cache!Call(p)
  BY <1>2 DEF Cache!Call, Cache!Get, Cache!Put, Cache!Remove, Cache!Clear, Cache!Change,
     Cache!ReleaseMiss
<1> QED
  BY <1>1, <1>2 DEF CacheStepOf, Cache!Cancel, Cache!Renew, Cache!vars

LEMMA ProcFrame ==
  ASSUME TypeOK, NEW p \in Proc, NEW q \in Proc \ {p},
         Call(p) \/ Step(p) \/ Cancel(p) \/ Renew(p)
  PROVE  UNCHANGED <<stage[q], key[q], val[q], toClear[q], toPut[q]>>
<1> USE DEF TypeOK, Goto, Continue, Finish, procVars
<1>1. CASE Call(p)
  BY <1>1 DEF Call, Begin, QueryLocal, QuerySkipsCache, QueryCached, Exec, Affect, AffectBare,
     Commit, Rollback, Complete, EndUnit
<1>2. CASE \/ CacheWaits(p) \/ CacheHits(p) \/ CacheFails(p) \/ CacheMisses(p)
           \/ ReadRows(p) \/ ReadFails(p) \/ StorePending(p) \/ StoreShared(p)
           \/ Published(p) \/ ReleaseMiss(p)
  BY <1>2 DEF CacheWaits, CacheHits, CacheFails, CacheMisses, ReadRows, ReadFails,
     StorePending, StoreShared, Published, ReleaseMiss
<1>3. CASE \/ Write(p) \/ WriteUnflushed(p) \/ WriteFails(p) \/ WriteAnswerLost(p) \/ FlushPending(p)
           \/ FlushShared(p) \/ Flushed(p) \/ PreFlushPending(p) \/ PreFlushShared(p)
           \/ PreFlushed(p) \/ AffectWrite(p)
  BY <1>3 DEF Write, WriteUnflushed, WriteFails, WriteAnswerLost, FlushPending, FlushShared, Flushed,
     PreFlushPending, PreFlushShared, PreFlushed, AffectWrite
<1>4. CASE \/ CommitDone(p) \/ CommitFails(p) \/ TakePending(p) \/ ApplyClear(p) \/ ApplyPut(p)
           \/ ApplyReleases(p) \/ ApplyDone(p) \/ RollbackDone(p)
  BY <1>4 DEF CommitDone, CommitFails, TakePending, ApplyClear, ApplyPut, ApplyReleases,
     ApplyDone, RollbackDone
<1>5. CASE Cancel(p) \/ Renew(p)
  BY <1>5 DEF Cancel, Renew
<1> QED
  BY <1>1, <1>2, <1>3, <1>4, <1>5 DEF Step

(* A call on the shared cache begins and ends where its stage says.        *)
LEMMA CallShape ==
  ASSUME TypeOK, StmtShape, NEW p \in Proc, Call(p)
  PROVE  ShapeOf(p)'
<1> USE DEF InCall, InStatement, TypeOK, Cache!TypeOK, Begin, Goto, cacheVars
<1>0. stage[p] = "idle" /\ pc[p] = "idle"
  BY DEF Call, StmtShape, ShapeOf, QueryLocal, QuerySkipsCache, QueryCached, Exec, Affect, AffectBare,
     Commit, Rollback, Complete, EndUnit
<1>1. ASSUME NEW k \in Key, QueryCached(p, k) PROVE ShapeOf(p)'
  BY <1>1 DEF QueryCached, Cache!Get, Cache!Goto, ShapeOf
<1>2. ASSUME NEW k \in Key, \/ QueryLocal(p, k) \/ QuerySkipsCache(p, k) \/ Exec(p, k)
                             \/ Affect(p, k) \/ AffectBare(p, k)
      PROVE  ShapeOf(p)'
  BY <1>0, <1>2 DEF QueryLocal, QuerySkipsCache, Exec, Affect, AffectBare, ShapeOf
<1>3. CASE Commit(p) \/ Rollback(p) \/ EndUnit(p)
  BY <1>0, <1>3 DEF Commit, Rollback, Complete, EndUnit, ShapeOf
<1> QED
  BY <1>1, <1>2, <1>3 DEF Call

(* A statement that is over, or goes on without the shared cache, keeps    *)
(* its shape.                                                              *)
LEMMA FinishShape ==
  ASSUME TypeOK, NEW p \in Proc, Finish(p), pc'[p] = "idle"
  PROVE  ShapeOf(p)'
<1>1. stage'[p] = "idle"
  BY DEF TypeOK, Finish, Goto
<1> QED
  BY <1>1 DEF ShapeOf, InCall, InStatement

LEMMA ContinueShape ==
  ASSUME TypeOK, NEW p \in Proc, NEW next \in InStatement \ (InCall \cup {"store"}),
         Continue(p, next), key[p] \in Key, pc'[p] = "idle"
  PROVE  ShapeOf(p)'
<1>1. stage'[p] = next /\ key'[p] = key[p]
  BY DEF TypeOK, Continue, Goto
<1> QED
  BY <1>1 DEF ShapeOf, InCall, InStatement

(* So does a session that begins a call on the shared cache or ends one.   *)
LEMMA ChangeShape ==
  ASSUME TypeOK, NEW p \in Proc, NEW next \in {"publish", "cleared", "preflushed"},
         Continue(p, next), key[p] \in Key, pc' = [pc EXCEPT ![p] = "release"], ~InTx(p)
  PROVE  ShapeOf(p)'
<1>1. stage'[p] = next /\ key'[p] = key[p]
  BY DEF TypeOK, Continue, Goto
<1>2. pc'[p] = "release" /\ ~InTx(p)'
  BY DEF TypeOK, Cache!TypeOK, InTx
<1> QED
  BY <1>1, <1>2 DEF ShapeOf, InCall, InStatement

LEMMA ChangeIsCall ==
  ASSUME NEW p \in Proc, (\E k \in Key : \E v : Cache!Put(p, k, v)) \/ (\E n : Cache!Clear(p, n))
  PROVE  pc' = [pc EXCEPT ![p] = "release"]
BY DEF Cache!Put, Cache!Clear, Cache!Change, Cache!Goto

LEMMA ReleaseEndsCall ==
  ASSUME TypeOK, NEW p \in Proc, Cache!Release(p)
  PROVE  pc'[p] = "idle"
BY DEF TypeOK, Cache!TypeOK, Cache!Release, Cache!Return, Cache!Goto

LEMMA StepShape ==
  ASSUME TypeOK, StmtShape, NEW p \in Proc, Step(p)
  PROVE  ShapeOf(p)'
<1> USE DEF InCall, InStatement, TypeOK, Cache!TypeOK, Continue, Finish, Goto,
            Cache!Goto, Cache!Return, cacheVars, procVars
<1>0. ShapeOf(p)
  BY DEF StmtShape
<1>1. CASE CacheWaits(p)
  BY <1>0, <1>1 DEF CacheWaits, Cache!LookupMisses, Cache!JoinFlight, Cache!Wake, ShapeOf
<1>2. CASE CacheHits(p) \/ CacheFails(p) \/ CacheMisses(p)
  BY <1>0, <1>2 DEF CacheHits, CacheFails, CacheMisses, Cache!LookupHits, Cache!LookupFails,
     Cache!AbandonWait, Cache!PlainMiss, Cache!BeginFlight, ShapeOf
<1>3. CASE ReadRows(p)
  <2>1. key[p] \in Key /\ Visible(p, key[p]) # Nothing
    BY <1>0, <1>3 DEF ReadRows, Visible, ShapeOf
  <2> QED
    BY <1>0, <2>1, <1>3 DEF ReadRows, ShapeOf
<1>4. CASE ReadFails(p) \/ StorePending(p) \/ Write(p) \/ PreFlushPending(p)
  <2>1. /\ stage[p] \in {"read", "store", "write", "preflush"}
        /\ \E next \in {"release", "flush", "affect"} : Continue(p, next)
        /\ pc' = pc
    BY <1>4 DEF ReadFails, StorePending, Write, PreFlushPending
  <2>2. key[p] \in Key /\ pc'[p] = "idle"
    BY <1>0, <2>1 DEF ShapeOf
  <2> HIDE DEF Continue, TypeOK, Goto, cacheVars, procVars
  <2> QED
    BY <2>1, <2>2, ContinueShape
<1>5. CASE \/ WriteUnflushed(p) \/ WriteFails(p) \/ WriteAnswerLost(p)
           \/ FlushPending(p) \/ AffectWrite(p)
  <2>1. stage[p] \in {"write", "affect", "bare", "flush"} /\ Finish(p) /\ pc' = pc
    BY <1>5 DEF WriteUnflushed, WriteFails, WriteAnswerLost, FlushPending, AffectWrite
  <2>2. pc'[p] = "idle"
    BY <1>0, <2>1 DEF ShapeOf
  <2> HIDE DEF Finish, TypeOK, Goto, cacheVars, procVars
  <2> QED
    BY <2>1, <2>2, FinishShape
<1>6. CASE StoreShared(p) \/ FlushShared(p) \/ PreFlushShared(p)
  <2> HIDE DEF Continue, TypeOK, Goto, cacheVars, procVars
  <2>1. /\ stage[p] \in {"store", "flush", "preflush"} /\ ~InTx(p)
        /\ \E next \in {"publish", "cleared", "preflushed"} : Continue(p, next)
    BY <1>6 DEF StoreShared, FlushShared, PreFlushShared
  <2>2. key[p] \in Key
    BY <1>0, <2>1 DEF ShapeOf
  <2>3. (\E k \in Key : \E v : Cache!Put(p, k, v)) \/ (\E n : Cache!Clear(p, n))
    BY <1>6, <2>2 DEF StoreShared, FlushShared, PreFlushShared
  <2> QED
    BY <2>1, <2>2, <2>3, ChangeIsCall, ChangeShape
<1>10. CASE Published(p) \/ PreFlushed(p)
  <2> HIDE DEF Continue, TypeOK, Goto, Cache!Return, cacheVars, procVars
  <2>1. /\ stage[p] \in {"publish", "preflushed"} /\ Cache!Release(p)
        /\ \E next \in {"release", "affect"} : Continue(p, next)
    BY <1>10 DEF Published, PreFlushed
  <2>2. key[p] \in Key
    BY <1>0, <2>1 DEF ShapeOf
  <2> QED
    BY <2>1, <2>2, ReleaseEndsCall, ContinueShape
<1>11. CASE ReleaseMiss(p) \/ Flushed(p)
  <2>1. Finish(p) /\ (Cache!Release(p) \/ (stage[p] = "release" /\ pc' = pc))
    BY <1>11 DEF ReleaseMiss, Flushed, Cache!ReleaseMiss
  <2>2. pc'[p] = "idle"
    BY <1>0, <2>1, ReleaseEndsCall DEF ShapeOf
  <2> HIDE DEF Finish, TypeOK, Goto, Cache!Return, cacheVars, procVars
  <2> QED
    BY <2>1, <2>2, FinishShape
<1>7. CASE CommitFails(p) \/ ApplyDone(p) \/ RollbackDone(p)
  <2>1. /\ stage[p] \in {"commit", "rollback"} \/ pc[p] = "idle"
        /\ Finish(p) /\ pc' = pc
    BY <1>7 DEF CommitFails, ApplyDone, RollbackDone
  <2>2. pc'[p] = "idle"
    BY <1>0, <2>1 DEF ShapeOf
  <2> HIDE DEF Finish, TypeOK, Goto, cacheVars, procVars
  <2> QED
    BY <2>1, <2>2, FinishShape
<1>9. CASE CommitDone(p) \/ TakePending(p)
  <2>1. /\ stage[p] \in {"commit", "take"} /\ pc' = pc
        /\ \E next \in {"take", "apply"} : stage' = [stage EXCEPT ![p] = next]
    BY <1>9 DEF CommitDone, TakePending
  <2>2. pc'[p] = "idle" /\ InTx(p) /\ InTx(p)' = InTx(p)
    BY <1>0, <2>1 DEF ShapeOf, InTx
  <2>3. stage'[p] \in {"take", "apply"}
    BY <2>1
  <2> QED
    BY <2>2, <2>3 DEF ShapeOf
<1>8. CASE ApplyClear(p) \/ ApplyPut(p) \/ ApplyReleases(p)
  BY <1>0, <1>8 DEF ApplyClear, ApplyPut, ApplyReleases, Cache!Put, Cache!Clear,
     Cache!Change, Cache!Release, ShapeOf
<1> QED
  BY <1>1, <1>2, <1>3, <1>4, <1>5, <1>6, <1>7, <1>8, <1>9, <1>10, <1>11 DEF Step

(* Every step keeps the shape of the statements.                           *)
LEMMA ShapeStep ==
  ASSUME TypeOK, StmtShape, [Next]_vars
  PROVE  StmtShape'
<1> USE DEF InCall, InStatement
<1>1. ASSUME NEW p \in Proc, Call(p) \/ Step(p) \/ Cancel(p) \/ Renew(p) PROVE StmtShape'
  <2>1. ASSUME NEW q \in Proc \ {p} PROVE ShapeOf(q)'
    <3>1. UNCHANGED <<stage[q], key[q], val[q]>>
      BY <1>1, <2>1, ProcFrame
    <3>2. UNCHANGED <<pc[q], arg[q]>>
      BY <1>1, <2>1, StepIsCacheStepOf, CacheFrame
    <3> QED
      BY <3>1, <3>2 DEF StmtShape, ShapeOf
  <2>2. ShapeOf(p)'
    BY <1>1, CallShape, StepShape DEF Cancel, Renew, Cache!Cancel, Cache!Renew, procVars, StmtShape, ShapeOf
  <2> QED
    BY <2>1, <2>2 DEF StmtShape
<1>2. CASE (\E k \in Key : Lose(k)) \/ UNCHANGED vars
  BY <1>2 DEF Lose, Cache!Lose, vars, cacheVars, procVars, StmtShape, ShapeOf
<1> QED
  BY <1>1, <1>2 DEF Next

(* The inductive invariant of the statements.                              *)
IInv == TypeOK /\ StmtShape

LEMMA InitIInv == Init => IInv
<1> SUFFICES ASSUME Init PROVE IInv
  OBVIOUS
<1>1. Cache!TypeOK
  BY DEF Init, Cache!Init, Cache!TypeOK, Cache!Stage
<1>2. DbType /\ SessionType /\ ProcType
  <2>1. 0 \in Version
    BY DEF Version
  <2> QED
    BY <2>1, NoVersionsType DEF Init, DbType, SessionType, ProcType, Stage
<1>3. StmtShape
  BY DEF Init, Cache!Init, StmtShape, ShapeOf, InStatement, InCall
<1> QED
  BY <1>1, <1>2, <1>3, TypeParts DEF IInv

LEMMA Invariance == Spec => []IInv
<1>1. IInv /\ [Next]_vars => IInv'
  BY TypeStep, ShapeStep DEF IInv
<1> QED
  BY InitIInv, <1>1, PTL DEF Spec

(* The variables keep their types in every behaviour of the sessions.      *)
THEOREM TypeCorrect == Spec => []TypeOK
<1>1. IInv => TypeOK
  BY DEF IInv
<1> QED
  BY Invariance, <1>1, PTL

(* The composition implements BlockingCache: whatever statements, commits  *)
(* and rollbacks of the sessions interleave, the shared caches only see    *)
(* calls in the order BlockingCache allows, so that its theorems hold of   *)
(* the whole system.                                                       *)
THEOREM SessionsRespectCache == Spec => CacheProofs!Spec
<1>1. Init => CacheProofs!Init
  BY SameCache DEF Init
<1>2. IInv /\ [Next]_vars => [CacheProofs!Next]_CacheProofs!vars
  BY StepIsCacheStep, SameCache DEF IInv
<1> QED
  BY <1>1, <1>2, Invariance, PTL DEF Spec, CacheProofs!Spec

(* No query that waits for the load of another goroutine misses its end.   *)
THEOREM WakeupsAreNotLost == Spec => []NoLostWakeup
<1>1. CacheProofs!Spec => []CacheProofs!NoLostWakeup
  BY CacheProofs!WakeupsAreNotLost
<1>2. CacheProofs!NoLostWakeup => NoLostWakeup
  BY SameCache DEF NoLostWakeup
<1> QED
  BY <1>1, <1>2, SessionsRespectCache, PTL

(* Only a miss opens a flight, and then its goroutine goes on to read.     *)
LEMMA FlightsBegin ==
  ASSUME TypeOK, StmtShape, NEW p \in Proc, Call(p) \/ Step(p) \/ Cancel(p) \/ Renew(p),
         NEW k \in Key, flights[k] = NoChan, flights'[k] # NoChan
  PROVE  key'[p] = k /\ stage'[p] = "read" /\ Caches(p)
<1>1. Cache!BeginFlight(p)
  <2> USE DEF TypeOK, Cache!TypeOK, Cache!Close
  <2>1. Cache!Step(p) \/ Cache!Call(p) \/ Cache!Cancel(p) \/ Cache!Renew(p) \/ UNCHANGED Cache!vars
    BY StepIsCacheStepOf DEF CacheStepOf
  <2>2. CASE Cache!Step(p)
    BY <2>2 DEF Cache!Step, Cache!LookupFails, Cache!LookupHits, Cache!LookupMisses,
       Cache!PlainMiss, Cache!JoinFlight, Cache!Wake, Cache!AbandonWait, Cache!Release
  <2>3. CASE Cache!Call(p)
    BY <2>3 DEF Cache!Call, Cache!Get, Cache!Put, Cache!Remove, Cache!Clear, Cache!Change,
       Cache!ReleaseMiss
  <2> QED
    BY <2>1, <2>2, <2>3 DEF Cache!Cancel, Cache!Renew, Cache!vars
<1>2. pc[p] = "begin" /\ k \in arg[p]
  BY <1>1 DEF Cache!BeginFlight, TypeOK, Cache!TypeOK
<1>3. stage[p] = "cache" /\ key[p] = k /\ Caches(p)
  BY <1>2 DEF StmtShape, ShapeOf, InCall
<1>4. pc'[p] = "idle"
  BY <1>1 DEF Cache!BeginFlight, Cache!Return, Cache!Goto, TypeOK, Cache!TypeOK
<1>5. ~ Call(p) /\ ~ Cancel(p) /\ ~ Renew(p)
  <2>1. pc[p] # pc'[p]
    BY <1>2, <1>4
  <2> QED
    BY <1>3, <2>1 DEF Call, Cancel, Renew, Cache!Cancel, Cache!Renew, Begin, QueryLocal,
     QuerySkipsCache, QueryCached, Exec, Affect, AffectBare, Commit, Rollback, Complete, EndUnit
<1>6. CacheWaits(p) \/ CacheHits(p) \/ CacheFails(p) \/ CacheMisses(p)
  BY <1>3, <1>5 DEF Step, ReadRows, ReadFails, StorePending, StoreShared, Published, ReleaseMiss,
     Write, WriteUnflushed, WriteFails, WriteAnswerLost, FlushPending, FlushShared, Flushed, PreFlushPending,
     PreFlushShared, PreFlushed, AffectWrite, CommitDone, CommitFails, TakePending,
     ApplyClear, ApplyPut, ApplyReleases, ApplyDone, RollbackDone
<1>7. CacheMisses(p)
  BY <1>6 DEF CacheWaits, CacheHits, CacheFails, Cache!LookupMisses, Cache!JoinFlight,
     Cache!Wake, Cache!LookupHits, Cache!LookupFails, Cache!AbandonWait
<1> QED
  BY <1>3, <1>7 DEF CacheMisses, Continue, Goto, TypeOK

(* Only the release of a key's miss ends the goroutine's load of the key.  *)
LoaderOf(k, q) == Caches(q) /\ key[q] = k /\ stage[q] \in {"read", "store", "publish", "release"}

LEMMA LoadsGoOn ==
  ASSUME TypeOK, StmtShape, NEW p \in Proc, Call(p) \/ Step(p) \/ Cancel(p) \/ Renew(p),
         NEW k \in Key, LoaderOf(k, p), flights'[k] # NoChan
  PROVE  LoaderOf(k, p)'
<1> USE DEF LoaderOf, Caches, Continue, Goto, TypeOK, procVars
<1>1. ~ Call(p)
  BY DEF Call, Begin, QueryLocal, QuerySkipsCache, QueryCached, Exec, Affect, AffectBare,
     Commit, Rollback, Complete, EndUnit
<1>2. ~ ReleaseMiss(p)
  BY DEF ReleaseMiss, Cache!ReleaseMiss, Cache!Close
<1>3. CASE ReadRows(p) \/ ReadFails(p) \/ StorePending(p) \/ StoreShared(p) \/ Published(p)
  BY <1>3 DEF ReadRows, ReadFails, StorePending, StoreShared, Published
<1>4. CASE Cancel(p) \/ Renew(p)
  BY <1>4 DEF Cancel, Renew
<1> QED
  BY <1>1, <1>2, <1>3, <1>4 DEF Step, CacheWaits, CacheHits, CacheFails, CacheMisses,
     Write, WriteUnflushed, WriteFails, WriteAnswerLost, FlushPending, FlushShared, Flushed, PreFlushPending,
     PreFlushShared, PreFlushed, AffectWrite, CommitDone, CommitFails, TakePending,
     ApplyClear, ApplyPut, ApplyReleases, ApplyDone, RollbackDone

LEMMA LoaderStep ==
  ASSUME IInv, FlightWillBeReleased, [Next]_vars
  PROVE  FlightWillBeReleased'
<1> SUFFICES ASSUME NEW k \in Key, flights'[k] # NoChan
             PROVE  \E q \in Proc : LoaderOf(k, q)'
  BY DEF FlightWillBeReleased, LoaderOf
<1>a. TypeOK /\ StmtShape
  BY DEF IInv
<1>1. ASSUME NEW p \in Proc, Call(p) \/ Step(p) \/ Cancel(p) \/ Renew(p)
      PROVE  \E q \in Proc : LoaderOf(k, q)'
  <2>1. CASE flights[k] = NoChan
    BY <1>a, <1>1, <2>1, FlightsBegin DEF LoaderOf
  <2>2. CASE flights[k] # NoChan
    <3>1. PICK q \in Proc : LoaderOf(k, q)
      BY <2>2 DEF FlightWillBeReleased, LoaderOf
    <3>2. CASE q = p
      BY <1>a, <1>1, <3>1, <3>2, LoadsGoOn
    <3>3. CASE q # p
      BY <1>a, <1>1, <3>1, <3>3, ProcFrame DEF LoaderOf
    <3> QED
      BY <3>2, <3>3
  <2> QED
    BY <2>1, <2>2
<1>2. CASE (\E j \in Key : Lose(j)) \/ UNCHANGED vars
  BY <1>2 DEF Lose, Cache!Lose, vars, cacheVars, procVars, FlightWillBeReleased, LoaderOf
<1> QED
  BY <1>1, <1>2 DEF Next

(* No flight is abandoned: with WakeupsAreNotLost, no query waits for a    *)
(* load that nobody is running.                                            *)
THEOREM FlightsAreReleased == Spec => []FlightWillBeReleased
<1>1. Init => FlightWillBeReleased
  BY DEF Init, Cache!Init, FlightWillBeReleased
<1>2. IInv /\ FlightWillBeReleased /\ [Next]_vars => FlightWillBeReleased'
  BY LoaderStep
<1> QED
  BY <1>1, <1>2, Invariance, PTL DEF Spec

-----------------------------------------------------------------------------
(* Uncommitted data never reaches the shared caches, when each transaction *)
(* is used by one goroutine.                                               *)
USE NothingIsNoVersion, NoChanIsNoChan, NoKeyIsNoKey, NsOfTotal, SessionsTotal, BoundsAreNat

(* A transaction wrote the row with a statement that flushed nothing.      *)
Unguarded(k) == \E s \in TxSession : WroteUnflushed(s, k)

(* Every version outside the transactions was committed at some time, or   *)
(* is one of an unguarded row that a commit is about to put.               *)
CommittedData ==
    /\ \A k \in Key : db[k] \in durable
    /\ \A p \in Proc, k \in Key : toPut[p][k] \in durable \cup {Nothing} \/ Unguarded(k)
    /\ \A p \in Proc : ~InTx(p) => val[p] \in durable \cup {Nothing}
    /\ \A s \in Session \ TxSession : dirty[s] = NoVersions

(* What a transaction holds back was committed, or is its own last write;  *)
(* a put of an earlier write lives no longer than the step that flushes    *)
(* its namespace, if the write has such a step.                            *)
PendingOf(p) ==
    LET s == SessionOf[p] IN
    /\ \A k \in Key :
          \/ puts[s][k] \in durable \cup {Nothing, dirty[s][k]}
          \/ stage[p] = "flush" /\ key[p] = k
          \/ WroteUnflushed(s, k)
    /\ stage[p] = "store" => val[p] \in durable \cup {dirty[s][key[p]]}
    /\ stage[p] = "affect" => puts[s][key[p]] = Nothing
    /\ stage[p] = "rollback" => puts[s] = NoVersions
    /\ stage[p] = "take" => dirty[s] = NoVersions

(* The inductive invariant behind NoUncommittedShared.                     *)
DataInv == CommittedData /\ NoUncommittedShared /\ \A p \in Proc : InTx(p) => PendingOf(p)

(* Committed versions stay in the history.                                 *)
LEMMA DurableGrows ==
  ASSUME NEW p \in Proc, Call(p) \/ Step(p) \/ Cancel(p) \/ Renew(p)
  PROVE  durable \subseteq durable'
<1> USE DEF dbVars
<1>1. CASE Call(p) \/ Cancel(p) \/ Renew(p)
  BY <1>1 DEF Call, QueryLocal, QuerySkipsCache, QueryCached, Exec, Affect, AffectBare,
     Commit, Rollback, EndUnit, Cancel, Renew
<1>2. CASE \/ CacheWaits(p) \/ CacheHits(p) \/ CacheFails(p) \/ CacheMisses(p)
           \/ ReadRows(p) \/ ReadFails(p) \/ StorePending(p) \/ StoreShared(p)
           \/ Published(p) \/ ReleaseMiss(p) \/ WriteFails(p) \/ FlushPending(p)
           \/ FlushShared(p) \/ Flushed(p) \/ PreFlushPending(p) \/ PreFlushShared(p)
           \/ PreFlushed(p) \/ TakePending(p) \/ ApplyClear(p) \/ ApplyPut(p)
           \/ ApplyReleases(p) \/ ApplyDone(p) \/ RollbackDone(p)
  BY <1>2 DEF CacheWaits, CacheHits, CacheFails, CacheMisses, ReadRows, ReadFails,
     StorePending, StoreShared, Published, ReleaseMiss, WriteFails, FlushPending, FlushShared,
     Flushed, PreFlushPending, PreFlushShared, PreFlushed, TakePending, ApplyClear, ApplyPut,
     ApplyReleases, ApplyDone, RollbackDone, AbortTx
<1>3. CASE Write(p) \/ WriteUnflushed(p) \/ WriteAnswerLost(p) \/ AffectWrite(p)
  BY <1>3 DEF Write, WriteUnflushed, WriteAnswerLost, AffectWrite, Applied, Publish
<1>4. CASE CommitDone(p) \/ CommitFails(p)
  BY <1>4 DEF CommitDone, CommitFails, EndTx, AbortTx, Publish
<1> QED
  BY <1>1, <1>2, <1>3, <1>4 DEF Step

(* A write that flushed nothing is not forgotten.                          *)
LEMMA UnflushedGrows ==
  ASSUME NEW p \in Proc, Call(p) \/ Step(p) \/ Cancel(p) \/ Renew(p)
  PROVE  /\ unflushed \subseteq unflushed'
         /\ \A s, k : WroteUnflushed(s, k) => WroteUnflushed(s, k)'
         /\ \A k : Unguarded(k) => Unguarded(k)'
<1> USE DEF dbVars
<1>1. unflushed \subseteq unflushed'
  <2>1. CASE Call(p) \/ Cancel(p) \/ Renew(p)
    BY <2>1 DEF Call, QueryLocal, QuerySkipsCache, QueryCached, Exec, Affect, AffectBare,
       Commit, Rollback, EndUnit, Cancel, Renew
  <2>2. CASE Step(p)
    BY <2>2 DEF Step, CacheWaits, CacheHits, CacheFails, CacheMisses, ReadRows, ReadFails,
       StorePending, StoreShared, Published, ReleaseMiss, Write, WriteUnflushed, WriteFails,
       WriteAnswerLost, FlushPending, FlushShared, Flushed, PreFlushPending, PreFlushShared,
       PreFlushed, AffectWrite, CommitDone, CommitFails, EndTx, AbortTx, TakePending, ApplyClear,
       ApplyPut, ApplyReleases, ApplyDone, RollbackDone
  <2> QED
    BY <2>1, <2>2
<1> QED
  BY <1>1 DEF WroteUnflushed, Unguarded

(* A goroutine changes the uncommitted writes and the pending puts of its  *)
(* own session only.                                                       *)
LEMMA SessionFrame ==
  ASSUME TypeOK, NEW p \in Proc, Call(p) \/ Step(p) \/ Cancel(p) \/ Renew(p),
         NEW s \in Session, s # SessionOf[p]
  PROVE  dirty'[s] = dirty[s] /\ puts'[s] = puts[s]
<1> USE DEF TypeOK, dbVars, sessionVars
<1>1. CASE Call(p) \/ Cancel(p) \/ Renew(p)
  BY <1>1 DEF Call, QueryLocal, QuerySkipsCache, QueryCached, Exec, Affect, AffectBare,
     Commit, Rollback, EndUnit, Cancel, Renew, DropPending
<1>2. CASE \/ CacheWaits(p) \/ CacheHits(p) \/ CacheFails(p) \/ CacheMisses(p)
           \/ ReadRows(p) \/ ReadFails(p) \/ StorePending(p) \/ StoreShared(p)
           \/ Published(p) \/ ReleaseMiss(p) \/ WriteFails(p)
           \/ FlushShared(p) \/ Flushed(p) \/ PreFlushShared(p)
           \/ PreFlushed(p) \/ TakePending(p) \/ ApplyClear(p) \/ ApplyPut(p)
           \/ ApplyReleases(p) \/ ApplyDone(p) \/ RollbackDone(p)
  BY <1>2 DEF CacheWaits, CacheHits, CacheFails, CacheMisses, ReadRows, ReadFails,
     StorePending, StoreShared, Published, ReleaseMiss, WriteFails, FlushShared,
     Flushed, PreFlushShared, PreFlushed, TakePending, ApplyClear, ApplyPut,
     ApplyReleases, ApplyDone, RollbackDone, AbortTx, DropPending
<1>3. CASE Write(p) \/ WriteUnflushed(p) \/ WriteAnswerLost(p) \/ AffectWrite(p)
  BY <1>3 DEF Write, WriteUnflushed, WriteAnswerLost, AffectWrite, Applied
<1>4. CASE CommitDone(p) \/ CommitFails(p)
  BY <1>4 DEF CommitDone, CommitFails, EndTx, AbortTx, DropPending
<1>5. CASE FlushPending(p) \/ PreFlushPending(p)
  BY <1>5 DEF FlushPending, PreFlushPending, MarkFlush
<1> QED
  BY <1>1, <1>2, <1>3, <1>4, <1>5 DEF Step

(* What the other goroutines hold back is not disturbed.                   *)
LEMMA PendingFrame ==
  ASSUME OneCallerPerTx, TypeOK, DataInv, NEW p \in Proc,
         Call(p) \/ Step(p) \/ Cancel(p) \/ Renew(p),
         NEW q \in Proc \ {p}, InTx(q)
  PROVE  PendingOf(q)'
<1>1. SessionOf[q] \in Session /\ SessionOf[q] # SessionOf[p]
  BY DEF OneCallerPerTx, InTx
<1>2. dirty'[SessionOf[q]] = dirty[SessionOf[q]] /\ puts'[SessionOf[q]] = puts[SessionOf[q]]
  BY <1>1, SessionFrame
<1>3. UNCHANGED <<stage[q], key[q], val[q]>> /\ durable \subseteq durable'
  BY ProcFrame, DurableGrows
<1>4. PendingOf(q)
  BY DEF DataInv
<1>5. \A k \in Key : WroteUnflushed(SessionOf[q], k) => WroteUnflushed(SessionOf[q], k)'
  BY UnflushedGrows
<1> QED
  BY <1>2, <1>3, <1>4, <1>5 DEF PendingOf

(* A commit of versions puts them in the history.                          *)
LEMMA PublishCommits ==
  ASSUME TypeOK, CommittedData, NEW new \in [Key -> Version \cup {Nothing}], NEW causes,
         Publish(new, causes)
  PROVE  \A k \in Key : db'[k] \in durable' /\ new[k] \in durable' \cup {Nothing}
<1> SUFFICES ASSUME NEW k \in Key
             PROVE  db'[k] \in durable' /\ new[k] \in durable' \cup {Nothing}
  OBVIOUS
<1>1. durable' = durable \cup {new[j] : j \in {i \in Key : new[i] # Nothing}}
  BY DEF Publish
<1>2. db'[k] = IF new[k] # Nothing THEN new[k] ELSE db[k]
  BY DEF Publish
<1> QED
  BY <1>1, <1>2 DEF CommittedData

(* A write of a transaction changes its own row; any other is committed.   *)
LEMMA AppliedCommits ==
  ASSUME TypeOK, CommittedData, NEW p \in Proc, key[p] \in Key, NEW causes, Applied(p, causes)
  PROVE  /\ \A k \in Key : db'[k] \in durable'
         /\ \A s \in Session \ TxSession : dirty'[s] = NoVersions
         /\ \A k \in Key \ {key[p]} : dirty'[SessionOf[p]][k] = dirty[SessionOf[p]][k]
<1> DEFINE s == SessionOf[p]
<1>0. s \in Session /\ dirty \in [Session -> [Key -> Version \cup {Nothing}]]
  BY DEF TypeOK
<1>1. CASE InTx(p)
  <2>1. UNCHANGED <<db, durable>> /\ dirty' = [dirty EXCEPT ![s][key[p]] = Next1]
    BY <1>1 DEF Applied
  <2>2. \A r \in Session \ {s} : dirty'[r] = dirty[r]
    BY <1>0, <2>1
  <2>3. \A k \in Key \ {key[p]} : dirty'[s][k] = dirty[s][k]
    BY <1>0, <2>1
  <2> QED
    BY <1>1, <2>1, <2>2, <2>3 DEF CommittedData, InTx
<1>2. CASE ~InTx(p)
  <2> DEFINE new == [NoVersions EXCEPT ![key[p]] = Next1]
  <2>1. Next1 \in Version
    BY DEF Applied, Next1, TypeOK, Version
  <2>2. new \in [Key -> Version \cup {Nothing}]
    BY <2>1, NoVersionsType
  <2>3. Publish(new, causes) /\ UNCHANGED dirty
    BY <1>2 DEF Applied
  <2> HIDE DEF new
  <2> QED
    BY <2>2, <2>3, PublishCommits DEF CommittedData
<1> QED
  BY <1>1, <1>2

LEMMA EndTxCommits ==
  ASSUME TypeOK, CommittedData, NEW p \in Proc, InTx(p), NEW causes, EndTx(p, causes)
  PROVE  /\ \A k \in Key : db'[k] \in durable'
         /\ \A k \in Key : dirty[SessionOf[p]][k] \in durable' \cup {Nothing}
         /\ \A s \in Session \ TxSession : dirty'[s] = NoVersions
         /\ dirty'[SessionOf[p]] = NoVersions
<1>1. dirty[SessionOf[p]] \in [Key -> Version \cup {Nothing}]
  BY DEF TypeOK
<1>2. dirty' = [dirty EXCEPT ![SessionOf[p]] = NoVersions]
  BY DEF EndTx
<1>3. dirty'[SessionOf[p]] = NoVersions /\ \A s \in Session \ TxSession : dirty'[s] = NoVersions
  BY <1>2 DEF TypeOK, CommittedData, InTx
<1> QED
  BY <1>1, <1>3, PublishCommits DEF EndTx

LEMMA AbortTxCommits ==
  ASSUME TypeOK, CommittedData, NEW p \in Proc, AbortTx(p)
  PROVE  /\ \A k \in Key : db'[k] \in durable'
         /\ \A s \in Session \ TxSession : dirty'[s] = NoVersions
         /\ dirty'[SessionOf[p]] = NoVersions
BY DEF CommittedData, TypeOK, AbortTx

(* The steps that leave the database alone.                                *)
LEMMA DbSteps ==
  ASSUME NEW p \in Proc, Call(p) \/ Step(p) \/ Cancel(p) \/ Renew(p)
  PROVE  \/ UNCHANGED <<db, dirty, durable>>
         \/ Write(p) \/ WriteUnflushed(p) \/ WriteAnswerLost(p) \/ AffectWrite(p)
         \/ CommitDone(p) \/ CommitFails(p) \/ RollbackDone(p)
<1> USE DEF dbVars
<1>1. CASE Call(p) \/ Cancel(p) \/ Renew(p)
  BY <1>1 DEF Call, QueryLocal, QuerySkipsCache, QueryCached, Exec, Affect, AffectBare,
     Commit, Rollback, EndUnit, Cancel, Renew
<1>2. CASE Step(p)
  BY <1>2 DEF Step, CacheWaits, CacheHits, CacheFails, CacheMisses, ReadRows, ReadFails,
     StorePending, StoreShared, Published, ReleaseMiss, WriteFails, FlushPending, FlushShared,
     Flushed, PreFlushPending, PreFlushShared, PreFlushed, TakePending, ApplyClear, ApplyPut,
     ApplyReleases, ApplyDone
<1> QED
  BY <1>1, <1>2

(* The steps that change what a statement read, or what a commit has still *)
(* to put.                                                                 *)
LEMMA LocalSteps ==
  ASSUME TypeOK, NEW p \in Proc, Call(p) \/ Step(p) \/ Cancel(p) \/ Renew(p)
  PROVE  /\ ReadRows(p) \/ val'[p] \in {val[p], Nothing}
         /\ TakePending(p) \/ ApplyPut(p) \/ toPut'[p] = toPut[p]
<1> USE DEF TypeOK, Continue, Finish, Goto, procVars
<1>1. CASE Call(p) \/ Cancel(p) \/ Renew(p)
  BY <1>1 DEF Call, Begin, QueryLocal, QuerySkipsCache, QueryCached, Exec, Affect, AffectBare,
     Commit, Rollback, Complete, EndUnit, Cancel, Renew
<1>2. CASE Step(p)
  BY <1>2 DEF Step, CacheWaits, CacheHits, CacheFails, CacheMisses, ReadRows, ReadFails,
     StorePending, StoreShared, Published, ReleaseMiss, Write, WriteUnflushed, WriteFails, WriteAnswerLost,
     FlushPending, FlushShared, Flushed, PreFlushPending, PreFlushShared, PreFlushed,
     AffectWrite, CommitDone, CommitFails, TakePending, ApplyClear, ApplyPut,
     ApplyReleases, ApplyDone, RollbackDone
<1> QED
  BY <1>1, <1>2

(* Every step keeps the data outside the transactions committed.           *)
LEMMA CommittedStep ==
  ASSUME TypeOK, StmtShape, DataInv, NEW p \in Proc, Call(p) \/ Step(p) \/ Cancel(p) \/ Renew(p)
  PROVE  CommittedData'
<1>a. /\ CommittedData /\ NoUncommittedShared /\ durable \subseteq durable'
      /\ \A k \in Key : Unguarded(k) => Unguarded(k)'
  BY DurableGrows, UnflushedGrows DEF DataInv
<1>d. ShapeOf(p) /\ (InTx(p) => PendingOf(p))
  BY DEF StmtShape, DataInv
<1>1. /\ \A k \in Key : db'[k] \in durable'
      /\ \A s \in Session \ TxSession : dirty'[s] = NoVersions
  <2>1. CASE UNCHANGED <<db, dirty, durable>>
    BY <1>a, <2>1 DEF CommittedData
  <2>2. CASE Write(p) \/ WriteUnflushed(p) \/ WriteAnswerLost(p) \/ AffectWrite(p)
    <3>1. key[p] \in Key
      BY <1>d, <2>2 DEF Write, WriteUnflushed, WriteAnswerLost, AffectWrite, ShapeOf, InStatement
    <3> QED
      BY <1>a, <2>2, <3>1, AppliedCommits DEF Write, WriteUnflushed, WriteAnswerLost, AffectWrite
  <2>3. CASE CommitDone(p) \/ CommitFails(p) \/ RollbackDone(p)
    <3>1. InTx(p)
      BY <1>d, <2>3 DEF CommitDone, CommitFails, RollbackDone, ShapeOf
    <3> QED
      BY <1>a, <2>3, <3>1, EndTxCommits, AbortTxCommits DEF CommitDone, CommitFails, RollbackDone
  <2> QED
    BY <2>1, <2>2, <2>3, DbSteps
<1>2. \A k \in Key : toPut'[p][k] \in durable' \cup {Nothing} \/ Unguarded(k)'
  <2>1. CASE toPut'[p] = toPut[p]
    BY <1>a, <2>1 DEF CommittedData
  <2>2. CASE TakePending(p)
    <3>1. InTx(p) /\ stage[p] = "take" /\ dirty[SessionOf[p]] = NoVersions
      BY <1>d, <2>2 DEF TakePending, ShapeOf, PendingOf
    <3>2. \A k \in Key : puts[SessionOf[p]][k] \in durable \cup {Nothing} \/ Unguarded(k)
      BY <1>d, <3>1 DEF PendingOf, NoVersions, InTx, Unguarded
    <3>3. toPut'[p] = puts[SessionOf[p]]
      BY <2>2 DEF TakePending, TypeOK
    <3> QED
      BY <1>a, <3>2, <3>3
  <2>3. CASE ApplyPut(p)
    <3>1. PICK k \in Key : toPut' = [toPut EXCEPT ![p][k] = Nothing]
      BY <2>3 DEF ApplyPut
    <3>2. \A j \in Key : toPut'[p][j] \in {toPut[p][j], Nothing}
      BY <3>1 DEF TypeOK
    <3> QED
      BY <1>a, <3>2 DEF CommittedData
  <2> QED
    BY <2>1, <2>2, <2>3, LocalSteps
<1>3. ~InTx(p) => val'[p] \in durable' \cup {Nothing}
  <2>1. CASE val'[p] \in {val[p], Nothing}
    BY <1>a, <2>1 DEF CommittedData
  <2>2. CASE ReadRows(p)
    <3>1. key[p] \in Key
      BY <1>d, <2>2 DEF ReadRows, ShapeOf, InStatement
    <3>2. val'[p] = Visible(p, key[p])
      BY <2>2 DEF ReadRows, TypeOK
    <3>3. ~InTx(p) => dirty[SessionOf[p]][key[p]] = Nothing
      BY <1>a, <3>1 DEF CommittedData, InTx, NoVersions
    <3> QED
      BY <1>a, <3>1, <3>2, <3>3 DEF Visible, CommittedData
  <2> QED
    BY <2>1, <2>2, LocalSteps
<1>4. \A q \in Proc \ {p} : val'[q] = val[q] /\ toPut'[q] = toPut[q]
  BY ProcFrame
<1> QED
  BY <1>a, <1>1, <1>2, <1>3, <1>4 DEF CommittedData

(* The steps that change the shared caches.                                *)
LEMMA StoreSteps ==
  ASSUME NEW p \in Proc, Call(p) \/ Step(p) \/ Cancel(p) \/ Renew(p)
  PROVE  \/ StoreShared(p) \/ ApplyPut(p) \/ FlushShared(p) \/ PreFlushShared(p) \/ ApplyClear(p)
         \/ store' = store
<1> USE DEF cacheVars
<1>1. CASE Call(p) \/ Cancel(p) \/ Renew(p)
  BY <1>1 DEF Call, QueryLocal, QuerySkipsCache, QueryCached, Cache!Get, Exec, Affect, AffectBare,
     Commit, Rollback, EndUnit, Cancel, Renew, Cache!Cancel, Cache!Renew
<1>2. CASE Step(p)
  BY <1>2 DEF Step, CacheWaits, CacheHits, CacheFails, CacheMisses, ReadRows, ReadFails,
   StorePending, Published, ReleaseMiss, Write, WriteUnflushed, WriteFails, WriteAnswerLost,
   FlushPending, Flushed, PreFlushPending, PreFlushed, AffectWrite, CommitDone,
   CommitFails, TakePending, ApplyReleases, ApplyDone, RollbackDone,
   Cache!LookupMisses, Cache!JoinFlight, Cache!Wake, Cache!LookupHits, Cache!LookupFails,
   Cache!AbandonWait, Cache!PlainMiss, Cache!BeginFlight, Cache!Release, Cache!ReleaseMiss
<1> QED
  BY <1>1, <1>2

(* The shared caches only get what was committed.                          *)
LEMMA SharedStep ==
  ASSUME TypeOK, StmtShape, DataInv, NEW p \in Proc, Call(p) \/ Step(p) \/ Cancel(p) \/ Renew(p)
  PROVE  NoUncommittedShared'
<1>a. /\ CommittedData /\ durable \subseteq durable'
      /\ \A k \in Key : Unguarded(k) => Unguarded(k)'
  BY DurableGrows, UnflushedGrows DEF DataInv
<1>b. OneCallerPerTx => \A k \in Key : store[k] # Nothing => store[k] \in durable \/ Unguarded(k)
  BY DEF DataInv, NoUncommittedShared, Unguarded
<1>c. SUFFICES ASSUME OneCallerPerTx, NEW k \in Key, store'[k] # Nothing
               PROVE  store'[k] \in durable' \/ Unguarded(k)'
  BY DEF NoUncommittedShared, Unguarded, OneCallerPerTx
<1>d. ShapeOf(p)
  BY DEF StmtShape
<1> USE DEF TypeOK, Cache!TypeOK
<1>1. CASE StoreShared(p)
  <2>1. val[p] \in durable /\ key[p] \in Key
    BY <1>a, <1>d, <1>1 DEF StoreShared, CommittedData, ShapeOf, InStatement
  <2> QED
    BY <1>a, <1>b, <1>c, <1>1, <2>1 DEF StoreShared, Cache!Put, Cache!Change
<1>2. CASE ApplyPut(p)
  <2>1. PICK j \in Key : Cache!Put(p, j, toPut[p][j]) /\ (toPut[p][j] \in durable \/ Unguarded(j))
    BY <1>a, <1>2 DEF ApplyPut, CommittedData
  <2> QED
    BY <1>a, <1>b, <1>c, <2>1 DEF Cache!Put, Cache!Change
<1>3. CASE store' = store
  BY <1>a, <1>b, <1>c, <1>3
<1>4. CASE FlushShared(p) \/ PreFlushShared(p) \/ ApplyClear(p)
  <2>1. \E n : Cache!Clear(p, n)
    BY <1>4 DEF FlushShared, PreFlushShared, ApplyClear
  <2>2. store'[k] \in {store[k], Nothing}
    BY <2>1 DEF Cache!Clear, Cache!Change
  <2> QED
    BY <1>a, <1>b, <1>c, <2>2
<1> QED
  BY <1>1, <1>2, <1>3, <1>4, StoreSteps

(* Where a call begins.                                                    *)
LEMMA CallBegins ==
  ASSUME NEW p \in Proc, Call(p)
  PROVE  \/ Commit(p) /\ Begin(p, NoKey, "commit")
         \/ Rollback(p) /\ Begin(p, NoKey, "rollback")
         \/ /\ ended' = ended
            /\ \E k : \E next \in {"idle", "read", "cache", "write", "preflush", "bare"} : Begin(p, k, next)
<1>1. CASE Commit(p) \/ Rollback(p)
  BY <1>1 DEF Commit, Rollback, Complete
<1>2. CASE EndUnit(p)
  BY <1>2 DEF EndUnit
<1>3. ASSUME NEW k \in Key, QueryLocal(p, k) \/ QuerySkipsCache(p, k) \/ QueryCached(p, k)
                             \/ Exec(p, k) \/ Affect(p, k) \/ AffectBare(p, k)
      PROVE  ended' = ended /\ \E next \in {"idle", "read", "cache", "write", "preflush", "bare"} :
                                   \E j : Begin(p, j, next)
  BY <1>3 DEF QueryLocal, QuerySkipsCache, QueryCached, Exec, Affect, AffectBare, sessionVars
<1> QED
  BY <1>1, <1>2, <1>3 DEF Call

(* ... and a transaction holds back what it may.                           *)
LEMMA PendingStep ==
  ASSUME TypeOK, StmtShape, DataInv, NEW p \in Proc, InTx(p),
         Call(p) \/ Step(p) \/ Cancel(p) \/ Renew(p)
  PROVE  PendingOf(p)'
<1> DEFINE s == SessionOf[p]
<1>a. /\ PendingOf(p) /\ CommittedData /\ durable \subseteq durable' /\ s \in Session
      /\ \A k \in Key : WroteUnflushed(s, k) => WroteUnflushed(s, k)'
  BY DurableGrows, UnflushedGrows DEF DataInv
<1>d. ShapeOf(p)
  BY DEF StmtShape
<1> USE DEF Goto
<1>1. CASE Call(p)
  <2>1. stage'[p] \notin {"store", "affect", "take", "flush"} /\ stage[p] = "idle"
    BY <1>1, CallBegins DEF Begin, TypeOK
  <2>2. UNCHANGED <<dirty, durable>>
    BY <1>1 DEF Call, QueryLocal, QuerySkipsCache, QueryCached, Exec, Affect, AffectBare,
       Commit, Rollback, EndUnit, dbVars
  <2>3. CASE Rollback(p)
    <3>1. puts'[s] = NoVersions
      BY <1>a, <2>3 DEF Rollback, DropPending, TypeOK
    <3> QED
      BY <2>1, <2>2, <3>1 DEF PendingOf, NoVersions
  <2>4. CASE ~Rollback(p)
    <3>1. stage'[p] # "rollback" /\ UNCHANGED puts
      BY <1>1, <2>4 DEF Call, Begin, QueryLocal, QuerySkipsCache, QueryCached, Exec, Affect, AffectBare,
         Commit, Complete, EndUnit, TypeOK, sessionVars
    <3> QED
      BY <1>a, <2>1, <2>2, <3>1 DEF PendingOf
  <2> QED
    BY <2>3, <2>4
<1>2. CASE Step(p)
  <2> USE DEF Continue, Finish, TypeOK, dbVars, sessionVars, procVars
  <2>1. CASE \/ CacheWaits(p) \/ CacheHits(p) \/ CacheFails(p) \/ CacheMisses(p)
             \/ ReadFails(p) \/ Published(p) \/ ReleaseMiss(p) \/ WriteFails(p) \/ Flushed(p)
    BY <1>a, <2>1 DEF CacheWaits, CacheHits, CacheFails, CacheMisses, ReadFails,
       Published, ReleaseMiss, WriteFails, Flushed, PendingOf
  <2>2. CASE PreFlushed(p) \/ StoreShared(p) \/ WriteAnswerLost(p) \/ FlushShared(p) \/ PreFlushShared(p)
    BY <1>d, <2>2 DEF PreFlushed, StoreShared, WriteAnswerLost, FlushShared, PreFlushShared, ShapeOf
  <2>3. CASE ReadRows(p)
    <3>1. key[p] \in Key
      BY <1>d, <2>3 DEF ReadRows, ShapeOf, InStatement
    <3>2. val'[p] \in durable \cup {dirty[s][key[p]]}
      BY <1>a, <2>3, <3>1 DEF ReadRows, Visible, CommittedData
    <3>3. UNCHANGED <<puts, dirty, durable, key>> /\ stage[p] = "read" /\ stage'[p] = "store"
      BY <2>3 DEF ReadRows
    <3> QED
      BY <1>a, <3>2, <3>3 DEF PendingOf
  <2>4. CASE StorePending(p)
    <3>1. key[p] \in Key
      BY <1>d, <2>4 DEF StorePending, ShapeOf, InStatement
    <3>2. UNCHANGED <<dirty, durable, key>> /\ stage[p] = "store" /\ stage'[p] = "release"
      BY <2>4 DEF StorePending
    <3>3. puts' = puts \/ \A k \in Key : puts'[s][k] = IF k = key[p] THEN val[p] ELSE puts[s][k]
      BY <1>a, <2>4, <3>1 DEF StorePending
    <3> QED
      BY <1>a, <3>2, <3>3 DEF PendingOf
  <2>5. CASE Write(p) \/ WriteUnflushed(p) \/ AffectWrite(p)
    <3>1. key[p] \in Key /\ UNCHANGED puts
      BY <1>d, <2>5 DEF Write, WriteUnflushed, AffectWrite, ShapeOf, InStatement
    <3>2. \A k \in Key \ {key[p]} : dirty'[s][k] = dirty[s][k]
      BY <1>a, <2>5, <3>1, AppliedCommits DEF Write, WriteUnflushed, AffectWrite
    <3>3. stage[p] # "flush" /\ \A k \in Key \ {key[p]} :
             puts'[s][k] \in durable' \cup {Nothing, dirty'[s][k]} \/ WroteUnflushed(s, k)'
      BY <1>a, <2>5, <3>1, <3>2 DEF PendingOf, Write, WriteUnflushed, AffectWrite
    <3>4. CASE Write(p)
      BY <3>3, <3>4 DEF Write, PendingOf
    <3>5. CASE AffectWrite(p)
      <4>1. puts'[s][key[p]] = Nothing
        BY <1>a, <3>1, <3>5 DEF AffectWrite, PendingOf
      <4> QED
        BY <3>3, <3>5, <4>1 DEF AffectWrite, PendingOf
    <3>6. CASE WriteUnflushed(p)
      <4>1. stage'[p] = "idle" /\ \A k \in Key : k = key[p] => WroteUnflushed(s, k)'
        BY <3>6 DEF WriteUnflushed, WroteUnflushed
      <4> QED
        BY <3>3, <4>1 DEF PendingOf
    <3> QED
      BY <2>5, <3>4, <3>5, <3>6
  <2>6. CASE FlushPending(p) \/ PreFlushPending(p)
    <3>1. key[p] \in Key /\ UNCHANGED <<dirty, durable>>
      BY <1>d, <2>6 DEF FlushPending, PreFlushPending, ShapeOf, InStatement
    <3>2. \A k \in Key : puts'[s][k] = IF NsOf[k] = NsOf[key[p]] THEN Nothing ELSE puts[s][k]
      BY <1>a, <2>6 DEF FlushPending, PreFlushPending, MarkFlush
    <3>3. \A k \in Key : puts'[s][k] \in durable' \cup {Nothing, dirty'[s][k]} \/ WroteUnflushed(s, k)'
      BY <1>a, <3>1, <3>2 DEF PendingOf
    <3>4. puts'[s][key[p]] = Nothing
      BY <3>1, <3>2
    <3>5. stage'[p] = "idle" \/ (stage'[p] = "affect" /\ key'[p] = key[p])
      <4>1. FlushPending(p) => stage'[p] = "idle"
        BY DEF FlushPending
      <4>2. PreFlushPending(p) => stage'[p] = "affect" /\ key'[p] = key[p]
        BY DEF PreFlushPending
      <4> QED
        BY <2>6, <4>1, <4>2
    <3> QED
      BY <3>3, <3>4, <3>5 DEF PendingOf
  <2>7. CASE CommitDone(p)
    <3>1. UNCHANGED puts /\ stage[p] = "commit" /\ stage'[p] = "take"
      BY <2>7 DEF CommitDone
    <3>2. dirty'[s] = NoVersions /\ \A k \in Key : dirty[s][k] \in durable' \cup {Nothing}
      BY <1>a, <2>7, EndTxCommits DEF CommitDone
    <3>3. \A k \in Key : puts'[s][k] \in durable' \cup {Nothing} \/ WroteUnflushed(s, k)'
      BY <1>a, <3>1, <3>2 DEF PendingOf
    <3> QED
      BY <3>1, <3>2, <3>3 DEF PendingOf
  <2>8. CASE CommitFails(p) \/ TakePending(p)
    <3>a. puts' = [puts EXCEPT ![s] = NoVersions]
      BY <2>8 DEF CommitFails, TakePending, DropPending
    <3>b. stage'[p] \in {"idle", "apply"}
      BY <2>8 DEF CommitFails, TakePending
    <3>1. puts'[s] = NoVersions /\ stage'[p] \notin {"store", "affect", "take", "flush", "rollback"}
      BY <1>a, <3>a, <3>b DEF TypeOK
    <3> QED
      BY <3>1 DEF PendingOf, NoVersions
  <2>9. CASE RollbackDone(p)
    <3>1. puts'[s] = NoVersions /\ stage'[p] = "idle"
      BY <1>a, <2>9 DEF RollbackDone, PendingOf
    <3> QED
      BY <3>1 DEF PendingOf, NoVersions
  <2>10. CASE ApplyClear(p) \/ ApplyPut(p) \/ ApplyReleases(p) \/ ApplyDone(p)
    <3>1. UNCHANGED <<puts, dirty, durable>> /\ stage[p] = "apply" /\ stage'[p] \in {"apply", "idle"}
      BY <2>10 DEF ApplyClear, ApplyPut, ApplyReleases, ApplyDone
    <3> QED
      BY <1>a, <3>1 DEF PendingOf
  <2> QED
    BY <1>2, <2>1, <2>2, <2>3, <2>4, <2>5, <2>6, <2>7, <2>8, <2>9, <2>10 DEF Step
<1>3. CASE Cancel(p) \/ Renew(p)
  BY <1>a, <1>3 DEF Cancel, Renew, PendingOf, dbVars, sessionVars, procVars
<1> QED
  BY <1>1, <1>2, <1>3

LEMMA DataStep ==
  ASSUME OneCallerPerTx, TypeOK, StmtShape, DataInv, [Next]_vars
  PROVE  DataInv'
<1>1. CASE \E p \in Proc : Call(p) \/ Step(p) \/ Cancel(p) \/ Renew(p)
  BY <1>1, CommittedStep, SharedStep, PendingStep, PendingFrame DEF DataInv, InTx
<1>2. CASE UNCHANGED vars
  BY <1>2 DEF vars, cacheVars, dbVars, sessionVars, procVars, DataInv, CommittedData, Unguarded,
     WroteUnflushed, NoUncommittedShared, OneCallerPerTx, PendingOf
<1>3. ASSUME NEW k \in Key, Lose(k) PROVE DataInv'
  <2>1. \A j \in Key : store'[j] \in {store[j], Nothing}
    BY <1>3 DEF Lose, Cache!Lose, TypeOK, Cache!TypeOK
  <2>2. NoUncommittedShared' /\ CommittedData'
    BY <1>3, <2>1 DEF Lose, DataInv, NoUncommittedShared, OneCallerPerTx, CommittedData, Unguarded,
       WroteUnflushed, dbVars, procVars
  <2>3. ASSUME NEW p \in Proc, InTx(p) PROVE PendingOf(p)'
    BY <1>3, <2>3 DEF Lose, DataInv, PendingOf, WroteUnflushed, dbVars, sessionVars, procVars
  <2> QED
    BY <2>2, <2>3 DEF DataInv, InTx
<1> QED
  BY <1>1, <1>2, <1>3 DEF Next

(* No session ever reads, through the shared caches, a version that another*)
(* transaction wrote and did not commit: not while it runs, not after it   *)
(* rolled back, not after its commit failed; when no transaction is used by*)
(* several goroutines, and for the rows none wrote with FlushCache disabled*)
(* (then the result of a query between two such writes is put at commit).  *)
THEOREM UncommittedStaysPrivate == Spec => []NoUncommittedShared
<1> DEFINE Inv == OneCallerPerTx => DataInv
<1>1. Init => Inv
  BY DEF Init, Cache!Init, DataInv, CommittedData, NoUncommittedShared, PendingOf, NoVersions
<1>2. IInv /\ Inv /\ [Next]_vars => Inv'
  BY DataStep DEF IInv, OneCallerPerTx
<1>3. Inv => NoUncommittedShared
  BY DEF DataInv, NoUncommittedShared
<1> QED
  BY <1>1, <1>2, <1>3, Invariance, PTL DEF Spec

-----------------------------------------------------------------------------
(* A transaction reads its own writes, and holds nothing once it ended.    *)

(* The stages of a call that writes, of a call that ends a transaction.    *)
Writing == {"write", "flush", "preflush", "affect"}
Ending == {"commit", "take", "apply", "rollback"}

(* What the transaction of p wrote in row k is the only version of the row *)
(* it finds in a cache, holds in hand or will publish, and the flush of    *)
(* the namespace is pending.                                               *)
SeesOwn(p, k) ==
    LET s == SessionOf[p]  own == dirty[s][k] IN
    /\ local[s][k] \in {Nothing, own} /\ puts[s][k] \in {Nothing, own}
    /\ key[p] = k => stage[p] # "cache" /\ val[p] \in {Nothing, own}
    /\ NsOf[k] \in flushes[s] \/ stage[p] = "rollback"

(* Once a transaction ended only its commit's publication goes on.         *)
EndedOf(p) ==
    LET s == SessionOf[p] IN
    /\ stage[p] \in Ending \cup {"idle"}
    /\ stage[p] \notin {"commit", "take"} => flushes[s] = {} /\ puts[s] = NoVersions

TxOf(p) ==
    LET s == SessionOf[p] IN
    /\ stage[p] \in Writing => local[s] = NoVersions
    /\ val[p] # Nothing => stage[p] \in {"store", "publish", "release"}
    /\ stage[p] = "affect" => NsOf[key[p]] \in flushes[s]
    /\ \A k \in Key : dirty[s][k] # Nothing =>
          SeesOwn(p, k) \/ (stage[p] = "flush" /\ key[p] = k) \/ WroteUnflushed(s, k)
    /\ s \in ended => EndedOf(p)

(* A session nobody uses stays as it began.                                *)
UnusedSessions ==
    \A s \in Session : (\A p \in Proc : SessionOf[p] # s) => dirty[s] = NoVersions /\ s \notin ended

TxInv == UnusedSessions /\ \A p \in Proc : InTx(p) => TxOf(p)

LEMMA OwnSession ==
  ASSUME TypeOK, NEW p \in Proc, Call(p) \/ Step(p) \/ Cancel(p) \/ Renew(p),
         NEW s \in Session, s # SessionOf[p]
  PROVE  local'[s] = local[s] /\ flushes'[s] = flushes[s] /\ (s \in ended' <=> s \in ended)
<1> USE DEF TypeOK, sessionVars
<1>1. CASE Call(p) \/ Cancel(p) \/ Renew(p)
  BY <1>1 DEF Call, QueryLocal, QuerySkipsCache, QueryCached, Exec, Affect, AffectBare,
     Commit, Rollback, Complete, EndUnit, Cancel, Renew, DropPending, ClearLocal
<1>2. CASE \/ CacheWaits(p) \/ CacheFails(p) \/ CacheMisses(p)
           \/ ReadRows(p) \/ ReadFails(p)
           \/ Published(p) \/ ReleaseMiss(p) \/ WriteFails(p)
           \/ FlushShared(p) \/ Flushed(p) \/ PreFlushShared(p)
           \/ PreFlushed(p) \/ ApplyClear(p) \/ ApplyPut(p)
           \/ ApplyReleases(p) \/ ApplyDone(p) \/ RollbackDone(p)
           \/ Write(p) \/ WriteUnflushed(p) \/ WriteAnswerLost(p) \/ AffectWrite(p)
           \/ CommitDone(p)
  BY <1>2 DEF CacheWaits, CacheFails, CacheMisses, ReadRows, ReadFails,
     Published, ReleaseMiss, WriteFails, FlushShared,
     Flushed, PreFlushShared, PreFlushed, ApplyClear, ApplyPut,
     ApplyReleases, ApplyDone, RollbackDone, Write, WriteUnflushed, WriteAnswerLost, AffectWrite, CommitDone
<1>3. CASE CacheHits(p) \/ StorePending(p) \/ StoreShared(p)
  BY <1>3 DEF CacheHits, StorePending, StoreShared, PutLocal
<1>4. CASE CommitFails(p) \/ TakePending(p)
  BY <1>4 DEF CommitFails, TakePending, DropPending
<1>5. CASE FlushPending(p) \/ PreFlushPending(p)
  BY <1>5 DEF FlushPending, PreFlushPending, MarkFlush
<1> QED
  BY <1>1, <1>2, <1>3, <1>4, <1>5 DEF Step

(* The other transactions are where they were.                             *)
LEMMA TxFrame ==
  ASSUME OneCallerPerTx, TypeOK, TxInv, NEW p \in Proc,
         Call(p) \/ Step(p) \/ Cancel(p) \/ Renew(p),
         NEW q \in Proc \ {p}, InTx(q)
  PROVE  TxOf(q)'
<1>1. SessionOf[q] \in Session /\ SessionOf[q] # SessionOf[p]
  BY DEF OneCallerPerTx, InTx
<1>2. /\ dirty'[SessionOf[q]] = dirty[SessionOf[q]] /\ puts'[SessionOf[q]] = puts[SessionOf[q]]
      /\ local'[SessionOf[q]] = local[SessionOf[q]] /\ flushes'[SessionOf[q]] = flushes[SessionOf[q]]
      /\ SessionOf[q] \in ended' <=> SessionOf[q] \in ended
  BY <1>1, SessionFrame, OwnSession
<1>3. UNCHANGED <<stage[q], key[q], val[q]>>
  BY ProcFrame
<1>4. TxOf(q)
  BY DEF TxInv
<1>5. \A k \in Key : WroteUnflushed(SessionOf[q], k) => WroteUnflushed(SessionOf[q], k)'
  BY UnflushedGrows
<1> QED
  BY <1>2, <1>3, <1>4, <1>5 DEF TxOf, SeesOwn, EndedOf

LEMMA UnusedStep ==
  ASSUME TypeOK, TxInv, NEW p \in Proc, Call(p) \/ Step(p) \/ Cancel(p) \/ Renew(p)
  PROVE  UnusedSessions'
<1> SUFFICES ASSUME NEW s \in Session, \A q \in Proc : SessionOf[q] # s
             PROVE  dirty'[s] = NoVersions /\ s \notin ended'
  BY DEF UnusedSessions, NoVersions
<1>1. SessionOf[p] # s /\ dirty[s] = NoVersions /\ s \notin ended
  BY DEF TxInv, UnusedSessions
<1> QED
  BY <1>1, SessionFrame, OwnSession

(* A call begins.                                                          *)
LEMMA TxCall ==
  ASSUME TypeOK, StmtShape, TxInv, NEW p \in Proc, InTx(p), Call(p)
  PROVE  TxOf(p)'
<1> DEFINE s == SessionOf[p]
<1>a. TxOf(p) /\ s \in Session /\ stage[p] = "idle" /\ s \notin ended /\ UNCHANGED <<dirty, val>>
  BY DEF TxInv, Call, QueryLocal, QuerySkipsCache, QueryCached, Exec, Affect, AffectBare, Commit, Rollback,
     Complete, EndUnit, Begin, dbVars
<1>u. \A k \in Key : WroteUnflushed(s, k) => WroteUnflushed(s, k)'
  BY UnflushedGrows
<1> USE DEF Begin, Goto, TypeOK, sessionVars, Writing
<1>1. ASSUME NEW k \in Key, QueryLocal(p, k) PROVE TxOf(p)'
  <2>1. stage'[p] = "idle" /\ key'[p] = NoKey /\ UNCHANGED <<local, ended, flushes, puts>>
    BY <1>1 DEF QueryLocal
  <2> QED
    BY <1>a, <1>u, <2>1 DEF TxOf, SeesOwn
<1>2. ASSUME NEW k \in Key, QuerySkipsCache(p, k) \/ AffectBare(p, k) PROVE TxOf(p)'
  <2>1. stage'[p] \in {"read", "bare"} /\ key'[p] = k /\ UNCHANGED <<local, ended, flushes, puts>>
    BY <1>2 DEF QuerySkipsCache, AffectBare
  <2> QED
    BY <1>a, <1>u, <2>1 DEF TxOf, SeesOwn
<1>3. ASSUME NEW k \in Key, QueryCached(p, k) PROVE TxOf(p)'
  <2>1. stage'[p] = "cache" /\ key'[p] = k /\ UNCHANGED <<local, ended, flushes, puts>>
    BY <1>3 DEF QueryCached
  <2>2. dirty[s][k] = Nothing \/ WroteUnflushed(s, k)
    BY <1>a, <1>3 DEF QueryCached, TxOf, SeesOwn
  <2> QED
    BY <1>a, <1>u, <2>1, <2>2 DEF TxOf, SeesOwn
<1>4. ASSUME NEW k \in Key, Exec(p, k) \/ Affect(p, k) PROVE TxOf(p)'
  <2>1. stage'[p] \in {"write", "preflush", "bare"} /\ key'[p] = k /\ UNCHANGED <<ended, flushes, puts>>
    BY <1>4 DEF Exec, Affect
  <2>2. local'[s] = NoVersions
    BY <1>a, <1>4 DEF Exec, Affect, ClearLocal
  <2> QED
    BY <1>a, <1>u, <2>1, <2>2 DEF TxOf, SeesOwn, NoVersions
<1>5. CASE Commit(p)
  <2>1. stage'[p] = "commit" /\ key'[p] = NoKey /\ UNCHANGED <<flushes, puts>>
    BY <1>5 DEF Commit, Complete
  <2>2. local'[s] = NoVersions
    BY <1>a, <1>5 DEF Commit, Complete, ClearLocal
  <2> QED
    BY <1>a, <1>u, <2>1, <2>2 DEF TxOf, SeesOwn, EndedOf, Ending, NoVersions
<1>6. CASE Rollback(p)
  <2>1. stage'[p] = "rollback" /\ key'[p] = NoKey
    BY <1>6 DEF Rollback, Complete
  <2>2. local'[s] = NoVersions /\ puts'[s] = NoVersions /\ flushes'[s] = {}
    BY <1>a, <1>6 DEF Rollback, Complete, ClearLocal, DropPending
  <2> QED
    BY <1>a, <1>u, <2>1, <2>2 DEF TxOf, SeesOwn, EndedOf, Ending, NoVersions
<1> QED
  BY <1>1, <1>2, <1>3, <1>4, <1>5, <1>6 DEF Call, EndUnit

(* A step of a call: what it leaves of the session, then the invariant.    *)
LEMMA TxStep ==
  ASSUME TypeOK, StmtShape, DataInv, TxInv, NEW p \in Proc, InTx(p), Step(p)
  PROVE  TxOf(p)'
<1> DEFINE s == SessionOf[p]
<1>a. TxOf(p) /\ PendingOf(p) /\ ShapeOf(p) /\ s \in Session
  BY DEF TxInv, DataInv, StmtShape
<1>u. \A k \in Key : WroteUnflushed(s, k) => WroteUnflushed(s, k)'
  BY UnflushedGrows
<1> USE DEF Continue, Finish, Goto, TypeOK, dbVars, sessionVars, procVars, Writing, Ending
<1>1. CASE \/ CacheWaits(p) \/ CacheFails(p) \/ CacheMisses(p) \/ ReadFails(p) \/ Published(p)
           \/ ReleaseMiss(p) \/ WriteFails(p) \/ Flushed(p) \/ ApplyClear(p) \/ ApplyPut(p)
           \/ ApplyReleases(p) \/ ApplyDone(p)
  <2>1. UNCHANGED <<dirty, local, ended, flushes, puts>>
    BY <1>1 DEF CacheWaits, CacheFails, CacheMisses, ReadFails, Published, ReleaseMiss, WriteFails,
       Flushed, ApplyClear, ApplyPut, ApplyReleases, ApplyDone
  <2>2. \/ UNCHANGED <<stage[p], key[p], val[p]>>
        \/ stage'[p] = "idle" /\ key'[p] = NoKey /\ val'[p] = Nothing /\ stage[p] \notin {"commit", "take", "rollback"}
        \/ stage'[p] = "read" /\ stage[p] = "cache" /\ UNCHANGED <<key[p], val[p]>>
        \/ stage'[p] = "release" /\ stage[p] \in {"read", "publish"} /\ UNCHANGED <<key[p], val[p]>>
    BY <1>1 DEF CacheWaits, CacheFails, CacheMisses, ReadFails, Published, ReleaseMiss, WriteFails,
       Flushed, ApplyClear, ApplyPut, ApplyReleases, ApplyDone
  <2>3. stage'[p] = "idle" => stage[p] # "flush"
    BY <1>1 DEF CacheWaits, CacheFails, CacheMisses, ReadFails, Published, ReleaseMiss, WriteFails,
       Flushed, ApplyClear, ApplyPut, ApplyReleases, ApplyDone
  <2> QED
    BY <1>a, <1>u, <2>1, <2>2, <2>3 DEF TxOf, SeesOwn, EndedOf
<1>2. CASE ReadRows(p)
  <2>1. /\ UNCHANGED <<dirty, local, ended, flushes, puts, key>>
        /\ stage[p] = "read" /\ stage'[p] = "store"
        /\ val'[p] = Visible(p, key[p])
    BY <1>2 DEF ReadRows
  <2>2. s \notin ended
    BY <1>a, <2>1 DEF TxOf, EndedOf
  <2> QED
    BY <1>a, <1>u, <2>1, <2>2 DEF TxOf, SeesOwn, Visible
<1>3. CASE CacheHits(p)
  <2>1. /\ UNCHANGED <<dirty, ended, flushes, puts>> /\ stage[p] = "cache" /\ key[p] \in Key
        /\ stage'[p] = "idle" /\ key'[p] = NoKey /\ val'[p] = Nothing
    BY <1>a, <1>3 DEF CacheHits, ShapeOf, InStatement
  <2>2. \A k \in Key \ {key[p]} : local'[s][k] = local[s][k]
    BY <1>a, <1>3 DEF CacheHits, PutLocal
  <2>3. dirty[s][key[p]] = Nothing \/ WroteUnflushed(s, key[p])
    BY <1>a, <2>1 DEF TxOf, SeesOwn
  <2>4. s \notin ended
    BY <1>a, <2>1 DEF TxOf, EndedOf
  <2> QED
    BY <1>a, <1>u, <2>1, <2>2, <2>3, <2>4 DEF TxOf, SeesOwn
<1>4. CASE StorePending(p)
  <2>1. /\ UNCHANGED <<dirty, ended, flushes, key, val>> /\ stage[p] = "store" /\ key[p] \in Key
        /\ stage'[p] = "release"
    BY <1>a, <1>4 DEF StorePending, ShapeOf, InStatement
  <2>2. \A k \in Key : /\ local'[s][k] = IF k = key[p] THEN val[p] ELSE local[s][k]
                       /\ puts'[s][k] \in {puts[s][k], IF k = key[p] THEN val[p] ELSE puts[s][k]}
    BY <1>a, <1>4, <2>1 DEF StorePending, PutLocal
  <2>3. s \notin ended
    BY <1>a, <2>1 DEF TxOf, EndedOf
  <2> QED
    BY <1>a, <1>u, <2>1, <2>2, <2>3 DEF TxOf, SeesOwn
<1>5. CASE Write(p)
  <2>1. /\ UNCHANGED <<local, ended, flushes, puts, key, val>> /\ stage[p] = "write" /\ key[p] \in Key
        /\ stage'[p] = "flush"
    BY <1>a, <1>5 DEF Write, ShapeOf, InStatement
  <2>2. \A k \in Key \ {key[p]} : dirty'[s][k] = dirty[s][k]
    BY <1>5, <2>1, AppliedCommits DEF Write, DataInv
  <2>3. s \notin ended
    BY <1>a, <2>1 DEF TxOf, EndedOf
  <2> QED
    BY <1>a, <1>u, <2>1, <2>2, <2>3 DEF TxOf, SeesOwn
<1>11. CASE WriteUnflushed(p)
  <2>1. /\ UNCHANGED <<local, ended, flushes, puts>> /\ stage[p] \in {"write", "bare"} /\ key[p] \in Key
        /\ stage'[p] = "idle" /\ key'[p] = NoKey /\ val'[p] = Nothing
    BY <1>a, <1>11 DEF WriteUnflushed, ShapeOf, InStatement
  <2>2. \A k \in Key \ {key[p]} : dirty'[s][k] = dirty[s][k]
    BY <1>11, <2>1, AppliedCommits DEF WriteUnflushed, DataInv
  <2>3. s \notin ended /\ \A k \in Key : k = key[p] => WroteUnflushed(s, k)'
    BY <1>a, <1>11, <2>1 DEF TxOf, EndedOf, WriteUnflushed, WroteUnflushed
  <2> QED
    BY <1>a, <1>u, <2>1, <2>2, <2>3 DEF TxOf, SeesOwn
<1>6. CASE AffectWrite(p)
  <2>1. /\ UNCHANGED <<local, ended, flushes, puts>> /\ stage[p] = "affect" /\ key[p] \in Key
        /\ stage'[p] = "idle" /\ key'[p] = NoKey /\ val'[p] = Nothing
    BY <1>a, <1>6 DEF AffectWrite, ShapeOf, InStatement
  <2>2. \A k \in Key \ {key[p]} : dirty'[s][k] = dirty[s][k]
    BY <1>6, <2>1, AppliedCommits DEF AffectWrite, DataInv
  <2>3. s \notin ended /\ local[s][key[p]] = Nothing /\ NsOf[key[p]] \in flushes[s]
    BY <1>a, <2>1 DEF TxOf, EndedOf, NoVersions
  <2>4. puts[s][key[p]] = Nothing
    BY <1>a, <2>1 DEF PendingOf
  <2> QED
    BY <1>a, <1>u, <2>1, <2>2, <2>3, <2>4 DEF TxOf, SeesOwn
<1>7. CASE FlushPending(p) \/ PreFlushPending(p)
  <2>1. /\ UNCHANGED <<local, ended, dirty>> /\ stage[p] \in {"flush", "preflush"} /\ key[p] \in Key
    BY <1>a, <1>7 DEF FlushPending, PreFlushPending, MarkFlush, ShapeOf, InStatement
  <2>2. \/ stage'[p] = "idle" /\ key'[p] = NoKey /\ val'[p] = Nothing
        \/ stage[p] = "preflush" /\ stage'[p] = "affect" /\ UNCHANGED <<key, val>>
    BY <1>7 DEF FlushPending, PreFlushPending
  <2>3. flushes'[s] = flushes[s] \cup {NsOf[key[p]]}
    BY <1>a, <1>7 DEF FlushPending, PreFlushPending, MarkFlush
  <2>4. \A k \in Key : puts'[s][k] = IF NsOf[k] = NsOf[key[p]] THEN Nothing ELSE puts[s][k]
    BY <1>a, <1>7 DEF FlushPending, PreFlushPending, MarkFlush
  <2>5. s \notin ended /\ local[s] = NoVersions
    BY <1>a, <2>1 DEF TxOf, EndedOf
  <2>6. val[p] = Nothing
    BY <1>a, <2>1 DEF TxOf
  <2>7. \A k \in Key : dirty[s][k] # Nothing => SeesOwn(p, k)' \/ WroteUnflushed(s, k)'
    <3> SUFFICES ASSUME NEW k \in Key, dirty[s][k] # Nothing, ~WroteUnflushed(s, k)
                 PROVE  SeesOwn(p, k)'
      BY <1>u
    <3>1. local'[s][k] = Nothing /\ val'[p] = Nothing /\ stage'[p] # "cache"
      BY <2>1, <2>2, <2>5, <2>6 DEF NoVersions
    <3>2. puts'[s][k] \in {Nothing, dirty[s][k]} /\ NsOf[k] \in flushes'[s]
      BY <1>a, <2>1, <2>3, <2>4 DEF TxOf, SeesOwn
    <3> QED
      BY <2>1, <3>1, <3>2 DEF SeesOwn
  <2>8. stage'[p] \in Writing => local'[s] = NoVersions
    BY <2>1, <2>5
  <2>9. stage'[p] = "affect" => NsOf[key'[p]] \in flushes'[s]
    BY <2>2, <2>3
  <2> QED
    BY <2>1, <2>2, <2>5, <2>6, <2>7, <2>8, <2>9 DEF TxOf
<1>8. CASE CommitDone(p) \/ CommitFails(p) \/ RollbackDone(p)
  <2>1. dirty'[s] = NoVersions
    BY <1>8, EndTxCommits, AbortTxCommits DEF CommitDone, CommitFails, RollbackDone, DataInv
  <2>2. UNCHANGED <<local, ended>> /\ stage[p] \in {"commit", "rollback"}
    BY <1>8 DEF CommitDone, CommitFails, RollbackDone
  <2>3. val[p] = Nothing
    BY <1>a, <2>2 DEF TxOf
  <2>4. val'[p] = Nothing
    BY <1>8, <2>3 DEF CommitDone, CommitFails, RollbackDone
  <2>5. CASE CommitDone(p)
    BY <2>1, <2>2, <2>4, <2>5 DEF CommitDone, TxOf, EndedOf, NoVersions
  <2>6. CASE CommitFails(p)
    <3>1. flushes'[s] = {} /\ puts'[s] = NoVersions /\ stage'[p] = "idle"
      BY <1>a, <2>6 DEF CommitFails, DropPending
    <3> QED
      BY <2>1, <2>2, <2>4, <3>1 DEF TxOf, EndedOf, NoVersions
  <2>7. CASE RollbackDone(p)
    <3>1. UNCHANGED <<flushes, puts>> /\ stage'[p] = "idle" /\ stage[p] = "rollback"
      BY <2>7 DEF RollbackDone
    <3>2. s \in ended => flushes'[s] = {} /\ puts'[s] = NoVersions
      BY <1>a, <3>1 DEF TxOf, EndedOf
    <3> QED
      BY <2>1, <2>2, <2>4, <3>1, <3>2 DEF TxOf, EndedOf, NoVersions
  <2> QED
    BY <1>8, <2>5, <2>6, <2>7
<1>9. CASE TakePending(p)
  <2>1. dirty'[s] = NoVersions /\ UNCHANGED <<local, ended, val>> /\ stage[p] = "take" /\ stage'[p] = "apply"
    BY <1>a, <1>9 DEF TakePending, PendingOf
  <2>2. flushes'[s] = {} /\ puts'[s] = NoVersions
    BY <1>a, <1>9 DEF TakePending, DropPending
  <2>3. val'[p] = Nothing
    BY <1>a, <2>1 DEF TxOf
  <2> QED
    BY <2>1, <2>2, <2>3 DEF TxOf, EndedOf, NoVersions
<1>10. CASE PreFlushed(p) \/ StoreShared(p) \/ WriteAnswerLost(p) \/ FlushShared(p) \/ PreFlushShared(p)
  BY <1>a, <1>10 DEF PreFlushed, StoreShared, WriteAnswerLost, FlushShared, PreFlushShared, ShapeOf
<1> QED
  BY <1>1, <1>2, <1>3, <1>4, <1>5, <1>6, <1>7, <1>8, <1>9, <1>10, <1>11 DEF Step

LEMMA TxInvStep ==
  ASSUME OneCallerPerTx, TypeOK, StmtShape, DataInv, TxInv, [Next]_vars
  PROVE  TxInv'
<1>1. ASSUME NEW p \in Proc, Call(p) \/ Step(p) \/ Cancel(p) \/ Renew(p) PROVE TxInv'
  <2>1. ASSUME NEW q \in Proc \ {p}, InTx(q) PROVE TxOf(q)'
    BY <1>1, <2>1, TxFrame
  <2>2. ASSUME InTx(p) PROVE TxOf(p)'
    <3>1. CASE Cancel(p) \/ Renew(p)
      BY <2>2, <3>1 DEF Cancel, Renew, dbVars, sessionVars, procVars, TxInv, TxOf, SeesOwn, EndedOf,
         WroteUnflushed
    <3> QED
      BY <1>1, <2>2, <3>1, TxCall, TxStep
  <2> QED
    BY <1>1, <2>1, <2>2, UnusedStep DEF TxInv, InTx
<1>2. CASE (\E k \in Key : Lose(k)) \/ UNCHANGED vars
  BY <1>2 DEF Lose, vars, dbVars, sessionVars, procVars, TxInv, UnusedSessions, InTx, TxOf, SeesOwn,
     EndedOf, WroteUnflushed
<1> QED
  BY <1>1, <1>2 DEF Next

LEMMA TxInvariance ==
  ASSUME OneCallerPerTx
  PROVE  Spec => [](IInv /\ DataInv /\ TxInv)
<1>1. Init => DataInv /\ TxInv
  BY DEF Init, Cache!Init, DataInv, CommittedData, NoUncommittedShared, PendingOf, NoVersions,
     TxInv, UnusedSessions, TxOf, Writing
<1>2. IInv /\ DataInv /\ TxInv /\ [Next]_vars => DataInv' /\ TxInv'
  BY DataStep, TxInvStep DEF IInv
<1> QED
  BY <1>1, <1>2, Invariance, PTL DEF Spec

(* A transaction of one goroutine that wrote a row, with statements that   *)
(* flush, reads its own version of it, from no cache an older one, and will*)
(* publish none but it.                                                    *)
THEOREM TransactionsReadTheirWrites == Spec => []ReadYourWrites
<1>1. CASE OneCallerPerTx
  <2>1. IInv /\ TxInv => ReadYourWrites
    <3> SUFFICES ASSUME IInv, TxInv, NEW s \in TxSession, NEW k \in Key, dirty[s][k] # Nothing,
                        ~WroteUnflushed(s, k)
                 PROVE  \/ \E p \in Proc : SessionOf[p] = s /\ stage[p] = "flush" /\ key[p] = k
                        \/ /\ local[s][k] \in {Nothing, dirty[s][k]}
                           /\ puts[s][k] \in {Nothing, dirty[s][k]}
                           /\ \A p \in Proc :
                                 SessionOf[p] = s /\ key[p] = k =>
                                    stage[p] # "cache" /\ val[p] \in {Nothing, dirty[s][k]}
      BY DEF ReadYourWrites
    <3>1. \A p \in Proc : SessionOf[p] = s => SeesOwn(p, k) \/ (stage[p] = "flush" /\ key[p] = k)
      BY DEF TxInv, TxOf, InTx
    <3>2. \E p \in Proc : SessionOf[p] = s
      BY DEF TxInv, UnusedSessions, NoVersions
    <3> QED
      BY <3>1, <3>2 DEF SeesOwn
  <2> QED
    BY <1>1, <2>1, TxInvariance, PTL
<1>2. CASE ~OneCallerPerTx
  <2>1. ReadYourWrites
    BY <1>2 DEF ReadYourWrites
  <2> QED
    BY <2>1, PTL
<1> QED
  BY <1>1, <1>2

(* Whichever way a transaction ended, no flush and no put stays behind.    *)
THEOREM EndedTransactionsHoldNothing ==
  ASSUME OneCallerPerTx
  PROVE  Spec => []NothingPendingAfterEnd
<1>1. IInv /\ TxInv => NothingPendingAfterEnd
  <2> SUFFICES ASSUME IInv, TxInv, NEW s \in ended,
                      \A p \in Proc : SessionOf[p] = s => stage[p] \notin {"commit", "take"}
               PROVE  flushes[s] = {} /\ puts[s] = NoVersions
    BY DEF NothingPendingAfterEnd
  <2>1. s \in TxSession
    BY DEF IInv, TypeOK
  <2>2. PICK p \in Proc : SessionOf[p] = s
    BY <2>1 DEF TxInv, UnusedSessions
  <2> QED
    BY <2>1, <2>2 DEF TxInv, TxOf, EndedOf, InTx
<1> QED
  BY <1>1, TxInvariance, PTL

-----------------------------------------------------------------------------
(* Stale data has a cause.                                                 *)

(* The history names a cause for stale data of row k: one noted at a write,*)
(* or a write that flushed nothing.                                        *)
Noted(k) ==
    \/ \E c \in Cause : <<k, c>> \in exposed
    \/ \E s \in Session : <<s, k>> \in unflushed

(* An ended transaction nobody will publish anything of.                   *)
Dead(s) == s \in ended /\ \A q \in Proc : SessionOf[q] = s => stage[q] \notin {"commit", "take"}

(* Only one goroutine ends a transaction.                                  *)
EndsOnce ==
    \A p \in Proc :
        stage[p] \in Ending =>
            /\ SessionOf[p] \in ended
            /\ \A q \in Proc \ {p} : SessionOf[q] = SessionOf[p] => stage[q] \notin Ending

(* Nothing is uncommitted outside the open transactions.                   *)
DirtyInv ==
    \A s \in Session : s \notin TxSession \/ TxDone(s) => dirty[s] = NoVersions

(* A row written in a transaction has its flush pending, or on its way.    *)
AwaitsFlush(s, k) == NsOf[k] \in flushes[s] \/ Flushing(s, k)

FlushInv ==
    /\ \A s \in TxSession, k \in Key : dirty[s][k] # Nothing => AwaitsFlush(s, k) \/ Dead(s) \/ Noted(k)
    /\ \A p \in Proc :
          stage[p] = "affect" /\ InTx(p) => NsOf[key[p]] \in flushes[SessionOf[p]] \/ Dead(SessionOf[p])

(* The version v of row k that session s holds is the committed one, or s  *)
(* wrote the row, or a cause is noted, or nothing of s is published.       *)
Passed(s, k, v) == v = db[k] \/ dirty[s][k] # Nothing \/ Noted(k) \/ Dead(s)

FreshInv ==
    /\ \A p \in Proc, k \in Key : stage[p] = "store" /\ key[p] = k => Passed(SessionOf[p], k, val[p])
    /\ \A s \in TxSession, k \in Key : puts[s][k] = Nothing \/ Passed(s, k, puts[s][k])
    /\ \A p \in Proc, k \in Key : toPut[p][k] \in {Nothing, db[k]} \/ Noted(k)

(* Clears are outstanding only while a commit publishes, and nothing       *)
(* cancels that.                                                           *)
ClearOf(p) ==
    /\ toClear[p] # {} => stage[p] = "apply"
    /\ stage[p] \in {"commit", "take", "apply"} => p \notin done

ClearInv == \A p \in Proc : ClearOf(p)

(* The inductive invariant behind StaleHasCause, whoever shares a session. *)
StaleInv == EndsOnce /\ DirtyInv /\ FlushInv /\ FreshInv /\ ClearInv

(* Whoever holds another version when a row gets a new one is noted.       *)
LEMMA PublishNotes ==
  ASSUME TypeOK, NEW new \in [Key -> Version \cup {Nothing}], NEW causes, Publish(new, causes)
  PROVE  /\ exposed \subseteq exposed'
         /\ \A k \in Key :
               \/ new[k] = Nothing /\ db'[k] = db[k]
               \/ /\ new[k] # Nothing /\ db'[k] = new[k] /\ (Holds(k, db'[k]) => Noted(k)')
                  /\ \A c \in causes : <<k, c>> \in exposed'
<1> DEFINE ks == {k \in Key : new[k] # Nothing}
<1>1. /\ db' = [k \in Key |-> IF k \in ks THEN new[k] ELSE db[k]]
      /\ exposed' = exposed \cup (ks \X causes) \cup ({k \in ks : Holds(k, new[k])} \X {"overlap"})
  BY DEF Publish
<1>2. ASSUME NEW k \in ks PROVE Holds(k, new[k]) => Noted(k)'
  <2>1. "overlap" \in Cause
    BY DEF Cause
  <2>2. Holds(k, new[k]) => <<k, "overlap">> \in exposed'
    <3> HIDE DEF ks
    <3> QED
      BY <1>1
  <2> QED
    BY <2>1, <2>2 DEF Noted
<1>3. ASSUME NEW k \in ks, NEW c \in causes PROVE <<k, c>> \in exposed'
  BY <1>1
<1>4. exposed \subseteq exposed'
  BY <1>1
<1>5. \A k \in Key : db'[k] = IF k \in ks THEN new[k] ELSE db[k]
  BY <1>1
<1> QED
  BY <1>2, <1>3, <1>4, <1>5

LEMMA AppliedNotes ==
  ASSUME TypeOK, NEW p \in Proc, key[p] \in Key, NEW causes, Applied(p, causes)
  PROVE  /\ exposed \subseteq exposed'
         /\ \A k \in Key :
               \/ db'[k] = db[k]
               \/ /\ k = key[p] /\ ~InTx(p) /\ (Holds(k, db'[k]) => Noted(k)')
                  /\ \A c \in causes : <<k, c>> \in exposed'
<1>1. CASE InTx(p)
  BY <1>1 DEF Applied
<1>2. CASE ~InTx(p)
  <2> DEFINE new == [NoVersions EXCEPT ![key[p]] = Next1]
  <2>1. Next1 \in Version
    BY DEF Applied, Next1, TypeOK, Version
  <2>2. new \in [Key -> Version \cup {Nothing}]
    BY <2>1, NoVersionsType
  <2>3. \A k \in Key \ {key[p]} : new[k] = Nothing
    BY NoVersionsType DEF NoVersions
  <2>4. Publish(new, causes)
    BY <1>2 DEF Applied
  <2> HIDE DEF new
  <2> QED
    BY <1>2, <2>2, <2>3, <2>4, PublishNotes
<1> QED
  BY <1>1, <1>2

LEMMA EndTxNotes ==
  ASSUME TypeOK, NEW p \in Proc, NEW causes, EndTx(p, causes)
  PROVE  /\ exposed \subseteq exposed'
         /\ \A k \in Key :
               \/ dirty[SessionOf[p]][k] = Nothing /\ db'[k] = db[k]
               \/ /\ dirty[SessionOf[p]][k] # Nothing /\ db'[k] = dirty[SessionOf[p]][k]
                  /\ Holds(k, db'[k]) => Noted(k)'
                  /\ \A c \in causes : <<k, c>> \in exposed'
<1>1. dirty[SessionOf[p]] \in [Key -> Version \cup {Nothing}]
  BY DEF TypeOK
<1> QED
  BY <1>1, PublishNotes DEF EndTx

(* A step gives a row a new version only under the eyes of its holders.    *)
LEMMA NewVersions ==
  ASSUME TypeOK, StmtShape, NEW p \in Proc, Call(p) \/ Step(p) \/ Cancel(p) \/ Renew(p)
  PROVE  /\ exposed \subseteq exposed' /\ unflushed \subseteq unflushed'
         /\ \A k \in Key : db'[k] = db[k] \/ Noted(k)' \/ ~Holds(k, db'[k])
<1>0. ShapeOf(p)
  BY DEF StmtShape
<1>u. unflushed \subseteq unflushed'
  BY UnflushedGrows
<1>1. CASE Write(p) \/ WriteUnflushed(p) \/ WriteAnswerLost(p) \/ AffectWrite(p)
  <2>1. key[p] \in Key
    BY <1>0, <1>1 DEF Write, WriteUnflushed, WriteAnswerLost, AffectWrite, ShapeOf, InStatement
  <2> QED
    BY <1>1, <1>u, <2>1, AppliedNotes DEF Write, WriteUnflushed, WriteAnswerLost, AffectWrite
<1>2. CASE CommitDone(p) \/ CommitFails(p) \/ RollbackDone(p)
  BY <1>2, <1>u, EndTxNotes DEF CommitDone, CommitFails, RollbackDone, AbortTx
<1>3. CASE FlushShared(p) \/ TakePending(p)
  BY <1>3, <1>u DEF FlushShared, TakePending
<1>4. CASE UNCHANGED <<db, exposed>>
  BY <1>4, <1>u
<1> USE DEF dbVars
<1>5. CASE Call(p) \/ Cancel(p) \/ Renew(p)
  <2>1. UNCHANGED <<db, exposed>>
    BY <1>5 DEF Call, QueryLocal, QuerySkipsCache, QueryCached, Exec, Affect, AffectBare,
       Commit, Rollback, EndUnit, Cancel, Renew
  <2> QED
    BY <1>4, <2>1
<1>6. CASE Step(p)
  <2>1. \/ UNCHANGED <<db, exposed>>
        \/ Write(p) \/ WriteUnflushed(p) \/ WriteAnswerLost(p) \/ AffectWrite(p)
        \/ CommitDone(p) \/ CommitFails(p) \/ RollbackDone(p)
        \/ FlushShared(p) \/ TakePending(p)
    BY <1>6 DEF Step, CacheWaits, CacheHits, CacheFails, CacheMisses, ReadRows, ReadFails,
     StorePending, StoreShared, Published, ReleaseMiss, WriteFails, FlushPending,
     Flushed, PreFlushPending, PreFlushShared, PreFlushed, ApplyClear, ApplyPut,
     ApplyReleases, ApplyDone
  <2> QED
    BY <1>1, <1>2, <1>3, <1>4, <2>1
<1> QED
  BY <1>5, <1>6

(* Only p's own context begins or ends in a step of p.                     *)
LEMMA DoneFrame ==
  ASSUME TypeOK, StmtShape, NEW p \in Proc, Call(p) \/ Step(p) \/ Cancel(p) \/ Renew(p)
  PROVE  /\ \A q \in Proc \ {p} : q \in done' <=> q \in done
         /\ Cancel(p) \/ Renew(p) \/ done' = done
<1>1. CacheStepOf(p)
  BY StepIsCacheStepOf
<1>2. CASE Cache!Step(p) \/ UNCHANGED Cache!vars
  BY <1>2 DEF Cache!Step, Cache!LookupFails, Cache!LookupHits, Cache!LookupMisses,
     Cache!PlainMiss, Cache!BeginFlight, Cache!JoinFlight, Cache!Wake, Cache!AbandonWait,
     Cache!Release, Cache!vars
<1>3. CASE Cache!Call(p)
  BY <1>3 DEF Cache!Call, Cache!Get, Cache!Put, Cache!Remove, Cache!Clear, Cache!Change,
     Cache!ReleaseMiss
<1>4. CASE Cache!Cancel(p) \/ Cache!Renew(p)
  <2>1. \A q \in Proc \ {p} : q \in done' <=> q \in done
    BY <1>4 DEF Cache!Cancel, Cache!Renew
  <2>2. Call(p) \/ Step(p) => done' = done
    <3>1. CASE Call(p)
      BY <3>1 DEF Call, QueryLocal, QuerySkipsCache, QueryCached, Cache!Get, Exec, Affect, AffectBare,
         Commit, Rollback, EndUnit, cacheVars
    <3>2. CASE Step(p)
      BY <3>2 DEF Step, CacheWaits, CacheHits, CacheFails, CacheMisses, ReadRows, ReadFails,
       StorePending, StoreShared, Published, ReleaseMiss, Write, WriteUnflushed, WriteFails, WriteAnswerLost,
       FlushPending, FlushShared, Flushed, PreFlushPending, PreFlushShared, PreFlushed,
       AffectWrite, CommitDone, CommitFails, TakePending, ApplyClear, ApplyPut,
       ApplyReleases, ApplyDone, RollbackDone, cacheVars,
       Cache!LookupMisses, Cache!JoinFlight, Cache!Wake, Cache!LookupHits, Cache!LookupFails,
       Cache!AbandonWait, Cache!PlainMiss, Cache!BeginFlight, Cache!Release, Cache!ReleaseMiss,
       Cache!Put, Cache!Clear, Cache!Change
    <3> QED
      BY <3>1, <3>2
  <2> QED
    BY <2>1, <2>2
<1> QED
  BY <1>1, <1>2, <1>3, <1>4 DEF CacheStepOf

-----------------------------------------------------------------------------
(* How a transaction ends.                                                 *)
LEMMA EndStages ==
  ASSUME TypeOK, NEW p \in Proc, Call(p) \/ Step(p) \/ Cancel(p) \/ Renew(p)
  PROVE  \/ /\ \/ Commit(p) /\ stage'[p] = "commit"
               \/ Rollback(p) /\ stage'[p] = "rollback"
            /\ SessionOf[p] \notin ended /\ ended' = ended \cup {SessionOf[p]}
            /\ stage[p] = "idle"
         \/ /\ ended' = ended
            /\ \/ stage'[p] = stage[p]
               \/ stage[p] \notin Ending /\ stage'[p] \notin Ending
               \/ CommitDone(p) /\ stage[p] = "commit" /\ stage'[p] = "take"
               \/ CommitFails(p) /\ stage[p] = "commit" /\ stage'[p] = "idle"
               \/ TakePending(p) /\ stage[p] = "take" /\ stage'[p] = "apply"
               \/ RollbackDone(p) /\ stage[p] = "rollback" /\ stage'[p] = "idle"
               \/ ApplyDone(p) /\ stage[p] = "apply" /\ stage'[p] = "idle"
<1>1. CASE Call(p)
  <2>1. Commit(p) \/ Rollback(p) => ended' = ended \cup {SessionOf[p]}
    BY DEF Commit, Rollback, Complete
  <2>2. CASE Commit(p) /\ Begin(p, NoKey, "commit")
    BY <2>1, <2>2 DEF TypeOK, Goto, Begin
  <2>3. CASE Rollback(p) /\ Begin(p, NoKey, "rollback")
    BY <2>1, <2>3 DEF TypeOK, Goto, Begin
  <2>4. ASSUME NEW k, NEW next \in {"idle", "read", "cache", "write", "preflush", "bare"}, Begin(p, k, next)
        PROVE  stage[p] \notin Ending /\ stage'[p] \notin Ending
    BY <2>4 DEF TypeOK, Ending, Goto, Begin
  <2> QED
    BY <1>1, <2>2, <2>3, <2>4, CallBegins
<1> USE DEF TypeOK, Ending, Goto, Continue, Finish, sessionVars, procVars
<1>3. CASE \/ CacheWaits(p) \/ CacheHits(p) \/ CacheFails(p) \/ CacheMisses(p)
           \/ ReadRows(p) \/ ReadFails(p) \/ StorePending(p) \/ StoreShared(p)
           \/ Published(p) \/ ReleaseMiss(p)
  BY <1>3 DEF CacheWaits, CacheHits, CacheFails, CacheMisses, ReadRows, ReadFails,
     StorePending, StoreShared, Published, ReleaseMiss
<1>4. CASE \/ Write(p) \/ WriteUnflushed(p) \/ WriteFails(p) \/ WriteAnswerLost(p) \/ FlushPending(p)
           \/ FlushShared(p) \/ Flushed(p) \/ PreFlushPending(p) \/ PreFlushShared(p)
           \/ PreFlushed(p) \/ AffectWrite(p)
  BY <1>4 DEF Write, WriteUnflushed, WriteFails, WriteAnswerLost, FlushPending, FlushShared, Flushed,
     PreFlushPending, PreFlushShared, PreFlushed, AffectWrite, MarkFlush
<1>5. CASE CommitDone(p) \/ CommitFails(p) \/ TakePending(p)
  BY <1>5 DEF CommitDone, CommitFails, TakePending
<1>2. CASE ApplyClear(p) \/ ApplyPut(p) \/ ApplyReleases(p) \/ ApplyDone(p) \/ RollbackDone(p)
  BY <1>2 DEF ApplyClear, ApplyPut, ApplyReleases, ApplyDone, RollbackDone
<1>6. CASE Cancel(p) \/ Renew(p)
  BY <1>6 DEF Cancel, Renew
<1> QED
  BY <1>1, <1>2, <1>3, <1>4, <1>5, <1>6 DEF Step

LEMMA EndsOnceStep ==
  ASSUME TypeOK, EndsOnce, NEW p \in Proc, Call(p) \/ Step(p) \/ Cancel(p) \/ Renew(p)
  PROVE  EndsOnce'
<1>1. \A q \in Proc \ {p} : stage'[q] = stage[q]
  BY ProcFrame
<1>2. ended \subseteq ended' /\ (stage'[p] \in Ending => SessionOf[p] \in ended')
  BY EndStages DEF EndsOnce, Ending
<1>3. stage'[p] \in Ending => \A q \in Proc \ {p} : SessionOf[q] = SessionOf[p] => stage[q] \notin Ending
  BY EndStages DEF EndsOnce, Ending
<1> QED
  BY <1>1, <1>2, <1>3 DEF EndsOnce

(* An ended transaction stays so, and what drops its pending changes, or   *)
(* its uncommitted ones, leaves it that way.                               *)
LEMMA DeadStays ==
  ASSUME TypeOK, NEW p \in Proc, Call(p) \/ Step(p) \/ Cancel(p) \/ Renew(p),
         NEW s \in Session, Dead(s)
  PROVE  Dead(s)'
<1>1. \A q \in Proc \ {p} : stage'[q] = stage[q]
  BY ProcFrame
<1>2. ended \subseteq ended' /\ (SessionOf[p] = s => stage'[p] \notin {"commit", "take"})
  BY EndStages DEF Dead, Ending
<1> QED
  BY <1>1, <1>2 DEF Dead

LEMMA DropsEnd ==
  ASSUME TypeOK, EndsOnce, NEW p \in Proc,
         Rollback(p) \/ CommitFails(p) \/ TakePending(p) \/ RollbackDone(p)
  PROVE  Dead(SessionOf[p])'
<1>0. Call(p) \/ Step(p) \/ Cancel(p) \/ Renew(p)
  BY DEF Call, Step
<1>1. \A q \in Proc \ {p} : stage'[q] = stage[q]
  BY <1>0, ProcFrame
<1>2. SessionOf[p] \in ended' /\ stage'[p] \notin {"commit", "take"}
  <2>1. CASE Rollback(p)
    BY <2>1 DEF Rollback, Complete, Begin, Goto, TypeOK
  <2>2. CASE CommitFails(p) \/ TakePending(p) \/ RollbackDone(p)
    <3>1. stage[p] \in Ending /\ ended' = ended /\ stage'[p] \in {"idle", "apply"}
      BY <2>2 DEF CommitFails, TakePending, RollbackDone, Finish, Goto, Ending, sessionVars, TypeOK
    <3> QED
      BY <3>1 DEF EndsOnce
  <2> QED
    BY <2>1, <2>2
<1>3. \A q \in Proc \ {p} : SessionOf[q] = SessionOf[p] => stage[q] \notin Ending
  <2>1. CASE Rollback(p)
    BY <2>1 DEF Rollback, Complete, Begin, EndsOnce
  <2>2. CASE CommitFails(p) \/ TakePending(p) \/ RollbackDone(p)
    BY <2>2 DEF CommitFails, TakePending, RollbackDone, Ending, EndsOnce
  <2> QED
    BY <2>1, <2>2
<1> QED
  BY <1>1, <1>2, <1>3 DEF Dead, Ending

-----------------------------------------------------------------------------
(* The uncommitted versions and the pending flushes.                       *)
LEMMA DirtySteps ==
  ASSUME TypeOK, StmtShape, NEW p \in Proc, Call(p) \/ Step(p) \/ Cancel(p) \/ Renew(p)
  PROVE  LET s == SessionOf[p] IN
         \/ dirty'[s] = dirty[s]
         \/ /\ InTx(p) /\ ~TxDone(s) /\ key[p] \in Key /\ (Write(p) \/ WriteUnflushed(p) \/ AffectWrite(p))
            /\ \A k \in Key \ {key[p]} : dirty'[s][k] = dirty[s][k]
         \/ InTx(p) /\ dirty'[s] = NoVersions /\ (CommitDone(p) \/ CommitFails(p) \/ RollbackDone(p))
<1> DEFINE s == SessionOf[p]
<1>0. ShapeOf(p) /\ s \in Session /\ dirty \in [Session -> [Key -> Version \cup {Nothing}]]
  BY DEF StmtShape, TypeOK
<1>1. CASE Write(p) \/ WriteUnflushed(p) \/ WriteAnswerLost(p) \/ AffectWrite(p)
  <2>1. key[p] \in Key /\ \E causes : Applied(p, causes)
    BY <1>0, <1>1 DEF Write, WriteUnflushed, WriteAnswerLost, AffectWrite, ShapeOf, InStatement
  <2>2. CASE InTx(p)
    <3>1. ~TxDone(s) /\ dirty' = [dirty EXCEPT ![s][key[p]] = Next1]
      BY <2>1, <2>2 DEF Applied
    <3>2. Write(p) \/ WriteUnflushed(p) \/ AffectWrite(p)
      BY <1>1, <2>2 DEF WriteAnswerLost
    <3>3. \A k \in Key \ {key[p]} : dirty'[s][k] = dirty[s][k]
      BY <1>0, <3>1
    <3> QED
      BY <2>1, <2>2, <3>1, <3>2, <3>3
  <2>3. CASE ~InTx(p)
    BY <2>1, <2>3 DEF Applied
  <2> QED
    BY <2>2, <2>3
<1>2. CASE CommitDone(p) \/ CommitFails(p) \/ RollbackDone(p)
  <2>1. InTx(p)
    BY <1>0, <1>2 DEF CommitDone, CommitFails, RollbackDone, ShapeOf
  <2>2. dirty' = [dirty EXCEPT ![s] = NoVersions]
    BY <1>2 DEF CommitDone, CommitFails, RollbackDone, EndTx, AbortTx
  <2> QED
    BY <1>0, <1>2, <2>1, <2>2
<1> QED
  BY <1>1, <1>2, DbSteps

LEMMA DirtyInvStep ==
  ASSUME TypeOK, StmtShape, DirtyInv, NEW p \in Proc, Call(p) \/ Step(p) \/ Cancel(p) \/ Renew(p)
  PROVE  DirtyInv'
<1> SUFFICES ASSUME NEW s \in Session, s \notin TxSession \/ TxDone(s)', dirty'[s] # NoVersions
             PROVE  FALSE
  BY DEF DirtyInv, NoVersions
<1>1. CASE dirty'[s] = dirty[s]
  <2>1. s \in TxSession /\ TxDone(s)' /\ ~TxDone(s)
    BY <1>1 DEF DirtyInv
  <2>2. \A q \in Proc \ {p} : stage'[q] = stage[q]
    BY ProcFrame
  <2>3. SessionOf[p] = s /\ stage'[p] \notin {"commit", "rollback"}
    BY <2>1, <2>2, EndStages DEF TxDone
  <2>4. CommitDone(p) \/ CommitFails(p) \/ RollbackDone(p)
    BY <2>1, <2>2, <2>3, EndStages DEF TxDone, Ending
  <2>5. dirty' = [dirty EXCEPT ![s] = NoVersions]
    BY <2>3, <2>4 DEF CommitDone, CommitFails, RollbackDone, EndTx, AbortTx
  <2> QED
    BY <2>5 DEF TypeOK
<1>2. CASE dirty'[s] # dirty[s]
  <2>1. s = SessionOf[p]
    BY <1>2, SessionFrame
  <2>2. InTx(p) /\ ~TxDone(s) /\ (Write(p) \/ WriteUnflushed(p) \/ AffectWrite(p))
    BY <1>2, <2>1, DirtySteps
  <2>3. ended' = ended /\ stage[p] \notin Ending /\ stage'[p] \notin Ending
    BY <2>2 DEF Write, WriteUnflushed, AffectWrite, Continue, Finish, Goto, Ending, sessionVars,
       TypeOK
  <2>4. \A q \in Proc \ {p} : stage'[q] = stage[q]
    BY ProcFrame
  <2>5. s \in TxSession /\ TxDone(s)'
    BY <2>1, <2>2 DEF InTx
  <2> QED
    BY <2>1, <2>2, <2>3, <2>4, <2>5 DEF TxDone, Ending
<1> QED
  BY <1>1, <1>2

(* A pending flush stays pending until the transaction has ended.          *)
LEMMA FlushesStay ==
  ASSUME TypeOK, EndsOnce, NEW p \in Proc, Call(p) \/ Step(p) \/ Cancel(p) \/ Renew(p),
         NEW s \in Session
  PROVE  flushes[s] \subseteq flushes'[s] \/ Dead(s)'
<1>1. CASE SessionOf[p] # s
  BY <1>1, OwnSession
<1>2. CASE SessionOf[p] = s
  <2>1. CASE Rollback(p) \/ CommitFails(p) \/ TakePending(p)
    BY <1>2, <2>1, DropsEnd
  <2>2. CASE FlushPending(p) \/ PreFlushPending(p)
    <3>1. flushes' = [flushes EXCEPT ![s] = flushes[s] \cup {NsOf[key[p]]}]
      BY <1>2, <2>2 DEF FlushPending, PreFlushPending, MarkFlush
    <3>2. flushes'[s] = flushes[s] \cup {NsOf[key[p]]}
      BY <3>1 DEF TypeOK
    <3> QED
      BY <3>2
  <2> USE DEF TypeOK, sessionVars
  <2>3. CASE Call(p) \/ Cancel(p) \/ Renew(p)
    BY <2>1, <2>3 DEF Call, QueryLocal, QuerySkipsCache, QueryCached, Exec, Affect, AffectBare,
       Commit, EndUnit, Cancel, Renew
  <2>4. CASE Step(p)
    BY <2>1, <2>2, <2>4 DEF Step, CacheWaits, CacheHits, CacheFails, CacheMisses, ReadRows, ReadFails,
       StorePending, StoreShared, Published, ReleaseMiss, Write, WriteUnflushed, WriteFails, WriteAnswerLost,
       FlushShared, Flushed, PreFlushShared, PreFlushed, AffectWrite, CommitDone, ApplyClear,
       ApplyPut, ApplyReleases, ApplyDone, RollbackDone
  <2> QED
    BY <2>3, <2>4
<1> QED
  BY <1>1, <1>2

(* What a goroutine does when it has written.                              *)
LEMMA StepsAtFlush ==
  ASSUME TypeOK, NEW p \in Proc, Call(p) \/ Step(p) \/ Cancel(p) \/ Renew(p), stage[p] = "flush"
  PROVE  FlushPending(p) \/ FlushShared(p) \/ (stage'[p] = "flush" /\ key'[p] = key[p])
<1>1. ~Call(p)
  BY DEF Call, QueryLocal, QuerySkipsCache, QueryCached, Exec, Affect, AffectBare, Commit, Rollback,
     Complete, EndUnit, Begin
<1>2. Step(p) => FlushPending(p) \/ FlushShared(p)
  BY DEF Step, CacheWaits, CacheHits, CacheFails, CacheMisses, ReadRows, ReadFails,
     StorePending, StoreShared, Published, ReleaseMiss, Write, WriteUnflushed, WriteFails, WriteAnswerLost,
     Flushed, PreFlushPending, PreFlushShared, PreFlushed, AffectWrite, CommitDone, CommitFails,
     TakePending, ApplyClear, ApplyPut, ApplyReleases, ApplyDone, RollbackDone
<1>3. Cancel(p) \/ Renew(p) => stage'[p] = "flush" /\ key'[p] = key[p]
  BY DEF Cancel, Renew, procVars
<1> QED
  BY <1>1, <1>2, <1>3

LEMMA AwaitsStay ==
  ASSUME TypeOK, EndsOnce, NEW p \in Proc, Call(p) \/ Step(p) \/ Cancel(p) \/ Renew(p),
         NEW s \in TxSession, NEW k \in Key, AwaitsFlush(s, k)
  PROVE  AwaitsFlush(s, k)' \/ Dead(s)'
<1>1. CASE NsOf[k] \in flushes[s]
  BY <1>1, FlushesStay DEF AwaitsFlush
<1>2. ASSUME NEW q \in Proc, SessionOf[q] = s, stage[q] = "flush", key[q] = k
      PROVE  AwaitsFlush(s, k)'
  <2>1. CASE q # p
    BY <1>2, <2>1, ProcFrame DEF AwaitsFlush, Flushing
  <2>2. CASE q = p /\ FlushPending(p)
    BY <1>2, <2>2 DEF FlushPending, MarkFlush, AwaitsFlush, TypeOK
  <2>3. CASE q = p /\ ~FlushPending(p)
    <3>1. stage'[p] = "flush" /\ key'[p] = k
      BY <1>2, <2>3, StepsAtFlush DEF FlushShared, InTx
    <3> QED
      BY <1>2, <2>3, <3>1 DEF AwaitsFlush, Flushing
  <2> QED
    BY <2>1, <2>2, <2>3
<1> QED
  BY <1>1, <1>2 DEF AwaitsFlush, Flushing

LEMMA AffectBegins ==
  ASSUME TypeOK, StmtShape, NEW p \in Proc, Call(p) \/ Step(p) \/ Cancel(p) \/ Renew(p),
         InTx(p), stage'[p] = "affect"
  PROVE  PreFlushPending(p) \/ (stage[p] = "affect" /\ key'[p] = key[p])
<1> USE DEF TypeOK, Goto, Continue, Finish, procVars
<1>0. stage[p] # "preflushed"
  BY DEF StmtShape, ShapeOf
<1>1. ~Call(p)
  BY DEF Call, QueryLocal, QuerySkipsCache, QueryCached, Exec, Affect, AffectBare, Commit, Rollback,
     Complete, EndUnit, Begin
<1>2. CASE \/ CacheWaits(p) \/ CacheHits(p) \/ CacheFails(p) \/ CacheMisses(p)
           \/ ReadRows(p) \/ ReadFails(p) \/ StorePending(p) \/ StoreShared(p)
           \/ Published(p) \/ ReleaseMiss(p)
  BY <1>2 DEF CacheWaits, CacheHits, CacheFails, CacheMisses, ReadRows, ReadFails,
     StorePending, StoreShared, Published, ReleaseMiss
<1>3. CASE \/ Write(p) \/ WriteUnflushed(p) \/ WriteFails(p) \/ WriteAnswerLost(p) \/ FlushPending(p)
           \/ FlushShared(p) \/ Flushed(p) \/ PreFlushPending(p) \/ PreFlushShared(p)
           \/ PreFlushed(p) \/ AffectWrite(p)
  BY <1>0, <1>3 DEF Write, WriteUnflushed, WriteFails, WriteAnswerLost, FlushPending, FlushShared, Flushed,
     PreFlushShared, PreFlushed, AffectWrite
<1>4. CASE \/ CommitDone(p) \/ CommitFails(p) \/ TakePending(p) \/ ApplyClear(p) \/ ApplyPut(p)
           \/ ApplyReleases(p) \/ ApplyDone(p) \/ RollbackDone(p)
  BY <1>4 DEF CommitDone, CommitFails, TakePending, ApplyClear, ApplyPut, ApplyReleases,
     ApplyDone, RollbackDone
<1>5. CASE Cancel(p) \/ Renew(p)
  BY <1>5 DEF Cancel, Renew
<1> QED
  BY <1>1, <1>2, <1>3, <1>4, <1>5 DEF Step

LEMMA FlushInvStep ==
  ASSUME TypeOK, StmtShape, EndsOnce, FlushInv, NEW p \in Proc,
         Call(p) \/ Step(p) \/ Cancel(p) \/ Renew(p)
  PROVE  FlushInv'
<1> DEFINE own == SessionOf[p]
<1>0. own \in Session /\ \A q \in Proc : SessionOf[q] \in Session
  OBVIOUS
<1>1. ASSUME NEW s \in TxSession, NEW k \in Key, dirty'[s][k] # Nothing
      PROVE  AwaitsFlush(s, k)' \/ Dead(s)' \/ Noted(k)'
  <2>0. Noted(k) => Noted(k)'
    BY NewVersions DEF Noted
  <2>1. CASE dirty'[s][k] = dirty[s][k]
    BY <1>1, <2>0, <2>1, AwaitsStay, DeadStays DEF FlushInv
  <2>2. CASE dirty'[s][k] # dirty[s][k]
    <3>1. s = own
      BY <2>2, SessionFrame
    <3>2. k = key[p] /\ InTx(p) /\ (Write(p) \/ WriteUnflushed(p) \/ AffectWrite(p))
      BY <1>1, <2>2, <3>1, DirtySteps DEF NoVersions
    <3>3. CASE Write(p)
      <4>1. stage'[p] = "flush" /\ key'[p] = k
        BY <3>2, <3>3 DEF Write, WriteUnflushed, Continue, Goto, TypeOK
      <4> QED
        BY <3>1, <4>1 DEF AwaitsFlush, Flushing
    <3>4. CASE AffectWrite(p)
      <4>1. stage[p] = "affect" /\ UNCHANGED flushes
        BY <3>4 DEF AffectWrite, sessionVars
      <4>2. NsOf[k] \in flushes[s] \/ Dead(s)
        BY <3>1, <3>2, <4>1 DEF FlushInv
      <4> QED
        BY <4>1, <4>2, DeadStays DEF AwaitsFlush
    <3>5. CASE WriteUnflushed(p)
      BY <1>0, <3>2, <3>5 DEF WriteUnflushed, Noted
    <3> QED
      BY <3>2, <3>3, <3>4, <3>5
  <2> QED
    BY <2>1, <2>2
<1>2. ASSUME NEW q \in Proc, stage'[q] = "affect", InTx(q)
      PROVE  NsOf[key'[q]] \in flushes'[SessionOf[q]] \/ Dead(SessionOf[q])'
  <2>1. CASE stage[q] = "affect" /\ key'[q] = key[q]
    BY <1>0, <1>2, <2>1, FlushesStay, DeadStays DEF FlushInv
  <2>2. CASE ~(stage[q] = "affect" /\ key'[q] = key[q])
    <3>1. q = p
      BY <1>2, <2>2, ProcFrame
    <3>2. PreFlushPending(p)
      BY <1>2, <2>2, <3>1, AffectBegins
    <3> QED
      BY <1>0, <3>1, <3>2 DEF PreFlushPending, MarkFlush, Continue, TypeOK
  <2> QED
    BY <2>1, <2>2
<1> QED
  BY <1>1, <1>2 DEF FlushInv, InTx

-----------------------------------------------------------------------------
(* The versions the sessions hold.                                         *)

(* A version that was passed still is, when a new one of the row would     *)
(* find it held.                                                           *)
LEMMA PassedStays ==
  ASSUME TypeOK, StmtShape, EndsOnce, NEW p \in Proc, Call(p) \/ Step(p) \/ Cancel(p) \/ Renew(p),
         NEW s \in Session, NEW k \in Key, NEW v, Passed(s, k, v), v = db'[k] \/ Holds(k, db'[k])
  PROVE  Passed(s, k, v)'
<1>1. Noted(k) => Noted(k)'
  BY NewVersions DEF Noted
<1>2. CASE v = db[k]
  BY <1>1, <1>2, NewVersions DEF Passed
<1>3. ASSUME dirty[s][k] # Nothing, dirty'[s][k] = Nothing
      PROVE  Passed(s, k, v)'
  <2>1. dirty'[s] # dirty[s] /\ s = SessionOf[p]
    BY <1>3, SessionFrame
  <2>2. CASE CommitDone(p)
    <3>1. EndTx(p, {})
      BY <2>2 DEF CommitDone
    <3>2. Holds(k, db'[k]) => Noted(k)'
      BY <1>3, <2>1, <3>1, EndTxNotes
    <3> QED
      BY <3>2 DEF Passed
  <2>3. CASE CommitFails(p) \/ RollbackDone(p)
    BY <2>1, <2>3, DropsEnd DEF Passed
  <2>4. ASSUME Write(p) \/ WriteUnflushed(p) \/ AffectWrite(p), key[p] \in Key, InTx(p)
        PROVE  Passed(s, k, v)'
    <3>1. \E causes : Applied(p, causes)
      BY <2>4 DEF Write, WriteUnflushed, AffectWrite
    <3>2. dirty' = [dirty EXCEPT ![s][key[p]] = Next1] /\ Next1 \in Version
      BY <2>1, <2>4, <3>1 DEF Applied, Next1, TypeOK, Version
    <3>3. dirty'[s][k] # Nothing
      BY <1>3, <2>1, <2>4, <3>2 DEF TypeOK
    <3> QED
      BY <1>3, <3>3
  <2> QED
    BY <2>1, <2>2, <2>3, <2>4, DirtySteps
<1> QED
  BY <1>1, <1>2, <1>3, DeadStays DEF Passed

(* The steps that change what a session has pending.                       *)
LEMMA PutsSteps ==
  ASSUME TypeOK, StmtShape, NEW p \in Proc, Call(p) \/ Step(p) \/ Cancel(p) \/ Renew(p),
         NEW s \in Session, NEW k \in Key
  PROVE  \/ puts'[s][k] \in {puts[s][k], Nothing}
         \/ StorePending(p) /\ s = SessionOf[p] /\ k = key[p] /\ puts'[s][k] = val[p]
<1>1. CASE SessionOf[p] # s
  BY <1>1, SessionFrame
<1>2. CASE SessionOf[p] = s
  <2> USE DEF TypeOK, sessionVars
  <2>1. CASE Rollback(p) \/ CommitFails(p) \/ TakePending(p)
    <3>1. puts' = [puts EXCEPT ![s] = NoVersions]
      BY <1>2, <2>1 DEF Rollback, CommitFails, TakePending, DropPending
    <3>2. puts'[s] = NoVersions
      BY <3>1
    <3> QED
      BY <3>2 DEF NoVersions
  <2>2. CASE FlushPending(p) \/ PreFlushPending(p)
    BY <1>2, <2>2 DEF FlushPending, PreFlushPending, MarkFlush
  <2>3. CASE StorePending(p)
    <3>1. key[p] \in Key
      BY <2>3 DEF StorePending, StmtShape, ShapeOf, InStatement
    <3>2. puts' = puts \/ puts' = [puts EXCEPT ![s][key[p]] = val[p]]
      BY <1>2, <2>3 DEF StorePending
    <3> QED
      BY <1>2, <2>3, <3>1, <3>2
  <2>4. CASE Call(p) \/ Cancel(p) \/ Renew(p)
    BY <2>1, <2>4 DEF Call, QueryLocal, QuerySkipsCache, QueryCached, Exec, Affect, AffectBare,
       Commit, EndUnit, Cancel, Renew
  <2>5. CASE Step(p)
    BY <2>1, <2>2, <2>3, <2>5 DEF Step, CacheWaits, CacheHits, CacheFails, CacheMisses, ReadRows,
       ReadFails, StoreShared, Published, ReleaseMiss, Write, WriteUnflushed, WriteFails, WriteAnswerLost,
       FlushShared, Flushed, PreFlushShared, PreFlushed, AffectWrite, CommitDone, ApplyClear,
       ApplyPut, ApplyReleases, ApplyDone, RollbackDone
  <2> QED
    BY <2>4, <2>5
<1> QED
  BY <1>1, <1>2

LEMMA StoreBegins ==
  ASSUME TypeOK, NEW p \in Proc, Call(p) \/ Step(p) \/ Cancel(p) \/ Renew(p), stage'[p] = "store"
  PROVE  ReadRows(p) \/ UNCHANGED <<stage[p], key[p], val[p]>>
<1> USE DEF TypeOK, Goto, Continue, Finish, procVars
<1>1. ~Call(p)
  BY DEF Call, QueryLocal, QuerySkipsCache, QueryCached, Exec, Affect, AffectBare, Commit, Rollback,
     Complete, EndUnit, Begin
<1>2. CASE \/ CacheWaits(p) \/ CacheHits(p) \/ CacheFails(p) \/ CacheMisses(p)
           \/ ReadRows(p) \/ ReadFails(p) \/ StorePending(p) \/ StoreShared(p)
           \/ Published(p) \/ ReleaseMiss(p)
  BY <1>2 DEF CacheWaits, CacheHits, CacheFails, CacheMisses, ReadFails,
     StorePending, StoreShared, Published, ReleaseMiss
<1>3. CASE \/ Write(p) \/ WriteUnflushed(p) \/ WriteFails(p) \/ WriteAnswerLost(p) \/ FlushPending(p)
           \/ FlushShared(p) \/ Flushed(p) \/ PreFlushPending(p) \/ PreFlushShared(p)
           \/ PreFlushed(p) \/ AffectWrite(p)
  BY <1>3 DEF Write, WriteUnflushed, WriteFails, WriteAnswerLost, FlushPending, FlushShared, Flushed,
     PreFlushPending, PreFlushShared, PreFlushed, AffectWrite
<1>4. CASE \/ CommitDone(p) \/ CommitFails(p) \/ TakePending(p) \/ ApplyClear(p) \/ ApplyPut(p)
           \/ ApplyReleases(p) \/ ApplyDone(p) \/ RollbackDone(p)
  BY <1>4 DEF CommitDone, CommitFails, TakePending, ApplyClear, ApplyPut, ApplyReleases,
     ApplyDone, RollbackDone
<1>5. CASE Cancel(p) \/ Renew(p)
  BY <1>5 DEF Cancel, Renew
<1> QED
  BY <1>1, <1>2, <1>3, <1>4, <1>5 DEF Step

LEMMA FreshStep ==
  ASSUME TypeOK, StmtShape, StaleInv, NEW p \in Proc, Call(p) \/ Step(p) \/ Cancel(p) \/ Renew(p)
  PROVE  FreshInv'
<1>n. \A k \in Key : Noted(k) => Noted(k)'
  BY NewVersions DEF Noted
<1>s. \A q \in Proc : SessionOf[q] \in Session
  OBVIOUS
<1>f. EndsOnce /\ FreshInv /\ ShapeOf(p)
  BY DEF StaleInv, StmtShape
<1>1. ASSUME NEW q \in Proc, NEW k \in Key, stage'[q] = "store", key'[q] = k
      PROVE  Passed(SessionOf[q], k, val[q])'
  <2>1. CASE UNCHANGED <<stage[q], key[q], val[q]>>
    <3>1. Passed(SessionOf[q], k, val[q])
      BY <1>1, <1>f, <2>1 DEF FreshInv
    <3>2. val[q] = db'[k] \/ Holds(k, db'[k])
      BY <1>1, <2>1 DEF Holds
    <3>3. Passed(SessionOf[q], k, val[q]) => (val[q] = db'[k] \/ dirty'[SessionOf[q]][k] # Nothing \/ Noted(k)' \/ Dead(SessionOf[q])')
      BY <1>f, <1>s, <3>2, PassedStays DEF Passed
    <3> QED
      BY <2>1, <3>1, <3>3 DEF Passed
  <2>2. CASE q = p /\ ReadRows(p)
    <3>1. UNCHANGED <<db, dirty>> /\ key'[p] = key[p] /\ val'[p] = Visible(p, key[p])
      BY <2>2 DEF ReadRows, dbVars, TypeOK
    <3> QED
      BY <1>1, <2>2, <3>1 DEF Passed, Visible
  <2> QED
    BY <1>1, <2>1, <2>2, ProcFrame, StoreBegins
<1>2. ASSUME NEW s \in TxSession, NEW k \in Key, puts'[s][k] # Nothing
      PROVE  Passed(s, k, puts[s][k])'
  <2>1. CASE puts'[s][k] = puts[s][k]
    <3>1. Passed(s, k, puts[s][k])
      BY <1>2, <1>f, <2>1 DEF FreshInv
    <3>2. puts[s][k] = db'[k] \/ Holds(k, db'[k])
      BY <1>2, <2>1 DEF Holds
    <3>3. puts[s][k] = db'[k] \/ dirty'[s][k] # Nothing \/ Noted(k)' \/ Dead(s)'
      BY <1>f, <3>1, <3>2, PassedStays DEF Passed
    <3> QED
      BY <2>1, <3>3 DEF Passed
  <2>2. CASE StorePending(p) /\ s = SessionOf[p] /\ k = key[p] /\ puts'[s][k] = val[p]
    <3>1. UNCHANGED <<db, dirty, exposed>> /\ stage[p] = "store"
      BY <2>2 DEF StorePending, dbVars
    <3>2. Passed(s, k, val[p])
      BY <1>f, <2>2, <3>1 DEF FreshInv
    <3> QED
      BY <1>n, <2>2, <3>1, <3>2, DeadStays DEF Passed
  <2> QED
    BY <1>2, <2>1, <2>2, PutsSteps
<1>3. ASSUME NEW q \in Proc, NEW k \in Key
      PROVE  toPut'[q][k] \in {Nothing, db'[k]} \/ Noted(k)'
  <2>1. CASE toPut'[q][k] \in {toPut[q][k], Nothing}
    <3>1. toPut[q][k] \in {Nothing, db[k]} \/ Noted(k)
      BY <1>f DEF FreshInv
    <3>2. toPut[q][k] \in {Nothing, db'[k]} \/ Holds(k, db'[k])
      BY DEF Holds
    <3> QED
      BY <1>n, <2>1, <3>1, <3>2, NewVersions
  <2>2. CASE q = p /\ TakePending(p)
    <3>1. /\ UNCHANGED db /\ stage[p] = "take" /\ InTx(p) /\ toPut'[p] = puts[SessionOf[p]]
      BY <1>f, <2>2 DEF TakePending, ShapeOf, TypeOK
    <3>2. TxDone(SessionOf[p]) /\ ~Dead(SessionOf[p])
      BY <1>f, <3>1 DEF EndsOnce, Ending, TxDone, Dead
    <3>3. dirty[SessionOf[p]][k] = Nothing
      BY <1>s, <3>2 DEF StaleInv, DirtyInv, NoVersions
    <3>4. puts[SessionOf[p]][k] = Nothing \/ Passed(SessionOf[p], k, puts[SessionOf[p]][k])
      BY <1>f, <3>1 DEF FreshInv, InTx
    <3> QED
      BY <1>n, <2>2, <3>1, <3>2, <3>3, <3>4 DEF Passed
  <2>3. q = p /\ ApplyPut(p) => toPut'[q][k] \in {toPut[q][k], Nothing}
    BY DEF ApplyPut, TypeOK
  <2> QED
    BY <2>1, <2>2, <2>3, ProcFrame, LocalSteps
<1> QED
  BY <1>1, <1>2, <1>3 DEF FreshInv, Passed

(* Only a commit has clears to make, and its context is never cancelled.   *)
LEMMA ClearSteps ==
  ASSUME TypeOK, NEW p \in Proc, Call(p) \/ Step(p) \/ Cancel(p) \/ Renew(p)
  PROVE  /\ toClear'[p] \subseteq toClear[p] \/ TakePending(p)
         /\ Commit(p) => p \notin done'
<1>1. Commit(p) => p \notin done'
  BY DEF Commit, cacheVars
<1> USE DEF TypeOK, Continue, Finish, Goto, procVars
<1>2. CASE Call(p) \/ Cancel(p) \/ Renew(p)
  <2>1. UNCHANGED toClear
    BY <1>2 DEF Call, Begin, QueryLocal, QuerySkipsCache, QueryCached, Exec, Affect, AffectBare,
       Commit, Rollback, Complete, EndUnit, Cancel, Renew
  <2> QED
    BY <1>1, <2>1
<1>4. CASE ApplyClear(p)
  <2>1. PICK n \in toClear[p] : toClear' = [toClear EXCEPT ![p] = @ \ {n}]
    BY <1>4 DEF ApplyClear
  <2> QED
    BY <1>1, <2>1
<1>3. CASE Step(p) /\ ~ApplyClear(p)
  <2>1. UNCHANGED toClear \/ TakePending(p)
    BY <1>3 DEF Step, CacheWaits, CacheHits, CacheFails, CacheMisses, ReadRows, ReadFails,
     StorePending, StoreShared, Published, ReleaseMiss, Write, WriteUnflushed, WriteFails, WriteAnswerLost,
     FlushPending, FlushShared, Flushed, PreFlushPending, PreFlushShared, PreFlushed,
     AffectWrite, CommitDone, CommitFails, ApplyPut, ApplyReleases, ApplyDone,
     RollbackDone
  <2> QED
    BY <1>1, <2>1
<1> QED
  BY <1>2, <1>3, <1>4

LEMMA ClearInvStep ==
  ASSUME TypeOK, StmtShape, ClearInv, NEW p \in Proc, Call(p) \/ Step(p) \/ Cancel(p) \/ Renew(p)
  PROVE  ClearInv'
<1>1. ASSUME NEW q \in Proc \ {p} PROVE ClearOf(q)'
  BY <1>1, ProcFrame, DoneFrame DEF ClearInv, ClearOf
<1>2. ClearOf(p)'
  <2>0. ClearOf(p)
    BY DEF ClearInv
  <2>1. ASSUME stage'[p] \in {"commit", "take", "apply"} PROVE p \notin done'
    <3>1. CASE Commit(p)
      BY <3>1, ClearSteps
    <3>2. CASE ~Commit(p)
      <4>1. stage[p] \in {"commit", "take", "apply"}
        BY <2>1, <3>2, EndStages DEF Ending
      <4>2. ~(Cancel(p) \/ Renew(p))
        BY <4>1 DEF Cancel, Renew
      <4> QED
        BY <2>0, <4>1, <4>2, DoneFrame DEF ClearOf
    <3> QED
      BY <3>1, <3>2
  <2>2. ASSUME toClear'[p] # {} PROVE stage'[p] = "apply"
    <3>1. CASE TakePending(p)
      BY <3>1 DEF TakePending, Goto, TypeOK
    <3>2. CASE ~TakePending(p)
      <4>1. stage[p] = "apply"
        BY <2>0, <2>2, <3>2, ClearSteps DEF ClearOf
      <4>2. ~ApplyDone(p)
        BY <2>2, <3>2, ClearSteps DEF ApplyDone
      <4> QED
        BY <4>1, <4>2, EndStages DEF Ending
    <3> QED
      BY <3>1, <3>2
  <2> QED
    BY <2>1, <2>2 DEF ClearOf
<1> QED
  BY <1>1, <1>2 DEF ClearInv

-----------------------------------------------------------------------------
(* The shared caches.                                                      *)

(* What p puts in them is what it held.                                    *)
LEMMA StoredVersions ==
  ASSUME TypeOK, StmtShape, StaleInv, NEW p \in Proc, Call(p) \/ Step(p) \/ Cancel(p) \/ Renew(p)
  PROVE  \A k \in Key : store'[k] \in {store[k], Nothing, db'[k]} \/ Noted(k)'
<1>a. ShapeOf(p) /\ FreshInv /\ DirtyInv
  BY DEF StaleInv, StmtShape
<1>n. \A k \in Key : Noted(k) => Noted(k)'
  BY NewVersions DEF Noted
<1> USE DEF TypeOK, Cache!TypeOK
<1>1. CASE StoreShared(p)
  <2>1. key[p] \in Key /\ stage[p] = "store" /\ ~InTx(p) /\ UNCHANGED db
    BY <1>a, <1>1 DEF StoreShared, ShapeOf, InStatement, dbVars
  <2>2. dirty[SessionOf[p]][key[p]] = Nothing /\ ~Dead(SessionOf[p])
    BY <1>a, <2>1 DEF DirtyInv, Dead, InTx, NoVersions
  <2>3. val[p] = db'[key[p]] \/ Noted(key[p])
    BY <1>a, <2>1, <2>2 DEF FreshInv, Passed
  <2>4. \A k \in Key : store'[k] = store[k] \/ (k = key[p] /\ store'[k] = val[p])
    BY <1>1, <2>1 DEF StoreShared, Cache!Put, Cache!Change
  <2> QED
    BY <1>n, <2>3, <2>4
<1>2. CASE ApplyPut(p)
  <2>1. PICK j \in Key : Cache!Put(p, j, toPut[p][j])
    BY <1>2 DEF ApplyPut
  <2>2. \A k \in Key : store'[k] = store[k] \/ (k = j /\ store'[k] = toPut[p][j])
    BY <2>1 DEF Cache!Put, Cache!Change
  <2>3. (toPut[p][j] \in {Nothing, db[j]} \/ Noted(j)) /\ UNCHANGED db
    BY <1>a, <1>2 DEF FreshInv, ApplyPut, dbVars
  <2> QED
    BY <1>n, <2>2, <2>3
<1>3. CASE FlushShared(p) \/ PreFlushShared(p) \/ ApplyClear(p)
  <2>1. \E n : Cache!Clear(p, n)
    BY <1>3 DEF FlushShared, PreFlushShared, ApplyClear
  <2>2. \A k \in Key : store'[k] \in {store[k], Nothing}
    BY <2>1 DEF Cache!Clear, Cache!Change
  <2> QED
    BY <2>2
<1>4. CASE store' = store
  BY <1>4
<1> QED
  BY <1>1, <1>2, <1>3, <1>4, StoreSteps

(* A row gets a new version before its clear, or for a noted cause.        *)
LEMMA NewVersionsClear ==
  ASSUME TypeOK, StmtShape, StaleInv, NEW p \in Proc, Call(p) \/ Step(p) \/ Cancel(p) \/ Renew(p),
         NEW k \in Key, db'[k] # db[k]
  PROVE  WillClear(k)' \/ Noted(k)'
<1>a. ShapeOf(p) /\ FlushInv
  BY DEF StmtShape, StaleInv
<1>5. CASE WriteUnflushed(p)
  <2>1. key[p] \in Key /\ Applied(p, {})
    BY <1>a, <1>5 DEF WriteUnflushed, ShapeOf, InStatement
  <2>2. k = key[p]
    BY <2>1, AppliedNotes
  <2> QED
    BY <1>5, <2>2 DEF WriteUnflushed, Noted
<1>1. CASE Write(p)
  <2>1. key[p] \in Key /\ Applied(p, {})
    BY <1>a, <1>1 DEF Write, ShapeOf, InStatement
  <2>2. k = key[p] /\ ~InTx(p)
    BY <2>1, AppliedNotes
  <2>3. stage'[p] = "flush" /\ key'[p] = k
    BY <1>1, <2>2 DEF Write, WriteUnflushed, Continue, Goto, TypeOK
  <2> QED
    BY <2>2, <2>3 DEF WillClear, InTx
<1>2. CASE WriteAnswerLost(p) \/ AffectWrite(p)
  <2>1. PICK c \in Cause : Applied(p, {c})
    BY <1>2 DEF WriteAnswerLost, AffectWrite, Cause
  <2>2. key[p] \in Key
    BY <1>a, <1>2 DEF WriteAnswerLost, AffectWrite, ShapeOf, InStatement
  <2>3. <<k, c>> \in exposed'
    BY <2>1, <2>2, AppliedNotes
  <2> QED
    BY <2>3 DEF Noted
<1>3. CASE CommitDone(p)
  <2>1. EndTx(p, {}) /\ stage[p] = "commit" /\ stage'[p] = "take" /\ UNCHANGED <<flushes, key>>
    BY <1>3 DEF CommitDone, Continue, Goto, sessionVars, TypeOK
  <2>2. dirty[SessionOf[p]][k] # Nothing
    BY <2>1, EndTxNotes
  <2>3. NsOf[k] \in flushes[SessionOf[p]] \/ Flushing(SessionOf[p], k) \/ Noted(k)
    BY <1>a, <2>1, <2>2 DEF ShapeOf, InTx, FlushInv, AwaitsFlush, Dead
  <2>4. Flushing(SessionOf[p], k) => Flushing(SessionOf[p], k)'
    BY <2>1, ProcFrame DEF Flushing
  <2>5. Noted(k) => Noted(k)'
    BY NewVersions DEF Noted
  <2> QED
    BY <2>1, <2>3, <2>4, <2>5 DEF WillClear
<1>4. CASE CommitFails(p)
  <2>1. AbortTx(p) \/ \E c \in Cause : EndTx(p, {c})
    BY <1>4 DEF CommitFails, Cause
  <2>2. ~AbortTx(p)
    BY DEF AbortTx
  <2>3. PICK c \in Cause : EndTx(p, {c})
    BY <2>1, <2>2
  <2>4. <<k, c>> \in exposed'
    BY <2>3, EndTxNotes
  <2> QED
    BY <2>4 DEF Noted
<1> QED
  BY <1>1, <1>2, <1>3, <1>4, <1>5, DbSteps DEF RollbackDone, AbortTx

(* A clear that was to come is made, or is still to come, or its failure   *)
(* is noted.                                                               *)
LEMMA ClearsToCome ==
  ASSUME TypeOK, StmtShape, StaleInv,
         NEW p \in Proc, Call(p) \/ Step(p) \/ Cancel(p) \/ Renew(p),
         NEW k \in Key, WillClear(k)
  PROVE  WillClear(k)' \/ Noted(k)' \/ store'[k] = Nothing
<1> DEFINE Clears(q) ==
             \/ stage[q] = "flush" /\ ~InTx(q) /\ key[q] = k
             \/ stage[q] = "take" /\ AwaitsFlush(SessionOf[q], k)
             \/ NsOf[k] \in toClear[q]
<1>1. PICK q \in Proc : Clears(q)
  BY DEF WillClear, AwaitsFlush
<1>2. CASE q # p
  <2>1. UNCHANGED <<stage[q], key[q], toClear[q]>>
    BY <1>2, ProcFrame
  <2>2. ASSUME stage[q] = "take", AwaitsFlush(SessionOf[q], k)
        PROVE  AwaitsFlush(SessionOf[q], k)'
    <3>1. SessionOf[q] \in TxSession /\ EndsOnce
      BY <2>2 DEF StmtShape, ShapeOf, StaleInv, InTx
    <3>2. ~Dead(SessionOf[q])'
      BY <2>1, <2>2 DEF Dead
    <3> QED
      BY <2>2, <3>1, <3>2, AwaitsStay
  <2> QED
    BY <1>1, <2>1, <2>2 DEF WillClear, InTx, AwaitsFlush
<1>3. CASE q = p
  <2>a. ClearOf(p) /\ ShapeOf(p)
    BY DEF StaleInv, ClearInv, StmtShape
  <2> USE DEF TypeOK, Continue, Finish, Goto, procVars
  <2>1. CASE stage[p] = "flush"
    <3>1. toClear[p] = {} /\ ~InTx(p) /\ key[p] = k
      BY <1>1, <1>3, <2>a, <2>1 DEF ClearOf
    <3>2. FlushShared(p) \/ (stage'[p] = "flush" /\ key'[p] = k)
      BY <2>1, <3>1, StepsAtFlush DEF FlushPending
    <3>3. ASSUME FlushShared(p), p \in done PROVE Noted(k)'
      <4>1. \E c \in Cause : exposed' = exposed \cup {<<k, c>>}
        BY <3>1, <3>3 DEF FlushShared, Cause
      <4> QED
        BY <4>1 DEF Noted
    <3>4. ASSUME FlushShared(p), p \notin done PROVE store'[k] = Nothing
      <4>1. Cache!Clear(p, NsOf[k])
        BY <3>1, <3>4 DEF FlushShared
      <4> QED
        BY <3>4, <4>1 DEF Cache!Clear, Cache!Change
    <3> QED
      BY <3>1, <3>2, <3>3, <3>4 DEF WillClear, InTx
  <2>2. CASE stage[p] = "take" /\ AwaitsFlush(SessionOf[p], k)
    <3>1. ~Call(p)
      BY <2>2 DEF Call, QueryLocal, QuerySkipsCache, QueryCached, Exec, Affect, AffectBare, Commit, Rollback,
         Complete, EndUnit, Begin
    <3>2. Step(p) => TakePending(p)
      BY <2>2 DEF Step, CacheWaits, CacheHits, CacheFails, CacheMisses, ReadRows, ReadFails,
         StorePending, StoreShared, Published, ReleaseMiss, Write, WriteUnflushed, WriteFails, WriteAnswerLost,
         FlushPending, FlushShared, Flushed, PreFlushPending, PreFlushShared, PreFlushed, AffectWrite,
         CommitDone, CommitFails, ApplyClear, ApplyPut, ApplyReleases, ApplyDone, RollbackDone
    <3>3. ASSUME TakePending(p), NsOf[k] \in flushes[SessionOf[p]] PROVE WillClear(k)'
      <4>1. NsOf[k] \in toClear'[p]
        BY <3>3 DEF TakePending
      <4> QED
        BY <4>1 DEF WillClear
    <3>4. ASSUME TakePending(p), Flushing(SessionOf[p], k) PROVE Noted(k)'
      <4>1. PICK c \in Cause :
              exposed' = exposed \cup {<<j, c>> : j \in {i \in Key : Flushing(SessionOf[p], i)}}
        BY <3>4 DEF TakePending, Cause
      <4>2. <<k, c>> \in exposed'
        BY <3>4, <4>1
      <4> QED
        BY <4>2 DEF Noted
    <3>5. CASE Cancel(p) \/ Renew(p)
      <4>1. UNCHANGED <<stage, key, flushes>>
        BY <3>5 DEF Cancel, Renew, sessionVars
      <4> QED
        BY <2>2, <4>1 DEF WillClear, AwaitsFlush, Flushing
    <3> QED
      BY <2>2, <3>1, <3>2, <3>3, <3>4, <3>5 DEF AwaitsFlush
  <2>3. CASE NsOf[k] \in toClear[p]
    <3>1. stage[p] = "apply" /\ p \notin done
      BY <2>a, <2>3 DEF ClearOf
    <3>2. CASE ApplyClear(p)
      <4>1. PICK n \in toClear[p] : Cache!Clear(p, n) /\ toClear' = [toClear EXCEPT ![p] = @ \ {n}]
        BY <3>2 DEF ApplyClear
      <4>2. n = NsOf[k] => store'[k] = Nothing
        BY <3>1, <4>1 DEF Cache!Clear, Cache!Change
      <4>3. n # NsOf[k] => NsOf[k] \in toClear'[p]
        BY <2>3, <4>1
      <4> QED
        BY <4>2, <4>3 DEF WillClear
    <3>3. CASE ~ApplyClear(p)
      <4>1. toClear'[p] = toClear[p]
        BY <3>1, <3>3 DEF Call, QueryLocal, QuerySkipsCache, QueryCached, Exec, Affect, AffectBare, Commit, Rollback,
         Complete, EndUnit, Begin, Cancel, Renew, Step, CacheWaits, CacheHits, CacheFails,
         CacheMisses, ReadRows, ReadFails, StorePending, StoreShared, Published, ReleaseMiss, Write, WriteUnflushed,
         WriteFails, WriteAnswerLost, FlushPending, FlushShared, Flushed, PreFlushPending,
         PreFlushShared, PreFlushed, AffectWrite, CommitDone, CommitFails, TakePending, ApplyPut,
         ApplyReleases, ApplyDone, RollbackDone
      <4> QED
        BY <2>3, <4>1 DEF WillClear
    <3> QED
      BY <3>2, <3>3
  <2> QED
    BY <1>1, <1>3, <2>1, <2>2, <2>3
<1> QED
  BY <1>2, <1>3

LEMMA StaleStep ==
  ASSUME TypeOK, StmtShape, StaleInv, StaleHasCause, [Next]_vars
  PROVE  StaleInv' /\ StaleHasCause'
<1>1. ASSUME NEW p \in Proc, Call(p) \/ Step(p) \/ Cancel(p) \/ Renew(p)
      PROVE  StaleInv' /\ StaleHasCause'
  <2>1. StaleInv'
    BY <1>1, EndsOnceStep, DirtyInvStep, FlushInvStep, FreshStep, ClearInvStep DEF StaleInv
  <2>2. ASSUME NEW k \in Key, Stale(k)' PROVE WillClear(k)' \/ Noted(k)'
    <3>1. store'[k] # Nothing /\ store'[k] # db'[k]
      BY <2>2 DEF Stale
    <3>2. store'[k] = store[k] \/ Noted(k)'
      BY <1>1, <3>1, StoredVersions
    <3>3. db'[k] # db[k] => WillClear(k)' \/ Noted(k)'
      BY <1>1, NewVersionsClear
    <3>4. store[k] \notin {Nothing, db[k]} => WillClear(k) \/ Noted(k)
      BY DEF StaleHasCause, Stale, Noted, WroteUnflushed
    <3>5. Noted(k) => Noted(k)'
      BY <1>1, NewVersions DEF Noted
    <3> QED
      BY <1>1, <3>1, <3>2, <3>3, <3>4, <3>5, ClearsToCome
  <2> QED
    BY <2>1, <2>2 DEF StaleHasCause, Noted, WroteUnflushed
<1>2. ASSUME UNCHANGED <<done, dbVars, sessionVars, procVars>>, \A k \in Key : store'[k] \in {store[k], Nothing}
      PROVE  StaleInv' /\ StaleHasCause'
  <2> USE DEF dbVars, sessionVars, procVars
  <2>1. EndsOnce' /\ DirtyInv' /\ ClearInv'
    BY <1>2 DEF StaleInv, EndsOnce, DirtyInv, TxDone, ClearInv, ClearOf
  <2>2. \A s \in Session : Dead(s)' <=> Dead(s)
    BY <1>2 DEF Dead
  <2>4. FlushInv'
    BY <1>2, <2>2 DEF StaleInv, FlushInv, AwaitsFlush, Flushing, Noted, InTx
  <2>5. FreshInv'
    BY <1>2, <2>2 DEF StaleInv, FreshInv, Passed, Noted
  <2>3. StaleHasCause'
    BY <1>2 DEF StaleHasCause, Stale, WillClear, Flushing, InTx, WroteUnflushed
  <2> QED
    BY <2>1, <2>3, <2>4, <2>5 DEF StaleInv
<1>3. CASE UNCHANGED vars
  BY <1>2, <1>3 DEF vars, cacheVars
<1>4. ASSUME NEW j \in Key, Lose(j) PROVE StaleInv' /\ StaleHasCause'
  <2>1. \A k \in Key : store'[k] \in {store[k], Nothing}
    BY <1>4 DEF Lose, Cache!Lose, TypeOK, Cache!TypeOK
  <2>2. UNCHANGED <<done, dbVars, sessionVars, procVars>>
    BY <1>4 DEF Lose, Cache!Lose
  <2> QED
    BY <1>2, <2>1, <2>2
<1> QED
  BY <1>1, <1>3, <1>4 DEF Next

(* A shared cache holds a stale row only while the clear is still to come, *)
(* or because a write of the row flushes nothing (FlushCache disabled, or a*)
(* session without the shared caches), another goroutine held the old row  *)
(* over the write, the clear failed, the write was reported as failed, the *)
(* statement cleared before it wrote, or another goroutine committed the   *)
(* write before its clear was pending.  It holds for sessions that several *)
(* goroutines share, too.                                                  *)
THEOREM StaleDataHasCause == Spec => []StaleHasCause
<1>1. Init => StaleInv /\ StaleHasCause
  BY DEF Init, Cache!Init, StaleInv, EndsOnce, Ending, DirtyInv, FlushInv, FreshInv, ClearInv,
     ClearOf, NoVersions, StaleHasCause, Stale
<1>2. IInv /\ StaleInv /\ StaleHasCause /\ [Next]_vars => StaleInv' /\ StaleHasCause'
  BY StaleStep DEF IInv
<1> QED
  BY <1>1, <1>2, Invariance, PTL DEF Spec
=============================================================================
