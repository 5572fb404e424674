--------------------- MODULE PreparedStatements_proofs ---------------------
(***************************************************************************)
(* Proofs about PreparedStatements, for any goroutines, queries, capacity  *)
(* and bounds.                                                             *)
(***************************************************************************)
EXTENDS PreparedStatements, SequenceTheorems, TLAPS

USE CapacityIsPositive, MaxStatementsIsNat

(* The driver numbers statements in the order it prepares them. *)
Numbered == opened \subseteq 1..prepared

(* What a goroutine holds and closes fits what it does: only one that      *)
(* closes has something to close, and what it publishes is a statement.    *)
StagesFit ==
    \A p \in Proc :
        /\ stage[p] # "close" => toClose[p] = {}
        /\ stage[p] = "publish" => held[p] # 0
        /\ stage[p] \in {"idle", "lookup", "prepare"} => held[p] = 0

IInv ==
    /\ TypeOK /\ Numbered /\ StagesFit
    /\ CachedAreUsable /\ NothingLeaks /\ ClosedByOne /\ WithinCapacity

(* Taking an element of a sequence to its front. *)
LEMMA MovedFront ==
    ASSUME NEW S, NEW s \in Seq(S), NEW i \in 1..Len(s)
    PROVE  LET t == <<s[i]>> \o Seqs!RemoveAt(s, i) IN
           /\ t \in Seq(S) /\ Len(t) = Len(s)
           /\ \A j \in 1..Len(s) :
                t[j] = IF j = 1 THEN s[i] ELSE IF j <= i THEN s[j - 1] ELSE s[j]
<1> DEFINE a == SubSeq(s, 1, i - 1)
           b == SubSeq(s, i + 1, Len(s))
<1>1. a \in Seq(S) /\ Len(a) = i - 1 /\ \A j \in 1..(i - 1) : a[j] = s[j]
  OBVIOUS
<1>2. b \in Seq(S) /\ Len(b) = Len(s) - i /\ \A j \in 1..(Len(s) - i) : b[j] = s[j + i]
  OBVIOUS
<1>3. s[i] \in S /\ <<s[i]>> \in Seq(S) /\ Len(<<s[i]>>) = 1
  OBVIOUS
<1> HIDE DEF a, b
<1>4. Len(s) \in Nat /\ i \in Nat
  OBVIOUS
<1>5. /\ a \o b \in Seq(S) /\ Len(a \o b) = Len(a) + Len(b)
      /\ \A j \in 1..(Len(a) + Len(b)) :
           (a \o b)[j] = IF j <= Len(a) THEN a[j] ELSE b[j - Len(a)]
  BY <1>1, <1>2, ConcatProperties
<1>6. /\ Len(a \o b) = Len(s) - 1
      /\ \A j \in 1..(Len(s) - 1) : (a \o b)[j] = IF j < i THEN s[j] ELSE s[j + 1]
  BY <1>1, <1>2, <1>4, <1>5
<1> DEFINE r == a \o b
<1> HIDE DEF r
<1>7. r \in Seq(S) /\ Len(r) = Len(s) - 1
      /\ \A j \in 1..(Len(s) - 1) : r[j] = IF j < i THEN s[j] ELSE s[j + 1]
  BY <1>5, <1>6 DEF r
<1> DEFINE u == <<s[i]>> \o r
<1>8. /\ u \in Seq(S) /\ Len(u) = 1 + Len(r)
      /\ \A j \in 1..(1 + Len(r)) :
           u[j] = IF j <= 1 THEN <<s[i]>>[j] ELSE r[j - 1]
  BY <1>3, <1>7, ConcatProperties
<1>9. <<s[i]>>[1] = s[i]
  OBVIOUS
<1> HIDE DEF u
<1>10. \A j \in 1..Len(s) :
         u[j] = IF j = 1 THEN s[i] ELSE IF j <= i THEN s[j - 1] ELSE s[j]
  BY <1>4, <1>7, <1>8, <1>9
<1>11. u \in Seq(S) /\ Len(u) = Len(s)
  BY <1>4, <1>7, <1>8
<1> QED
  BY <1>10, <1>11 DEF Seqs!RemoveAt, a, b, r, u

LEMMA PutFront ==
    ASSUME NEW S, NEW s \in Seq(S), NEW e \in S
    PROVE  LET t == <<e>> \o s IN
           /\ t \in Seq(S) /\ Len(t) = Len(s) + 1 /\ t[1] = e
           /\ \A j \in 1..Len(s) : t[j + 1] = s[j]
OBVIOUS

LEMMA StartOfSeq ==
    ASSUME NEW S, NEW s \in Seq(S), NEW i \in 0..Len(s)
    PROVE  /\ SubSeq(s, 1, i) \in Seq(S) /\ Len(SubSeq(s, 1, i)) = i
           /\ \A j \in 1..i : SubSeq(s, 1, i)[j] = s[j]
<1>1. \A j \in 1..i : s[j] \in S
  OBVIOUS
<1>2. SubSeq(s, 1, i) \in Seq(S)
  BY <1>1
<1>3. Len(SubSeq(s, 1, i)) = i
  OBVIOUS
<1>4. \A j \in 1..i : SubSeq(s, 1, i)[j] = s[j]
  OBVIOUS
<1> QED
  BY <1>2, <1>3, <1>4

LEMMA WithoutLast ==
    ASSUME NEW S, NEW s \in Seq(S), s # <<>>
    PROVE  /\ Seqs!Front(s) \in Seq(S) /\ Len(Seqs!Front(s)) = Len(s) - 1
           /\ \A j \in 1..(Len(s) - 1) : Seqs!Front(s)[j] = s[j]
           /\ Seqs!Last(s) = s[Len(s)]
<1>1. Len(s) \in Nat /\ Len(s) - 1 \in 0..Len(s)
  OBVIOUS
<1> QED
  BY <1>1, StartOfSeq DEF Seqs!Front, Seqs!Last

LEMMA InvInit == Init => IInv
<1> SUFFICES ASSUME Init PROVE IInv
  OBVIOUS
<1>1. TypeOK /\ Numbered /\ StagesFit
  BY DEF Init, TypeOK, Stage, Numbered, StagesFit
<1>2. Cached = {} /\ \A p \in Proc : Owns(p) = {}
  BY DEF Init, Cached, Owns
<1>3. CachedAreUsable /\ NothingLeaks /\ ClosedByOne /\ WithinCapacity
  BY <1>2 DEF Init, CachedAreUsable, NothingLeaks, ClosedByOne, WithinCapacity
<1> QED
  BY <1>1, <1>3 DEF IInv

(* A query that is found is one of the entries; moving it to the front     *)
(* keeps the entries.                                                      *)
LEMMA Moved ==
    ASSUME IInv, NEW q \in Query, IsCached(q), MoveToFront(q)
    PROVE  /\ cache[IndexOf(q)].statement \in Cached
           /\ cache[IndexOf(q)].statement \in Statement
           /\ cache' \in Seq(Entry) /\ Cached' = Cached /\ WithinCapacity'
<1> DEFINE i == IndexOf(q)
<1>1. cache \in Seq(Entry) /\ DOMAIN cache = 1..Len(cache)
  BY DEF IInv, TypeOK
<1>2. i \in 1..Len(cache)
  BY <1>1 DEF IsCached, IndexOf
<1>3. cache[i] \in Entry
  BY <1>1, <1>2
<1>4. cache[i].statement \in Cached /\ cache[i].statement \in Statement
  BY <1>1, <1>2, <1>3 DEF Cached, Entry
<1>5. cache' = <<cache[i]>> \o Seqs!RemoveAt(cache, i)
  BY DEF MoveToFront
<1> HIDE DEF i
<1>6. /\ cache' \in Seq(Entry) /\ Len(cache') = Len(cache)
      /\ \A j \in 1..Len(cache) : cache'[j] =
           IF j = 1 THEN cache[i] ELSE IF j <= i THEN cache[j - 1] ELSE cache[j]
  BY <1>1, <1>2, <1>5, MovedFront
<1>7. DOMAIN cache' = 1..Len(cache) /\ Len(cache) \in Nat
  BY <1>1, <1>6
<1>8. \A j \in 1..Len(cache) : \E k \in 1..Len(cache) : cache'[j] = cache[k]
  BY <1>2, <1>6, <1>7
<1>9. \A k \in 1..Len(cache) : \E j \in 1..Len(cache) : cache'[j] = cache[k]
  <2> SUFFICES ASSUME NEW k \in 1..Len(cache)
               PROVE  \E j \in 1..Len(cache) : cache'[j] = cache[k]
    OBVIOUS
  <2>1. CASE k = i
    BY <1>2, <1>6, <1>7, <2>1
  <2>2. CASE k < i
    <3>1. k + 1 \in 1..Len(cache) /\ cache'[k + 1] = cache[k]
      BY <1>2, <1>6, <1>7, <2>2
    <3> QED
      BY <3>1
  <2>3. CASE k > i
    <3>1. cache'[k] = cache[k]
      BY <1>2, <1>6, <1>7, <2>3
    <3> QED
      BY <3>1
  <2> QED
    BY <1>2, <1>7, <2>1, <2>2, <2>3
<1>10. Cached' = Cached
  <2>1. Cached = {cache[k].statement : k \in 1..Len(cache)}
    BY <1>1 DEF Cached
  <2>2. Cached' = {cache'[k].statement : k \in 1..Len(cache)}
    BY <1>7 DEF Cached
  <2>3. \A x \in Cached' : x \in Cached
    BY <1>8, <2>1, <2>2
  <2>4. \A x \in Cached : x \in Cached'
    BY <1>9, <2>1, <2>2
  <2> QED
    BY <2>3, <2>4
<1>11. WithinCapacity'
  <2>1. /\ Len(cache) <= MaxEntries
        /\ \A j, k \in 1..Len(cache) : j # k =>
             cache[j].query # cache[k].query /\ cache[j].statement # cache[k].statement
    BY <1>1 DEF IInv, WithinCapacity
  <2> SUFFICES ASSUME NEW j \in 1..Len(cache), NEW k \in 1..Len(cache), j # k
               PROVE  cache'[j].query # cache'[k].query /\ cache'[j].statement # cache'[k].statement
    BY <1>6, <1>7, <2>1 DEF WithinCapacity
  <2> DEFINE from(m) == IF m = 1 THEN i ELSE IF m <= i THEN m - 1 ELSE m
  <2>2. from(j) \in 1..Len(cache) /\ from(k) \in 1..Len(cache) /\ from(j) # from(k)
    BY <1>2, <1>7
  <2>3. cache'[j] = cache[from(j)] /\ cache'[k] = cache[from(k)]
    BY <1>6
  <2> HIDE DEF from
  <2> QED
    BY <2>1, <2>2, <2>3
<1> QED
  BY <1>4, <1>6, <1>10, <1>11 DEF i

----------------------------------------------------------------------------
(* A step that neither opens nor closes a statement and leaves everyone    *)
(* what they own.                                                          *)
LEMMA OwnersStay ==
    ASSUME IInv, Cached' = Cached, WithinCapacity', opened' = opened, prepared' = prepared,
           TypeOK', StagesFit', \A p \in Proc : Owns(p)' = Owns(p)
    PROVE  IInv'
<1>1. Numbered'
  BY DEF IInv, Numbered
<1>2. CachedAreUsable' /\ ClosedByOne'
  BY DEF IInv, CachedAreUsable, ClosedByOne
<1>3. UNION {Owns(p)' : p \in Proc} = UNION {Owns(p) : p \in Proc}
  OBVIOUS
<1>4. NothingLeaks'
  BY <1>3 DEF IInv, NothingLeaks
<1> QED
  BY <1>1, <1>2, <1>4 DEF IInv

(* What a step of one goroutine does to the functions of all. *)
LEMMA StepOfOne ==
    ASSUME TypeOK, NEW p \in Proc, NEW s \in Stage, NEW h \in 0..MaxStatements,
           NEW S \in SUBSET Statement, GoTo(p, s),
           Hold(p, h) \/ (held' = held /\ h = held[p]),
           WillClose(p, S) \/ (toClose' = toClose /\ S = toClose[p])
    PROVE  /\ stage' \in [Proc -> Stage] /\ stage'[p] = s
           /\ held' \in [Proc -> 0..MaxStatements] /\ held'[p] = h
           /\ toClose' \in [Proc -> SUBSET Statement] /\ toClose'[p] = S
           /\ \A q \in Proc : q # p => /\ stage'[q] = stage[q] /\ held'[q] = held[q]
                                       /\ toClose'[q] = toClose[q] /\ Owns(q)' = Owns(q)
           /\ Owns(p)' = S \cup (IF s = "publish" THEN {h} ELSE {})
<1>1. /\ stage \in [Proc -> Stage] /\ held \in [Proc -> 0..MaxStatements]
      /\ toClose \in [Proc -> SUBSET Statement]
  BY DEF TypeOK
<1>2. stage' \in [Proc -> Stage] /\ stage'[p] = s /\ \A q \in Proc : q # p => stage'[q] = stage[q]
  BY <1>1 DEF GoTo
<1>3. /\ held' \in [Proc -> 0..MaxStatements] /\ held'[p] = h
      /\ \A q \in Proc : q # p => held'[q] = held[q]
  BY <1>1 DEF Hold
<1>4. /\ toClose' \in [Proc -> SUBSET Statement] /\ toClose'[p] = S
      /\ \A q \in Proc : q # p => toClose'[q] = toClose[q]
  BY <1>1 DEF WillClose
<1>5. \A q \in Proc : q # p => Owns(q)' = Owns(q)
  BY <1>2, <1>3, <1>4 DEF Owns
<1>6. Owns(p)' = S \cup (IF s = "publish" THEN {h} ELSE {})
  BY <1>2, <1>3, <1>4 DEF Owns
<1> QED
  BY <1>2, <1>3, <1>4, <1>5, <1>6

LEMMA CloserStep ==
    ASSUME TypeOK, NEW p \in Proc, NEW h \in 0..MaxStatements,
           NEW S \in SUBSET Statement, GoTo(p, "close"),
           Hold(p, h) \/ (held' = held /\ h = held[p]), WillClose(p, S)
    PROVE  /\ stage' \in [Proc -> Stage] /\ stage'[p] = "close"
           /\ held' \in [Proc -> 0..MaxStatements] /\ held'[p] = h
           /\ toClose' \in [Proc -> SUBSET Statement] /\ toClose'[p] = S
           /\ \A q \in Proc : q # p => /\ stage'[q] = stage[q] /\ held'[q] = held[q]
                                       /\ toClose'[q] = toClose[q] /\ Owns(q)' = Owns(q)
           /\ Owns(p)' = S
<1> DEFINE s == "close"
<1>1. s \in Stage /\ GoTo(p, s) /\ s # "publish"
  BY DEF Stage
<1> HIDE DEF s
<1>2. /\ stage' \in [Proc -> Stage] /\ stage'[p] = s
      /\ held' \in [Proc -> 0..MaxStatements] /\ held'[p] = h
      /\ toClose' \in [Proc -> SUBSET Statement] /\ toClose'[p] = S
      /\ \A q \in Proc : q # p => /\ stage'[q] = stage[q] /\ held'[q] = held[q]
                                  /\ toClose'[q] = toClose[q] /\ Owns(q)' = Owns(q)
      /\ Owns(p)' = S \cup (IF s = "publish" THEN {h} ELSE {})
  BY <1>1, StepOfOne
<1>3. Owns(p)' = S
  BY <1>1, <1>2
<1> QED
  BY <1>2, <1>3 DEF s

(* The stages fit after a step that fits the goroutine that takes it. *)
LEMMA FitsOfOne ==
    ASSUME StagesFit, NEW p \in Proc,
           \A q \in Proc : q # p => /\ stage'[q] = stage[q] /\ held'[q] = held[q]
                                    /\ toClose'[q] = toClose[q],
           stage'[p] # "close" => toClose'[p] = {},
           stage'[p] = "publish" => held'[p] # 0,
           stage'[p] \in {"idle", "lookup", "prepare"} => held'[p] = 0
    PROVE  StagesFit'
BY DEF StagesFit

LEMMA QuietStep ==
    ASSUME IInv, NEW p \in Proc,
           Miss(p) \/ PrepareFails(p) \/ CloseDone(p) \/ Use(p) \/ \E q \in Query : Call(p, q)
    PROVE  IInv'
<1> DEFINE h == IF stage[p] = "use" THEN 0 ELSE held[p]
<1>1. TypeOK /\ StagesFit
  BY DEF IInv
<1>2. UNCHANGED <<cache, opened, prepared, toClose>> /\ query' \in [Proc -> Query]
  BY <1>1 DEF Miss, PrepareFails, CloseDone, Use, Call, TypeOK
<1>3. PICK s \in Stage :
        /\ GoTo(p, s) /\ s \notin {"publish", "close"} /\ stage[p] # "publish"
        /\ s \in {"idle", "lookup", "prepare"} => h = 0
  BY <1>1 DEF Miss, PrepareFails, CloseDone, Use, Call, Stage, StagesFit, TypeOK
<1>4. Hold(p, h) \/ (held' = held /\ h = held[p])
  BY DEF Miss, PrepareFails, CloseDone, Use, Call
<1>5. h \in 0..MaxStatements /\ toClose[p] \in SUBSET Statement
  BY <1>1 DEF TypeOK
<1>6. toClose[p] = {}
  BY <1>1 DEF Miss, PrepareFails, CloseDone, Use, Call, StagesFit
<1> HIDE DEF h
<1>7. /\ stage' \in [Proc -> Stage] /\ stage'[p] = s
      /\ held' \in [Proc -> 0..MaxStatements] /\ held'[p] = h
      /\ toClose' \in [Proc -> SUBSET Statement] /\ toClose'[p] = toClose[p]
      /\ \A q \in Proc : q # p => /\ stage'[q] = stage[q] /\ held'[q] = held[q]
                                  /\ toClose'[q] = toClose[q] /\ Owns(q)' = Owns(q)
      /\ Owns(p)' = toClose[p] \cup (IF s = "publish" THEN {h} ELSE {})
  BY <1>1, <1>2, <1>3, <1>4, <1>5, StepOfOne
<1>8. Owns(p)' = Owns(p)
  BY <1>3, <1>7 DEF Owns
<1>9. StagesFit'
  BY <1>1, <1>3, <1>6, <1>7, FitsOfOne
<1>10. TypeOK'
  BY <1>1, <1>2, <1>7 DEF TypeOK
<1>11. Cached' = Cached /\ WithinCapacity'
  BY <1>2 DEF IInv, Cached, WithinCapacity
<1> QED
  BY <1>2, <1>7, <1>8, <1>9, <1>10, <1>11, OwnersStay

(* The query was found, by the first lookup or by the second. *)
LEMMA FoundStep ==
    ASSUME IInv, NEW p \in Proc, Hit(p) \/ PublishLate(p)
    PROVE  IInv'
<1> DEFINE h == cache[IndexOf(query[p])].statement
           s == IF stage[p] = "publish" THEN "close" ELSE "use"
           S == IF stage[p] = "publish" THEN {held[p]} ELSE {}
<1>1. TypeOK /\ StagesFit /\ query[p] \in Query
  BY DEF IInv, TypeOK
<1>2. IsCached(query[p]) /\ MoveToFront(query[p]) /\ UNCHANGED <<opened, prepared, query>>
  BY DEF Hit, PublishLate
<1>3. h \in Statement /\ cache' \in Seq(Entry) /\ Cached' = Cached /\ WithinCapacity'
  BY <1>1, <1>2, Moved
<1>4. s \in Stage /\ h \in 0..MaxStatements /\ h # 0
  BY <1>3 DEF Stage, Statement
<1>5. GoTo(p, s) /\ Hold(p, h)
  BY DEF Hit, PublishLate
<1>6. /\ stage[p] = "publish" => held[p] # 0 /\ held[p] \in 0..MaxStatements
      /\ toClose[p] = {}
  BY <1>1 DEF StagesFit, TypeOK, Hit, PublishLate
<1>7. S \in SUBSET Statement /\ (WillClose(p, S) \/ (toClose' = toClose /\ S = toClose[p]))
  BY <1>6 DEF Statement, Hit, PublishLate
<1>8. S = Owns(p) /\ s # "publish" /\ (s # "close" => S = {}) /\ s \notin {"idle", "lookup", "prepare"}
  BY <1>6 DEF Owns
<1> HIDE DEF h, s, S
<1>9. /\ stage' \in [Proc -> Stage] /\ stage'[p] = s
      /\ held' \in [Proc -> 0..MaxStatements] /\ held'[p] = h
      /\ toClose' \in [Proc -> SUBSET Statement] /\ toClose'[p] = S
      /\ \A q \in Proc : q # p => /\ stage'[q] = stage[q] /\ held'[q] = held[q]
                                  /\ toClose'[q] = toClose[q] /\ Owns(q)' = Owns(q)
      /\ Owns(p)' = S \cup (IF s = "publish" THEN {h} ELSE {})
  BY <1>1, <1>4, <1>5, <1>7, StepOfOne
<1>10. \A q \in Proc : Owns(q)' = Owns(q)
  BY <1>8, <1>9
<1>11. StagesFit'
  BY <1>1, <1>8, <1>9, FitsOfOne
<1>12. TypeOK'
  BY <1>1, <1>2, <1>3, <1>9 DEF TypeOK
<1> QED
  BY <1>2, <1>3, <1>10, <1>11, <1>12, OwnersStay

----------------------------------------------------------------------------
(* The new statement is nobody's before: every open one is numbered lower. *)
LEMMA PrepareStep ==
    ASSUME IInv, NEW p \in Proc, Prepare(p)
    PROVE  IInv'
<1> DEFINE n == prepared + 1
<1>1. TypeOK /\ StagesFit /\ Numbered /\ prepared \in Nat
  BY DEF IInv, TypeOK
<1>2. n \in Statement /\ n \in 0..MaxStatements /\ n # 0 /\ "publish" \in Stage
  BY <1>1 DEF Prepare, Statement, Stage
<1>3. n \notin opened
  BY <1>1 DEF Numbered
<1>4. /\ GoTo(p, "publish") /\ Hold(p, n) /\ prepared' = n /\ opened' = opened \cup {n}
      /\ UNCHANGED <<cache, query, toClose>> /\ stage[p] = "prepare"
  BY DEF Prepare
<1>5. toClose[p] = {} /\ Owns(p) = {}
  BY <1>1, <1>4 DEF StagesFit, Owns
<1> HIDE DEF n
<1>6. /\ stage' \in [Proc -> Stage] /\ stage'[p] = "publish"
      /\ held' \in [Proc -> 0..MaxStatements] /\ held'[p] = n
      /\ toClose' \in [Proc -> SUBSET Statement] /\ toClose'[p] = {}
      /\ \A q \in Proc : q # p => /\ stage'[q] = stage[q] /\ held'[q] = held[q]
                                  /\ toClose'[q] = toClose[q] /\ Owns(q)' = Owns(q)
      /\ Owns(p)' = {n}
  <2>1. toClose' = toClose /\ {} = toClose[p] /\ {} \in SUBSET Statement
    BY <1>4, <1>5
  <2> QED
    BY <1>1, <1>2, <1>4, <2>1, StepOfOne
<1>7. \A q \in Proc : Owns(q) \subseteq opened
  BY DEF IInv, NothingLeaks
<1>8. Cached' = Cached /\ WithinCapacity' /\ Cached \subseteq opened
  BY <1>4 DEF IInv, Cached, WithinCapacity, CachedAreUsable
<1>9. CachedAreUsable'
  BY <1>3, <1>4, <1>6, <1>8 DEF IInv, CachedAreUsable
<1>10. ClosedByOne'
  BY <1>3, <1>6, <1>7 DEF IInv, ClosedByOne
<1>11. NothingLeaks'
  <2>1. UNION {Owns(q)' : q \in Proc} = (UNION {Owns(q) : q \in Proc}) \cup {n}
    BY <1>5, <1>6
  <2> QED
    BY <1>4, <1>8, <2>1 DEF IInv, NothingLeaks
<1>12. StagesFit'
  BY <1>1, <1>2, <1>6, FitsOfOne
<1>13. TypeOK' /\ Numbered'
  <2>1. prepared' \in 0..MaxStatements
    BY <1>1, <1>2, <1>4
  <2>2. opened' \subseteq 1..prepared'
    BY <1>1, <1>4 DEF Numbered, n
  <2>3. opened' \subseteq Statement
    BY <1>1, <1>2, <1>4 DEF TypeOK
  <2> QED
    BY <1>1, <1>4, <1>6, <2>1, <2>2, <2>3 DEF TypeOK, Numbered
<1> QED
  BY <1>8, <1>9, <1>10, <1>11, <1>12, <1>13 DEF IInv

LEMMA ButTheLast ==
    ASSUME NEW n \in Nat
    PROVE  /\ \A k \in 1..n : k \in 1..(n - 1) \/ k = n
           /\ \A k \in 1..(n - 1) : k \in 1..n /\ k # n
OBVIOUS

(* What put does to the list: the new entry comes first, and the last goes *)
(* if the cache was full.                                                  *)
LEMMA PutEntry ==
    ASSUME IInv, NEW p \in Proc, Publish(p), NEW S \in SUBSET Cached,
           \/ Len(cache) < MaxEntries /\ S = {}
           \/ ~(Len(cache) < MaxEntries) /\ S = {Seqs!Last(cache).statement},
           cache' = (IF Len(cache) < MaxEntries THEN Entered(p) ELSE Seqs!Front(Entered(p)))
    PROVE  /\ cache' \in Seq(Entry)
           /\ Cached' = {held[p]} \cup (Cached \ S)
           /\ WithinCapacity'
<1> DEFINE e == [query |-> query[p], statement |-> held[p]]
           t == Entered(p)
<1>1. /\ TypeOK /\ cache \in Seq(Entry) /\ DOMAIN cache = 1..Len(cache)
      /\ Len(cache) \in Nat /\ Len(cache) <= MaxEntries /\ ~IsCached(query[p])
  BY DEF IInv, TypeOK, WithinCapacity, Publish
<1>2. held[p] \in Statement /\ query[p] \in Query
  BY DEF IInv, TypeOK, StagesFit, Publish, Statement
<1>3. e \in Entry /\ e.query = query[p] /\ e.statement = held[p]
  BY <1>2 DEF Entry
<1>4. held[p] \notin Cached
  BY DEF IInv, CachedAreUsable, Owns, Publish
<1>5. \A j \in 1..Len(cache) : cache[j].query # e.query /\ cache[j].statement # e.statement
  BY <1>1, <1>3, <1>4 DEF IsCached, Cached
<1>6. \A j, k \in 1..Len(cache) : j # k =>
        cache[j].query # cache[k].query /\ cache[j].statement # cache[k].statement
  BY <1>1 DEF IInv, WithinCapacity
<1>7. t = <<e>> \o cache
  BY DEF Entered
<1> HIDE DEF e, t
<1>8. /\ t \in Seq(Entry) /\ Len(t) = Len(cache) + 1 /\ t[1] = e
      /\ \A j \in 1..Len(cache) : t[j + 1] = cache[j]
  BY <1>1, <1>3, <1>7, PutFront
<1> DEFINE m == IF Len(cache) < MaxEntries THEN Len(cache) + 1 ELSE Len(cache)
<1>9. /\ cache' \in Seq(Entry) /\ Len(cache') = m
      /\ \A j \in 1..m : cache'[j] = IF j = 1 THEN e ELSE cache[j - 1]
  <2>1. \A j \in 1..(Len(cache) + 1) : t[j] = IF j = 1 THEN e ELSE cache[j - 1]
    <3> SUFFICES ASSUME NEW j \in 1..(Len(cache) + 1), j # 1 PROVE t[j] = cache[j - 1]
      BY <1>8
    <3>1. j - 1 \in 1..Len(cache) /\ (j - 1) + 1 = j
      BY <1>1
    <3> QED
      BY <1>8, <3>1
  <2>2. CASE Len(cache) < MaxEntries
    BY <1>8, <2>1, <2>2 DEF t
  <2>3. CASE ~(Len(cache) < MaxEntries)
    <3>1. t # <<>>
      BY <1>1, <1>8
    <3>2. /\ Seqs!Front(t) \in Seq(Entry) /\ Len(Seqs!Front(t)) = Len(t) - 1
          /\ \A j \in 1..(Len(t) - 1) : Seqs!Front(t)[j] = t[j]
      BY <1>8, <3>1, WithoutLast
    <3>3. Len(t) - 1 = Len(cache)
      BY <1>1, <1>8
    <3>4. cache' = Seqs!Front(t)
      BY <2>3 DEF t
    <3> QED
      BY <1>1, <2>1, <2>3, <3>2, <3>3, <3>4
  <2> QED
    BY <2>2, <2>3
<1>10. m \in Nat /\ m <= MaxEntries /\ m >= 1 /\ m - 1 <= Len(cache) /\ DOMAIN cache' = 1..m
  BY <1>1, <1>9
<1>11. WithinCapacity'
  <2> SUFFICES ASSUME NEW j \in 1..m, NEW k \in 1..m, j # k
               PROVE  cache'[j].query # cache'[k].query /\ cache'[j].statement # cache'[k].statement
    <3> HIDE DEF m
    <3>1. Len(cache') <= MaxEntries /\ DOMAIN cache' = 1..m
      BY <1>9, <1>10
    <3> QED
      BY <3>1 DEF WithinCapacity
  <2>1. CASE j = 1
    <3>1. k - 1 \in 1..Len(cache) /\ cache'[k] = cache[k - 1] /\ cache'[j] = e
      BY <1>1, <1>9, <1>10, <2>1
    <3> QED
      BY <1>5, <3>1
  <2>2. CASE k = 1
    <3>1. j - 1 \in 1..Len(cache) /\ cache'[j] = cache[j - 1] /\ cache'[k] = e
      BY <1>1, <1>9, <1>10, <2>2
    <3> QED
      BY <1>5, <3>1
  <2>3. CASE j # 1 /\ k # 1
    <3>1. /\ j - 1 \in 1..Len(cache) /\ k - 1 \in 1..Len(cache) /\ j - 1 # k - 1
          /\ cache'[j] = cache[j - 1] /\ cache'[k] = cache[k - 1]
      BY <1>1, <1>9, <1>10, <2>3
    <3> QED
      BY <1>6, <3>1
  <2> QED
    BY <2>1, <2>2, <2>3
<1>12. Cached' = {e.statement} \cup {cache[k].statement : k \in 1..(m - 1)}
  <2>1. Cached' = {cache'[j].statement : j \in 1..m}
    BY <1>10 DEF Cached
  <2>2. \A j \in 1..m : j = 1 \/ (j - 1 \in 1..(m - 1) /\ cache'[j] = cache[j - 1])
    BY <1>9, <1>10
  <2>3. \A k \in 1..(m - 1) : k + 1 \in 1..m /\ cache'[k + 1] = cache[k]
    BY <1>9, <1>10
  <2>4. 1 \in 1..m /\ cache'[1] = e
    BY <1>9, <1>10
  <2> HIDE DEF m
  <2>5. \A x \in Cached' : x \in {e.statement} \cup {cache[k].statement : k \in 1..(m - 1)}
    BY <2>1, <2>2, <2>4
  <2>6. \A x \in {e.statement} \cup {cache[k].statement : k \in 1..(m - 1)} : x \in Cached'
    BY <2>1, <2>3, <2>4
  <2> QED
    BY <2>5, <2>6
<1>13. {cache[k].statement : k \in 1..(m - 1)} = Cached \ S
  <2>1. Cached = {cache[k].statement : k \in 1..Len(cache)}
    BY <1>1 DEF Cached
  <2>2. CASE Len(cache) < MaxEntries
    BY <1>1, <2>1, <2>2
  <2>3. CASE ~(Len(cache) < MaxEntries)
    <3>1. S = {cache[Len(cache)].statement} /\ m = Len(cache) /\ Len(cache) \in 1..Len(cache)
      BY <1>1, <2>3 DEF Seqs!Last
    <3>2. \A k \in 1..Len(cache) : k \in 1..(Len(cache) - 1) \/ k = Len(cache)
      BY <1>1, ButTheLast
    <3>3. \A k \in 1..(Len(cache) - 1) : k \in 1..Len(cache) /\ k # Len(cache)
      BY <1>1, ButTheLast
    <3>4. \A x \in Cached \ S : x \in {cache[k].statement : k \in 1..(Len(cache) - 1)}
      BY <2>1, <3>1, <3>2
    <3>5. \A x \in {cache[k].statement : k \in 1..(Len(cache) - 1)} : x \in Cached \ S
      BY <1>6, <2>1, <3>1, <3>3
    <3> QED
      BY <3>1, <3>4, <3>5
  <2> QED
    BY <2>2, <2>3
<1> QED
  BY <1>3, <1>9, <1>11, <1>12, <1>13

(* The published statement passes from its goroutine to the cache, the     *)
(* evicted one from the cache to the goroutine.                            *)
LEMMA PublishStep ==
    ASSUME IInv, NEW p \in Proc, Publish(p)
    PROVE  IInv'
<1> DEFINE S == IF Len(cache) < MaxEntries THEN {} ELSE {Seqs!Last(cache).statement}
<1>1. TypeOK /\ StagesFit /\ cache \in Seq(Entry) /\ Len(cache) \in Nat
  BY DEF IInv, TypeOK
<1>2. S \in SUBSET Cached
  <2>1. CASE ~(Len(cache) < MaxEntries)
    <3>1. Len(cache) \in 1..Len(cache) /\ Len(cache) \in DOMAIN cache
      BY <1>1, <2>1
    <3> QED
      BY <3>1 DEF Cached, Seqs!Last
  <2> QED
    BY <2>1
<1>3. /\ \/ Len(cache) < MaxEntries /\ S = {}
         \/ ~(Len(cache) < MaxEntries) /\ S = {Seqs!Last(cache).statement}
      /\ cache' = (IF Len(cache) < MaxEntries THEN Entered(p) ELSE Seqs!Front(Entered(p)))
      /\ WillClose(p, S) /\ GoTo(p, "close") /\ UNCHANGED <<opened, prepared, query, held>>
      /\ stage[p] = "publish"
  BY DEF Publish
<1> HIDE DEF S
<1>4. cache' \in Seq(Entry) /\ Cached' = {held[p]} \cup (Cached \ S) /\ WithinCapacity'
  BY <1>2, <1>3, PutEntry
<1>5. Owns(p) = {held[p]}
  BY <1>1, <1>3 DEF Owns, StagesFit
<1>6. \A s \in Cached : s \in opened /\ \A q \in Proc : s \notin Owns(q)
  BY DEF IInv, CachedAreUsable
<1>7. \A q \in Proc : q # p => held[p] \notin Owns(q)
  BY <1>5 DEF IInv, ClosedByOne
<1>8. held[p] \in opened /\ opened = Cached \cup UNION {Owns(q) : q \in Proc}
  BY <1>5 DEF IInv, NothingLeaks
<1>9. S \in SUBSET Statement /\ "close" \in Stage /\ held[p] \in 0..MaxStatements
  BY <1>1, <1>2, <1>6 DEF TypeOK, Stage
<1>10. /\ stage' \in [Proc -> Stage] /\ stage'[p] = "close"
       /\ held' \in [Proc -> 0..MaxStatements] /\ held'[p] = held[p]
       /\ toClose' \in [Proc -> SUBSET Statement] /\ toClose'[p] = S
       /\ \A q \in Proc : q # p => /\ stage'[q] = stage[q] /\ held'[q] = held[q]
                                   /\ toClose'[q] = toClose[q] /\ Owns(q)' = Owns(q)
       /\ Owns(p)' = S
  <2>1. held' = held /\ held[p] = held[p]
    BY <1>3
  <2> QED
    BY <1>1, <1>3, <1>9, <2>1, CloserStep
<1>11. held[p] \notin Cached
  BY <1>5, <1>6
<1>12. CachedAreUsable'
  BY <1>2, <1>3, <1>4, <1>6, <1>7, <1>8, <1>10, <1>11 DEF CachedAreUsable
<1>13. ClosedByOne'
  BY <1>2, <1>6, <1>10 DEF IInv, ClosedByOne
<1>14. NothingLeaks'
  <2>1. \A x \in opened : x \in Cached' \/ \E q \in Proc : x \in Owns(q)'
    BY <1>4, <1>5, <1>8, <1>10
  <2>2. \A x \in Cached' : x \in opened
    BY <1>4, <1>6, <1>8
  <2>3. \A q \in Proc : \A x \in Owns(q)' : x \in opened
    BY <1>2, <1>6, <1>8, <1>10
  <2>4. opened' = opened
    BY <1>3
  <2>5. opened = Cached' \cup UNION {Owns(q)' : q \in Proc}
    BY <2>1, <2>2, <2>3
  <2> QED
    BY <2>4, <2>5 DEF NothingLeaks
<1>15. StagesFit'
  BY <1>1, <1>10, FitsOfOne
<1>16. TypeOK' /\ Numbered'
  BY <1>1, <1>3, <1>4, <1>10 DEF IInv, TypeOK, Numbered
<1> QED
  BY <1>4, <1>12, <1>13, <1>14, <1>15, <1>16 DEF IInv

(* The whole cache passes to the goroutine that closes the session. *)
LEMMA CloseSessionStep ==
    ASSUME IInv, NEW p \in Proc, CloseSession(p)
    PROVE  IInv'
<1>1. TypeOK /\ StagesFit
  BY DEF IInv
<1>2. /\ WillClose(p, Cached) /\ cache' = <<>> /\ Hold(p, 0) /\ GoTo(p, "close")
      /\ UNCHANGED <<opened, prepared, query>> /\ stage[p] = "idle"
  BY DEF CloseSession
<1>3. Owns(p) = {}
  BY <1>1, <1>2 DEF Owns, StagesFit
<1>4. \A s \in Cached : s \in opened /\ \A q \in Proc : s \notin Owns(q)
  BY DEF IInv, CachedAreUsable
<1>5. Cached \in SUBSET Statement /\ "close" \in Stage /\ 0 \in 0..MaxStatements
  BY <1>1, <1>4 DEF TypeOK, Stage
<1>6. /\ stage' \in [Proc -> Stage] /\ stage'[p] = "close"
      /\ held' \in [Proc -> 0..MaxStatements] /\ held'[p] = 0
      /\ toClose' \in [Proc -> SUBSET Statement] /\ toClose'[p] = Cached
      /\ \A q \in Proc : q # p => /\ stage'[q] = stage[q] /\ held'[q] = held[q]
                                  /\ toClose'[q] = toClose[q] /\ Owns(q)' = Owns(q)
      /\ Owns(p)' = Cached
  BY <1>1, <1>2, <1>5, CloserStep
<1>7. Cached' = {} /\ WithinCapacity' /\ cache' \in Seq(Entry)
  BY <1>2 DEF Cached, WithinCapacity
<1>8. CachedAreUsable'
  BY <1>7 DEF CachedAreUsable
<1>9. ClosedByOne'
  BY <1>4, <1>6 DEF IInv, ClosedByOne
<1>10. NothingLeaks'
  <2>1. opened = Cached \cup UNION {Owns(q) : q \in Proc}
    BY DEF IInv, NothingLeaks
  <2>2. opened = UNION {Owns(q)' : q \in Proc}
    BY <1>3, <1>6, <2>1
  <2> QED
    BY <1>2, <1>7, <2>2 DEF NothingLeaks
<1>11. StagesFit'
  BY <1>1, <1>6, FitsOfOne
<1>12. TypeOK' /\ Numbered'
  BY <1>1, <1>2, <1>6, <1>7 DEF IInv, TypeOK, Numbered
<1> QED
  BY <1>7, <1>8, <1>9, <1>10, <1>11, <1>12 DEF IInv

LEMMA CloseStatementStep ==
    ASSUME IInv, NEW p \in Proc, CloseStatement(p)
    PROVE  IInv'
<1>1. TypeOK /\ StagesFit
  BY DEF IInv
<1>2. PICK s \in toClose[p] : opened' = opened \ {s} /\ WillClose(p, toClose[p] \ {s})
  BY DEF CloseStatement
<1>3. UNCHANGED <<cache, prepared, stage, query, held>> /\ stage[p] = "close"
  BY DEF CloseStatement
<1>4. Owns(p) = toClose[p] /\ s \in Owns(p)
  BY <1>3 DEF Owns
<1>5. /\ toClose' \in [Proc -> SUBSET Statement] /\ toClose'[p] = toClose[p] \ {s}
      /\ \A q \in Proc : q # p => toClose'[q] = toClose[q]
  BY <1>1, <1>2 DEF TypeOK, WillClose
<1>6. Owns(p)' = Owns(p) \ {s} /\ \A q \in Proc : q # p => Owns(q)' = Owns(q)
  BY <1>3, <1>4, <1>5 DEF Owns
<1>7. s \notin Cached /\ \A q \in Proc : q # p => s \notin Owns(q)
  BY <1>4 DEF IInv, CachedAreUsable, ClosedByOne
<1>8. Cached' = Cached /\ WithinCapacity'
  BY <1>3 DEF IInv, Cached, WithinCapacity
<1>9. CachedAreUsable'
  BY <1>2, <1>6, <1>7, <1>8 DEF IInv, CachedAreUsable
<1>10. ClosedByOne'
  BY <1>6 DEF IInv, ClosedByOne
<1>11. NothingLeaks'
  <2>1. opened = Cached \cup UNION {Owns(q) : q \in Proc}
    BY DEF IInv, NothingLeaks
  <2>2. opened \ {s} = Cached \cup UNION {Owns(q)' : q \in Proc}
    BY <1>6, <1>7, <2>1
  <2> QED
    BY <1>2, <1>8, <2>2 DEF NothingLeaks
<1>12. StagesFit'
  BY <1>1, <1>3, <1>5 DEF StagesFit
<1>13. TypeOK' /\ Numbered'
  BY <1>1, <1>2, <1>3, <1>5 DEF IInv, TypeOK, Numbered
<1> QED
  BY <1>8, <1>9, <1>10, <1>11, <1>12, <1>13 DEF IInv

----------------------------------------------------------------------------
LEMMA InvStep == IInv /\ [Next]_vars => IInv'
<1> SUFFICES ASSUME IInv, [Next]_vars PROVE IInv'
  OBVIOUS
<1>1. ASSUME NEW p \in Proc,
             Miss(p) \/ PrepareFails(p) \/ CloseDone(p) \/ Use(p) \/ \E q \in Query : Call(p, q)
      PROVE  IInv'
  BY <1>1, QuietStep
<1>2. ASSUME NEW p \in Proc, Hit(p) \/ PublishLate(p) PROVE IInv'
  BY <1>2, FoundStep
<1>3. ASSUME NEW p \in Proc, Prepare(p) PROVE IInv'
  BY <1>3, PrepareStep
<1>4. ASSUME NEW p \in Proc, Publish(p) PROVE IInv'
  BY <1>4, PublishStep
<1>5. ASSUME NEW p \in Proc, CloseSession(p) PROVE IInv'
  BY <1>5, CloseSessionStep
<1>6. ASSUME NEW p \in Proc, CloseStatement(p) PROVE IInv'
  BY <1>6, CloseStatementStep
<1>7. CASE UNCHANGED vars
  <2>1. UNCHANGED <<cache, opened, prepared, stage, query, held, toClose>>
    BY <1>7 DEF vars
  <2>2. Cached' = Cached /\ WithinCapacity' /\ \A p \in Proc : Owns(p)' = Owns(p)
    BY <2>1 DEF IInv, Cached, WithinCapacity, Owns
  <2>3. TypeOK' /\ StagesFit'
    BY <2>1 DEF IInv, TypeOK, StagesFit
  <2> QED
    BY <2>1, <2>2, <2>3, OwnersStay
<1> QED
  BY <1>1, <1>2, <1>3, <1>4, <1>5, <1>6, <1>7 DEF Next

LEMMA Invariant == Spec => []IInv
BY InvInit, InvStep, PTL DEF Spec

(* The variables keep their types, for any goroutines, queries and capacity*)
(* (prepared.go:124-174).                                                  *)
THEOREM TypeCorrect == Spec => []TypeOK
<1>1. IInv => TypeOK
  BY DEF IInv
<1> QED
  BY <1>1, Invariant, PTL

(* The cache never hands out a closed statement (prepared.go:137-160).     *)
THEOREM CachedStatementsAreUsable == Spec => []CachedAreUsable
<1>1. IInv => CachedAreUsable
  BY DEF IInv
<1> QED
  BY <1>1, Invariant, PTL

(* Every open statement is cached or in the hands of a goroutine that will *)
(* publish or close it, and of one goroutine only                          *)
(* (prepared.go:145-174, prepared_cache.go:76-105).                        *)
THEOREM StatementsHaveOneOwner == Spec => [](NothingLeaks /\ ClosedByOne)
<1>1. IInv => NothingLeaks /\ ClosedByOne
  BY DEF IInv
<1> QED
  BY <1>1, Invariant, PTL

(* The cache keeps to its capacity and has one entry for a query           *)
(* (prepared_cache.go:46-74).                                              *)
THEOREM CapacityIsKept == Spec => []WithinCapacity
<1>1. IInv => WithinCapacity
  BY DEF IInv
<1> QED
  BY <1>1, Invariant, PTL
===========================================================================
