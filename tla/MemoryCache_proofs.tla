------------------------- MODULE MemoryCache_proofs -------------------------
(***************************************************************************)
(* MemoryCache for any keys, values, capacity and time to live: its map    *)
(* and its list stay one, the list is the order of use, evictions take the *)
(* least recently used entry, hits stay within the time to live, and the   *)
(* cache implements CacheContract.                                         *)
(***************************************************************************)
EXTENDS MemoryCache, SequenceTheorems, TLAPS

USE NothingIsNeither, BoundsAreNat

(* The history of uses and puts is that of the entries.                    *)
HistoryMatches ==
    /\ \A k \in Key : lastUse[k] <= calls
    /\ \A k \in Key : Stored(k) => items[k].createdAt = lastPut[k]

IInv == TypeOK /\ MapMatchesList /\ ListIsRecencyOrder /\ HistoryMatches

-----------------------------------------------------------------------------
(* The list without a key it holds once.                                   *)
LEMMA WithoutKey ==
  ASSUME TypeOK, MapMatchesList, NEW k \in Key, Stored(k)
  PROVE  /\ Position(k) \in DOMAIN order /\ order[Position(k)] = k
         /\ Without(k) \in Seq(Key)
         /\ Len(Without(k)) = Len(order) - 1
         /\ \A i \in 1 .. (Len(order) - 1) :
               Without(k)[i] = order[IF i < Position(k) THEN i ELSE i + 1]
<1> DEFINE p == Position(k)
<1>1. p \in DOMAIN order /\ order[p] = k
  BY DEF MapMatchesList, Position
<1>2. order \in Seq(Key) /\ Len(order) \in Nat /\ p \in 1 .. Len(order)
  BY <1>1 DEF TypeOK
<1>3. Without(k) = SubSeq(order, 1, p - 1) \o SubSeq(order, p + 1, Len(order))
  BY DEF Without, Seqs!RemoveAt
<1> HIDE DEF p
<1>4. /\ SubSeq(order, 1, p - 1) \in Seq(Key) /\ Len(SubSeq(order, 1, p - 1)) = p - 1
      /\ \A i \in 1 .. (p - 1) : SubSeq(order, 1, p - 1)[i] = order[i]
  BY <1>2
<1>5. /\ SubSeq(order, p + 1, Len(order)) \in Seq(Key)
      /\ Len(SubSeq(order, p + 1, Len(order))) = Len(order) - p
      /\ \A i \in 1 .. (Len(order) - p) : SubSeq(order, p + 1, Len(order))[i] = order[i + p]
  BY <1>2
<1> DEFINE A == SubSeq(order, 1, p - 1)
<1> DEFINE B == SubSeq(order, p + 1, Len(order))
<1>6. /\ A \o B \in Seq(Key) /\ Len(A \o B) = Len(A) + Len(B)
      /\ \A i \in 1 .. Len(A) + Len(B) :
            (A \o B)[i] = IF i <= Len(A) THEN A[i] ELSE B[i - Len(A)]
  <2> HIDE DEF A, B
  <2> QED
    BY <1>4, <1>5, ConcatProperties DEF A, B
<1>7. /\ Without(k) \in Seq(Key)
      /\ Len(Without(k)) = Len(order) - 1
      /\ \A i \in 1 .. (Len(order) - 1) : Without(k)[i] = order[IF i < p THEN i ELSE i + 1]
  <2>1. Len(A) = p - 1 /\ Len(B) = Len(order) - p /\ Without(k) = A \o B
    BY <1>3, <1>4, <1>5
  <2>2. \A i \in 1 .. (Len(order) - 1) : ~(i < p) => i - (p - 1) \in 1 .. (Len(order) - p)
    BY <1>2
  <2>3. ASSUME NEW i \in 1 .. (Len(order) - 1)
        PROVE  Without(k)[i] = order[IF i < p THEN i ELSE i + 1]
    <3> HIDE DEF A, B
    <3>1. CASE i < p
      BY <1>2, <1>4, <1>6, <2>1, <3>1 DEF A
    <3>2. CASE ~(i < p)
      <4>1. Without(k)[i] = B[i - (p - 1)]
        BY <1>2, <1>6, <2>1, <3>2
      <4>2. B[i - (p - 1)] = order[(i - (p - 1)) + p]
        BY <1>5, <2>2, <3>2 DEF B
      <4> QED
        BY <1>2, <3>2, <4>1, <4>2
    <3> QED
      BY <3>1, <3>2
  <2>4. Without(k) \in Seq(Key) /\ Len(Without(k)) = Len(order) - 1
    <3> HIDE DEF A, B
    <3> QED
      BY <1>2, <1>6, <2>1
  <2> QED
    BY <2>3, <2>4
<1> QED
  BY <1>1, <1>7 DEF p

(* Moving a key to the front keeps the order of the others.                *)
LEMMA MovedToFront ==
  ASSUME TypeOK, MapMatchesList, NEW k \in Key, Stored(k)
  PROVE  /\ ToFront(k) \in Seq(Key)
         /\ Len(ToFront(k)) = Len(order)
         /\ ToFront(k)[1] = k
         /\ \A i \in 2 .. Len(order) :
               ToFront(k)[i] = order[IF i - 1 < Position(k) THEN i - 1 ELSE i]
<1> DEFINE W == Without(k)
<1>1. /\ W \in Seq(Key) /\ Len(W) = Len(order) - 1
      /\ Position(k) \in 1 .. Len(order)
      /\ \A i \in 1 .. (Len(order) - 1) : W[i] = order[IF i < Position(k) THEN i ELSE i + 1]
  BY WithoutKey DEF TypeOK
<1>2. order \in Seq(Key) /\ Len(order) \in Nat
  BY DEF TypeOK
<1> HIDE DEF W
<1>3. <<k>> \in Seq(Key) /\ Len(<<k>>) = 1 /\ <<k>>[1] = k
  OBVIOUS
<1>4. /\ <<k>> \o W \in Seq(Key) /\ Len(<<k>> \o W) = 1 + Len(W)
      /\ \A i \in 1 .. 1 + Len(W) : (<<k>> \o W)[i] = IF i <= 1 THEN <<k>>[i] ELSE W[i - 1]
  BY <1>1, <1>3, ConcatProperties
<1>5. ASSUME NEW i \in 2 .. Len(order)
      PROVE  (<<k>> \o W)[i] = order[IF i - 1 < Position(k) THEN i - 1 ELSE i]
  <2>1. (<<k>> \o W)[i] = W[i - 1] /\ i - 1 \in 1 .. (Len(order) - 1) /\ (i - 1) + 1 = i
    BY <1>1, <1>2, <1>4
  <2> QED
    BY <1>1, <1>2, <2>1
<1> QED
  BY <1>1, <1>2, <1>3, <1>4, <1>5 DEF W, ToFront

(* A new key in front of the first n keys.                                 *)
LEMMA Pushed ==
  ASSUME TypeOK, NEW k \in Key, NEW n \in 0 .. Len(order)
  PROVE  /\ PushedBefore(k, n) \in Seq(Key)
         /\ Len(PushedBefore(k, n)) = n + 1
         /\ PushedBefore(k, n)[1] = k
         /\ \A i \in 2 .. n + 1 : PushedBefore(k, n)[i] = order[i - 1]
<1> DEFINE W == SubSeq(order, 1, n)
<1>1. order \in Seq(Key) /\ Len(order) \in Nat
  BY DEF TypeOK
<1>2. W \in Seq(Key) /\ Len(W) = n /\ \A i \in 1 .. n : W[i] = order[i]
  BY <1>1
<1> HIDE DEF W
<1>3. <<k>> \in Seq(Key) /\ Len(<<k>>) = 1 /\ <<k>>[1] = k
  OBVIOUS
<1>4. /\ <<k>> \o W \in Seq(Key) /\ Len(<<k>> \o W) = 1 + Len(W)
      /\ \A i \in 1 .. 1 + Len(W) : (<<k>> \o W)[i] = IF i <= 1 THEN <<k>>[i] ELSE W[i - 1]
  BY <1>2, <1>3, ConcatProperties
<1> QED
  BY <1>1, <1>2, <1>3, <1>4 DEF W, PushedBefore

(* Counting a call keeps the types of the counters.                        *)
LEMMA CountType ==
  ASSUME TypeOK, NEW n, \A c \in DOMAIN n : n[c] \in Nat, Count(n)
  PROVE  stats' \in [Counter -> Nat] /\ calls' = calls + 1 /\ calls' \in Nat
BY DEF TypeOK, Count

-----------------------------------------------------------------------------
(* The ways a call changes the list.  `used' of each step: what was behind *)
(* another key stays behind it, and a used key comes to the front.         *)
LEMMA KeptStep ==                     \* neither map nor list, maybe the clock
  ASSUME IInv, UNCHANGED <<items, order, lastUse, lastPut, maxEntries>>, calls' \in Nat, calls' >= calls
  PROVE  MapMatchesList' /\ ListIsRecencyOrder' /\ HistoryMatches'
BY DEF IInv, TypeOK, MapMatchesList, ListIsRecencyOrder, HistoryMatches, Stored

LEMMA DroppedStep ==                  \* an expired or removed entry
  ASSUME IInv, NEW k \in Key, Stored(k), items' = [items EXCEPT ![k] = Nothing],
         order' = Without(k), UNCHANGED <<lastUse, lastPut, maxEntries>>, calls' \in Nat, calls' >= calls
  PROVE  MapMatchesList' /\ ListIsRecencyOrder' /\ HistoryMatches'
<1> DEFINE p == Position(k)
           g(i) == IF i < p THEN i ELSE i + 1
<1>1. /\ order \in Seq(Key) /\ p \in 1 .. Len(order) /\ order[p] = k /\ Len(order) \in Nat
      /\ order' \in Seq(Key) /\ Len(order') = Len(order) - 1
      /\ \A i \in 1 .. (Len(order) - 1) : order'[i] = order[IF i < p THEN i ELSE i + 1]
  <2>1. TypeOK /\ MapMatchesList
    BY DEF IInv
  <2>2. order \in Seq(Key) /\ Len(order) \in Nat /\ DOMAIN order = 1 .. Len(order)
    BY <2>1 DEF TypeOK
  <2> QED
    BY <2>1, <2>2, WithoutKey
<1>2. DOMAIN order = 1 .. Len(order) /\ DOMAIN order' = 1 .. (Len(order) - 1)
  BY <1>1
<1>3. \A j \in Key : Stored(j)' <=> Stored(j) /\ j # k
  BY DEF IInv, TypeOK, Stored
<1> HIDE DEF p
<1>4. /\ \A i \in DOMAIN order' : i \in Int /\ g(i) \in DOMAIN order /\ g(i) # p /\ order'[i] = order[g(i)]
      /\ \A i, j \in DOMAIN order' : i < j => g(i) < g(j)
  BY <1>1, <1>2
<1>5. ASSUME NEW m \in DOMAIN order, m # p PROVE \E i \in DOMAIN order' : g(i) = m
  <2>1. CASE m < p
    BY <1>1, <1>2, <2>1
  <2>2. CASE ~(m < p)
    <3>1. m - 1 \in DOMAIN order' /\ g(m - 1) = m
      BY <1>1, <1>2, <1>5, <2>2
    <3> QED
      BY <3>1
  <2> QED
    BY <2>1, <2>2
<1> HIDE DEF g
<1>6. MapMatchesList'
  <2>1. Len(order') <= maxEntries'
    <3>1. Len(order) <= maxEntries /\ maxEntries \in Nat /\ maxEntries' = maxEntries
      BY DEF IInv, TypeOK, MapMatchesList
    <3> QED
      BY <1>1, <3>1
  <2>2. ASSUME NEW i \in DOMAIN order', NEW j \in DOMAIN order', order'[i] = order'[j] PROVE i = j
    <3>1. g(i) = g(j)
      BY <1>4, <2>2 DEF IInv, MapMatchesList
    <3>2. g(i) \in Int
      BY <1>2, <1>4
    <3> QED
      BY <1>4, <3>1, <3>2
  <2>3. ASSUME NEW j \in Key, Stored(j)' PROVE \E i \in DOMAIN order' : order'[i] = j
    <3>1. PICK m \in DOMAIN order : order[m] = j
      BY <1>3, <2>3 DEF IInv, MapMatchesList
    <3> QED
      BY <1>1, <1>3, <1>4, <1>5, <2>3, <3>1
  <2>4. ASSUME NEW j \in Key, NEW i \in DOMAIN order', order'[i] = j PROVE Stored(j)'
    <3>1. order'[i] = order[g(i)] /\ g(i) \in DOMAIN order /\ order[g(i)] \in Key
      BY <1>1, <1>4
    <3>2. Stored(order[g(i)]) /\ order[g(i)] # k
      BY <1>1, <1>2, <1>4, <3>1 DEF IInv, MapMatchesList
    <3> QED
      BY <1>3, <2>4, <3>1, <3>2
  <2> QED
    BY <2>1, <2>2, <2>3, <2>4 DEF MapMatchesList
<1>7. ListIsRecencyOrder'
  <2>1. ASSUME NEW i \in DOMAIN order', NEW j \in DOMAIN order', i < j
        PROVE  lastUse[order'[i]] > lastUse[order'[j]]
    <3>1. g(i) < g(j) /\ g(i) \in DOMAIN order /\ g(j) \in DOMAIN order
      BY <1>4, <2>1
    <3>2. lastUse[order[g(i)]] > lastUse[order[g(j)]]
      BY <3>1 DEF IInv, ListIsRecencyOrder
    <3> QED
      BY <1>4, <3>2
  <2> QED
    BY <2>1 DEF ListIsRecencyOrder
<1>8. HistoryMatches'
  BY <1>3 DEF IInv, TypeOK, HistoryMatches, Stored
<1> QED
  BY <1>6, <1>7, <1>8

(* A key comes to the front, before keys of the old list in their order,   *)
(* which were at g[2], g[3], ...                                           *)
ComesFirst(k, g) ==
    /\ order' \in Seq(Key) /\ Len(order') >= 1 /\ order'[1] = k
    /\ \A i \in 2 .. Len(order') : g[i] \in DOMAIN order /\ order'[i] = order[g[i]] /\ order[g[i]] # k
    /\ \A i, j \in 2 .. Len(order') : i < j => g[i] < g[j]
    /\ \A j \in Key : Stored(j)' <=> j = k \/ \E i \in 2 .. Len(order') : order[g[i]] = j
    /\ Len(order') <= maxEntries'
    /\ lastUse' = [lastUse EXCEPT ![k] = calls + 1]

LEMMA FrontStep ==
  ASSUME IInv, NEW k \in Key, NEW g, ComesFirst(k, g)
  PROVE  MapMatchesList' /\ ListIsRecencyOrder'
<1>1. /\ DOMAIN order' = 1 .. Len(order') /\ Len(order') \in Nat
      /\ \A i \in DOMAIN order' : i = 1 \/ i \in 2 .. Len(order')
      /\ order \in Seq(Key) /\ DOMAIN order \subseteq Int /\ calls \in Nat
      /\ \A j \in Key : lastUse[j] \in Nat /\ lastUse[j] <= calls
  <2>1. DOMAIN order' = 1 .. Len(order') /\ Len(order') \in Nat
    <3>1. order' \in Seq(Key)
      BY DEF ComesFirst
    <3> QED
      BY <3>1
  <2>2. order \in Seq(Key) /\ calls \in Nat /\ lastUse \in [Key -> Nat]
    BY DEF IInv, TypeOK
  <2>3. \A j \in Key : lastUse[j] \in Nat /\ lastUse[j] <= calls
    BY <2>2 DEF IInv, HistoryMatches
  <2>4. DOMAIN order \subseteq Int
    BY <2>2
  <2>5. \A i \in DOMAIN order' : i = 1 \/ i \in 2 .. Len(order')
    BY <2>1
  <2> QED
    BY <2>1, <2>2, <2>3, <2>4, <2>5
<1> USE DEF ComesFirst
<1>2. \A i \in 2 .. Len(order') : order'[i] # order'[1]
  OBVIOUS
<1>3. ASSUME NEW i \in 2 .. Len(order'), NEW j \in 2 .. Len(order'), i # j PROVE order'[i] # order'[j]
  <2>1. g[i] # g[j]
    <3>1. g[i] \in Int /\ g[j] \in Int /\ (i < j \/ j < i)
      BY <1>1, <1>3
    <3> QED
      BY <3>1
  <2> QED
    BY <2>1 DEF IInv, MapMatchesList
<1>4. \A i, j \in DOMAIN order' : order'[i] = order'[j] => i = j
  BY <1>1, <1>2, <1>3
<1>5. ASSUME NEW i \in DOMAIN order', NEW j \in DOMAIN order', i < j
      PROVE  lastUse'[order'[i]] > lastUse'[order'[j]]
  <2>1. j \in 2 .. Len(order')
    BY <1>1, <1>5
  <2>2. order'[j] = order[g[j]] /\ order[g[j]] \in Key \ {k} /\ g[j] \in DOMAIN order
    BY <1>1, <2>1
  <2>3. lastUse'[order'[j]] = lastUse[order[g[j]]] /\ lastUse[order[g[j]]] \in Nat /\ lastUse[order[g[j]]] <= calls
    BY <1>1, <2>2 DEF IInv, TypeOK
  <2>4. CASE i = 1
    <3>1. lastUse'[order'[i]] = calls + 1
      BY <2>4 DEF IInv, TypeOK
    <3> QED
      BY <1>1, <2>3, <3>1
  <2>5. CASE i \in 2 .. Len(order')
    <3>1. order'[i] = order[g[i]] /\ order[g[i]] \in Key \ {k} /\ g[i] \in DOMAIN order
      BY <1>1, <2>5
    <3>2. lastUse'[order'[i]] = lastUse[order[g[i]]]
      BY <3>1 DEF IInv, TypeOK
    <3>3. g[i] < g[j]
      BY <1>5, <2>1, <2>5
    <3> QED
      BY <2>2, <2>3, <3>1, <3>2, <3>3 DEF IInv, ListIsRecencyOrder
  <2> QED
    BY <1>1, <2>4, <2>5
<1>6. ListIsRecencyOrder'
  BY <1>5 DEF ListIsRecencyOrder
<1>7. ASSUME NEW j \in Key PROVE Stored(j)' <=> \E i \in DOMAIN order' : order'[i] = j
  <2>1. 1 \in DOMAIN order'
    BY <1>1
  <2>2. (\E i \in DOMAIN order' : order'[i] = j) <=> j = k \/ \E i \in 2 .. Len(order') : order'[i] = j
    <3>1. 2 .. Len(order') \subseteq DOMAIN order'
      BY <1>1
    <3> QED
      BY <1>1, <2>1, <3>1
  <2> QED
    BY <2>2
<1> QED
  BY <1>4, <1>6, <1>7 DEF MapMatchesList

LEMMA MovedStep ==                    \* a hit, or a Put of a stored key
  ASSUME IInv, NEW k \in Key, Stored(k), \A j \in Key : Stored(j)' <=> Stored(j),
         order' = ToFront(k), maxEntries' = maxEntries,
         lastUse' = [lastUse EXCEPT ![k] = calls + 1]
  PROVE  MapMatchesList' /\ ListIsRecencyOrder'
<1> DEFINE p == Position(k)
           f == [i \in 2 .. Len(order) |-> IF i - 1 < p THEN i - 1 ELSE i]
<1>1. TypeOK /\ MapMatchesList /\ order \in Seq(Key) /\ Len(order) \in Nat /\ DOMAIN order = 1 .. Len(order)
  BY DEF IInv, TypeOK
<1>2. /\ p \in 1 .. Len(order) /\ order[p] = k
      /\ order' \in Seq(Key) /\ Len(order') = Len(order) /\ order'[1] = k
      /\ \A i \in 2 .. Len(order) : order'[i] = order[f[i]]
  BY <1>1, WithoutKey, MovedToFront
<1>3. DOMAIN order' = 1 .. Len(order)
  BY <1>2
<1> HIDE DEF p
<1>map. PICK g : g = f
  OBVIOUS
<1>4. /\ \A i \in 2 .. Len(order) : g[i] \in DOMAIN order /\ g[i] # p
      /\ \A i, j \in 2 .. Len(order) : i < j => g[i] < g[j]
  BY <1>1, <1>2, <1>map
<1>5. ASSUME NEW m \in DOMAIN order, m # p PROVE \E i \in 2 .. Len(order) : g[i] = m
  <2>1. CASE m < p
    <3>1. m + 1 \in 2 .. Len(order) /\ g[m + 1] = m
      BY <1>1, <1>2, <1>map, <2>1
    <3> QED
      BY <3>1
  <2>2. CASE ~(m < p)
    <3>1. m \in 2 .. Len(order) /\ g[m] = m
      BY <1>1, <1>2, <1>map, <1>5, <2>2
    <3> QED
      BY <3>1
  <2> QED
    BY <2>1, <2>2
<1> HIDE DEF f
<1>6. \A i \in 2 .. Len(order) : order[g[i]] # k
  BY <1>1, <1>2, <1>4 DEF MapMatchesList
<1>7. ASSUME NEW j \in Key PROVE Stored(j) <=> j = k \/ \E i \in 2 .. Len(order) : order[g[i]] = j
  <2>1. ASSUME Stored(j), j # k PROVE \E i \in 2 .. Len(order) : order[g[i]] = j
    <3>1. PICK m \in DOMAIN order : order[m] = j
      BY <1>1, <2>1 DEF MapMatchesList
    <3>2. PICK i \in 2 .. Len(order) : g[i] = m
      BY <1>2, <1>5, <2>1, <3>1
    <3> QED
      BY <3>1, <3>2
  <2>2. ASSUME NEW i \in 2 .. Len(order), order[g[i]] = j PROVE Stored(j)
    BY <1>1, <1>4, <2>2 DEF MapMatchesList
  <2> QED
    BY <2>1, <2>2
<1>8. ComesFirst(k, g)
  <2>1. Len(order') = Len(order) /\ Len(order) >= 1 /\ Len(order) <= maxEntries
    BY <1>1, <1>2 DEF MapMatchesList
  <2> QED
    BY <1>2, <1>4, <1>map, <1>6, <1>7, <2>1 DEF ComesFirst
<1> QED
  BY <1>8, FrontStep

LEMMA PushedStep ==                   \* a Put of a new key
  ASSUME IInv, NEW k \in Key, ~Stored(k), maxEntries > 0, maxEntries' = maxEntries,
         NEW n \in 0 .. Len(order), n < maxEntries, n < Len(order) => n + 1 = maxEntries,
         order' = PushedBefore(k, n),
         \A j \in Key : Stored(j)' <=> j = k \/ (Stored(j) /\ j \notin Overflowing(k)),
         lastUse' = [lastUse EXCEPT ![k] = calls + 1]
  PROVE  MapMatchesList' /\ ListIsRecencyOrder'
<1>1. /\ TypeOK /\ MapMatchesList /\ order \in Seq(Key) /\ Len(order) \in Nat /\ DOMAIN order = 1 .. Len(order)
      /\ maxEntries \in Nat /\ Len(order) <= maxEntries
  BY DEF IInv, TypeOK, MapMatchesList
<1>2. n \in Nat /\ n <= Len(order) /\ n + 1 <= maxEntries
  BY <1>1
<1>3. /\ order' \in Seq(Key) /\ Len(order') = n + 1 /\ order'[1] = k
      /\ \A i \in 2 .. n + 1 : order'[i] = order[i - 1]
  BY <1>1, <1>2, Pushed
<1> DEFINE f == [i \in 2 .. n + 1 |-> i - 1]
<1>4. PICK g : g = f
  OBVIOUS
<1>5. /\ \A i \in 2 .. n + 1 : g[i] \in 1 .. n /\ g[i] \in DOMAIN order /\ g[i] = i - 1
      /\ \A i, j \in 2 .. n + 1 : i < j => g[i] < g[j]
  BY <1>1, <1>2, <1>4
<1>6. \A i \in DOMAIN order : order[i] # k /\ Stored(order[i])
  BY <1>1 DEF MapMatchesList
<1>7. \A i \in DOMAIN order : order[i] \in Overflowing(k) <=> i >= maxEntries
  BY <1>1 DEF MapMatchesList, Overflowing
<1>8. \A i \in DOMAIN order : i >= maxEntries <=> i > n
  BY <1>1
<1>9. ASSUME NEW j \in Key
      PROVE  Stored(j)' <=> j = k \/ \E i \in 2 .. n + 1 : order[g[i]] = j
  <2>1. ASSUME Stored(j), j \notin Overflowing(k) PROVE \E i \in 2 .. n + 1 : order[g[i]] = j
    <3>1. PICK m \in DOMAIN order : order[m] = j
      BY <1>1, <2>1 DEF MapMatchesList
    <3>2. m + 1 \in 2 .. n + 1 /\ (m + 1) - 1 = m
      BY <1>1, <1>2, <1>7, <1>8, <2>1, <3>1
    <3> QED
      BY <1>5, <3>1, <3>2
  <2>2. ASSUME NEW i \in 2 .. n + 1, order[g[i]] = j PROVE Stored(j) /\ j \notin Overflowing(k)
    BY <1>1, <1>2, <1>5, <1>6, <1>7, <1>8, <2>2
  <2> QED
    BY <2>1, <2>2
<1>10. ComesFirst(k, g)
  BY <1>1, <1>2, <1>3, <1>5, <1>6, <1>9 DEF ComesFirst
<1> QED
  BY <1>10, FrontStep

-----------------------------------------------------------------------------
(* Every step keeps the types.                                             *)
LEMMA ListTypes ==
  ASSUME IInv, NEW k \in Key
  PROVE  /\ Stored(k) => Without(k) \in Seq(Key) /\ ToFront(k) \in Seq(Key)
         /\ PushedBefore(k, Len(order)) \in Seq(Key)
         /\ maxEntries > 0 /\ Len(order) >= maxEntries => PushedBefore(k, maxEntries - 1) \in Seq(Key)
<1>1. TypeOK /\ MapMatchesList
  BY DEF IInv
<1>2. Stored(k) => Without(k) \in Seq(Key) /\ ToFront(k) \in Seq(Key)
  BY <1>1, WithoutKey, MovedToFront
<1>3. Len(order) \in 0 .. Len(order) /\ maxEntries \in Nat
  BY <1>1 DEF TypeOK
<1>4. maxEntries > 0 /\ Len(order) >= maxEntries => maxEntries - 1 \in 0 .. Len(order)
  BY <1>1, <1>3 DEF TypeOK
<1> QED
  BY <1>1, <1>2, <1>3, <1>4, Pushed

LEMMA TypeStep == IInv /\ [Next]_vars => TypeOK'
<1> SUFFICES ASSUME IInv, [Next]_vars PROVE TypeOK'
  OBVIOUS
<1>0. TypeOK
  BY DEF IInv
<1>1. ASSUME NEW k \in Key, GetMiss(k), maxEntries' = maxEntries PROVE TypeOK'
  <2>1. stats' \in [Counter -> Nat] /\ calls' \in Nat
    BY <1>0, <1>1, CountType DEF GetMiss
  <2> QED
    BY <1>0, <1>1, <2>1 DEF TypeOK, GetMiss, Answer
<1>2. ASSUME NEW k \in Key, GetExpired(k), maxEntries' = maxEntries PROVE TypeOK'
  <2>1. stats' \in [Counter -> Nat] /\ calls' \in Nat
    BY <1>0, <1>2, CountType DEF GetExpired
  <2>2. order' \in Seq(Key)
    BY <1>2, ListTypes DEF GetExpired
  <2> QED
    BY <1>0, <1>2, <2>1, <2>2 DEF TypeOK, GetExpired, Answer
<1>3. ASSUME NEW k \in Key, GetHit(k), maxEntries' = maxEntries PROVE TypeOK'
  <2>1. stats' \in [Counter -> Nat] /\ calls' \in Nat
    BY <1>0, <1>3, CountType DEF GetHit
  <2>2. order' \in Seq(Key)
    BY <1>3, ListTypes DEF GetHit
  <2>3. items[k].value \in Value
    BY <1>0, <1>3 DEF TypeOK, GetHit, Stored, Entry
  <2> QED
    BY <1>0, <1>3, <2>1, <2>2, <2>3 DEF TypeOK, GetHit, Answer, Use
<1>4. ASSUME NEW k \in Key, Remove(k), maxEntries' = maxEntries PROVE TypeOK'
  <2>1. stats' \in [Counter -> Nat] /\ calls' \in Nat
    <3>1. CASE Count([removes |-> 1])
      BY <1>0, <3>1, CountType
    <3>2. CASE Count(<<>>)
      BY <1>0, <3>2, CountType
    <3> QED
      BY <1>4, <3>1, <3>2 DEF Remove
  <2>2. order' \in Seq(Key) /\ items' \in [Key -> Entry \cup {Nothing}]
    BY <1>0, <1>4, ListTypes DEF Remove, TypeOK
  <2> QED
    BY <1>0, <1>4, <2>1, <2>2 DEF TypeOK, Remove, Answer
<1>5. ASSUME NEW k \in Key, NEW v \in Value, PutDisabled(k, v), maxEntries' = maxEntries PROVE TypeOK'
  <2>1. stats' \in [Counter -> Nat] /\ calls' \in Nat
    BY <1>0, <1>5, CountType DEF PutDisabled
  <2> QED
    BY <1>0, <1>5, <2>1 DEF TypeOK, PutDisabled, Answer
<1>6. ASSUME NEW k \in Key, NEW v \in Value, PutReplace(k, v), maxEntries' = maxEntries PROVE TypeOK'
  <2>1. stats' \in [Counter -> Nat] /\ calls' \in Nat
    BY <1>0, <1>6, CountType DEF PutReplace
  <2>2. order' \in Seq(Key)
    BY <1>6, ListTypes DEF PutReplace
  <2>3. items' \in [Key -> Entry \cup {Nothing}]
    BY <1>0, <1>6 DEF TypeOK, PutReplace, Entry
  <2> QED
    BY <1>0, <1>6, <2>1, <2>2, <2>3 DEF TypeOK, PutReplace, Answer, Use
<1>7. ASSUME NEW k \in Key, NEW v \in Value, PutInsert(k, v), maxEntries' = maxEntries PROVE TypeOK'
  <2>0. Len(order) \in Nat /\ maxEntries \in Nat
    BY <1>0 DEF TypeOK
  <2>1. stats' \in [Counter -> Nat] /\ calls' \in Nat
    <3>1. CASE Len(order) < maxEntries
      BY <1>0, <1>7, <3>1, CountType DEF PutInsert
    <3>2. CASE ~(Len(order) < maxEntries)
      <4>1. Len(order) + 1 - maxEntries \in Nat
        BY <2>0, <3>2
      <4>2. Count([puts |-> 1, evictions |-> Len(order) + 1 - maxEntries])
        BY <1>7, <3>2 DEF PutInsert
      <4> QED
        BY <1>0, <4>1, <4>2, CountType
    <3> QED
      BY <3>1, <3>2
  <2>2. order' \in Seq(Key)
    BY <1>7, <2>0, ListTypes DEF PutInsert
  <2>3. items' \in [Key -> Entry \cup {Nothing}]
    BY <1>0, <1>7 DEF TypeOK, PutInsert, Entry
  <2> QED
    BY <1>0, <1>7, <2>1, <2>2, <2>3 DEF TypeOK, PutInsert, Answer, Use
<1>8. ASSUME Clear, maxEntries' = maxEntries PROVE TypeOK'
  <2>1. stats' \in [Counter -> Nat] /\ calls' \in Nat
    BY <1>0, <1>8, CountType DEF Clear
  <2> QED
    BY <1>0, <1>8, <2>1 DEF TypeOK, Clear, Answer
<1>9. ASSUME Rejected, maxEntries' = maxEntries PROVE TypeOK'
  <2>1. stats' \in [Counter -> Nat] /\ calls' \in Nat
    BY <1>0, <1>9, CountType DEF Rejected
  <2> QED
    BY <1>0, <1>9, <2>1 DEF TypeOK, Rejected, Answer
<1>10. ASSUME Tick, maxEntries' = maxEntries PROVE TypeOK'
  BY <1>0, <1>10 DEF TypeOK, Tick
<1>11. CASE UNCHANGED vars
  BY <1>0, <1>11 DEF TypeOK, vars
<1> QED
  BY <1>1, <1>2, <1>3, <1>4, <1>5, <1>6, <1>7, <1>8, <1>9, <1>10, <1>11 DEF Next, Call

-----------------------------------------------------------------------------
(* Every step keeps map, list and history together.                        *)
Together == MapMatchesList /\ ListIsRecencyOrder /\ HistoryMatches

LEMMA CallsGrow ==
  ASSUME IInv, NEW n, Count(n)
  PROVE  calls \in Nat /\ calls' = calls + 1 /\ calls' \in Nat /\ calls' >= calls
BY DEF IInv, TypeOK, Count

LEMMA PutHistory ==                   \* a Put leaves its own time behind
  ASSUME IInv, NEW k \in Key, NEW v, Use(k), lastPut' = [lastPut EXCEPT ![k] = clock], calls' = calls + 1,
         items'[k] = [value |-> v, createdAt |-> clock],
         \A j \in Key \ {k} : items'[j] \in {items[j], Nothing}
  PROVE  HistoryMatches'
<1>1. ASSUME NEW j \in Key PROVE lastUse'[j] <= calls'
  <2>1. calls \in Nat /\ lastUse[j] \in Nat /\ lastUse[j] <= calls
    BY DEF IInv, TypeOK, HistoryMatches
  <2>2. lastUse'[j] \in {lastUse[j], calls + 1}
    BY DEF IInv, TypeOK, Use
  <2> QED
    BY <2>1, <2>2
<1>2. ASSUME NEW j \in Key, Stored(j)' PROVE items'[j].createdAt = lastPut'[j]
  BY <1>2 DEF IInv, TypeOK, HistoryMatches, Stored
<1> QED
  BY <1>1, <1>2 DEF HistoryMatches

LEMMA TogetherStep == IInv /\ [Next]_vars => Together'
<1> SUFFICES ASSUME IInv, [Next]_vars PROVE Together'
  OBVIOUS
<1> USE DEF Together
<1>0. TypeOK /\ MapMatchesList /\ HistoryMatches
  BY DEF IInv
<1>1. ASSUME NEW k \in Key, GetMiss(k), maxEntries' = maxEntries PROVE Together'
  BY <1>1, CallsGrow, KeptStep DEF GetMiss
<1>2. ASSUME NEW k \in Key, GetExpired(k), maxEntries' = maxEntries PROVE Together'
  BY <1>2, CallsGrow, DroppedStep DEF GetExpired
<1>3. ASSUME NEW k \in Key, GetHit(k), maxEntries' = maxEntries PROVE Together'
  <2>1. MapMatchesList' /\ ListIsRecencyOrder'
    <3>1. \A j \in Key : Stored(j)' <=> Stored(j)
      BY <1>3 DEF GetHit, Stored
    <3> QED
      BY <1>3, <3>1, MovedStep DEF GetHit, Use
  <2>2. HistoryMatches'
    <3>1. calls \in Nat /\ calls' = calls + 1
      BY <1>3, CallsGrow DEF GetHit
    <3>2. \A j \in Key : lastUse[j] \in Nat /\ lastUse[j] <= calls /\ lastUse'[j] \in {lastUse[j], calls + 1}
      BY <1>0, <1>3 DEF TypeOK, HistoryMatches, GetHit, Use
    <3>3. \A j \in Key : lastUse'[j] <= calls'
      BY <3>1, <3>2
    <3> QED
      BY <1>0, <1>3, <3>3 DEF HistoryMatches, GetHit, Stored
  <2> QED
    BY <2>1, <2>2
<1>4. ASSUME NEW k \in Key, Remove(k), maxEntries' = maxEntries PROVE Together'
  <2>1. CASE Stored(k)
    BY <1>4, <2>1, CallsGrow, DroppedStep DEF Remove
  <2>2. CASE ~Stored(k)
    BY <1>4, <2>2, CallsGrow, KeptStep DEF Remove
  <2> QED
    BY <2>1, <2>2
<1>5. ASSUME NEW k \in Key, NEW v \in Value, PutDisabled(k, v), maxEntries' = maxEntries PROVE Together'
  BY <1>5, CallsGrow, KeptStep DEF PutDisabled
<1>6. ASSUME NEW k \in Key, NEW v \in Value, PutReplace(k, v), maxEntries' = maxEntries PROVE Together'
  <2>1. [value |-> v, createdAt |-> clock] # Nothing /\ items \in [Key -> Entry \cup {Nothing}]
    BY <1>0 DEF TypeOK, Entry
  <2>2. MapMatchesList' /\ ListIsRecencyOrder'
    <3>1. \A j \in Key : Stored(j)' <=> Stored(j)
      BY <1>6, <2>1 DEF PutReplace, Stored
    <3> QED
      BY <1>6, <3>1, MovedStep DEF PutReplace, Use
  <2>3. HistoryMatches'
    <3>1. calls' = calls + 1
      BY <1>6, CallsGrow DEF PutReplace
    <3> QED
      BY <1>6, <2>1, <3>1, PutHistory DEF PutReplace
  <2> QED
    BY <2>2, <2>3
<1>7. ASSUME NEW k \in Key, NEW v \in Value, PutInsert(k, v), maxEntries' = maxEntries PROVE Together'
  <2>1. /\ [value |-> v, createdAt |-> clock] # Nothing /\ items \in [Key -> Entry \cup {Nothing}]
        /\ Len(order) \in Nat /\ maxEntries \in Nat /\ Len(order) <= maxEntries /\ maxEntries > 0
    BY <1>0, <1>7 DEF TypeOK, Entry, MapMatchesList, PutInsert
  <2>2. items' = [j \in Key |-> IF j = k THEN [value |-> v, createdAt |-> clock]
                                ELSE IF j \in Overflowing(k) THEN Nothing ELSE items[j]]
    BY <1>7 DEF PutInsert
  <2>3. \A j \in Key : Stored(j)' <=> j = k \/ (Stored(j) /\ j \notin Overflowing(k))
    BY <2>1, <2>2 DEF Stored
  <2>4. MapMatchesList' /\ ListIsRecencyOrder'
    <3>0. ~Stored(k) /\ lastUse' = [lastUse EXCEPT ![k] = calls + 1]
      BY <1>7 DEF PutInsert, Use
    <3>1. CASE Len(order) < maxEntries
      <4>1. PICK n \in Nat : n = Len(order)
        BY <2>1
      <4>2. n \in 0 .. Len(order) /\ n < maxEntries /\ ~(n < Len(order)) /\ order' = PushedBefore(k, n)
        BY <1>7, <2>1, <3>1, <4>1 DEF PutInsert
      <4> QED
        BY <1>7, <2>1, <2>3, <3>0, <4>2, PushedStep
    <3>2. CASE ~(Len(order) < maxEntries)
      <4>1. /\ maxEntries - 1 \in 0 .. Len(order) /\ maxEntries - 1 < maxEntries
            /\ (maxEntries - 1) + 1 = maxEntries
            /\ order' = PushedBefore(k, maxEntries - 1)
        BY <1>7, <2>1, <3>2 DEF PutInsert
      <4> QED
        BY <1>7, <2>1, <2>3, <3>0, <4>1, PushedStep
    <3> QED
      BY <3>1, <3>2
  <2>5. HistoryMatches'
    <3>1. calls' = calls + 1
      BY <1>7, CallsGrow DEF PutInsert
    <3>2. items'[k] = [value |-> v, createdAt |-> clock] /\ \A j \in Key \ {k} : items'[j] \in {items[j], Nothing}
      BY <2>2
    <3> QED
      BY <1>7, <3>1, <3>2, PutHistory DEF PutInsert
  <2> QED
    BY <2>4, <2>5
<1>8. ASSUME Clear, maxEntries' = maxEntries PROVE Together'
  <2>1. order' = <<>> /\ \A k \in Key : ~Stored(k)'
    BY <1>8 DEF Clear, Stored
  <2>2. maxEntries \in Nat /\ Len(<<>>) = 0 /\ DOMAIN <<>> = {}
    BY <1>0 DEF TypeOK
  <2>3. MapMatchesList' /\ ListIsRecencyOrder'
    BY <1>8, <2>1, <2>2 DEF MapMatchesList, ListIsRecencyOrder
  <2>4. calls \in Nat /\ calls' = calls + 1 /\ \A k \in Key : lastUse[k] \in Nat /\ lastUse[k] <= calls
    BY <1>0, <1>8, CallsGrow DEF Clear, TypeOK, HistoryMatches
  <2>5. \A k \in Key : lastUse[k] <= calls'
    BY <2>4
  <2> QED
    BY <1>8, <2>1, <2>3, <2>5 DEF Clear, HistoryMatches
<1>9. ASSUME Rejected, maxEntries' = maxEntries PROVE Together'
  BY <1>9, CallsGrow, KeptStep DEF Rejected
<1>10. ASSUME Tick, maxEntries' = maxEntries PROVE Together'
  BY <1>0, <1>10, KeptStep DEF Tick, TypeOK
<1>11. CASE UNCHANGED vars
  BY <1>0, <1>11, KeptStep DEF vars, TypeOK
<1> QED
  BY <1>1, <1>2, <1>3, <1>4, <1>5, <1>6, <1>7, <1>8, <1>9, <1>10, <1>11 DEF Next, Call

LEMMA InitIInv == Init => IInv
<1> SUFFICES ASSUME Init PROVE IInv
  OBVIOUS
<1>1. order = <<>> /\ Len(<<>>) = 0 /\ DOMAIN <<>> = {} /\ order \in Seq(Key)
  BY DEF Init
<1>2. TypeOK
  BY <1>1 DEF Init, TypeOK
<1>3. maxEntries \in Nat
  BY DEF Init
<1> QED
  BY <1>1, <1>2, <1>3 DEF Init, IInv, MapMatchesList, ListIsRecencyOrder, HistoryMatches, Stored

LEMMA Invariance == Spec => []IInv
<1>1. IInv /\ [Next]_vars => IInv'
  BY TypeStep, TogetherStep DEF IInv, Together
<1> QED
  BY <1>1, InitIInv, PTL DEF Spec

(* The variables always have their types.                                  *)
THEOREM TypeCorrect == Spec => []TypeOK
<1>1. IInv => TypeOK
  BY DEF IInv
<1> QED
  BY <1>1, Invariance, PTL

(* The map and the list of the cache hold the same keys, each once, and no *)
(* more than the capacity, after any calls.                                *)
THEOREM MapAndListAgree == Spec => []MapMatchesList
<1>1. IInv => MapMatchesList
  BY DEF IInv
<1> QED
  BY <1>1, Invariance, PTL

(* The list is the order of use, most recent first, after any calls.       *)
THEOREM ListIsOrderOfUse == Spec => []ListIsRecencyOrder
<1>1. IInv => ListIsRecencyOrder
  BY DEF IInv
<1> QED
  BY <1>1, Invariance, PTL

-----------------------------------------------------------------------------
(* Which step counts what.                                                 *)
LEMMA CountsOnly ==
  ASSUME IInv, NEW n, Count(n), NEW c \in Counter, c \notin DOMAIN n
  PROVE  ~(stats'[c] > stats[c])
BY DEF IInv, TypeOK, Count

LEMMA SameCount ==
  ASSUME IInv, stats' = stats, NEW c \in Counter
  PROVE  ~(stats'[c] > stats[c])
BY DEF IInv, TypeOK

LEMMA OnlyInsertEvicts ==
  ASSUME IInv, [Next]_vars, stats'["evictions"] > stats["evictions"]
  PROVE  \E k \in Key, v \in Value : PutInsert(k, v) /\ Len(order) >= maxEntries /\ maxEntries' = maxEntries
<1>1. ASSUME NEW k \in Key PROVE ~GetMiss(k) /\ ~GetExpired(k) /\ ~GetHit(k)
  BY <1>1, CountsOnly DEF GetMiss, GetExpired, GetHit, Counter
<1>2. ASSUME NEW k \in Key PROVE ~Remove(k)
  BY CountsOnly DEF Remove, Counter
<1>3. ASSUME NEW k \in Key, NEW v \in Value PROVE ~PutDisabled(k, v) /\ ~PutReplace(k, v)
  BY CountsOnly DEF PutDisabled, PutReplace, Counter
<1>4. ~Clear /\ ~Rejected
  BY CountsOnly DEF Clear, Rejected, Counter
<1>5. ~Tick /\ ~UNCHANGED vars
  BY SameCount DEF Tick, vars, Counter
<1>6. ASSUME NEW k \in Key, NEW v \in Value, PutInsert(k, v) PROVE Len(order) >= maxEntries
  <2>1. CASE Len(order) < maxEntries
    <3>1. Count([puts |-> 1])
      BY <1>6, <2>1 DEF PutInsert
    <3> QED
      BY <3>1, CountsOnly DEF Counter
  <2> QED
    BY <2>1 DEF IInv, TypeOK
<1> QED
  BY <1>1, <1>2, <1>3, <1>4, <1>5, <1>6 DEF Next, Call

LEMMA SameNumber ==
  ASSUME NEW a \in Nat, NEW b \in Nat, a <= b, a >= b
  PROVE  a = b
OBVIOUS

(* An insertion into a full cache drops the last of the list alone.        *)
LEMMA EvictionStep ==
  ASSUME IInv, NEW k \in Key, NEW v \in Value, PutInsert(k, v), Len(order) >= maxEntries,
         maxEntries' = maxEntries
  PROVE  /\ Len(order) = maxEntries /\ Len(order') = maxEntries
         /\ \E j \in Key : /\ Stored(j) /\ ~Stored(j)'
                           /\ \A i \in Key : Stored(i)' => lastUse[j] < lastUse'[i]
<1>1. /\ TypeOK /\ MapMatchesList /\ order \in Seq(Key) /\ DOMAIN order = 1 .. Len(order)
      /\ Len(order) = maxEntries /\ maxEntries \in Nat /\ maxEntries > 0 /\ calls \in Nat
  <2>1. TypeOK /\ MapMatchesList
    BY DEF IInv
  <2>2. order \in Seq(Key) /\ DOMAIN order = 1 .. Len(order) /\ Len(order) \in Nat /\ maxEntries \in Nat /\ calls \in Nat
    BY <2>1 DEF TypeOK
  <2>3. Len(order) <= maxEntries
    BY <2>1 DEF MapMatchesList
  <2>4. maxEntries > 0
    BY DEF PutInsert
  <2>5. Len(order) = maxEntries
    BY <2>2, <2>3, SameNumber, Zenon
  <2> QED
    BY <2>1, <2>2, <2>4, <2>5, Zenon
<1>2. Len(order') = maxEntries
  <2>1. maxEntries - 1 \in 0 .. Len(order) /\ order' = PushedBefore(k, maxEntries - 1)
    BY <1>1 DEF PutInsert
  <2>2. Len(order') = (maxEntries - 1) + 1
    BY <1>1, <2>1, Pushed
  <2> QED
    BY <1>1, <2>2
<1>last. PICK j \in Key : j = order[maxEntries]
  BY <1>1
<1>3. maxEntries \in DOMAIN order /\ j \in Key /\ Stored(j) /\ j # k
  BY <1>1, <1>last DEF MapMatchesList, PutInsert
<1>4. \A i \in Key : items'[i] = IF i = k THEN [value |-> v, createdAt |-> clock]
                                 ELSE IF i \in Overflowing(k) THEN Nothing ELSE items[i]
  BY DEF PutInsert
<1>5. j \in Overflowing(k)
  BY <1>1, <1>3, <1>last DEF Overflowing
<1>6. ~Stored(j)'
  BY <1>3, <1>4, <1>5 DEF Stored
<1>7. ASSUME NEW i \in Key, Stored(i)' PROVE lastUse[j] < lastUse'[i]
  <2>1. lastUse' = [lastUse EXCEPT ![k] = calls + 1] /\ lastUse \in [Key -> Nat] /\ lastUse[j] <= calls
    BY <1>1, <1>3 DEF IInv, TypeOK, HistoryMatches, PutInsert, Use
  <2>2. CASE i = k
    BY <1>1, <1>3, <2>1, <2>2
  <2>3. CASE i # k
    <3>1. Stored(i) /\ i \notin Overflowing(k)
      BY <1>4, <1>7, <2>3 DEF Stored
    <3>2. PICK m \in DOMAIN order : order[m] = i
      BY <1>1, <3>1 DEF MapMatchesList
    <3>3. m < maxEntries
      BY <1>1, <3>1, <3>2 DEF Overflowing
    <3>4. lastUse[order[m]] > lastUse[order[maxEntries]]
      BY <1>1, <1>3, <3>3 DEF IInv, ListIsRecencyOrder
    <3>5. lastUse'[i] = lastUse[i] /\ lastUse[i] \in Nat /\ lastUse[j] \in Nat
      BY <1>3, <2>1, <2>3
    <3> QED
      BY <1>last, <3>2, <3>4, <3>5
  <2> QED
    BY <2>2, <2>3
<1> QED
  BY <1>1, <1>2, <1>3, <1>6, <1>7

(* An eviction drops one entry of a full cache, the least recently used.   *)
THEOREM LeastRecentlyUsedGoes == Spec => EvictsLeastRecentlyUsed
<1> DEFINE Evicts ==
      stats'["evictions"] > stats["evictions"] =>
         /\ Len(order) = maxEntries /\ Len(order') = maxEntries
         /\ \E k \in Key :
               /\ Stored(k) /\ ~Stored(k)'
               /\ \A j \in Key : Stored(j)' => lastUse[k] < lastUse'[j]
<1>1. IInv /\ [Next]_vars => [Evicts]_vars
  <2> SUFFICES ASSUME IInv, [Next]_vars, stats'["evictions"] > stats["evictions"]
               PROVE  /\ Len(order) = maxEntries /\ Len(order') = maxEntries
                      /\ \E k \in Key :
                            /\ Stored(k) /\ ~Stored(k)'
                            /\ \A j \in Key : Stored(j)' => lastUse[k] < lastUse'[j]
    OBVIOUS
  <2>1. PICK k \in Key, v \in Value : PutInsert(k, v) /\ Len(order) >= maxEntries /\ maxEntries' = maxEntries
    BY OnlyInsertEvicts
  <2> QED
    BY <2>1, EvictionStep
<1> QED
  BY <1>1, Invariance, PTL DEF Spec, EvictsLeastRecentlyUsed

LEMMA OnlyHitsHit ==
  ASSUME IInv, [Next]_vars, stats'["hits"] > stats["hits"]
  PROVE  \E k \in Key : GetHit(k)
<1>1. ASSUME NEW k \in Key PROVE ~GetMiss(k) /\ ~GetExpired(k)
  BY CountsOnly DEF GetMiss, GetExpired, Counter
<1>2. ASSUME NEW k \in Key PROVE ~Remove(k)
  BY CountsOnly DEF Remove, Counter
<1>3. ASSUME NEW k \in Key, NEW v \in Value PROVE ~PutDisabled(k, v) /\ ~PutReplace(k, v)
  BY CountsOnly DEF PutDisabled, PutReplace, Counter
<1>4. ASSUME NEW k \in Key, NEW v \in Value PROVE ~PutInsert(k, v)
  BY CountsOnly DEF PutInsert, Counter
<1>5. ~Clear /\ ~Rejected
  BY CountsOnly DEF Clear, Rejected, Counter
<1>6. ~Tick /\ ~UNCHANGED vars
  BY SameCount DEF Tick, vars, Counter
<1> QED
  BY <1>1, <1>2, <1>3, <1>4, <1>5, <1>6 DEF Next, Call

(* A hit answers an entry that was put at most the time to live ago.       *)
THEOREM HitsAreFresh == Spec => HitsWithinTTL
<1> DEFINE Fresh ==
      TTL > 0 /\ stats'["hits"] > stats["hits"] =>
         \A k \in Key : lastUse'[k] # lastUse[k] => clock - lastPut[k] <= TTL
<1>1. IInv /\ [Next]_vars => [Fresh]_vars
  <2> SUFFICES ASSUME IInv, [Next]_vars, TTL > 0, stats'["hits"] > stats["hits"],
                      NEW k \in Key, lastUse'[k] # lastUse[k]
               PROVE  clock - lastPut[k] <= TTL
    OBVIOUS
  <2>1. PICK h \in Key : GetHit(h)
    BY OnlyHitsHit
  <2>2. h = k
    BY <2>1 DEF IInv, TypeOK, GetHit, Use
  <2>3. items[k].createdAt = lastPut[k] /\ lastPut[k] \in Nat /\ clock \in Nat
    BY <2>1, <2>2 DEF IInv, TypeOK, HistoryMatches, GetHit
  <2> QED
    BY <2>1, <2>2, <2>3 DEF GetHit, Expired
<1> QED
  BY <1>1, Invariance, PTL DEF Spec, HitsWithinTTL

-----------------------------------------------------------------------------
(* What the contract sees.                                                 *)
View == [k \in Key |-> IF Stored(k) THEN items[k].value ELSE Nothing]

LEMMA ViewType ==
  ASSUME TypeOK
  PROVE  /\ View \in [Key -> Value \cup {Nothing}]
         /\ \A k \in Key : Stored(k) => View[k] = items[k].value /\ View[k] # Nothing
         /\ \A k \in Key : ~Stored(k) => View[k] = Nothing
BY DEF TypeOK, View, Stored, Entry

LEMMA ViewLoses ==                    \* entries go, the others stay as they are
  ASSUME TypeOK, TypeOK', \A j \in Key : items'[j] \in {items[j], Nothing}
  PROVE  Contract!LosesOnly(View, View')
<1>1. View' \in [Key -> Value \cup {Nothing}]
  BY DEF TypeOK, View, Stored, Entry
<1>2. \A k \in Key : View'[k] \in {View[k], Nothing}
  BY DEF TypeOK, View, Stored, Entry
<1> QED
  BY <1>1, <1>2 DEF Contract!LosesOnly

LEMMA ViewPuts ==                     \* one key has a new value, others may go
  ASSUME TypeOK, TypeOK', NEW k \in Key, NEW v \in Value,
         items'[k] = [value |-> v, createdAt |-> clock],
         \A j \in Key \ {k} : items'[j] \in {items[j], Nothing}
  PROVE  Contract!LosesOnly([View EXCEPT ![k] = v], View')
<1>1. View' \in [Key -> Value \cup {Nothing}]
  BY DEF TypeOK, View, Stored, Entry
<1>2. [value |-> v, createdAt |-> clock] # Nothing /\ View'[k] = v
  BY DEF TypeOK, View, Stored, Entry
<1>3. \A j \in Key \ {k} : View'[j] \in {View[j], Nothing}
  BY DEF TypeOK, View, Stored, Entry
<1>4. \A j \in Key : View'[j] \in {[View EXCEPT ![k] = v][j], Nothing}
  BY <1>2, <1>3 DEF View
<1> QED
  BY <1>1, <1>4 DEF Contract!LosesOnly

(* A MemoryCache is a Cache as the sessions expect it.                     *)
THEOREM ImplementsCache == Spec => ImplementsContract
<1>1. Init => Contract!Init
  BY DEF Init, Contract!Init, Contract!NoReply, Stored
<1>2. IInv /\ IInv' /\ [Next]_vars => [Contract!Next]_(Contract!vars)
  <2> SUFFICES ASSUME IInv, IInv', [Next]_vars
               PROVE  Contract!Next \/ UNCHANGED Contract!vars
    OBVIOUS
  <2>0. TypeOK /\ TypeOK' /\ View = [k \in Key |-> IF Stored(k) THEN items[k].value ELSE Nothing]
    BY DEF IInv, View
  <2> DEFINE Lost == \A j \in Key : items'[j] \in {items[j], Nothing}
  <2>loss. ASSUME Lost PROVE Contract!LosesOnly(View, View')
    BY <2>0, <2>loss, ViewLoses
  <2>1. ASSUME NEW k \in Key, GetMiss(k) \/ GetExpired(k) PROVE Contract!Miss(k)
    <3>1. Lost
      BY <2>0, <2>1 DEF TypeOK, GetMiss, GetExpired
    <3>2. reply' = [op |-> "get", keys |-> {k}, value |-> Nothing]
      BY <2>1 DEF GetMiss, GetExpired, Answer
    <3> QED
      BY <2>loss, <3>1, <3>2 DEF Contract!Miss, Contract!Answer, View
  <2>2. ASSUME NEW k \in Key, GetHit(k) PROVE Contract!Hit(k)
    <3>1. Lost
      BY <2>2 DEF GetHit
    <3>2. reply' = [op |-> "get", keys |-> {k}, value |-> View[k]] /\ View[k] # Nothing
      BY <2>0, <2>2, ViewType DEF GetHit, Answer
    <3> QED
      BY <2>loss, <3>1, <3>2 DEF Contract!Hit, Contract!Answer, View
  <2>3. ASSUME NEW k \in Key, Remove(k) PROVE Contract!Remove(k)
    <3>1. reply' = [op |-> "remove", keys |-> {k}, value |-> Nothing]
      BY <2>3 DEF Remove, Answer
    <3>2. View' \in [Key -> Value \cup {Nothing}] /\ \A j \in Key : View'[j] \in {View[j], Nothing}
      <4>1. Lost
        BY <2>0, <2>3 DEF TypeOK, Remove
      <4> QED
        BY <2>loss, <4>1 DEF Contract!LosesOnly
    <3>3. View'[k] = Nothing
      BY <2>0, <2>3 DEF TypeOK, Remove, View, Stored
    <3>4. \A j \in Key : View'[j] \in {[View EXCEPT ![k] = Nothing][j], Nothing}
      BY <3>2, <3>3 DEF View
    <3>5. Contract!LosesOnly([View EXCEPT ![k] = Nothing], View')
      BY <3>2, <3>4 DEF Contract!LosesOnly
    <3> QED
      BY <3>1, <3>5 DEF Contract!Remove, Contract!Answer, View
  <2>4. ASSUME NEW k \in Key, NEW v \in Value, PutDisabled(k, v) \/ PutReplace(k, v) \/ PutInsert(k, v)
        PROVE  Contract!Put(k, v)
    <3>1. reply' = [op |-> "put", keys |-> {k}, value |-> v]
      BY <2>4 DEF PutDisabled, PutReplace, PutInsert, Answer
    <3>2. CASE PutReplace(k, v) \/ PutInsert(k, v)
      <4>1. /\ items'[k] = [value |-> v, createdAt |-> clock]
            /\ \A j \in Key \ {k} : items'[j] \in {items[j], Nothing}
        BY <2>0, <3>2 DEF TypeOK, PutReplace, PutInsert
      <4>2. Contract!LosesOnly([View EXCEPT ![k] = v], View')
        BY <2>0, <4>1, ViewPuts
      <4> QED
        BY <3>1, <4>2 DEF Contract!Put, Contract!Answer, View
    <3>3. CASE PutDisabled(k, v)
      <4>1. ASSUME NEW j \in Key PROVE ~Stored(j)
        <5>1. DOMAIN order = 1 .. Len(order) /\ Len(order) \in Nat /\ Len(order) <= 0
          BY <3>3 DEF IInv, TypeOK, MapMatchesList, PutDisabled
        <5> QED
          BY <5>1 DEF IInv, MapMatchesList
      <4>2. View' \in [Key -> Value \cup {Nothing}] /\ \A j \in Key : View'[j] = Nothing
        BY <2>0, <3>3, <4>1 DEF PutDisabled, View, Stored
      <4>3. Contract!LosesOnly([View EXCEPT ![k] = v], View')
        BY <4>2 DEF Contract!LosesOnly
      <4> QED
        BY <3>1, <4>3 DEF Contract!Put, Contract!Answer, View
    <3> QED
      BY <2>4, <3>2, <3>3
  <2>5. ASSUME Clear PROVE Contract!Clear(Key)
    <3>1. reply' = [op |-> "clear", keys |-> Key, value |-> Nothing]
      BY <2>5 DEF Clear, Answer
    <3>2. View' \in [Key -> Value \cup {Nothing}] /\ \A j \in Key : View'[j] = Nothing
      BY <2>0, <2>5 DEF Clear, View, Stored
    <3>3. Contract!LosesOnly([j \in Key |-> IF j \in Key THEN Nothing ELSE View[j]], View')
      BY <3>2 DEF Contract!LosesOnly
    <3> QED
      BY <3>1, <3>3 DEF Contract!Clear, Contract!Answer, View
  <2>6. ASSUME Rejected PROVE Contract!Fail({})
    <3>1. reply' = [op |-> "error", keys |-> {}, value |-> Nothing] /\ Lost
      BY <2>6 DEF Rejected, Answer
    <3> QED
      BY <2>loss, <3>1 DEF Contract!Fail, Contract!Answer, View
  <2>7. ASSUME Tick \/ UNCHANGED vars PROVE UNCHANGED Contract!vars
    BY <2>7 DEF Tick, vars, Contract!vars, Stored
  <2>8. {} \in SUBSET Key /\ Key \in SUBSET Key
    OBVIOUS
  <2> QED
    BY <2>1, <2>2, <2>3, <2>4, <2>5, <2>6, <2>7, <2>8 DEF Next, Call, Contract!Next
<1> QED
  BY <1>1, <1>2, Invariance, PTL DEF Spec, ImplementsContract, Contract!Spec
=============================================================================
