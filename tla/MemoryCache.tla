---------------------------- MODULE MemoryCache ----------------------------
(***************************************************************************)
(* MemoryCache (internal/runtime/cache.go): the bounded LRU cache with an  *)
(* optional time to live that every Mapper namespace uses by default.      *)
(*                                                                         *)
(* Every method runs under one mutex, so a call is one step.  The list     *)
(* `order' holds the keys, most recently used first, and `items' maps a    *)
(* key to its list element.  Expiry is noticed only by the Get of the      *)
(* expired key.                                                            *)
(***************************************************************************)
EXTENDS Integers, Sequences

CONSTANTS
    Key, Value,
    Nothing,       \* no value, no entry
    Capacity,      \* the capacities a cache may be configured with
    TTL,           \* time to live; 0 never expires
    MaxOps,        \* bound: calls in a behaviour
    MaxClock       \* bound: the clock's last instant

Entry == [value : Value, createdAt : Nat]

ASSUME NothingIsNeither == Nothing \notin Value \cup Entry
ASSUME BoundsAreNat ==
    /\ Capacity \subseteq Nat /\ TTL \in Nat
    /\ MaxOps \in Nat /\ MaxClock \in Nat

VARIABLES
    maxEntries,  \* capacity; 0 stores nothing
    items,     \* key -> [value, createdAt], or Nothing
    order,     \* the keys, most recently used first
    stats,     \* the counters of CacheStats
    clock,     \* the time now() returns
    reply,     \* the last answer the cache gave
    calls,     \* history: how many calls were made
    lastUse,   \* history: the number of the call that last used each key
    lastPut    \* history: the time of the last Put of each key

vars == <<maxEntries, items, order, stats, clock, reply, calls, lastUse, lastPut>>

Counter == {"hits", "misses", "puts", "removes", "clears", "evictions", "expirations"}

Init ==
    /\ maxEntries \in Capacity
    /\ items = [k \in Key |-> Nothing]
    /\ order = <<>>
    /\ stats = [c \in Counter |-> 0]
    /\ clock = 0
    /\ reply = [op |-> "none", keys |-> {}, value |-> Nothing]
    /\ calls = 0
    /\ lastUse = [k \in Key |-> 0]
    /\ lastPut = [k \in Key |-> 0]

Answer(op, ks, value) == reply' = [op |-> op, keys |-> ks, value |-> value]

(* One call, which adds n[c] to the counters c it concerns. *)
Count(n) ==
    /\ calls < MaxOps
    /\ calls' = calls + 1
    /\ stats' = [c \in Counter |-> IF c \in DOMAIN n THEN stats[c] + n[c] ELSE stats[c]]

Use(k) == lastUse' = [lastUse EXCEPT ![k] = calls + 1]

Stored(k) == items[k] # Nothing
Position(k) == CHOOSE i \in DOMAIN order : order[i] = k
Seqs == INSTANCE SequencesExt
Without(k) == Seqs!RemoveAt(order, Position(k))
ToFront(k) == <<k>> \o Without(k)
PushedBefore(k, n) == <<k>> \o SubSeq(order, 1, n)
Expired(k) == TTL > 0 /\ clock - items[k].createdAt > TTL

(***************************************************************************)
(* Get: a miss, an expired entry (which is removed), or a hit that moves   *)
(* the entry to the front.                                                 *)
(***************************************************************************)
GetMiss(k) ==
    /\ ~Stored(k)
    /\ Count([misses |-> 1])
    /\ Answer("get", {k}, Nothing)
    /\ UNCHANGED <<items, order, clock, lastUse, lastPut>>

GetExpired(k) ==
    /\ Stored(k) /\ Expired(k)
    /\ items' = [items EXCEPT ![k] = Nothing]
    /\ order' = Without(k)
    /\ Count([misses |-> 1, expirations |-> 1])
    /\ Answer("get", {k}, Nothing)
    /\ UNCHANGED <<clock, lastUse, lastPut>>

(* Fault: a hit starts the entry's life anew. *)
GetHitRenews(k) ==
    /\ Stored(k) /\ ~Expired(k)
    /\ items' = [items EXCEPT ![k].createdAt = clock]
    /\ order' = ToFront(k)
    /\ Count([hits |-> 1])
    /\ Answer("get", {k}, items[k].value)
    /\ Use(k)
    /\ UNCHANGED <<clock, lastPut>>

GetHit(k) ==
    /\ Stored(k) /\ ~Expired(k)
    /\ order' = ToFront(k)
    /\ Count([hits |-> 1])
    /\ Answer("get", {k}, items[k].value)
    /\ Use(k)
    /\ UNCHANGED <<items, clock, lastPut>>

(***************************************************************************)
(* Put: nothing at capacity 0; otherwise the entry is replaced, or pushed  *)
(* to the front and the entries beyond the capacity are evicted from the   *)
(* back.                                                                   *)
(***************************************************************************)
PutDisabled(k, v) ==
    /\ maxEntries = 0
    /\ Count([puts |-> 1])
    /\ Answer("put", {k}, v)
    /\ UNCHANGED <<items, order, clock, lastUse, lastPut>>

(* Fault: a Put of a stored key does not move its entry. *)
PutReplaceInPlace(k, v) ==
    /\ maxEntries > 0 /\ Stored(k)
    /\ items' = [items EXCEPT ![k] = [value |-> v, createdAt |-> clock]]
    /\ Count([puts |-> 1])
    /\ Answer("put", {k}, v)
    /\ Use(k) /\ lastPut' = [lastPut EXCEPT ![k] = clock]
    /\ UNCHANGED <<order, clock>>

(* Fault: a Put of a stored key keeps the old value. *)
PutReplaceKeepsValue(k, v) ==
    /\ maxEntries > 0 /\ Stored(k)
    /\ items' = [items EXCEPT ![k].createdAt = clock]
    /\ order' = ToFront(k)
    /\ Count([puts |-> 1])
    /\ Answer("put", {k}, v)
    /\ Use(k) /\ lastPut' = [lastPut EXCEPT ![k] = clock]
    /\ UNCHANGED clock

PutReplace(k, v) ==
    /\ maxEntries > 0 /\ Stored(k)
    /\ items' = [items EXCEPT ![k] = [value |-> v, createdAt |-> clock]]
    /\ order' = ToFront(k)
    /\ Count([puts |-> 1])
    /\ Answer("put", {k}, v)
    /\ Use(k) /\ lastPut' = [lastPut EXCEPT ![k] = clock]
    /\ UNCHANGED clock

(* The keys beyond the capacity once k is at the front. *)
Overflowing(k) == {order[i] : i \in {j \in DOMAIN order : j >= maxEntries}}

PutInsert(k, v) ==
    /\ maxEntries > 0 /\ ~Stored(k)
    /\ items' = [j \in Key |-> IF j = k THEN [value |-> v, createdAt |-> clock]
                               ELSE IF j \in Overflowing(k) THEN Nothing ELSE items[j]]
    /\ IF Len(order) < maxEntries
       THEN /\ order' = PushedBefore(k, Len(order))
            /\ Count([puts |-> 1])
       ELSE /\ order' = PushedBefore(k, maxEntries - 1)
            /\ Count([puts |-> 1, evictions |-> Len(order) + 1 - maxEntries])
    /\ Answer("put", {k}, v)
    /\ Use(k) /\ lastPut' = [lastPut EXCEPT ![k] = clock]
    /\ UNCHANGED clock

Remove(k) ==
    /\ IF Stored(k)
       THEN /\ items' = [items EXCEPT ![k] = Nothing]
            /\ order' = Without(k)
            /\ Count([removes |-> 1])
       ELSE Count(<<>>) /\ UNCHANGED <<items, order>>
    /\ Answer("remove", {k}, Nothing)
    /\ UNCHANGED <<clock, lastUse, lastPut>>

Clear ==
    /\ items' = [k \in Key |-> Nothing]
    /\ order' = <<>>
    /\ Count([clears |-> 1])
    /\ Answer("clear", Key, Nothing)
    /\ UNCHANGED <<clock, lastUse, lastPut>>

(* requireCacheContext: a call whose context is done changes nothing. *)
Rejected ==
    /\ Count(<<>>)
    /\ Answer("error", {}, Nothing)
    /\ UNCHANGED <<items, order, clock, lastUse, lastPut>>

Tick ==
    /\ clock < MaxClock
    /\ clock' = clock + 1
    /\ UNCHANGED <<items, order, stats, reply, calls, lastUse, lastPut>>

Call ==
    \/ \E k \in Key :
          \/ GetMiss(k) \/ GetExpired(k) \/ GetHit(k) \/ Remove(k)
          \/ \E v \in Value : PutDisabled(k, v) \/ PutReplace(k, v) \/ PutInsert(k, v)
    \/ Clear \/ Rejected

Next == (Call \/ Tick) /\ UNCHANGED maxEntries

Spec == Init /\ [][Next]_vars
(***************************************************************************)
(* Properties.                                                             *)
(***************************************************************************)

(* The variables have the types of the struct's fields. *)
TypeOK ==
    /\ maxEntries \in Capacity
    /\ items \in [Key -> Entry \cup {Nothing}]
    /\ order \in Seq(Key)
    /\ stats \in [Counter -> Nat]
    /\ clock \in Nat /\ calls \in Nat
    /\ reply \in [op : {"none", "get", "put", "remove", "clear", "error"},
                  keys : SUBSET Key, value : Value \cup {Nothing}]
    /\ lastUse \in [Key -> Nat] /\ lastPut \in [Key -> Nat]

(* The map and the list of MemoryCache never drift apart: the list holds   *)
(* every mapped key once and no other, and never exceeds the capacity.     *)
MapMatchesList ==
    /\ Len(order) <= maxEntries
    /\ \A i, j \in DOMAIN order : order[i] = order[j] => i = j
    /\ \A k \in Key : Stored(k) <=> \E i \in DOMAIN order : order[i] = k

(* The list is the true recency order: whichever of Get, Put, Remove and   *)
(* eviction touched it, a key nearer the front was used later.             *)
ListIsRecencyOrder ==
    \A i, j \in DOMAIN order : i < j => lastUse[order[i]] > lastUse[order[j]]

(* An eviction happens only at capacity, drops one entry, and that entry's *)
(* last use is older than the last use of every entry that stays.          *)
EvictsLeastRecentlyUsed ==
    [][stats'["evictions"] > stats["evictions"] =>
         /\ Len(order) = maxEntries /\ Len(order') = maxEntries
         /\ \E k \in Key :
               /\ Stored(k) /\ ~Stored(k)'
               /\ \A j \in Key : Stored(j)' => lastUse[k] < lastUse'[j]]_vars

(* A hit answers an entry at most TTL after the Put that wrote it: neither *)
(* a hit nor a move in the list extends an entry's life.                   *)
HitsWithinTTL ==
    [][TTL > 0 /\ stats'["hits"] > stats["hits"] =>
         \A k \in Key : lastUse'[k] # lastUse[k] => clock - lastPut[k] <= TTL]_vars

(* MemoryCache is a Cache: it implements the contract of the SPI, where    *)
(* what a Get may return is the value of the entry.                        *)
Contract == INSTANCE CacheContract WITH
    store <- [k \in Key |-> IF Stored(k) THEN items[k].value ELSE Nothing]

ImplementsContract == Contract!Spec
=============================================================================
