--------------------------- MODULE CacheContract ---------------------------
(***************************************************************************)
(* What the Cache SPI (internal/runtime/cache.go) promises to the sessions *)
(* that share a namespace cache, and nothing more: a lossy map.            *)
(*                                                                         *)
(* A hit returns the value of the last Put of its key, provided no Remove  *)
(* or Clear came in between.  An entry may be lost at any moment (LRU      *)
(* eviction, expiry, a capacity of zero), and a Get may miss at any time.  *)
(* A call may fail, and a failed call neither adds nor changes a value.    *)
(*                                                                         *)
(* MemoryCache and BlockingCache are shown to implement this module.       *)
(***************************************************************************)
CONSTANTS
    Key,        \* cache keys
    Value,      \* cached values
    Nothing     \* the value of an absent key

VARIABLES
    store,      \* what a Get may return for each key, or Nothing
    reply       \* the last answer the cache gave

vars == <<store, reply>>

NoReply == [op |-> "none", keys |-> {}, value |-> Nothing]

Answer(op, ks, value) == reply' = [op |-> op, keys |-> ks, value |-> value]

(* new holds what old holds, except for entries that were lost. *)
LosesOnly(old, new) ==
    /\ new \in [Key -> Value \cup {Nothing}]
    /\ \A k \in Key : new[k] \in {old[k], Nothing}

Init ==
    /\ store = [k \in Key |-> Nothing]
    /\ reply = NoReply

Hit(k) ==
    /\ store[k] # Nothing
    /\ Answer("get", {k}, store[k])
    /\ LosesOnly(store, store')

Miss(k) ==
    /\ Answer("get", {k}, Nothing)
    /\ LosesOnly(store, store')

Put(k, v) ==
    /\ Answer("put", {k}, v)
    /\ LosesOnly([store EXCEPT ![k] = v], store')

Remove(k) ==
    /\ Answer("remove", {k}, Nothing)
    /\ LosesOnly([store EXCEPT ![k] = Nothing], store')

(* Clear empties the cache of one namespace, whose keys are ks. *)
Clear(ks) ==
    /\ Answer("clear", ks, Nothing)
    /\ LosesOnly([k \in Key |-> IF k \in ks THEN Nothing ELSE store[k]], store')

Fail(ks) ==
    /\ Answer("error", ks, Nothing)
    /\ LosesOnly(store, store')

Lose ==
    /\ LosesOnly(store, store')
    /\ UNCHANGED reply

Next ==
    \/ \E k \in Key :
          \/ Hit(k)
          \/ Miss(k)
          \/ \E v \in Value : Put(k, v)
          \/ Remove(k)
    \/ \E ks \in SUBSET Key : Clear(ks) \/ Fail(ks)
    \/ Lose

Spec == Init /\ [][Next]_vars
=============================================================================
