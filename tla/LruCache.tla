------------------------------- MODULE LruCache -------------------------------
(***************************************************************************)
(* util.LRUCache as Handler uses it, for the transports of the relays:      *)
(* getTransport calls Get, and without a transport createAndCacheTransport  *)
(* makes one and calls Set.  Get looks the element up under the read lock,  *)
(* moves it to the front under the write lock and reads its value under     *)
(* none, so that any Set may come in between.  Delete and Clear are not     *)
(* called by the program.                                                  *)
(*                                                                         *)
(* Abstractions: a value is the number of the Set that brought it, and an   *)
(* element the number of the Set that pushed it.  The order of the list is  *)
(* given by the elements in front of each.                                  *)
(***************************************************************************)
EXTENDS Integers, FiniteSets

CONSTANTS
  Keys,        \* keys: the addresses of relays
  Users,       \* goroutines: attempts of requests
  Nothing,     \* no element, no value
  MaxEntries,  \* LRUCache.maxEntries
  MaxSets      \* bound: calls of Set

ASSUME LruAssumption ==
  /\ Nothing \notin Nat
  /\ MaxEntries \in Nat \ {0} /\ MaxSets \in Nat

Values == 1..MaxSets

VARIABLES
  sets,        \* calls of Set so far
  entries,     \* LRUCache.entries: the element of each key
  list,        \* LRUCache.list: its elements
  ahead,       \* the elements of the list in front of each of them
  keyOf,       \* CacheEntry.Key
  cell,        \* CacheEntry.Value
  evicted,     \* how often onEvict was given a value
  step,        \* where each user stands
  key,         \* what it looks for
  elem,        \* Get: the element that it found
  hit,         \* the value that its last Get returned
  held,        \* history: values that the cache had for the key during the call
  overwritten  \* history: values that a Set replaced

cacheVars == <<sets, entries, list, ahead, keyOf, cell, evicted, overwritten>>
userVars == <<step, key, elem, hit>>
lruVars == <<cacheVars, userVars, held>>

LruTypeOK ==
  /\ sets \in 0..MaxSets
  /\ entries \in [Keys -> Values \cup {Nothing}]
  /\ list \subseteq Values /\ ahead \in [Values -> SUBSET Values]
  /\ keyOf \in [Values -> Keys \cup {Nothing}]
  /\ cell \in [Values -> Values \cup {Nothing}]
  /\ evicted \in [Values -> 0..1]
  /\ step \in [Users -> {"idle", "lookup", "touch", "read", "miss"}]
  /\ key \in [Users -> Keys \cup {Nothing}]
  /\ elem \in [Users -> Values \cup {Nothing}]
  /\ hit \in [Users -> Values \cup {Nothing}]
  /\ held \in [Users -> SUBSET Values]
  /\ overwritten \subseteq Values

LruInit ==
  /\ sets = 0
  /\ entries = [k \in Keys |-> Nothing]
  /\ list = {} /\ ahead = [e \in Values |-> {}]
  /\ keyOf = [e \in Values |-> Nothing] /\ cell = [e \in Values |-> Nothing]
  /\ evicted = [v \in Values |-> 0] /\ overwritten = {}
  /\ step = [u \in Users |-> "idle"] /\ key = [u \in Users |-> Nothing]
  /\ elem = [u \in Users |-> Nothing] /\ hit = [u \in Users |-> Nothing]
  /\ held = [u \in Users |-> {}]

-----------------------------------------------------------------------------
(* container/list.                                                         *)

\* PushFront, and MoveToFront of an element of the list.
ToFront(e) == [f \in Values |-> IF f = e THEN {} ELSE ahead[f] \cup {e}]

\* MoveToFront ignores an element that is in the list no more.
MoveToFront(e) ==
  /\ UNCHANGED list
  /\ ahead' = IF e \in list THEN ToFront(e) ELSE ahead

Back == {e \in list : list \ {e} \subseteq ahead[e]}

-----------------------------------------------------------------------------
(* Get.                                                                    *)

At(u, from, to) == step[u] = from /\ step' = [step EXCEPT ![u] = to]

CachedFor(k) == IF entries[k] = Nothing THEN {} ELSE {cell[entries[k]]}

Get(u, k) ==
  /\ At(u, "idle", "lookup")
  /\ key' = [key EXCEPT ![u] = k]
  /\ hit' = [hit EXCEPT ![u] = Nothing]
  /\ held' = [held EXCEPT ![u] = CachedFor(k)]
  /\ UNCHANGED <<cacheVars, elem>>

Lookup(u) ==
  /\ At(u, "lookup", IF entries[key[u]] = Nothing THEN "miss" ELSE "touch")
  /\ elem' = [elem EXCEPT ![u] = entries[key[u]]]
  /\ UNCHANGED <<cacheVars, key, hit, held>>

Touch(u) ==
  /\ At(u, "touch", "read")
  /\ MoveToFront(elem[u])
  /\ UNCHANGED <<sets, entries, keyOf, cell, evicted, overwritten, key, elem, hit, held>>

\* Mutant: the value is that of the element in front.
MutReadValue(u) ==
  /\ At(u, "read", "idle")
  /\ \E e \in list : ahead[e] \cap list = {} /\ hit' = [hit EXCEPT ![u] = cell[e]]
  /\ UNCHANGED <<cacheVars, key, elem, held>>

\* Without a lock: the value is a pointer, the old one or the new.
ReadValue(u) ==
  /\ At(u, "read", "idle")
  /\ hit' = [hit EXCEPT ![u] = cell[elem[u]]]
  /\ UNCHANGED <<cacheVars, key, elem, held>>

\* A user that misses makes a transport, unless there is no dialer for it.
NoDialer(u) ==
  /\ At(u, "miss", "idle")
  /\ UNCHANGED <<cacheVars, key, elem, hit, held>>

-----------------------------------------------------------------------------
(* Set, under the write lock.                                              *)

Setting(u) ==
  /\ At(u, "miss", "idle")
  /\ sets < MaxSets /\ sets' = sets + 1
  /\ UNCHANGED <<key, elem, hit>>
  /\ held' = [w \in Users |-> IF key[w] = key[u] THEN held[w] \cup {sets'} ELSE held[w]]

\* Two users that miss together: the later value replaces the earlier one,
\* and onEvict is not called.
Overwrite(u) ==
  /\ Setting(u)
  /\ LET e == entries[key[u]] IN
     /\ e # Nothing
     /\ overwritten' = overwritten \cup {cell[e]}
     /\ cell' = [cell EXCEPT ![e] = sets']
     /\ MoveToFront(e)
  /\ UNCHANGED <<entries, keyOf, evicted>>

\* A new element is pushed to the front.
Push(u) ==
  /\ entries[key[u]] = Nothing
  /\ keyOf' = [keyOf EXCEPT ![sets'] = key[u]]
  /\ cell' = [cell EXCEPT ![sets'] = sets']
  /\ ahead' = ToFront(sets')
  /\ UNCHANGED overwritten

Insert(u) ==
  /\ Setting(u) /\ Push(u)
  /\ Cardinality(list) < MaxEntries
  /\ list' = list \cup {sets'}
  /\ entries' = [entries EXCEPT ![key[u]] = sets']
  /\ UNCHANGED evicted

\* Mutant: the key of the element that is evicted is left in the map.
MutForget(e, u) == entries' = [entries EXCEPT ![key[u]] = sets']

Forget(e, u) == entries' = [entries EXCEPT ![key[u]] = sets', ![keyOf[e]] = Nothing]

\* Mutant: the transport is dropped as it is.
MutHandOver(e) == UNCHANGED evicted

HandOver(e) == evicted' = [evicted EXCEPT ![cell[e]] = @ + 1]

\* The list is full: its last element goes, and onEvict is given its value.
InsertFull(u) ==
  /\ Setting(u) /\ Push(u)
  /\ Cardinality(list) >= MaxEntries
  /\ \E e \in Back :
       /\ list' = (list \ {e}) \cup {sets'}
       /\ Forget(e, u)
       /\ HandOver(e)

-----------------------------------------------------------------------------
LruNext ==
  \E u \in Users :
    \/ \E k \in Keys : Get(u, k)
    \/ Lookup(u) \/ Touch(u) \/ ReadValue(u) \/ NoDialer(u)
    \/ Overwrite(u) \/ Insert(u) \/ InsertFull(u)

LruSpec == LruInit /\ [][LruNext]_lruVars

-----------------------------------------------------------------------------
(* Properties.                                                             *)

\* The map and the list hold the same elements, one for a key and no more
\* than there may be, although Get moves elements that it looked up before.
MapMatchesList ==
  /\ list = {entries[k] : k \in Keys} \ {Nothing}
  /\ \A k \in Keys : entries[k] # Nothing => keyOf[entries[k]] = k
  /\ Cardinality(list) <= MaxEntries

\* A value that Get returns is one that the cache had for the key at some time
\* during the call, also if it was overwritten or evicted meanwhile.
ReturnedWasCached == \A u \in Users : hit[u] # Nothing => hit[u] \in held[u]

\* Every value is in the cache, or was replaced by a Set of its key, or was
\* evicted, once: onEvict never gets a value that the cache still has or has
\* lost in another way.
NoneLost ==
  \A v \in 1..sets :
    /\ evicted[v] + (IF v \in overwritten THEN 1 ELSE 0)
         = IF \E e \in list : cell[e] = v THEN 0 ELSE 1
=============================================================================
