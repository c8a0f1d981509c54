----------------------------- MODULE RelayLookup ------------------------------
(***************************************************************************)
(* mullvad.Provider: how a caller comes by the relay list and by the        *)
(* address of a relay, through caches that any number of callers share.     *)
(*                                                                         *)
(* FetchMullvadList looks at the cached list under the lock, and without it *)
(* joins the fetch under way or starts one (singleflight): the fetch runs   *)
(* with the context of the caller that started it, and all who joined it    *)
(* wait, whatever becomes of their own context, and get its outcome.        *)
(* ResolveRelayAddr looks at the cached address, and without one asks the   *)
(* DNS server and stores the answer; dnsRefresher asks anew for every relay *)
(* of the list every five minutes.                                         *)
(*                                                                         *)
(* Abstractions: the list is the version of it that the API served.  Names  *)
(* share nothing in the DNS cache, so the module follows one name.  Its     *)
(* time passes in ticks, at whose ends the deadline of a query falls; an    *)
(* address is known by its age, the ticks since the DNS server gave it.     *)
(* When the refresher comes to the name is left open, as is why a try of a  *)
(* query fails: an error, or the end of a context.  The query is the default *)
(* one, over HTTPS: resolveDoT reads its answer without a deadline.         *)
(***************************************************************************)
EXTENDS Integers

CONSTANTS
  Callers,         \* goroutines that need a relay: requests, checkers
  Refresher,       \* the goroutine of dnsRefresher
  None,            \* nothing
  Ttl,             \* ticks for which an address is served from the cache (5 min)
  ResolveTimeout,  \* ticks a query may take (5 s)
  MaxVersion       \* bound: versions of the list

ASSUME LookupAssumption ==
  /\ Refresher \notin Callers
  /\ None \notin Callers /\ None \notin Nat
  /\ Ttl \in Nat \ {0} /\ ResolveTimeout \in Nat \ {0}
  /\ MaxVersion \in Nat \ {0}

Resolvers == Callers \cup {Refresher}

VARIABLES
  served,    \* the version of the list that the API would give now
  mullvadList, \* Provider.mullvadList, 0 before the first
  fresh,     \* it is not empty and was fetched less than MullvadListCacheTTL ago
  flights,   \* fetchGroup: fetches under way, the version each was given (None
             \* until then) and the callers that wait for it
  at,        \* where each caller stands
  got,       \* the version of the list it was given
  began,     \* history: the cached version when its call began
  entry,     \* dnsCache: ages since stored and of the address; None if there is none
  query,     \* queries under way: age, and the age of the answer if there is one
  given      \* the age of the address that a caller was given last

listVars == <<served, mullvadList, fresh, flights>>
dnsVars == <<entry, query, given>>
callerVars == <<at, got, began>>
lookupVars == <<listVars, dnsVars, callerVars>>

Versions == 0..MaxVersion
OldestAddress == Ttl + ResolveTimeout
Ages == 0..(OldestAddress + 1)
Entries == [stored : 0..(Ttl + 1), aged : Ages]
Queries == [asked : 0..ResolveTimeout, aged : Ages \cup {None}]

LookupTypeOK ==
  /\ served \in Versions /\ mullvadList \in Versions /\ fresh \in BOOLEAN
  /\ flights \subseteq [answer : Versions \cup {None}, waiting : SUBSET Callers]
  /\ at \in [Callers -> {"idle", "list", "stale", "fetching", "name", "asking"}]
  /\ got \in [Callers -> Versions] /\ began \in [Callers -> Versions]
  /\ entry \in Entries \cup {None}
  /\ query \in [Resolvers -> Queries \cup {None}]
  /\ given \in Ages \cup {None}

LookupInit ==
  /\ served = 1 /\ mullvadList = 0 /\ fresh = FALSE
  /\ flights = {}
  /\ at = [c \in Callers |-> "idle"]
  /\ got = [c \in Callers |-> 0] /\ began = [c \in Callers |-> 0]
  /\ entry = None /\ query = [c \in Resolvers |-> None] /\ given = None

-----------------------------------------------------------------------------
(* The list.                                                               *)

Move(c, from, to) == at[c] = from /\ at' = [at EXCEPT ![c] = to]

Begin(c) ==
  /\ Move(c, "idle", "list")
  /\ began' = [began EXCEPT ![c] = mullvadList]
  /\ UNCHANGED <<listVars, dnsVars, got>>

\* The look under the read lock.
CachedList(c) ==
  /\ fresh
  /\ Move(c, "list", "name")
  /\ got' = [got EXCEPT ![c] = mullvadList]
  /\ UNCHANGED <<listVars, dnsVars, began>>

StaleList(c) ==
  /\ ~fresh
  /\ Move(c, "list", "stale")
  /\ UNCHANGED <<listVars, dnsVars, got, began>>

NewFlight(c) == [answer |-> None, waiting |-> {c}]

\* Mutant: every caller fetches for itself.
MutStartFetch(c) ==
  /\ Move(c, "stale", "fetching")
  /\ flights' = flights \cup {NewFlight(c)}
  /\ UNCHANGED <<served, mullvadList, fresh, dnsVars, got, began>>

\* fetchGroup.Do: without a look at the list, which may be fresh by now.
StartFetch(c) ==
  /\ flights = {}
  /\ Move(c, "stale", "fetching")
  /\ flights' = flights \cup {NewFlight(c)}
  /\ UNCHANGED <<served, mullvadList, fresh, dnsVars, got, began>>

Replace(f, g) == flights' = (flights \ {f}) \cup {g}

JoinFetch(c, f) ==
  /\ Move(c, "stale", "fetching")
  /\ Replace(f, [f EXCEPT !.waiting = @ \cup {c}])
  /\ UNCHANGED <<served, mullvadList, fresh, dnsVars, got, began>>

ApiAnswers(f) ==
  /\ f.answer = None
  /\ Replace(f, [f EXCEPT !.answer = served])
  /\ UNCHANGED <<served, mullvadList, fresh, dnsVars, callerVars>>

\* All who wait get the same outcome.
FetchOver(f, to) ==
  /\ flights' = flights \ {f}
  /\ at' = [c \in Callers |-> IF c \in f.waiting THEN to ELSE at[c]]

\* The answer is stored, also one without relays, which is never fresh and
\* leaves its callers with "no servers available".
FetchSucceeds(f) ==
  /\ f.answer # None
  /\ mullvadList' = f.answer
  /\ \E some \in BOOLEAN :
       fresh' = some /\ FetchOver(f, IF some THEN "name" ELSE "idle")
  /\ got' = [c \in Callers |-> IF c \in f.waiting THEN f.answer ELSE got[c]]
  /\ UNCHANGED <<served, dnsVars, began>>

\* Mutant: a fetch that fails stores what it has.
MutFetchFails(f) ==
  /\ mullvadList' = f.answer
  /\ FetchOver(f, "idle")
  /\ UNCHANGED <<served, fresh, dnsVars, got, began>>

\* The API fails, its time is over, or the context of the caller that started
\* the fetch ends.
FetchFails(f) ==
  /\ FetchOver(f, "idle")
  /\ UNCHANGED <<served, mullvadList, fresh, dnsVars, got, began>>

ListExpires ==
  /\ fresh
  /\ fresh' = FALSE
  /\ UNCHANGED <<served, mullvadList, flights, dnsVars, callerVars>>

ApiChanges ==
  /\ served < MaxVersion
  /\ served' = served + 1
  /\ UNCHANGED <<mullvadList, fresh, flights, dnsVars, callerVars>>

-----------------------------------------------------------------------------
(* The address.                                                            *)

\* Mutant: an address is good for as long as it is in the cache.
MutFreshAddress == entry # None

\* dnsCache.get.
FreshAddress == entry # None /\ entry.stored <= Ttl

CachedAddress(c) ==
  /\ FreshAddress
  /\ Move(c, "name", "idle")
  /\ given' = entry.aged
  /\ UNCHANGED <<listVars, entry, query, got, began>>

NewQuery == [asked |-> 0, aged |-> None]

\* resolve: a context with a deadline.
Ask(c) ==
  /\ ~FreshAddress
  /\ Move(c, "name", "asking")
  /\ query' = [query EXCEPT ![c] = NewQuery]
  /\ UNCHANGED <<listVars, entry, given, got, began>>

\* The DNS server answers a query; the answer is under way.
DnsAnswers(c) ==
  /\ query[c] # None /\ query[c].aged = None
  /\ query' = [query EXCEPT ![c].aged = 0]
  /\ UNCHANGED <<listVars, entry, given, callerVars>>

\* The answer of a try is lost; resolveDoH makes another.
TryAgain(c) ==
  /\ query[c] # None /\ query[c].aged # None
  /\ query' = [query EXCEPT ![c].aged = None]
  /\ UNCHANGED <<listVars, entry, given, callerVars>>

Over(c) ==
  /\ query' = [query EXCEPT ![c] = None]
  /\ IF c = Refresher THEN UNCHANGED at ELSE Move(c, "asking", "idle")

\* dnsCache.set: the last to arrive, not the last to be given, is kept.
QuerySucceeds(c) ==
  /\ query[c] # None /\ query[c].aged # None
  /\ entry' = [stored |-> 0, aged |-> query[c].aged]
  /\ given' = IF c = Refresher THEN given ELSE query[c].aged
  /\ Over(c)
  /\ UNCHANGED <<listVars, got, began>>

\* The last try fails, the deadline passes or the context ends.
QueryFails(c) ==
  /\ query[c] # None
  /\ Over(c)
  /\ UNCHANGED <<listVars, entry, given, got, began>>

\* refreshDNSCache: every name of the list, whatever the cache holds.
Refresh ==
  /\ mullvadList # 0
  /\ query[Refresher] = None
  /\ query' = [query EXCEPT ![Refresher] = NewQuery]
  /\ UNCHANGED <<listVars, entry, given, callerVars>>

Older(age, cap) == IF age = None \/ age = cap THEN age ELSE age + 1

\* A tick: it waits for the queries whose time is over.
Tick ==
  /\ \A c \in Resolvers : query[c] # None => query[c].asked < ResolveTimeout
  /\ entry' = IF entry = None THEN None
              ELSE [stored |-> Older(entry.stored, Ttl + 1),
                    aged |-> Older(entry.aged, OldestAddress + 1)]
  /\ query' = [c \in Resolvers |->
                 IF query[c] = None THEN None
                 ELSE [asked |-> query[c].asked + 1,
                       aged |-> Older(query[c].aged, OldestAddress + 1)]]
  /\ UNCHANGED <<listVars, given, callerVars>>

-----------------------------------------------------------------------------
Fetching(f) ==
  \/ \E c \in Callers : JoinFetch(c, f)
  \/ ApiAnswers(f) \/ FetchSucceeds(f) \/ FetchFails(f)

Looking(c) ==
  \/ CachedList(c) \/ StaleList(c) \/ StartFetch(c) \/ CachedAddress(c) \/ Ask(c)

Querying(c) == DnsAnswers(c) \/ QuerySucceeds(c) \/ TryAgain(c) \/ QueryFails(c)

LookupNext ==
  \/ ListExpires \/ ApiChanges \/ Refresh \/ Tick
  \/ \E f \in flights : Fetching(f)
  \/ \E c \in Callers : Begin(c) \/ Looking(c)
  \/ \E c \in Resolvers : Querying(c)

LookupSpec == LookupInit /\ [][LookupNext]_lookupVars

-----------------------------------------------------------------------------
(* Properties.                                                             *)

\* A caller waits for a fetch just as long as there is one, whoever started it,
\* and the list it is given is never older than the one that was cached when it
\* called: fetches do not overlap, so that none overwrites a newer answer.
FetchShared ==
  \A c \in Callers :
    /\ at[c] = "fetching" <=> \E f \in flights : c \in f.waiting
    /\ at[c] \in {"name", "asking"} => began[c] <= got[c] /\ got[c] <= mullvadList

\* An address a caller is given is no older than the cache's and the query's
\* time limits together, although a slow answer may replace a newer one and
\* is then kept as if it were new.
AddressRecent == given # None => given <= OldestAddress
=============================================================================
