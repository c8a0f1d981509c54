-------------------------- MODULE SharedCachesProofs ---------------------------
(***************************************************************************)
(* Proofs about RelayLookup and LruCache, for any number of callers, keys   *)
(* and goroutines, and any time limits and capacities, and about            *)
(* RelayFilter, for any relays and connection strings.                      *)
(***************************************************************************)
EXTENDS MCSharedCaches, FiniteSetTheorems, TLAPS

-----------------------------------------------------------------------------
(* RelayLookup.                                                            *)

\* Fetches do not overlap, and what one is given is no older than what is
\* cached: the list that is cached never goes back.
OneFlight ==
  /\ \A f \in flights, g \in flights : f = g
  /\ \A f \in flights : f.answer # None => mullvadList <= f.answer /\ f.answer <= served
  /\ mullvadList <= served

\* A caller waits for a fetch just as long as there is one.
Awaited ==
  \A c \in Callers : at[c] = "fetching" <=> \E f \in flights : c \in f.waiting

\* What a caller began with and was given, against what is cached.
GivenInOrder ==
  \A c \in Callers :
    /\ began[c] <= mullvadList /\ got[c] <= mullvadList
    /\ at[c] \in {"name", "asking"} => began[c] <= got[c]

\* The age of an address is bounded by what is known of when it was asked for.
AgesBounded ==
  /\ entry # None => entry.aged <= entry.stored + ResolveTimeout
  /\ \A c \in Resolvers :
       query[c] # None /\ query[c].aged # None => query[c].aged <= query[c].asked
  /\ given # None => given <= OldestAddress

LookupInv == LookupTypeOK /\ OneFlight /\ Awaited /\ GivenInOrder /\ AgesBounded

LEMMA LookupInvInit == LookupInit => LookupInv
<1> SUFFICES ASSUME LookupInit PROVE LookupInv OBVIOUS
<1> USE LookupAssumption DEF LookupInit
<1>1. LookupTypeOK
  <2>1. served \in Versions /\ mullvadList \in Versions BY DEF Versions
  <2>2. fresh \in BOOLEAN BY Zenon
  <2>3. at \in [Callers -> {"idle", "list", "stale", "fetching", "name", "asking"}]
    OBVIOUS
  <2>4. got \in [Callers -> Versions] /\ began \in [Callers -> Versions] BY DEF Versions
  <2>5. entry \in Entries \cup {None} /\ given \in Ages \cup {None} OBVIOUS
  <2>6. query \in [Resolvers -> Queries \cup {None}] OBVIOUS
  <2>7. flights \subseteq [answer : Versions \cup {None}, waiting : SUBSET Callers] OBVIOUS
  <2> QED BY <2>1, <2>2, <2>3, <2>4, <2>5, <2>6, <2>7, Zenon DEF LookupTypeOK
<1>2. OneFlight BY DEF OneFlight
<1>3. Awaited BY DEF Awaited
<1>4. GivenInOrder
  <2> SUFFICES ASSUME NEW c \in Callers
               PROVE  /\ began[c] <= mullvadList /\ got[c] <= mullvadList
                      /\ at[c] \in {"name", "asking"} => began[c] <= got[c]
    BY DEF GivenInOrder
  <2>1. began[c] = 0 /\ got[c] = 0 /\ mullvadList = 0 OBVIOUS
  <2> HIDE DEF LookupInit
  <2> QED BY <2>1
<1>5. AgesBounded BY DEF AgesBounded
<1> QED BY <1>1, <1>2, <1>3, <1>4, <1>5 DEF LookupInv

\* What the steps on the list leave alone of the address, and the reverse.
LEMMA AddressKept ==
  ASSUME LookupInv, UNCHANGED dnsVars
  PROVE  AgesBounded' /\ (entry' \in Entries \cup {None} /\ given' \in Ages \cup {None}
                          /\ query' \in [Resolvers -> Queries \cup {None}])
BY DEF LookupInv, LookupTypeOK, AgesBounded, dnsVars

\* The steps of a caller at the list, short of a fetch.
LEMMA ListSteps ==
  ASSUME LookupInv, NEW c \in Callers, Begin(c) \/ CachedList(c) \/ StaleList(c)
  PROVE  LookupInv'
<1> USE DEF LookupInv
<1>1. UNCHANGED listVars /\ UNCHANGED dnsVars
  BY DEF Begin, CachedList, StaleList
<1>2. OneFlight' BY <1>1 DEF OneFlight, listVars
<1>3. LookupTypeOK'
  BY <1>1, AddressKept
  DEF LookupTypeOK, Begin, CachedList, StaleList, Move, listVars, Versions
<1>4. Awaited'
  BY <1>1 DEF Awaited, LookupTypeOK, Begin, CachedList, StaleList, Move, listVars
<1>5. GivenInOrder'
  BY <1>1 DEF GivenInOrder, LookupTypeOK, Begin, CachedList, StaleList, Move, listVars,
              Versions, OneFlight
<1> QED BY <1>1, <1>2, <1>3, <1>4, <1>5, AddressKept

\* A caller starts a fetch or joins it.
LEMMA FetchBegins ==
  ASSUME LookupInv, NEW c \in Callers, StartFetch(c) \/ \E f \in flights : JoinFetch(c, f)
  PROVE  LookupInv'
<1> USE DEF LookupInv
<1>1. UNCHANGED dnsVars /\ UNCHANGED <<served, mullvadList, fresh, got, began>>
  BY DEF StartFetch, JoinFetch
<1>2. at[c] = "stale" /\ at' = [at EXCEPT ![c] = "fetching"]
  BY DEF StartFetch, JoinFetch, Move
<1>3. PICK g : /\ flights' = {g} /\ g \in [answer : Versions \cup {None}, waiting : SUBSET Callers]
               /\ \A d \in Callers : d \in g.waiting <=> d = c \/ \E f \in flights : d \in f.waiting
               /\ g.answer # None => mullvadList <= g.answer /\ g.answer <= served
  <2>1. CASE StartFetch(c)
    <3> DEFINE h == NewFlight(c)
    <3>1. flights' = {h} /\ flights = {} BY <2>1 DEF StartFetch
    <3>2. h \in [answer : Versions \cup {None}, waiting : SUBSET Callers]
      BY DEF NewFlight
    <3>3. h.answer = None /\ h.waiting = {c} BY DEF NewFlight
    <3> HIDE DEF h
    <3> QED BY <3>1, <3>2, <3>3
  <2>2. CASE \E f \in flights : JoinFetch(c, f)
    <3>1. PICK f \in flights : JoinFetch(c, f) BY <2>2
    <3> DEFINE g == [f EXCEPT !.waiting = @ \cup {c}]
    <3>2. flights = {f} BY DEF OneFlight
    <3>3. f \in [answer : Versions \cup {None}, waiting : SUBSET Callers]
      BY DEF LookupTypeOK
    <3>4. flights' = {g} BY <3>1, <3>2 DEF JoinFetch, Replace
    <3>5. g.answer = f.answer /\ g.waiting = f.waiting \cup {c} BY <3>3
    <3>6. g \in [answer : Versions \cup {None}, waiting : SUBSET Callers] BY <3>3
    <3>7. f.answer # None => mullvadList <= f.answer /\ f.answer <= served BY DEF OneFlight
    <3> HIDE DEF g
    <3> QED BY <3>2, <3>4, <3>5, <3>6, <3>7
  <2> QED BY <2>1, <2>2
<1>4. OneFlight' BY <1>1, <1>3 DEF OneFlight
<1>5. LookupTypeOK' BY <1>1, <1>2, <1>3, AddressKept DEF LookupTypeOK
<1>6. Awaited' BY <1>2, <1>3 DEF Awaited, LookupTypeOK
<1>7. GivenInOrder' BY <1>1, <1>2 DEF GivenInOrder, LookupTypeOK
<1> QED BY <1>1, <1>4, <1>5, <1>6, <1>7, AddressKept

LEMMA FetchAnswered ==
  ASSUME LookupInv, NEW f \in flights, ApiAnswers(f)
  PROVE  LookupInv'
<1> USE DEF LookupInv
<1> DEFINE g == [f EXCEPT !.answer = served]
<1>1. flights = {f} BY DEF OneFlight
<1>2. f \in [answer : Versions \cup {None}, waiting : SUBSET Callers]
  BY DEF LookupTypeOK
<1>3. flights' = {g} BY <1>1 DEF ApiAnswers, Replace
<1>4. g.answer = served /\ g.waiting = f.waiting BY <1>2
<1>5. g \in [answer : Versions \cup {None}, waiting : SUBSET Callers]
  BY <1>2 DEF LookupTypeOK
<1>6. UNCHANGED <<served, mullvadList, fresh, dnsVars, at, got, began>>
  BY DEF ApiAnswers, callerVars
<1> HIDE DEF g
<1>7. OneFlight' BY <1>3, <1>4, <1>6 DEF OneFlight, LookupTypeOK, Versions
<1>8. LookupTypeOK' BY <1>3, <1>5, <1>6, AddressKept DEF LookupTypeOK
<1>9. Awaited' BY <1>1, <1>3, <1>4, <1>6 DEF Awaited
<1>10. GivenInOrder' BY <1>6 DEF GivenInOrder
<1> QED BY <1>6, <1>7, <1>8, <1>9, <1>10, AddressKept

\* The fetch is over: all who waited go on.
LEMMA FetchEnds ==
  ASSUME LookupInv, NEW f \in flights, FetchSucceeds(f) \/ FetchFails(f)
  PROVE  LookupInv'
<1> USE DEF LookupInv
<1>1. flights = {f} BY DEF OneFlight
<1>2. f \in [answer : Versions \cup {None}, waiting : SUBSET Callers]
  BY DEF LookupTypeOK
<1>3. PICK to \in {"name", "idle"} :
        /\ FetchOver(f, to)
        /\ to = "name" => FetchSucceeds(f)
        /\ fresh' \in BOOLEAN
  <2>1. CASE FetchSucceeds(f) BY <2>1 DEF FetchSucceeds
  <2>2. CASE FetchFails(f) BY <2>2 DEF FetchFails, LookupTypeOK
  <2> QED BY <2>1, <2>2
<1>4. flights' = {} /\ at' = [c \in Callers |-> IF c \in f.waiting THEN to ELSE at[c]]
  BY <1>1, <1>3 DEF FetchOver
<1>5. UNCHANGED dnsVars /\ UNCHANGED <<served, began>> BY DEF FetchSucceeds, FetchFails
<1>6. /\ mullvadList' \in Versions /\ mullvadList <= mullvadList' /\ mullvadList' <= served
      /\ got' \in [Callers -> Versions]
      /\ \A c \in Callers : got'[c] = got[c] \/ got'[c] = mullvadList'
      /\ to = "name" => \A c \in Callers : c \in f.waiting => got'[c] = mullvadList'
  <2>1. CASE FetchSucceeds(f)
    <3>1. f.answer \in Versions /\ mullvadList' = f.answer
      BY <1>2, <2>1 DEF FetchSucceeds
    <3>2. got' = [c \in Callers |-> IF c \in f.waiting THEN f.answer ELSE got[c]]
      BY <2>1 DEF FetchSucceeds
    <3>3. mullvadList <= f.answer /\ f.answer <= served
      BY <2>1 DEF OneFlight, FetchSucceeds
    <3> QED BY <3>1, <3>2, <3>3 DEF LookupTypeOK
  <2>2. CASE FetchFails(f) /\ ~FetchSucceeds(f)
    <3>1. mullvadList' = mullvadList /\ got' = got /\ to = "idle"
      BY <1>3, <2>2 DEF FetchFails
    <3> QED BY <3>1 DEF LookupTypeOK, OneFlight, Versions
  <2> QED BY <2>1, <2>2
<1>7. OneFlight' BY <1>4, <1>5, <1>6 DEF OneFlight
<1>8. LookupTypeOK' BY <1>3, <1>4, <1>5, <1>6, AddressKept DEF LookupTypeOK
<1>9. \A c \in Callers : c \in f.waiting <=> at[c] = "fetching"
  BY <1>1 DEF Awaited
<1>10. Awaited' BY <1>4, <1>9 DEF Awaited
<1>11. GivenInOrder'
  BY <1>4, <1>5, <1>6, <1>9 DEF GivenInOrder, LookupTypeOK, Versions
<1> QED BY <1>5, <1>7, <1>8, <1>10, <1>11, AddressKept

\* The list expires, or the API has a new one.
LEMMA ListWorld ==
  ASSUME LookupInv, ListExpires \/ ApiChanges
  PROVE  LookupInv'
<1> USE DEF LookupInv
<1>1. UNCHANGED <<mullvadList, flights, dnsVars, at, got, began>>
  BY DEF ListExpires, ApiChanges, callerVars
<1>2. served' \in Versions /\ served <= served' /\ fresh' \in BOOLEAN
  <2>1. CASE ListExpires
    <3>1. served' = served BY <2>1 DEF ListExpires
    <3>2. fresh' \in BOOLEAN BY <2>1, Zenon DEF ListExpires
    <3> QED BY <3>1, <3>2 DEF LookupTypeOK, Versions
  <2>2. CASE ApiChanges
    <3>1. served' = served + 1 /\ served < MaxVersion BY <2>2 DEF ApiChanges
    <3>2. fresh' \in BOOLEAN BY <2>2 DEF ApiChanges, LookupTypeOK
    <3> QED BY <3>1, <3>2, LookupAssumption DEF LookupTypeOK, Versions
  <2> QED BY <2>1, <2>2
<1>3. OneFlight' BY <1>1, <1>2 DEF OneFlight, LookupTypeOK, Versions
<1>4. LookupTypeOK' BY <1>1, <1>2, AddressKept DEF LookupTypeOK
<1>5. Awaited' BY <1>1 DEF Awaited
<1>6. GivenInOrder' BY <1>1 DEF GivenInOrder
<1> QED BY <1>1, <1>3, <1>4, <1>5, <1>6, AddressKept

\* What the steps on the address leave alone of the list.
LEMMA ListKept ==
  ASSUME LookupInv, UNCHANGED <<listVars, got, began>>,
         at' \in [Callers -> {"idle", "list", "stale", "fetching", "name", "asking"}],
         \A c \in Callers : /\ at'[c] = "fetching" <=> at[c] = "fetching"
                            /\ at'[c] \in {"name", "asking"} => at[c] \in {"name", "asking"}
  PROVE  /\ OneFlight' /\ Awaited' /\ GivenInOrder'
         /\ served' \in Versions /\ mullvadList' \in Versions /\ fresh' \in BOOLEAN
         /\ flights' \subseteq [answer : Versions \cup {None}, waiting : SUBSET Callers]
         /\ got' \in [Callers -> Versions] /\ began' \in [Callers -> Versions]
BY DEF LookupInv, LookupTypeOK, OneFlight, Awaited, GivenInOrder, listVars

\* The entry and the queries as they are in an invariant state.
LEMMA AgesTyped ==
  ASSUME LookupInv
  PROVE  /\ entry # None => /\ entry.stored \in 0..(Ttl + 1) /\ entry.aged \in Ages
                            /\ entry = [stored |-> entry.stored, aged |-> entry.aged]
         /\ \A c \in Resolvers :
              query[c] # None => /\ query[c].asked \in 0..ResolveTimeout
                                 /\ query[c].aged \in Ages \cup {None}
                                 /\ query[c] = [asked |-> query[c].asked, aged |-> query[c].aged]
<1>1. entry # None => entry \in Entries BY DEF LookupInv, LookupTypeOK
<1>2. \A c \in Resolvers : query[c] # None => query[c] \in Queries
  BY DEF LookupInv, LookupTypeOK
<1> QED BY <1>1, <1>2 DEF Entries, Queries

\* One query changes, or none.
LEMMA OneQuery ==
  ASSUME LookupInv, NEW c \in Resolvers, NEW q \in Queries \cup {None},
         query' = [query EXCEPT ![c] = q],
         q # None /\ q.aged # None => q.aged <= q.asked
  PROVE  /\ query' \in [Resolvers -> Queries \cup {None}]
         /\ \A d \in Resolvers :
              query'[d] # None /\ query'[d].aged # None => query'[d].aged <= query'[d].asked
<1>1. query \in [Resolvers -> Queries \cup {None}] BY DEF LookupInv, LookupTypeOK
<1>2. query' \in [Resolvers -> Queries \cup {None}] BY <1>1
<1>3. \A d \in Resolvers : query'[d] = IF d = c THEN q ELSE query[d] BY <1>1
<1> QED BY <1>2, <1>3 DEF LookupInv, AgesBounded

LEMMA CallerResolves == \A c \in Callers : c \in Resolvers
BY DEF Resolvers

\* The steps that leave the queries alone.
LEMMA AddressCached ==
  ASSUME LookupInv, NEW c \in Callers, CachedAddress(c)
  PROVE  LookupInv'
<1> USE DEF LookupInv
<1>1. UNCHANGED listVars /\ UNCHANGED <<entry, query, got, began>> BY DEF CachedAddress
<1>2. at[c] = "name" /\ at' = [at EXCEPT ![c] = "idle"] BY DEF CachedAddress, Move
<1>3. at' \in [Callers -> {"idle", "list", "stale", "fetching", "name", "asking"}]
  BY <1>2 DEF LookupTypeOK
<1>4. \A d \in Callers : /\ at'[d] = "fetching" <=> at[d] = "fetching"
                         /\ at'[d] \in {"name", "asking"} => at[d] \in {"name", "asking"}
  BY <1>2 DEF LookupTypeOK
<1>5. given' = entry.aged /\ entry # None /\ entry.stored <= Ttl
  BY DEF CachedAddress, FreshAddress
<1>6. given' \in Ages /\ given' <= OldestAddress
  BY <1>5, AgesTyped, LookupAssumption DEF AgesBounded, OldestAddress, Ages
<1>7. LookupTypeOK' BY <1>1, <1>3, <1>4, <1>6, ListKept DEF LookupTypeOK
<1>8. AgesBounded' BY <1>1, <1>6 DEF AgesBounded
<1> QED BY <1>1, <1>3, <1>4, <1>7, <1>8, ListKept

LEMMA NewQueryTyped == NewQuery \in Queries /\ NewQuery.aged = None
BY LookupAssumption DEF NewQuery, Queries

\* A query is sent, answered, tried again or given up.
LEMMA QuerySteps ==
  ASSUME LookupInv, NEW c \in Resolvers,
         \/ c \in Callers /\ Ask(c)
         \/ DnsAnswers(c) \/ TryAgain(c) \/ QueryFails(c)
         \/ c = Refresher /\ Refresh
  PROVE  LookupInv'
<1> USE DEF LookupInv
<1>1. UNCHANGED listVars /\ UNCHANGED <<entry, given, got, began>>
  BY DEF Ask, DnsAnswers, TryAgain, QueryFails, Refresh, callerVars
<1>2. /\ at' \in [Callers -> {"idle", "list", "stale", "fetching", "name", "asking"}]
      /\ \A d \in Callers :
           /\ at'[d] = "fetching" <=> at[d] = "fetching"
           /\ at'[d] \in {"name", "asking"} => at[d] \in {"name", "asking"}
  <2>1. CASE c \in Callers /\ Ask(c) BY <2>1 DEF Ask, Move, LookupTypeOK
  <2>2. CASE DnsAnswers(c) \/ TryAgain(c) \/ (c = Refresher /\ Refresh)
    BY <2>2 DEF DnsAnswers, TryAgain, Refresh, callerVars, LookupTypeOK
  <2>3. CASE QueryFails(c)
    <3>1. at' = at \/ (at[c] = "asking" /\ at' = [at EXCEPT ![c] = "idle"])
      BY <2>3 DEF QueryFails, Over, Move
    <3> QED BY <3>1 DEF LookupTypeOK
  <2> QED BY <2>1, <2>2, <2>3
<1>3. PICK q \in Queries \cup {None} :
        /\ query' = [query EXCEPT ![c] = q]
        /\ q # None /\ q.aged # None => q.aged <= q.asked
  <2>1. CASE (c \in Callers /\ Ask(c)) \/ (c = Refresher /\ Refresh)
    BY <2>1, NewQueryTyped DEF Ask, Refresh
  <2>2. CASE DnsAnswers(c)
    <3> DEFINE q == [query[c] EXCEPT !.aged = 0]
    <3>1. query[c] # None /\ query' = [query EXCEPT ![c] = q] BY <2>2 DEF DnsAnswers
    <3>2. query[c] \in Queries BY <3>1 DEF LookupTypeOK
    <3>3. query[c].asked \in Nat BY <3>2, LookupAssumption DEF Queries
    <3>4. q.aged <= q.asked BY <3>2, <3>3 DEF Queries
    <3>5. q \in Queries BY <3>2, LookupAssumption DEF Queries, Ages, OldestAddress
    <3> HIDE DEF q
    <3> QED BY <3>1, <3>4, <3>5
  <2>3. CASE TryAgain(c)
    <3> DEFINE q == [query[c] EXCEPT !.aged = None]
    <3>1. query[c] # None /\ query' = [query EXCEPT ![c] = q] BY <2>3 DEF TryAgain
    <3>2. query[c] \in Queries BY <3>1 DEF LookupTypeOK
    <3>3. q \in Queries /\ q.aged = None BY <3>2 DEF Queries
    <3> HIDE DEF q
    <3> QED BY <3>1, <3>3
  <2>4. CASE QueryFails(c) BY <2>4 DEF QueryFails, Over
  <2> QED BY <2>1, <2>2, <2>3, <2>4
<1>4. /\ query' \in [Resolvers -> Queries \cup {None}]
      /\ \A d \in Resolvers :
           query'[d] # None /\ query'[d].aged # None => query'[d].aged <= query'[d].asked
  BY <1>3, OneQuery
<1>5. LookupTypeOK' BY <1>1, <1>2, <1>4, ListKept DEF LookupTypeOK
<1>6. AgesBounded' BY <1>1, <1>4 DEF AgesBounded
<1> QED BY <1>1, <1>2, <1>5, <1>6, ListKept

LEMMA QueryAnswered ==
  ASSUME LookupInv, NEW c \in Resolvers, QuerySucceeds(c)
  PROVE  LookupInv'
<1> USE DEF LookupInv
<1>1. UNCHANGED listVars /\ UNCHANGED <<got, began>> BY DEF QuerySucceeds
<1>2. query[c] # None /\ query[c].aged # None BY DEF QuerySucceeds
<1>3. query[c].aged \in Ages /\ query[c].aged <= ResolveTimeout
  <2>1. query[c].asked \in 0..ResolveTimeout /\ query[c].aged \in Ages
    BY <1>2, AgesTyped
  <2>2. query[c].aged <= query[c].asked BY <1>2 DEF AgesBounded
  <2> QED BY <2>1, <2>2, LookupAssumption DEF Ages, OldestAddress
<1>4. at' = at \/ (at[c] = "asking" /\ at' = [at EXCEPT ![c] = "idle"])
  BY DEF QuerySucceeds, Over, Move
<1>5. /\ at' \in [Callers -> {"idle", "list", "stale", "fetching", "name", "asking"}]
      /\ \A d \in Callers :
           /\ at'[d] = "fetching" <=> at[d] = "fetching"
           /\ at'[d] \in {"name", "asking"} => at[d] \in {"name", "asking"}
  BY <1>4 DEF LookupTypeOK
<1>6. query' = [query EXCEPT ![c] = None] BY DEF QuerySucceeds, Over
<1>7. /\ query' \in [Resolvers -> Queries \cup {None}]
      /\ \A d \in Resolvers :
           query'[d] # None /\ query'[d].aged # None => query'[d].aged <= query'[d].asked
  BY <1>6, OneQuery
<1>8. entry' = [stored |-> 0, aged |-> query[c].aged] BY DEF QuerySucceeds
<1>9. entry' \in Entries /\ entry'.aged <= entry'.stored + ResolveTimeout
  BY <1>3, <1>8, LookupAssumption DEF Entries, Ages, OldestAddress
<1>10. given' \in Ages \cup {None} /\ (given' # None => given' <= OldestAddress)
  <2>1. given' = given \/ given' = query[c].aged BY DEF QuerySucceeds
  <2> QED BY <1>3, <2>1, LookupAssumption
      DEF LookupTypeOK, AgesBounded, OldestAddress, Ages
<1>11. LookupTypeOK' BY <1>1, <1>5, <1>7, <1>9, <1>10, ListKept DEF LookupTypeOK
<1>12. AgesBounded' BY <1>7, <1>9, <1>10 DEF AgesBounded
<1> QED BY <1>1, <1>5, <1>11, <1>12, ListKept

LEMMA Ticks ==
  ASSUME LookupInv, Tick
  PROVE  LookupInv'
<1> USE LookupAssumption DEF LookupInv
<1>1. UNCHANGED listVars /\ UNCHANGED <<at, got, began, given>> BY DEF Tick, callerVars
<1>2. at' \in [Callers -> {"idle", "list", "stale", "fetching", "name", "asking"}]
  BY <1>1 DEF LookupTypeOK
<1>3. (entry' # None => entry'.aged <= entry'.stored + ResolveTimeout)
      /\ entry' \in Entries \cup {None}
  <2>1. CASE entry = None BY <2>1 DEF Tick
  <2>2. CASE entry # None
    <3>1. entry' = [stored |-> Older(entry.stored, Ttl + 1),
                    aged |-> Older(entry.aged, OldestAddress + 1)]
      BY <2>2 DEF Tick
    <3>2. entry.stored \in 0..(Ttl + 1) /\ entry.aged \in 0..(OldestAddress + 1)
          /\ entry.aged <= entry.stored + ResolveTimeout
      BY <2>2, AgesTyped DEF AgesBounded, Ages
    <3>3. entry.stored # None /\ entry.aged # None BY <3>2 DEF OldestAddress
    <3>4. Older(entry.stored, Ttl + 1) = IF entry.stored = Ttl + 1 THEN Ttl + 1
                                         ELSE entry.stored + 1
      BY <3>3 DEF Older
    <3>5. Older(entry.aged, OldestAddress + 1) =
            IF entry.aged = OldestAddress + 1 THEN OldestAddress + 1 ELSE entry.aged + 1
      BY <3>3 DEF Older
    <3> DEFINE s == Older(entry.stored, Ttl + 1)
               a == Older(entry.aged, OldestAddress + 1)
    <3>6. s \in 0..(Ttl + 1) /\ a \in 0..(OldestAddress + 1) /\ a <= s + ResolveTimeout
      BY <3>2, <3>4, <3>5 DEF OldestAddress
    <3>7. entry' = [stored |-> s, aged |-> a] BY <3>1
    <3> HIDE DEF s, a
    <3> QED BY <3>6, <3>7 DEF Entries, Ages
  <2> QED BY <2>1, <2>2
<1>4. \A c \in Resolvers :
        query'[c] = IF query[c] = None THEN None
                    ELSE [asked |-> query[c].asked + 1,
                          aged |-> Older(query[c].aged, OldestAddress + 1)]
  BY DEF Tick
<1>5. \A c \in Resolvers :
        /\ query'[c] \in Queries \cup {None}
        /\ query'[c] # None /\ query'[c].aged # None => query'[c].aged <= query'[c].asked
  <2> SUFFICES ASSUME NEW c \in Resolvers, query[c] # None
               PROVE  /\ query'[c] \in Queries \cup {None}
                      /\ query'[c].aged # None => query'[c].aged <= query'[c].asked
    BY <1>4
  <2>1. query[c].asked \in 0..ResolveTimeout /\ query[c].asked < ResolveTimeout
    BY AgesTyped DEF Tick
  <2>2. query[c].aged \in 0..(OldestAddress + 1) \cup {None} BY AgesTyped DEF Ages
  <2>3. query[c].aged # None => query[c].aged <= query[c].asked BY DEF AgesBounded
  <2> DEFINE a == Older(query[c].aged, OldestAddress + 1)
             n == query[c].asked + 1
  <2>4. n \in 0..ResolveTimeout BY <2>1
  <2>5. a \in 0..(OldestAddress + 1) \cup {None} /\ (a # None => a <= n)
    <3>1. CASE query[c].aged = None BY <3>1 DEF Older
    <3>2. CASE query[c].aged # None
      <4>1. a = IF query[c].aged = OldestAddress + 1 THEN OldestAddress + 1
                ELSE query[c].aged + 1
        BY <3>2 DEF Older
      <4>2. query[c].aged \in 0..(OldestAddress + 1) BY <2>2, <3>2
      <4> QED BY <2>1, <2>3, <3>2, <4>1, <4>2 DEF OldestAddress
    <3> QED BY <3>1, <3>2
  <2>6. query'[c] = [asked |-> n, aged |-> a] BY <1>4
  <2> HIDE DEF a, n
  <2> QED BY <2>4, <2>5, <2>6 DEF Queries, Ages
<1>6. query' \in [Resolvers -> Queries \cup {None}]
  <2>1. query' = [c \in Resolvers |-> query'[c]] BY DEF Tick
  <2> QED BY <1>5, <2>1
<1>7. LookupTypeOK' BY <1>1, <1>2, <1>3, <1>6, ListKept DEF LookupTypeOK
<1>8. AgesBounded' BY <1>1, <1>3, <1>5 DEF AgesBounded
<1> QED BY <1>1, <1>2, <1>7, <1>8, ListKept

LEMMA LookupInvStep == LookupInv /\ [LookupNext]_lookupVars => LookupInv'
<1> SUFFICES ASSUME LookupInv, [LookupNext]_lookupVars PROVE LookupInv' OBVIOUS
<1>1. CASE ListExpires \/ ApiChanges BY <1>1, ListWorld
<1>2. CASE Refresh BY <1>2, QuerySteps DEF Resolvers
<1>3. CASE Tick BY <1>3, Ticks
<1>4. ASSUME NEW f \in flights, Fetching(f) PROVE LookupInv'
  BY <1>4, FetchBegins, FetchAnswered, FetchEnds DEF Fetching
<1>5. ASSUME NEW c \in Callers, Begin(c) \/ Looking(c) PROVE LookupInv'
  BY <1>5, ListSteps, FetchBegins, AddressCached, QuerySteps, CallerResolves DEF Looking
<1>6. ASSUME NEW c \in Resolvers, Querying(c) PROVE LookupInv'
  BY <1>6, QuerySteps, QueryAnswered DEF Querying
<1>7. CASE UNCHANGED lookupVars
  BY <1>7 DEF lookupVars, listVars, dnsVars, callerVars, LookupInv, LookupTypeOK,
              OneFlight, Awaited, GivenInOrder, AgesBounded
<1> QED BY <1>1, <1>2, <1>3, <1>4, <1>5, <1>6, <1>7 DEF LookupNext

LEMMA LookupInvariant == LookupSpec => []LookupInv
BY LookupInvInit, LookupInvStep, PTL DEF LookupSpec

\* Whoever joins a fetch waits as long as it lasts and no longer, and what it
\* is given is no older than what was cached when it called.
THEOREM FetchIsShared == LookupSpec => []FetchShared
<1>1. LookupInv => FetchShared
  BY DEF LookupInv, Awaited, GivenInOrder, FetchShared
<1> QED BY <1>1, LookupInvariant, PTL

\* No address that is handed out is older than both time limits together.
THEOREM AddressIsRecent == LookupSpec => []AddressRecent
<1>1. LookupInv => AddressRecent
  BY DEF LookupInv, AgesBounded, AddressRecent
<1> QED BY <1>1, LookupInvariant, PTL

-----------------------------------------------------------------------------
(* LruCache.                                                               *)

\* The elements of the list are those that Set pushed, under the key they were
\* pushed for, and no two of them have the same value.
CellsApart ==
  /\ list \subseteq 1..sets /\ overwritten \subseteq 1..sets
  /\ \A e \in list : cell[e] \in 1..sets /\ keyOf[e] \in Keys
  /\ \A e, f \in list : cell[e] = cell[f] => e = f
  /\ \A v \in Values : v > sets => evicted[v] = 0

\* What a user has found is an element of its key, in the list or not, and what
\* it may read there the cache had for its key during the call.
FoundHeld ==
  \A u \in Users :
    /\ step[u] # "idle" => key[u] \in Keys
    /\ step[u] = "lookup" => CachedFor(key[u]) \subseteq held[u]
    /\ step[u] \in {"touch", "read"} =>
         /\ elem[u] \in 1..sets
         /\ keyOf[elem[u]] = key[u] /\ cell[elem[u]] \in held[u]

LruInv ==
  LruTypeOK /\ MapMatchesList /\ CellsApart /\ FoundHeld /\ ReturnedWasCached /\ NoneLost

LEMMA LruInvInit == LruInit => LruInv
<1> SUFFICES ASSUME LruInit PROVE LruInv OBVIOUS
<1> USE LruAssumption DEF LruInit
<1>1. LruTypeOK BY DEF LruTypeOK, Values
<1>2. MapMatchesList
  <2>1. list = {} /\ \A k \in Keys : entries[k] = Nothing OBVIOUS
  <2>2. Cardinality({}) = 0 BY FS_EmptySet
  <2> HIDE DEF LruInit
  <2> QED BY <2>1, <2>2 DEF MapMatchesList
<1>3. CellsApart BY DEF CellsApart, Values
<1>4. FoundHeld BY DEF FoundHeld
<1>5. ReturnedWasCached BY DEF ReturnedWasCached
<1>6. NoneLost BY DEF NoneLost
<1> QED BY <1>1, <1>2, <1>3, <1>4, <1>5, <1>6 DEF LruInv

\* Get, Lookup and ReadValue change nothing of the cache.
LEMMA CacheKept ==
  ASSUME LruInv, UNCHANGED cacheVars
  PROVE  MapMatchesList' /\ CellsApart' /\ NoneLost'
BY DEF LruInv, MapMatchesList, CellsApart, NoneLost, cacheVars

LEMMA LruReads ==
  ASSUME LruInv, NEW u \in Users,
         (\E k \in Keys : Get(u, k)) \/ Lookup(u) \/ ReadValue(u)
  PROVE  LruInv'
<1> USE DEF LruInv
<1>1. UNCHANGED cacheVars BY DEF Get, Lookup, ReadValue
<1>2. CASE \E k \in Keys : Get(u, k)
  <2>1. PICK k \in Keys : Get(u, k) BY <1>2
  <2>2. CachedFor(k) \subseteq Values
    <3>1. sets \in 0..MaxSets /\ 1..sets \subseteq Values
      BY LruAssumption DEF LruTypeOK, Values
    <3>2. entries[k] # Nothing => entries[k] \in list BY DEF MapMatchesList
    <3>3. entries[k] # Nothing => cell[entries[k]] \in 1..sets BY <3>2 DEF CellsApart
    <3> QED BY <3>1, <3>3 DEF CachedFor
  <2>3. LruTypeOK' BY <2>1, <2>2, <1>1 DEF LruTypeOK, Get, At, cacheVars
  <2>4. FoundHeld'
    BY <2>1, <1>1 DEF FoundHeld, LruTypeOK, Get, At, cacheVars, CachedFor
  <2>5. ReturnedWasCached' BY <2>1 DEF ReturnedWasCached, LruTypeOK, Get
  <2> QED BY <1>1, <2>3, <2>4, <2>5, CacheKept
<1>3. CASE Lookup(u)
  <2>1. key[u] \in Keys /\ CachedFor(key[u]) \subseteq held[u]
    BY <1>3 DEF FoundHeld, Lookup, At
  <2>2. LruTypeOK' BY <1>1, <1>3, <2>1 DEF LruTypeOK, Lookup, At, cacheVars
  <2>3. entries[key[u]] # Nothing =>
          /\ entries[key[u]] \in 1..sets /\ keyOf[entries[key[u]]] = key[u]
          /\ cell[entries[key[u]]] \in held[u]
    BY <2>1 DEF CachedFor, MapMatchesList, CellsApart
  <2>4. FoundHeld'
    BY <1>1, <1>3, <2>1, <2>3 DEF FoundHeld, LruTypeOK, Lookup, At, cacheVars, CachedFor
  <2>5. ReturnedWasCached' BY <1>3 DEF ReturnedWasCached, Lookup
  <2> QED BY <1>1, <2>2, <2>4, <2>5, CacheKept
<1>4. CASE ReadValue(u)
  <2>1. elem[u] \in 1..sets /\ cell[elem[u]] \in held[u]
    BY <1>4 DEF FoundHeld, ReadValue, At
  <2>2. cell[elem[u]] \in Values BY <2>1 DEF LruTypeOK
  <2>3. LruTypeOK' BY <1>1, <1>4, <2>2 DEF LruTypeOK, ReadValue, At, cacheVars
  <2>4. FoundHeld'
    BY <1>1, <1>4 DEF FoundHeld, LruTypeOK, ReadValue, At, cacheVars, CachedFor
  <2>5. ReturnedWasCached' BY <1>4, <2>1 DEF ReturnedWasCached, LruTypeOK, ReadValue
  <2> QED BY <1>1, <2>3, <2>4, <2>5, CacheKept
<1> QED BY <1>2, <1>3, <1>4

\* The order of the list decides what is evicted, never what is in it.
LEMMA OrderTyped ==
  ASSUME LruTypeOK, NEW e \in Values
  PROVE  ToFront(e) \in [Values -> SUBSET Values]
BY DEF LruTypeOK, ToFront

LEMMA LruTouch ==
  ASSUME LruInv, NEW u \in Users, Touch(u)
  PROVE  LruInv'
<1> USE DEF LruInv
<1>1. UNCHANGED <<sets, entries, list, keyOf, cell, evicted, overwritten, key, elem, hit, held>>
  BY DEF Touch, MoveToFront
<1>2. step[u] = "touch" /\ step' = [step EXCEPT ![u] = "read"] BY DEF Touch, At
<1>3. elem[u] \in Values
  BY <1>2, LruAssumption DEF FoundHeld, LruTypeOK, Values
<1>4. ahead' \in [Values -> SUBSET Values]
  BY <1>3, OrderTyped DEF Touch, MoveToFront, LruTypeOK
<1>5. LruTypeOK' BY <1>1, <1>2, <1>4 DEF LruTypeOK
<1>6. MapMatchesList' BY <1>1 DEF MapMatchesList
<1>7. CellsApart' BY <1>1 DEF CellsApart
<1>8. NoneLost' BY <1>1 DEF NoneLost
<1>9. FoundHeld' BY <1>1, <1>2 DEF FoundHeld, LruTypeOK, CachedFor
<1>10. ReturnedWasCached' BY <1>1 DEF ReturnedWasCached
<1> QED BY <1>5, <1>6, <1>7, <1>8, <1>9, <1>10

\* What every Set does, whatever becomes of the list.
LEMMA SetKeeps ==
  ASSUME LruInv, NEW u \in Users, Setting(u)
  PROVE  /\ key[u] \in Keys
         /\ sets' = sets + 1 /\ sets' \in Values
         /\ step' \in [Users -> {"idle", "lookup", "touch", "read", "miss"}]
         /\ \A w \in Users : step'[w] = IF w = u THEN "idle" ELSE step[w]
         /\ UNCHANGED <<key, elem, hit>>
         /\ held' \in [Users -> SUBSET Values]
         /\ \A w \in Users : held'[w] = IF key[w] = key[u] THEN held[w] \cup {sets'} ELSE held[w]
         /\ ReturnedWasCached'
<1> USE DEF LruInv
<1>1. step[u] = "miss" /\ step' = [step EXCEPT ![u] = "idle"] BY DEF Setting, At
<1>2. key[u] \in Keys BY <1>1 DEF FoundHeld
<1>3. sets' = sets + 1 /\ sets' \in Values
  BY LruAssumption DEF Setting, LruTypeOK, Values
<1>4. UNCHANGED <<key, elem, hit>>
      /\ held' = [w \in Users |-> IF key[w] = key[u] THEN held[w] \cup {sets'} ELSE held[w]]
  BY DEF Setting
<1>5. held' \in [Users -> SUBSET Values] BY <1>3, <1>4 DEF LruTypeOK
<1>6. ReturnedWasCached' BY <1>4 DEF ReturnedWasCached
<1> QED BY <1>1, <1>2, <1>3, <1>4, <1>5, <1>6 DEF LruTypeOK

LEMMA LruOverwrite ==
  ASSUME LruInv, NEW u \in Users, Overwrite(u)
  PROVE  LruInv'
<1> USE DEF LruInv
<1> DEFINE e == entries[key[u]]
           n == sets'
<1>1. /\ key[u] \in Keys
      /\ n = sets + 1 /\ n \in Values
      /\ step' \in [Users -> {"idle", "lookup", "touch", "read", "miss"}]
      /\ \A w \in Users : step'[w] = IF w = u THEN "idle" ELSE step[w]
      /\ UNCHANGED <<key, elem, hit>>
      /\ held' \in [Users -> SUBSET Values]
      /\ \A w \in Users : held'[w] = IF key[w] = key[u] THEN held[w] \cup {n} ELSE held[w]
      /\ ReturnedWasCached'
  BY SetKeeps DEF Overwrite
<1>2. e # Nothing /\ overwritten' = overwritten \cup {cell[e]} /\ cell' = [cell EXCEPT ![e] = n]
      /\ UNCHANGED <<entries, keyOf, evicted, list>> /\ MoveToFront(e)
  BY DEF Overwrite, MoveToFront
<1>3. e \in list /\ e \in 1..sets /\ keyOf[e] = key[u] /\ cell[e] \in 1..sets
  BY <1>1, <1>2 DEF MapMatchesList, CellsApart
<1>4. /\ sets \in Nat /\ 1..sets \subseteq Values
      /\ 1..sets \subseteq 1..n /\ n \in 1..n /\ n \notin 1..sets
  BY <1>1, LruAssumption DEF LruTypeOK, Values
<1>5. ahead' \in [Values -> SUBSET Values]
  BY <1>2, <1>3, <1>4, OrderTyped DEF MoveToFront, LruTypeOK
<1>6. \A f \in Values : cell'[f] = IF f = e THEN n ELSE cell[f]
  BY <1>1, <1>2, <1>3, <1>4 DEF LruTypeOK
<1>7. cell' \in [Values -> Values \cup {Nothing}] BY <1>1, <1>2, <1>3, <1>4 DEF LruTypeOK
<1>8. overwritten' \subseteq Values
  <2>1. cell[e] \in Values BY <1>3, <1>4
  <2> QED BY <1>2, <2>1 DEF LruTypeOK
<1>9. sets' \in 0..MaxSets BY <1>1, LruAssumption DEF Values
<1>10. LruTypeOK'
  BY <1>1, <1>2, <1>5, <1>7, <1>8, <1>9 DEF LruTypeOK
<1>11. MapMatchesList' BY <1>2 DEF MapMatchesList
<1> HIDE DEF e, n
<1>12. list \subseteq Values BY DEF LruTypeOK
<1>13. CellsApart'
  <2>1. list \subseteq 1..n /\ overwritten' \subseteq 1..n
    BY <1>1, <1>2, <1>3, <1>4 DEF CellsApart
  <2>2. \A f \in list : cell'[f] \in 1..n /\ keyOf[f] \in Keys
    BY <1>1, <1>4, <1>6, <1>12 DEF CellsApart
  <2>3. \A f, g \in list : cell'[f] = cell'[g] => f = g
    <3>1. \A f \in list : cell[f] # n BY <1>1, <1>4 DEF CellsApart
    <3> QED BY <1>6, <1>12, <3>1 DEF CellsApart
  <2>4. \A v \in Values : v > n => evicted[v] = 0
    BY <1>1, <1>4 DEF CellsApart, Values
  <2> QED BY <1>2, <2>1, <2>2, <2>3, <2>4 DEF CellsApart, n
<1>14. FoundHeld'
  <2> SUFFICES ASSUME NEW w \in Users
               PROVE  /\ step'[w] # "idle" => key'[w] \in Keys
                      /\ step'[w] = "lookup" => CachedFor(key[w])' \subseteq held'[w]
                      /\ step'[w] \in {"touch", "read"} =>
                           /\ elem'[w] \in 1..n
                           /\ keyOf'[elem'[w]] = key'[w] /\ cell'[elem'[w]] \in held'[w]
    BY <1>1 DEF FoundHeld, n, CachedFor
  <2>1. CASE step'[w] = "lookup"
    <3>1. step[w] = "lookup" /\ key[w] \in Keys /\ CachedFor(key[w]) \subseteq held[w]
      BY <1>1, <2>1 DEF FoundHeld
    <3>2. CASE entries[key[w]] = Nothing
      BY <1>1, <1>2, <2>1, <3>1, <3>2 DEF CachedFor
    <3>3. CASE entries[key[w]] # Nothing
      <4>1. entries[key[w]] \in Values /\ keyOf[entries[key[w]]] = key[w]
        BY <1>1, <3>1, <3>3 DEF MapMatchesList, LruTypeOK
      <4>2. cell'[entries[key[w]]] \in held'[w]
        <5>1. CASE entries[key[w]] = e BY <1>1, <1>3, <1>6, <4>1, <5>1 DEF n
        <5>2. CASE entries[key[w]] # e
          BY <1>1, <1>6, <3>1, <3>3, <4>1, <5>2 DEF CachedFor
        <5> QED BY <1>1, <5>1, <5>2
      <4> QED BY <1>1, <1>2, <2>1, <3>1, <3>3, <4>2 DEF CachedFor
    <3> QED BY <1>1, <3>2, <3>3
  <2>2. CASE step'[w] \in {"touch", "read"}
    <3>1. /\ step[w] = step'[w] /\ key[w] \in Keys /\ elem[w] \in 1..sets
          /\ keyOf[elem[w]] = key[w] /\ cell[elem[w]] \in held[w]
      BY <1>1, <2>2 DEF FoundHeld
    <3>2. cell'[elem[w]] \in held'[w]
      <4>1. CASE elem[w] = e BY <1>1, <1>3, <1>4, <1>6, <3>1, <4>1 DEF n
      <4>2. CASE elem[w] # e BY <1>1, <1>4, <1>6, <3>1, <4>2
      <4> QED BY <1>1, <4>1, <4>2
    <3> QED BY <1>1, <1>2, <1>4, <2>2, <3>1, <3>2
  <2>3. CASE step'[w] \notin {"lookup", "touch", "read"}
    BY <1>1, <2>3 DEF FoundHeld
  <2> QED BY <1>1, <2>1, <2>2, <2>3
<1>15. NoneLost'
  <2> SUFFICES ASSUME NEW v \in 1..n
               PROVE  evicted[v] + (IF v \in overwritten' THEN 1 ELSE 0)
                        = IF \E f \in list : cell'[f] = v THEN 0 ELSE 1
    BY <1>1, <1>2 DEF NoneLost, n
  <2>1. CASE v = n
    <3>1. evicted[v] = 0 BY <1>1, <1>4, <2>1 DEF CellsApart
    <3>2. v \notin overwritten' BY <1>1, <1>2, <1>3, <1>4, <2>1 DEF CellsApart
    <3>3. cell'[e] = v BY <1>1, <1>3, <1>4, <1>6, <2>1
    <3> QED BY <1>1, <1>3, <3>1, <3>2, <3>3
  <2>2. CASE v = cell[e]
    <3>1. v \in 1..sets /\ evicted[v] \in 0..1 /\ \E f \in list : cell[f] = v
      BY <1>3, <1>4, <2>2 DEF LruTypeOK
    <3>2. evicted[v] = 0
      <4>1. evicted[v] + (IF v \in overwritten THEN 1 ELSE 0) = 0 BY <3>1 DEF NoneLost
      <4> QED BY <3>1, <4>1
    <3>3. v \in overwritten' BY <1>2, <2>2
    <3>4. ~\E f \in list : cell'[f] = v
      BY <1>1, <1>3, <1>4, <1>6, <1>12, <2>2 DEF CellsApart
    <3> QED BY <3>2, <3>3, <3>4
  <2>3. CASE v # n /\ v # cell[e]
    <3>1. v \in 1..sets BY <1>1, <1>4, <2>3
    <3>2. v \in overwritten' <=> v \in overwritten BY <1>1, <1>2, <2>3
    <3>3. (\E f \in list : cell'[f] = v) <=> \E f \in list : cell[f] = v
      BY <1>1, <1>6, <1>12, <2>3
    <3> QED BY <1>1, <3>1, <3>2, <3>3 DEF NoneLost
  <2> QED BY <1>1, <2>1, <2>2, <2>3
<1> QED BY <1>1, <1>10, <1>11, <1>13, <1>14, <1>15

\* A new element comes to the list and some others go: none, or the last one.
LEMMA LruInserts ==
  ASSUME LruInv, NEW u \in Users, Setting(u), Push(u),
         NEW gone \in SUBSET list,
         list' = (list \ gone) \cup {sets'},
         Cardinality(list') <= MaxEntries,
         entries' = [k \in Keys |-> IF k = key[u] THEN sets'
                                    ELSE IF entries[k] \in gone THEN Nothing ELSE entries[k]],
         evicted' = [v \in Values |-> IF \E e \in gone : cell[e] = v THEN evicted[v] + 1
                                      ELSE evicted[v]]
  PROVE  LruInv'
<1> USE DEF LruInv
<1> DEFINE n == sets'
<1>1. /\ key[u] \in Keys
      /\ n = sets + 1 /\ n \in Values
      /\ step' \in [Users -> {"idle", "lookup", "touch", "read", "miss"}]
      /\ \A w \in Users : step'[w] = IF w = u THEN "idle" ELSE step[w]
      /\ UNCHANGED <<key, elem, hit>>
      /\ held' \in [Users -> SUBSET Values]
      /\ \A w \in Users : held'[w] = IF key[w] = key[u] THEN held[w] \cup {n} ELSE held[w]
      /\ ReturnedWasCached'
  BY SetKeeps
<1>2. /\ sets \in Nat /\ 1..sets \subseteq Values
      /\ 1..sets \subseteq 1..n /\ n \in 1..n /\ n \notin 1..sets
  BY <1>1, LruAssumption DEF LruTypeOK, Values
<1>3. /\ entries[key[u]] = Nothing /\ overwritten' = overwritten
      /\ keyOf' = [keyOf EXCEPT ![n] = key[u]] /\ cell' = [cell EXCEPT ![n] = n]
      /\ ahead' = ToFront(n)
  BY DEF Push
<1>4. /\ \A e \in Values : keyOf'[e] = IF e = n THEN key[u] ELSE keyOf[e]
      /\ \A e \in Values : cell'[e] = IF e = n THEN n ELSE cell[e]
      /\ keyOf' \in [Values -> Keys \cup {Nothing}]
      /\ cell' \in [Values -> Values \cup {Nothing}]
  BY <1>1, <1>3 DEF LruTypeOK
<1>5. /\ list \subseteq Values /\ list \subseteq 1..sets /\ n \notin list
      /\ \A e \in list : cell[e] \in 1..sets /\ keyOf[e] \in Keys
  BY <1>2 DEF CellsApart, LruTypeOK
<1>6. \A e \in gone : \E v \in 1..sets : cell[e] = v /\ evicted[v] = 0 /\ v \notin overwritten
  <2> SUFFICES ASSUME NEW e \in gone
               PROVE  evicted[cell[e]] = 0 /\ cell[e] \notin overwritten
    BY <1>5
  <2>1. cell[e] \in 1..sets /\ evicted[cell[e]] \in 0..1 BY <1>2, <1>5 DEF LruTypeOK
  <2>2. evicted[cell[e]] + (IF cell[e] \in overwritten THEN 1 ELSE 0) = 0
    BY <2>1 DEF NoneLost
  <2> QED BY <2>1, <2>2
<1>7. LruTypeOK'
  <2>1. entries' \in [Keys -> Values \cup {Nothing}] BY <1>1 DEF LruTypeOK
  <2>2. list' \subseteq Values BY <1>1, <1>5
  <2>3. ahead' \in [Values -> SUBSET Values] BY <1>1, <1>3, OrderTyped
  <2>4. evicted' \in [Values -> 0..1]
    <3>1. \A v \in Values : (\E e \in gone : cell[e] = v) => evicted[v] = 0 BY <1>6
    <3> QED BY <3>1 DEF LruTypeOK
  <2>5. sets' \in 0..MaxSets BY <1>1, LruAssumption DEF Values
  <2> QED BY <1>1, <1>3, <1>4, <2>1, <2>2, <2>3, <2>4, <2>5 DEF LruTypeOK
<1>8. \A k \in Keys : entries'[k] = IF k = key[u] THEN n
                                   ELSE IF entries[k] \in gone THEN Nothing ELSE entries[k]
  BY <1>1
<1> HIDE DEF n
<1>9. MapMatchesList'
  <2>1. \A k \in Keys : entries'[k] # Nothing => entries'[k] \in list' /\ keyOf'[entries'[k]] = k
    <3> SUFFICES ASSUME NEW k \in Keys, entries'[k] # Nothing
                 PROVE  entries'[k] \in list' /\ keyOf'[entries'[k]] = k
      OBVIOUS
    <3>1. CASE k = key[u] BY <1>1, <1>4, <1>8, <3>1 DEF n
    <3>2. CASE k # key[u]
      <4>1. entries'[k] = entries[k] /\ entries[k] \notin gone /\ entries[k] # Nothing
        BY <1>8, <3>2
      <4>2. entries[k] \in list /\ keyOf[entries[k]] = k BY <4>1 DEF MapMatchesList
      <4> QED BY <1>4, <1>5, <4>1, <4>2
    <3> QED BY <3>1, <3>2
  <2>2. \A e \in list' : \E k \in Keys : entries'[k] = e
    <3> SUFFICES ASSUME NEW e \in list' PROVE \E k \in Keys : entries'[k] = e
      OBVIOUS
    <3>1. CASE e = n BY <1>1, <1>8, <3>1
    <3>2. CASE e # n
      <4>1. e \in list \ gone BY <3>2 DEF n
      <4>2. PICK k \in Keys : entries[k] = e /\ e # Nothing BY <4>1 DEF MapMatchesList
      <4> QED BY <1>3, <1>8, <4>1, <4>2
    <3> QED BY <3>1, <3>2
  <2>3. Nothing \notin list'
    <3>1. Nothing \notin Values BY LruAssumption DEF Values
    <3>2. list' \subseteq Values BY <1>7 DEF LruTypeOK
    <3> QED BY <3>1, <3>2
  <2> QED BY <2>1, <2>2, <2>3 DEF MapMatchesList
<1>10. CellsApart'
  <2>1. list' \subseteq 1..n /\ overwritten' \subseteq 1..n
    BY <1>2, <1>3, <1>5 DEF CellsApart, n
  <2>2. \A e \in list' : cell'[e] \in 1..n /\ keyOf'[e] \in Keys
    BY <1>1, <1>2, <1>4, <1>5 DEF n
  <2>3. \A e, f \in list' : cell'[e] = cell'[f] => e = f
    <3>1. \A e \in list : cell'[e] = cell[e] /\ cell[e] # n BY <1>2, <1>4, <1>5
    <3>2. cell'[n] = n BY <1>1, <1>4
    <3>3. list' \subseteq list \cup {n} BY DEF n
    <3> QED BY <3>1, <3>2, <3>3 DEF CellsApart
  <2>4. \A v \in Values : v > n => evicted'[v] = 0
    <3> SUFFICES ASSUME NEW v \in Values, v > n PROVE evicted'[v] = 0
      OBVIOUS
    <3>1. v > sets /\ v \notin 1..sets BY <1>1, <1>2 DEF Values
    <3>2. ~\E e \in gone : cell[e] = v BY <1>5, <3>1
    <3> QED BY <3>1, <3>2 DEF CellsApart
  <2> QED BY <2>1, <2>2, <2>3, <2>4 DEF CellsApart, n
<1>11. FoundHeld'
  <2> SUFFICES ASSUME NEW w \in Users
               PROVE  /\ step'[w] # "idle" => key'[w] \in Keys
                      /\ step'[w] = "lookup" => CachedFor(key[w])' \subseteq held'[w]
                      /\ step'[w] \in {"touch", "read"} =>
                           /\ elem'[w] \in 1..n
                           /\ keyOf'[elem'[w]] = key'[w] /\ cell'[elem'[w]] \in held'[w]
    BY <1>1 DEF FoundHeld, n, CachedFor
  <2>1. CASE step'[w] = "lookup"
    <3>1. key[w] \in Keys /\ CachedFor(key[w]) \subseteq held[w]
      BY <1>1, <2>1 DEF FoundHeld
    <3>2. CASE key[w] = key[u]
      <4>1. entries'[key[w]] = n /\ cell'[n] = n /\ n \in held'[w]
        BY <1>1, <1>4, <1>8, <3>2
      <4> QED BY <1>1, <2>1, <3>1, <4>1 DEF CachedFor
    <3>3. CASE key[w] # key[u] /\ entries'[key[w]] # Nothing
      <4>1. entries'[key[w]] = entries[key[w]] /\ entries[key[w]] # Nothing
        BY <1>8, <3>1, <3>3
      <4>2. entries[key[w]] \in list BY <3>1, <4>1 DEF MapMatchesList
      <4>3. cell'[entries[key[w]]] = cell[entries[key[w]]] BY <1>4, <1>5, <4>2
      <4>4. cell[entries[key[w]]] \in held'[w] BY <1>1, <3>1, <3>3, <4>1 DEF CachedFor
      <4> QED BY <1>1, <2>1, <3>1, <4>1, <4>3, <4>4 DEF CachedFor
    <3>4. CASE entries'[key[w]] = Nothing
      BY <1>1, <2>1, <3>1, <3>4 DEF CachedFor
    <3> QED BY <3>2, <3>3, <3>4
  <2>2. CASE step'[w] \in {"touch", "read"}
    <3>1. /\ key[w] \in Keys /\ elem[w] \in 1..sets
          /\ keyOf[elem[w]] = key[w] /\ cell[elem[w]] \in held[w]
      BY <1>1, <2>2 DEF FoundHeld
    <3>2. elem[w] \in Values /\ elem[w] # n /\ elem[w] \in 1..n BY <1>2, <3>1
    <3> QED BY <1>1, <1>4, <2>2, <3>1, <3>2
  <2>3. CASE step'[w] \notin {"lookup", "touch", "read"}
    BY <1>1, <2>3 DEF FoundHeld
  <2> QED BY <2>1, <2>2, <2>3
<1>12. NoneLost'
  <2> SUFFICES ASSUME NEW v \in 1..n
               PROVE  evicted'[v] + (IF v \in overwritten THEN 1 ELSE 0)
                        = IF \E e \in list' : cell'[e] = v THEN 0 ELSE 1
    BY <1>3 DEF NoneLost, n
  <2>0. v \in Values /\ evicted[v] \in Nat BY <1>1, <1>2 DEF Values, LruTypeOK
  <2>1. CASE v = n
    <3>1. ~\E e \in gone : cell[e] = v BY <1>2, <1>5, <2>1
    <3>2. evicted'[v] = evicted[v] /\ evicted[v] = 0
      BY <1>1, <2>0, <2>1, <3>1 DEF CellsApart, LruTypeOK
    <3>3. v \notin overwritten BY <1>2, <2>1 DEF CellsApart
    <3>4. n \in list' /\ cell'[n] = v BY <1>1, <1>4, <2>1 DEF n
    <3> QED BY <3>2, <3>3, <3>4
  <2>2. CASE \E e \in gone : cell[e] = v
    <3>1. PICK e \in gone : cell[e] = v BY <2>2
    <3>2. v \in 1..sets /\ evicted[v] = 0 /\ v \notin overwritten BY <1>6, <3>1
    <3>3. evicted'[v] = 1 BY <2>0, <2>2, <3>2
    <3>4. ~\E f \in list' : cell'[f] = v
      <4>1. cell'[n] # v BY <1>1, <1>2, <1>4, <3>2
      <4>2. \A f \in list \ gone : cell'[f] = cell[f] /\ cell[f] # v
        BY <1>4, <1>5, <3>1 DEF CellsApart
      <4> QED BY <4>1, <4>2 DEF n
    <3> QED BY <3>2, <3>3, <3>4
  <2>3. CASE v # n /\ ~\E e \in gone : cell[e] = v
    <3>1. v \in 1..sets BY <1>1, <1>2, <2>3
    <3>2. evicted'[v] = evicted[v] BY <2>0, <2>3
    <3>3. (\E e \in list' : cell'[e] = v) <=> \E e \in list : cell[e] = v
      <4>1. cell'[n] # v BY <1>1, <1>4, <2>3
      <4>2. \A f \in list : cell'[f] = cell[f] BY <1>4, <1>5
      <4> QED BY <2>3, <4>1, <4>2 DEF n
    <3> QED BY <3>1, <3>2, <3>3 DEF NoneLost
  <2> QED BY <2>1, <2>2, <2>3
<1> QED BY <1>1, <1>7, <1>9, <1>10, <1>11, <1>12

LEMMA ListFinite == LruInv => IsFiniteSet(list) /\ Cardinality(list) \in Nat
<1> SUFFICES ASSUME LruInv PROVE IsFiniteSet(list) /\ Cardinality(list) \in Nat OBVIOUS
<1>1. list \subseteq 1..MaxSets /\ MaxSets \in Int /\ 1 \in Int
  BY LruAssumption DEF LruInv, LruTypeOK, Values
<1>2. IsFiniteSet(1..MaxSets) BY <1>1, FS_Interval
<1>3. IsFiniteSet(list) BY <1>1, <1>2, FS_Subset
<1> QED BY <1>3, FS_CardinalityType

LEMMA LruInsert ==
  ASSUME LruInv, NEW u \in Users, Insert(u)
  PROVE  LruInv'
<1>1. Setting(u) /\ Push(u) /\ key[u] \in Keys /\ sets' \in Values
  BY SetKeeps DEF Insert
<1>2. Cardinality(list) < MaxEntries /\ list' = list \cup {sets'} /\ evicted' = evicted
      /\ entries' = [entries EXCEPT ![key[u]] = sets']
  BY DEF Insert
<1>3. Cardinality(list') <= MaxEntries
  <2>1. Cardinality(list') = Cardinality(list) \/ Cardinality(list') = Cardinality(list) + 1
    BY <1>2, ListFinite, FS_AddElement
  <2> QED BY <1>2, <2>1, ListFinite, LruAssumption
<1>4. list' = (list \ {}) \cup {sets'} BY <1>2
<1>5. entries' = [k \in Keys |-> IF k = key[u] THEN sets'
                                 ELSE IF entries[k] \in {} THEN Nothing ELSE entries[k]]
  BY <1>1, <1>2 DEF LruInv, LruTypeOK
<1>6. evicted' = [v \in Values |-> IF \E e \in {} : cell[e] = v THEN evicted[v] + 1
                                   ELSE evicted[v]]
  BY <1>2 DEF LruInv, LruTypeOK
<1>7. {} \in SUBSET list OBVIOUS
<1> QED BY <1>1, <1>3, <1>4, <1>5, <1>6, <1>7, LruInserts

LEMMA LruInsertFull ==
  ASSUME LruInv, NEW u \in Users, InsertFull(u)
  PROVE  LruInv'
<1>1. Setting(u) /\ Push(u) /\ key[u] \in Keys /\ sets' \in Values /\ sets' = sets + 1
  BY SetKeeps DEF InsertFull
<1>2. PICK e \in Back : list' = (list \ {e}) \cup {sets'} /\ Forget(e, u) /\ HandOver(e)
  BY DEF InsertFull
<1>3. e \in list /\ keyOf[e] \in Keys /\ cell[e] \in Values /\ sets' \notin list
  BY <1>1, <1>2, LruAssumption DEF Back, LruInv, CellsApart, LruTypeOK, Values
<1>4. Cardinality(list') <= MaxEntries
  <2>1. IsFiniteSet(list \ {e}) /\ Cardinality(list \ {e}) = Cardinality(list) - 1
    BY <1>3, ListFinite, FS_RemoveElement
  <2>2. sets' \notin list \ {e} BY <1>3
  <2>3. Cardinality((list \ {e}) \cup {sets'}) = Cardinality(list \ {e}) + 1
    BY <2>1, <2>2, FS_AddElement
  <2>4. Cardinality(list') = Cardinality(list) BY <1>2, <2>1, <2>3, ListFinite
  <2> QED BY <2>4 DEF LruInv, MapMatchesList
<1>5. \A k \in Keys : entries[k] \in {e} <=> k = keyOf[e]
  BY <1>3, LruAssumption DEF LruInv, MapMatchesList
<1>6. keyOf[e] # key[u]
  <2>1. entries[keyOf[e]] = e BY <1>3, <1>5
  <2>2. entries[key[u]] = Nothing BY <1>1 DEF Push
  <2>3. e # Nothing BY <1>3 DEF LruInv, MapMatchesList
  <2> QED BY <2>1, <2>2, <2>3
<1>7. entries' = [k \in Keys |-> IF k = key[u] THEN sets'
                                 ELSE IF entries[k] \in {e} THEN Nothing ELSE entries[k]]
  BY <1>1, <1>2, <1>3, <1>5, <1>6 DEF Forget, LruInv, LruTypeOK
<1>8. evicted' = [v \in Values |-> IF \E f \in {e} : cell[f] = v THEN evicted[v] + 1
                                   ELSE evicted[v]]
  BY <1>2, <1>3 DEF HandOver, LruInv, LruTypeOK
<1>9. {e} \in SUBSET list BY <1>3
<1> QED BY <1>1, <1>2, <1>4, <1>7, <1>8, <1>9, LruInserts

LEMMA LruInvStep == LruInv /\ [LruNext]_lruVars => LruInv'
<1> SUFFICES ASSUME LruInv, [LruNext]_lruVars PROVE LruInv' OBVIOUS
<1>1. ASSUME NEW u \in Users, (\E k \in Keys : Get(u, k)) \/ Lookup(u) \/ ReadValue(u)
      PROVE  LruInv'
  BY <1>1, LruReads
<1>2. ASSUME NEW u \in Users, Touch(u) PROVE LruInv' BY <1>2, LruTouch
<1>7. ASSUME NEW u \in Users, NoDialer(u) PROVE LruInv'
  <2>1. UNCHANGED <<cacheVars, key, elem, hit, held>> /\ step' = [step EXCEPT ![u] = "idle"]
    BY <1>7 DEF NoDialer, At
  <2> QED
    BY <2>1 DEF cacheVars, LruInv, LruTypeOK, MapMatchesList, CellsApart, FoundHeld,
                CachedFor, ReturnedWasCached, NoneLost
<1>3. ASSUME NEW u \in Users, Overwrite(u) PROVE LruInv' BY <1>3, LruOverwrite
<1>4. ASSUME NEW u \in Users, Insert(u) PROVE LruInv' BY <1>4, LruInsert
<1>5. ASSUME NEW u \in Users, InsertFull(u) PROVE LruInv' BY <1>5, LruInsertFull
<1>6. CASE UNCHANGED lruVars
  BY <1>6 DEF lruVars, cacheVars, userVars, LruInv, LruTypeOK, MapMatchesList, CellsApart,
              FoundHeld, CachedFor, ReturnedWasCached, NoneLost
<1> QED BY <1>1, <1>2, <1>3, <1>4, <1>5, <1>6, <1>7 DEF LruNext

LEMMA LruInvariant == LruSpec => []LruInv
BY LruInvInit, LruInvStep, PTL DEF LruSpec

\* The map and the list of the cache agree, within its capacity.
THEOREM MapIsList == LruSpec => []MapMatchesList
<1>1. LruInv => MapMatchesList BY DEF LruInv
<1> QED BY <1>1, LruInvariant, PTL

\* Get returns what the cache had for the key during the call.
THEOREM ReturnedIsCached == LruSpec => []ReturnedWasCached
<1>1. LruInv => ReturnedWasCached BY DEF LruInv
<1> QED BY <1>1, LruInvariant, PTL

\* Every transport is cached, replaced or given to onEvict, once.
THEOREM NoTransportLost == LruSpec => []NoneLost
<1>1. LruInv => NoneLost BY DEF LruInv
<1> QED BY <1>1, LruInvariant, PTL

-----------------------------------------------------------------------------
(* RelayFilter.  The parser's loop is compared with the string it has read by *)
(* now, so that what its last turn did is all that has to be looked at.       *)

AnyPart == Parts \cup {Blank}

\* lastKey is the key that a further part without a key would count for.
KeyRead ==
  parser.ok =>
    \/ CountsFor(Len(typed), parser.lastKey)
    \/ parser.lastKey = NoKey /\ \A j \in 1..Len(typed) : typed[j].key = Keyless

ParserInv == FilterTypeOK /\ KeyRead /\ ParseAgrees

\* A part counts for one key.
LEMMA OneKey ==
  ASSUME NEW i \in Nat, NEW k, NEW q, CountsFor(i, k), CountsFor(i, q) PROVE k = q
<1>1. PICK j \in 1..i : /\ typed[j].key = k /\ k # Keyless
                        /\ \A l \in (j + 1)..i : typed[l].key = Keyless
  BY DEF CountsFor
<1>2. PICK h \in 1..i : /\ typed[h].key = q /\ q # Keyless
                        /\ \A l \in (h + 1)..i : typed[l].key = Keyless
  BY DEF CountsFor
<1>3. j \in Nat /\ h \in Nat /\ ~(j < h) /\ ~(h < j)
  BY <1>1, <1>2
<1>4. QED
  BY <1>1, <1>2, <1>3

\* What a further part leaves as it was.
LEMMA PartsKept ==
  ASSUME typed \in Seq(AnyPart), NEW part \in AnyPart, typed' = Append(typed, part)
  PROVE  /\ Len(typed) \in Nat /\ Len(typed') = Len(typed) + 1
         /\ DOMAIN typed = 1..Len(typed) /\ DOMAIN typed' = 1..(Len(typed) + 1)
         /\ \A i \in 1..Len(typed) : typed'[i] = typed[i]
         /\ typed'[Len(typed) + 1] = part
  OBVIOUS

LEMMA KeysKept ==
  ASSUME typed \in Seq(AnyPart), NEW part \in AnyPart, typed' = Append(typed, part),
         NEW i \in 1..Len(typed)
  PROVE  /\ \A k : CountsFor(i, k)' <=> CountsFor(i, k)
         /\ Readable(i)' <=> Readable(i)
<1>1. \A j \in 1..i : typed'[j] = typed[j] /\ j \in 1..Len(typed)
  BY PartsKept
<1>2. ASSUME NEW k PROVE CountsFor(i, k)' <=> CountsFor(i, k)
  <2>1. ASSUME NEW j \in 1..i
        PROVE  (\A l \in (j + 1)..i : typed'[l].key = Keyless)
                 <=> (\A l \in (j + 1)..i : typed[l].key = Keyless)
    BY <1>1
  <2>2. QED
    BY <1>1, <2>1 DEF CountsFor
<1>3. i \in 1..i
  OBVIOUS
<1>4. QED
  BY <1>1, <1>2, <1>3 DEF Readable

\* The key of a further part.
LEMMA KeyOfNew ==
  ASSUME typed \in Seq(AnyPart), NEW part \in AnyPart, typed' = Append(typed, part), NEW k,
         NEW m, m = Len(typed) + 1
  PROVE  CountsFor(m, k)'
           <=> IF part.key = Keyless THEN CountsFor(Len(typed), k) ELSE k = part.key
<1> DEFINE n == Len(typed)
<1>1. /\ n \in Nat /\ m = n + 1 /\ typed'[m] = part
      /\ \A i \in 1..n : typed'[i] = typed[i]
  BY PartsKept
<1>2. CountsFor(m, k)' <=>
        \E j \in 1..m : /\ typed'[j].key = k /\ k # Keyless
                              /\ \A l \in (j + 1)..m : typed'[l].key = Keyless
  BY PartsKept DEF CountsFor
<1>3. CASE part.key = Keyless
  <2>1. ASSUME CountsFor(n, k) PROVE CountsFor(m, k)'
    <3>1. PICK j \in 1..n : /\ typed[j].key = k /\ k # Keyless
                            /\ \A l \in (j + 1)..n : typed[l].key = Keyless
      BY <2>1 DEF CountsFor
    <3>2. \A l \in (j + 1)..m : typed'[l].key = Keyless
      BY <1>1, <1>3, <3>1
    <3>3. j \in 1..m /\ typed'[j].key = k
      BY <1>1, <3>1
    <3>4. QED
      BY <1>2, <3>1, <3>2, <3>3
  <2>2. ASSUME CountsFor(m, k)' PROVE CountsFor(n, k)
    <3>1. PICK j \in 1..m : /\ typed'[j].key = k /\ k # Keyless
                                  /\ \A l \in (j + 1)..m : typed'[l].key = Keyless
      BY <1>2, <2>2
    <3>2. j \in 1..n
      BY <1>1, <1>3, <3>1
    <3>3. \A l \in (j + 1)..n : typed[l].key = Keyless
      BY <1>1, <3>1, <3>2
    <3>4. QED
      BY <1>1, <3>1, <3>2, <3>3 DEF CountsFor
  <2>3. QED
    BY <1>3, <2>1, <2>2
<1>4. CASE part.key # Keyless
  <2>1. ASSUME k = part.key PROVE CountsFor(m, k)'
    <3>1. m \in 1..m /\ \A l \in (m + 1)..m : typed'[l].key = Keyless
      BY <1>1
    <3>2. QED
      BY <1>1, <1>2, <1>4, <2>1, <3>1
  <2>2. ASSUME CountsFor(m, k)' PROVE k = part.key
    <3>1. PICK j \in 1..m : /\ typed'[j].key = k /\ k # Keyless
                                  /\ \A l \in (j + 1)..m : typed'[l].key = Keyless
      BY <1>2, <2>2
    <3>2. j = m
      BY <1>1, <1>4, <3>1
    <3>3. QED
      BY <1>1, <3>1, <3>2
  <2>3. QED
    BY <1>4, <2>1, <2>2
<1>5. QED
  BY <1>3, <1>4

\* The parts that give key q a value, after a further part.
LEMMA GivingNew ==
  ASSUME typed \in Seq(AnyPart), NEW part \in AnyPart, typed' = Append(typed, part), NEW q,
         NEW m, m = Len(typed) + 1
  PROVE  \A i : i \in Giving(q)' <=>
                  i \in Giving(q) \/ (i = m /\ CountsFor(m, q)' /\ part.value # "")
<1> DEFINE n == Len(typed)
<1>1. /\ n \in Nat /\ m = n + 1 /\ typed'[m] = part
      /\ DOMAIN typed = 1..n /\ DOMAIN typed' = 1..m
      /\ \A i \in 1..n : typed'[i] = typed[i]
  BY PartsKept
<1>2. \A i \in 1..n : CountsFor(i, q)' <=> CountsFor(i, q)
  BY KeysKept
<1>3. Giving(q)' = {i \in 1..m : CountsFor(i, q)' /\ typed'[i].value # ""}
  BY <1>1 DEF Giving
<1>4. Giving(q) = {i \in 1..n : CountsFor(i, q) /\ typed[i].value # ""}
  BY <1>1 DEF Giving
<1>5. 1..m = (1..n) \cup {m}
  BY <1>1
<1>6. QED
  BY <1>1, <1>2, <1>3, <1>4, <1>5

LEMMA BlankIsKeyless == Blank \in AnyPart /\ Blank.key = Keyless /\ Blank.value = ""
BY DEF AnyPart, Blank, Keyless

LEMMA ParserInit == FilterInit => ParserInv
<1> SUFFICES ASSUME FilterInit PROVE ParserInv
  OBVIOUS
<1>1. /\ base \in BaseFilters /\ typed = <<>> /\ parser = NewParser
      /\ Len(typed) = 0 /\ DOMAIN typed = {} /\ 1..Len(typed) = {}
  BY DEF FilterInit
<1>2. parser.ok = TRUE /\ parser.lastKey = NoKey /\ parser.auth = NoFilter
  BY <1>1 DEF NewParser
<1>3. FilterTypeOK
  <2>1. TRUE \in BOOLEAN
    BY Zenon
  <2>2. NoKey \in PartKeys
    BY DEF PartKeys
  <2>3. parser \in [ok : BOOLEAN, lastKey : PartKeys, auth : {NoFilter}]
    BY <1>1, <2>1, <2>2 DEF NewParser
  <2>4. NoFilter = [k \in FilterKeys |-> NoFilter[k]]
    BY DEF NoFilter
  <2>5. \A k \in FilterKeys : NoFilter[k] = IF k \in ListKeys THEN {} ELSE Unset
    BY DEF NoFilter
  <2>6. \A k \in ScalarKeys : k \notin ListKeys
    BY DEF ScalarKeys, ListKeys
  <2>7. IsAuth(NoFilter)
    BY <2>4, <2>5, <2>6 DEF IsAuth, FilterKeys
  <2>8. typed \in Seq(Parts \cup {Blank})
    BY <1>1
  <2>9. QED
    BY <1>1, <1>2, <2>3, <2>7, <2>8 DEF FilterTypeOK
<1>4. KeyRead
  BY <1>1, <1>2 DEF KeyRead, NoKey
<1>5. \A k : Giving(k) = {}
  BY <1>1 DEF Giving
<1>6. ParseAgrees
  BY <1>1, <1>2, <1>5 DEF ParseAgrees, NoFilter
<1>7. QED
  BY <1>3, <1>4, <1>6 DEF ParserInv

\* What a turn of the loop does, case by case.
LEMMA TurnFacts ==
  ASSUME ParserInv, NEW part \in AnyPart, parser' = ParsePart(parser, part)
  PROVE  LET k == KeyOfPart(parser, part) IN
         /\ parser' \in [ok : BOOLEAN, lastKey : {parser.lastKey, k}, auth : {parser'.auth}]
         /\ parser'.ok <=>
              /\ parser.ok
              /\ part = Blank \/ part.value = "" \/ Valid(k, part.value)
         /\ parser'.ok /\ part = Blank => parser' = parser
         /\ parser'.ok /\ part # Blank => parser'.lastKey = k
         /\ ~parser'.ok \/ part.value = "" => parser'.auth = parser.auth
         /\ parser'.ok /\ part.value # "" =>
              Valid(k, part.value) /\ parser'.auth = Put(parser.auth, k, part.value)
<1> DEFINE k == KeyOfPart(parser, part)
<1>1. parser = [ok |-> parser.ok, lastKey |-> parser.lastKey, auth |-> parser.auth]
      /\ parser.ok \in BOOLEAN
  BY DEF ParserInv, FilterTypeOK
<1>2. Blank.value = ""
  BY DEF Blank
<1>3. CASE ~parser.ok \/ part = Blank
  <2>1. parser' = parser
    BY <1>3 DEF ParsePart
  <2>2. parser \in [ok : BOOLEAN, lastKey : {parser.lastKey, k}, auth : {parser.auth}]
    BY <1>1
  <2>3. part = Blank => part.value = ""
    BY <1>2
  <2>4. QED
    BY <1>3, <2>1, <2>2, <2>3
<1>5. CASE parser.ok /\ part # Blank /\ part.value = ""
  <2>1. parser' = [parser EXCEPT !.lastKey = k]
    BY <1>5 DEF ParsePart
  <2>2. parser'.ok = parser.ok /\ parser'.lastKey = k /\ parser'.auth = parser.auth
    BY <1>1, <2>1
  <2>3. QED
    BY <1>1, <1>5, <2>1, <2>2
<1>6. CASE parser.ok /\ part # Blank /\ part.value # "" /\ ~Valid(k, part.value)
  <2>1. parser' = [parser EXCEPT !.ok = FALSE]
    BY <1>6 DEF ParsePart, Failed
  <2>2. parser'.ok = FALSE /\ parser'.lastKey = parser.lastKey /\ parser'.auth = parser.auth
    BY <1>1, <2>1
  <2>3. QED
    BY <1>1, <1>6, <2>1, <2>2
<1>7. CASE parser.ok /\ part # Blank /\ part.value # "" /\ Valid(k, part.value)
  <2>1. parser' = [parser EXCEPT !.lastKey = k, !.auth = Put(@, k, part.value)]
    BY <1>7 DEF ParsePart
  <2>2. parser'.ok = parser.ok /\ parser'.lastKey = k
        /\ parser'.auth = Put(parser.auth, k, part.value)
    BY <1>1, <2>1
  <2>3. QED
    BY <1>1, <1>7, <2>1, <2>2
<1>8. QED
  BY <1>1, <1>3, <1>5, <1>6, <1>7

\* A value that is put keeps the type of an auth.
LEMMA PutTyped ==
  ASSUME NEW a, IsAuth(a), NEW part \in Parts, NEW k \in FilterKeys
  PROVE  /\ IsAuth(Put(a, k, part.value))
         /\ \A q \in FilterKeys \ {k} : Put(a, k, part.value)[q] = a[q]
         /\ Put(a, k, part.value)[k] = IF k \in ListKeys THEN a[k] \cup {part.value}
                                       ELSE IF Zero(k, part.value) THEN Unset ELSE part.value
<1> DEFINE v == part.value
           w == IF k \in ListKeys THEN a[k] \cup {v} ELSE IF Zero(k, v) THEN Unset ELSE v
           b == Put(a, k, v)
<1>1. b = [a EXCEPT ![k] = w]
  BY DEF Put
<1>2. a = [q \in FilterKeys |-> a[q]]
  BY DEF IsAuth
<1> HIDE DEF w
<1>3. b = [q \in FilterKeys |-> IF q = k THEN w ELSE a[q]]
  BY <1>1, <1>2
<1> HIDE DEF b
<1>4. b = [q \in FilterKeys |-> b[q]] /\ b[k] = w /\ \A q \in FilterKeys \ {k} : b[q] = a[q]
  BY <1>3
<1>5. v \in {p.value : p \in Parts}
  OBVIOUS
<1>6. \A q \in ListKeys : b[q] \subseteq {p.value : p \in Parts}
  BY <1>4, <1>5 DEF IsAuth, FilterKeys, w
<1>7. \A q \in ScalarKeys : b[q] \in {p.value : p \in Parts} \cup {Unset}
  <2>1. \A q \in ScalarKeys : q \notin ListKeys
    BY DEF ScalarKeys, ListKeys
  <2>2. QED
    BY <1>4, <1>5, <2>1 DEF IsAuth, FilterKeys, w
<1>8. IsAuth(b)
  BY <1>4, <1>6, <1>7 DEF IsAuth
<1>9. QED
  BY <1>4, <1>8 DEF b, w

\* What ParseAgrees says of one key.
AuthAgrees(q) ==
  IF q \in ListKeys
  THEN parser.auth[q] = {typed[i].value : i \in Giving(q)}
  ELSE \/ Giving(q) = {} /\ parser.auth[q] = Unset
       \/ \E i \in Giving(q) :
            /\ \A j \in Giving(q) : j <= i
            /\ parser.auth[q] = IF Zero(q, typed[i].value) THEN Unset ELSE typed[i].value

\* Every part that is read is compared anew.
LEMMA ParserStep == ParserInv /\ [FilterNext]_filterVars => ParserInv'
<1> SUFFICES ASSUME ParserInv, [FilterNext]_filterVars PROVE ParserInv'
  OBVIOUS
<1>1. CASE UNCHANGED filterVars
  <2>1. base' = base /\ typed' = typed /\ parser' = parser
    BY <1>1 DEF filterVars
  <2>2. FilterTypeOK' <=> FilterTypeOK
    BY <2>1 DEF FilterTypeOK, IsAuth
  <2>3. KeyRead' <=> KeyRead
    BY <2>1 DEF KeyRead, CountsFor
  <2>4. \A q : Giving(q)' = Giving(q)
    BY <2>1 DEF Giving, CountsFor
  <2>5. \A i : Readable(i)' <=> Readable(i)
    BY <2>1 DEF Readable, CountsFor
  <2>6. ParseAgrees' <=> ParseAgrees
    BY <2>1, <2>4, <2>5 DEF ParseAgrees
  <2>7. QED
    BY <2>2, <2>3, <2>6 DEF ParserInv
<1>2. CASE FilterNext
  <2>1. PICK part \in AnyPart :
          /\ typed' = Append(typed, part) /\ parser' = ParsePart(parser, part)
          /\ base' = base
    BY <1>2 DEF FilterNext, TypePart, AnyPart
  <2>2. FilterTypeOK /\ KeyRead /\ ParseAgrees /\ typed \in Seq(AnyPart)
    BY DEF ParserInv, FilterTypeOK, AnyPart
  <2>3. PICK m \in Nat : m = Len(typed) + 1
    BY <2>2
  <2> DEFINE n == Len(typed)
             v == part.value
  <2>0. PICK k : k = KeyOfPart(parser, part)
    OBVIOUS
  <2>4. /\ n \in Nat /\ DOMAIN typed = 1..n /\ DOMAIN typed' = 1..m /\ typed'[m] = part
        /\ \A i \in 1..n : typed'[i] = typed[i]
    BY <2>1, <2>2, <2>3, PartsKept
  <2>5. /\ parser' \in [ok : BOOLEAN, lastKey : {parser.lastKey, k}, auth : {parser'.auth}]
        /\ parser'.ok <=>
             parser.ok /\ (part = Blank \/ v = "" \/ Valid(k, v))
        /\ parser'.ok /\ part = Blank => parser' = parser
        /\ parser'.ok /\ part # Blank => parser'.lastKey = k
        /\ ~parser'.ok \/ v = "" => parser'.auth = parser.auth
        /\ parser'.ok /\ v # "" => Valid(k, v) /\ parser'.auth = Put(parser.auth, k, v)
    BY <2>0, <2>1, TurnFacts
  <2>6. k \in PartKeys /\ parser.lastKey \in PartKeys
    <3>1. parser.lastKey \in PartKeys
      BY <2>2 DEF FilterTypeOK
    <3>2. part.key # Keyless => part.key \in PartKeys
      BY BlankIsKeyless DEF PartKeys, AnyPart
    <3> QED
      BY <2>0, <3>1, <3>2 DEF KeyOfPart
  <2>7. Valid(k, v) => k \in FilterKeys
    BY DEF Valid, FilterKeys, ScalarKeys
  <2>8. parser'.ok => parser'.lastKey = k
    BY <2>0, <2>5, BlankIsKeyless DEF KeyOfPart
  <2>16. ASSUME parser'.ok, v # ""
         PROVE  /\ k \in FilterKeys /\ IsAuth(parser'.auth)
                /\ \A q \in FilterKeys \ {k} : parser'.auth[q] = parser.auth[q]
                /\ parser'.auth[k] = IF k \in ListKeys THEN parser.auth[k] \cup {v}
                                     ELSE IF Zero(k, v) THEN Unset ELSE v
    <3>1. part \in Parts /\ k \in FilterKeys /\ IsAuth(parser.auth)
      BY <2>2, <2>5, <2>7, <2>16, BlankIsKeyless DEF AnyPart, FilterTypeOK
    <3>2. parser'.auth = Put(parser.auth, k, part.value)
      BY <2>5, <2>16
    <3> DEFINE a == parser.auth
    <3>3. /\ IsAuth(Put(a, k, part.value))
          /\ \A q \in FilterKeys \ {k} : Put(a, k, part.value)[q] = a[q]
          /\ Put(a, k, part.value)[k] = IF k \in ListKeys THEN a[k] \cup {part.value}
                                        ELSE IF Zero(k, part.value) THEN Unset ELSE part.value
      <4> HIDE DEF a
      <4>1. IsAuth(a)
        BY <3>1 DEF a
      <4>2. QED
        BY <3>1, <4>1, PutTyped
    <3>4. QED
      BY <3>1, <3>2, <3>3
  <2>9. FilterTypeOK'
    <3>1. IsAuth(parser.auth)'
      <4>1. CASE ~parser'.ok \/ v = ""
        BY <2>2, <2>5, <4>1 DEF FilterTypeOK, IsAuth
      <4>2. CASE parser'.ok /\ v # ""
        BY <2>16, <4>2 DEF IsAuth
      <4>3. QED
        BY <4>1, <4>2
    <3>2. parser' \in [ok : BOOLEAN, lastKey : PartKeys, auth : {parser'.auth}]
      BY <2>5, <2>6
    <3>3. typed' \in Seq(Parts \cup {Blank})
      BY <2>1, <2>2 DEF AnyPart
    <3>4. QED
      BY <2>1, <2>2, <3>1, <3>2, <3>3 DEF FilterTypeOK
  <2>10. ASSUME parser.ok, NEW q
         PROVE  /\ CountsFor(m, q)' => q = k
                /\ k # NoKey \/ part.key # Keyless => CountsFor(m, k)'
    <3>1. \A x : CountsFor(m, x)' <=> IF part.key = Keyless THEN CountsFor(n, x) ELSE x = part.key
      BY <2>1, <2>2, <2>3, KeyOfNew
    <3>2. /\ CountsFor(n, q) => q = parser.lastKey
          /\ parser.lastKey # NoKey => CountsFor(n, parser.lastKey)
      <4>1. CASE CountsFor(n, parser.lastKey)
        BY <2>4, <4>1, OneKey
      <4>2. CASE parser.lastKey = NoKey /\ \A j \in 1..n : typed[j].key = Keyless
        BY <4>2 DEF CountsFor
      <4>3. QED
        BY <2>2, <2>10, <4>1, <4>2 DEF KeyRead
    <3>3. QED
      BY <2>0, <3>1, <3>2 DEF KeyOfPart
  <2>11. KeyRead'
    <3> SUFFICES ASSUME parser'.ok
                 PROVE  \/ \E j \in 1..m : /\ typed'[j].key = k /\ k # Keyless
                                           /\ \A l \in (j + 1)..m : typed'[l].key = Keyless
                        \/ k = NoKey /\ \A j \in 1..m : typed'[j].key = Keyless
      BY <2>4, <2>8 DEF KeyRead, CountsFor
    <3>1. CASE k # NoKey \/ part.key # Keyless
      <4>1. CountsFor(m, k)'
        BY <2>5, <2>10, <3>1
      <4>2. QED
        BY <4>1 DEF CountsFor
    <3>2. CASE k = NoKey /\ part.key = Keyless
      <4>1. parser.lastKey = NoKey /\ parser.ok
        BY <2>0, <2>5, <3>2 DEF KeyOfPart
      <4>2. CASE \A j \in 1..n : typed[j].key = Keyless
        BY <2>3, <2>4, <3>2, <4>2
      <4>3. CASE CountsFor(n, NoKey)
        <5>1. CountsFor(m, NoKey)'
          BY <2>1, <2>2, <2>3, <3>2, <4>3, KeyOfNew
        <5>2. QED
          BY <3>2, <5>1 DEF CountsFor
      <4>4. QED
        BY <2>2, <4>1, <4>2, <4>3 DEF KeyRead
    <3>3. QED
      BY <3>1, <3>2
  <2>12. parser'.ok <=> \A i \in DOMAIN typed' : Readable(i)'
    <3>1. \A i \in 1..n : Readable(i)' <=> Readable(i)
      BY <2>1, <2>2, KeysKept
    <3>2. parser.ok <=> \A i \in 1..n : Readable(i)
      BY <2>2, <2>4 DEF ParseAgrees
    <3>3. ASSUME parser.ok
          PROVE  Readable(m)' <=> part = Blank \/ v = "" \/ Valid(k, v)
      <4>1. Readable(m)' <=>
              \/ part = Blank
              \/ \E q \in PartKeys : CountsFor(m, q)' /\ (v = "" \/ Valid(q, v))
        BY <2>4 DEF Readable
      <4>2. ASSUME NEW q \in PartKeys, CountsFor(m, q)', v = "" \/ Valid(q, v)
            PROVE  v = "" \/ Valid(k, v)
        BY <2>10, <3>3, <4>2
      <4>3. ASSUME part # Blank, v = "" \/ Valid(k, v) PROVE CountsFor(m, k)'
        <5>1. v = "" => part.key # Keyless
          BY <4>3, FilterAssumption DEF AnyPart
        <5>2. Valid(k, v) => k # NoKey
          BY <2>7 DEF FilterKeys, ListKeys, ScalarKeys, NoKey
        <5>3. QED
          BY <2>10, <3>3, <4>3, <5>1, <5>2
      <4>4. QED
        BY <2>6, <4>1, <4>2, <4>3, Zenon
    <3>4. \A i : i \in 1..m <=> i \in 1..n \/ i = m
      BY <2>3, <2>4
    <3>5. QED
      BY <2>4, <2>5, <3>1, <3>2, <3>3, <3>4
  <2>13. ASSUME parser'.ok, NEW q \in FilterKeys PROVE AuthAgrees(q)'
    <3>1. parser.ok /\ AuthAgrees(q)
      BY <2>2, <2>5, <2>13 DEF ParseAgrees, AuthAgrees
    <3>2. \A i : i \in Giving(q)' <=>
                   i \in Giving(q) \/ (i = m /\ CountsFor(m, q)' /\ v # "")
      BY <2>1, <2>2, <2>3, GivingNew
    <3>3. Giving(q) \subseteq 1..n /\ \A i \in Giving(q) : typed'[i] = typed[i]
      BY <2>4 DEF Giving
    <3>4. CASE v = "" \/ q # k
      <4>1. Giving(q)' = Giving(q)
        BY <2>10, <3>1, <3>2, <3>4
      <4>2. (parser.auth[q])' = parser.auth[q]
        <5>1. CASE v = ""
          BY <2>5, <5>1
        <5>2. CASE v # "" /\ q # k
          BY <2>13, <2>16, <5>2
        <5>3. QED
          BY <3>4, <5>1, <5>2
      <4>3. QED
        BY <3>1, <3>3, <4>1, <4>2 DEF AuthAgrees
    <3>5. CASE v # "" /\ q = k
      <4>2. (parser.auth[q])' = IF q \in ListKeys THEN parser.auth[q] \cup {v}
                                ELSE IF Zero(q, v) THEN Unset ELSE v
        BY <2>13, <2>16, <3>5
      <4>3. Giving(q)' = Giving(q) \cup {m}
        <5>1. q # NoKey
          BY DEF FilterKeys, ListKeys, ScalarKeys, NoKey
        <5>2. QED
          BY <2>10, <3>1, <3>2, <3>5, <5>1
      <4>4. CASE q \in ListKeys
        <5>1. parser.auth[q] = {typed[i].value : i \in Giving(q)}
          BY <3>1, <4>4 DEF AuthAgrees
        <5>2. {typed'[i].value : i \in Giving(q)'}
                = {typed[i].value : i \in Giving(q)} \cup {v}
          BY <2>4, <3>3, <4>3
        <5>3. QED
          BY <4>2, <4>4, <5>1, <5>2 DEF AuthAgrees
      <4>5. CASE q \notin ListKeys
        <5>1. m \in Giving(q)' /\ \A j \in Giving(q)' : j <= m
          BY <2>3, <2>4, <3>3, <4>3
        <5>2. (parser.auth[q])' = IF Zero(q, typed'[m].value) THEN Unset ELSE typed'[m].value
          BY <2>4, <4>2, <4>5
        <5>3. QED
          BY <4>5, <5>1, <5>2 DEF AuthAgrees
      <4>6. QED
        BY <4>4, <4>5
    <3>6. QED
      BY <3>4, <3>5
  <2>14. ParseAgrees'
    BY <2>12, <2>13 DEF ParseAgrees, AuthAgrees
  <2>15. QED
    BY <2>9, <2>11, <2>14 DEF ParserInv
<1>3. QED
  BY <1>1, <1>2

LEMMA ParserInvariant == FilterSpec => []ParserInv
BY ParserInit, ParserStep, PTL DEF FilterSpec

\* ParseProxyAuth finds in a string what the string says as a whole.
THEOREM ParserIsRight == FilterSpec => []ParseAgrees
<1>1. ParserInv => ParseAgrees BY DEF ParserInv
<1> QED BY <1>1, ParserInvariant, PTL

\* The relays of a request are those of the base filter unless it names values
\* that the base filter leaves out: by the code of ApplyTo and filterByFilter
\* alone, whatever the parser has found.
LEMMA NarrowedLists ==
  ASSUME NEW a, NEW f, NEW s \in Servers, NEW k \in ListKeys,
         f[k] = {} \/ a[k] \subseteq f[k], Matches(s, ApplyTo(a, f))
  PROVE  f[k] = {} \/ s[k] \in f[k]
<1>1. ApplyTo(a, f)[k] = f[k] \cup a[k]
  BY DEF ApplyTo, FilterKeys
<1>2. QED
  BY <1>1 DEF Matches

LEMMA NarrowedScalars ==
  ASSUME NEW a, NEW f, NEW s \in Servers, Matches(s, ApplyTo(a, f)),
         NEW k \in {"owned", "relay-hostname"}, f[k] = Unset \/ a[k] \in {Unset, f[k]}
  PROVE  f[k] \in {Unset, s[k]}
<1>1. ApplyTo(a, f)[k] = IF a[k] = Unset THEN f[k] ELSE a[k]
  BY DEF ApplyTo, FilterKeys, ListKeys, ScalarKeys
<1>2. QED
  BY <1>1 DEF Matches

LEMMA NarrowedMatch ==
  ASSUME NEW a, NEW f, NEW s \in Servers, Matches(s, ApplyTo(a, f)),
         \A k \in ListKeys : f[k] = {} \/ a[k] \subseteq f[k],
         \A k \in {"owned", "relay-hostname"} : f[k] = Unset \/ a[k] \in {Unset, f[k]},
         a.speed = Unset \/ Speed(a.speed) >= Speed(f.speed)
  PROVE  Matches(s, f)
<1> DEFINE b == ApplyTo(a, f)
<1>1. /\ b.speed = IF a.speed = Unset THEN f.speed ELSE a.speed
      /\ b.multihop = IF a.multihop = Unset THEN f.multihop ELSE a.multihop
  BY DEF ApplyTo, FilterKeys, ListKeys, ScalarKeys
<1>2. Speed(f.speed) \in Nat /\ Speed(b.speed) \in Nat /\ s.speed \in Nat
  BY FilterAssumption DEF Speed
<1>3. \A k \in ListKeys : f[k] = {} \/ s[k] \in f[k]
  BY NarrowedLists
<1>4. \A k \in {"owned", "relay-hostname"} : f[k] \in {Unset, s[k]}
  BY NarrowedScalars
<1>5. s.speed >= Speed(f.speed)
  BY <1>1, <1>2 DEF Matches
<1>6. f.multihop = Unset \/ s.multihop
  BY <1>1 DEF Matches
<1>7. QED
  BY <1>3, <1>4, <1>5, <1>6 DEF Matches

\* Values that the base filter leaves out are the only way to relays that it
\* excludes, for every base filter and every string.
THEOREM WidenedOnlyByName == FilterSpec => []WidenedByName
<1>1. WidenedByName
  <2> SUFFICES ASSUME
        \A k \in ListKeys : base[k] = {} \/ parser.auth[k] \subseteq base[k],
        \A k \in {"owned", "relay-hostname"} :
          base[k] = Unset \/ parser.auth[k] \in {Unset, base[k]},
        parser.auth.speed = Unset \/ Speed(parser.auth.speed) >= Speed(base.speed),
        NEW s \in HttpRelays \cup SocksRelays
      PROVE s \in FilterBy(base)
    BY DEF WidenedByName
  <2>1. s \in Servers /\ (Matches(s, ApplyTo(parser.auth, base)) \/ Matches(s, base))
    BY DEF HttpRelays, SocksRelays, FilterBy
  <2>2. Matches(s, base)
    BY <2>1, NarrowedMatch
  <2>3. QED
    BY <2>1, <2>2 DEF FilterBy
<1> QED BY <1>1, PTL

-----------------------------------------------------------------------------
(* The three side by side, as the instances for TLC start them.              *)

CachesInv == LookupInv /\ LruInv /\ ParserInv

LEMMA CachesInvStep ==
  CachesInv /\ [CachesNext]_<<turn, lookupVars, lruVars, filterVars>> => CachesInv'
<1> SUFFICES ASSUME CachesInv, [CachesNext]_<<turn, lookupVars, lruVars, filterVars>>
             PROVE  CachesInv'
  OBVIOUS
<1>1. [LookupNext]_lookupVars /\ [LruNext]_lruVars /\ [FilterNext]_filterVars
  BY DEF CachesNext
<1>2. LookupInv' BY <1>1, LookupInvStep DEF CachesInv
<1>3. LruInv' BY <1>1, LruInvStep DEF CachesInv
<1>4. ParserInv' BY <1>1, ParserStep DEF CachesInv
<1> QED BY <1>2, <1>3, <1>4 DEF CachesInv

\* Whatever callers, goroutines and parsers do, every part of their state
\* keeps its type: the list is of a version the API has given, the cache holds
\* keys it was asked for, an auth the texts of the string.
THEOREM CachesTyped == CachesSpec => []TypesOK
<1>1. CachesInit => CachesInv
  BY LookupInvInit, LruInvInit, ParserInit DEF CachesInit, CachesInv
<1>2. CachesInv => TypesOK
  BY DEF CachesInv, LookupInv, LruInv, ParserInv, TypesOK
<1> QED BY <1>1, <1>2, CachesInvStep, PTL DEF CachesSpec
=============================================================================
