--------------------------- MODULE RelaySelection ----------------------------
(***************************************************************************)
(* How the proxy handler chooses the relay of an attempt: resolveSOCKS5     *)
(* with its fallback, and ResolveRelayAddr.  Connect and HttpProxy extend   *)
(* this module and call it once per attempt, by Select.                    *)
(*                                                                         *)
(* The module follows one request.  Everything else in the program is its   *)
(* environment, which may change what it reads between any two of its       *)
(* reads: checkers, flusher and other requests change the standing of       *)
(* relays (one PeekHealth, one lock), and cached lists and addresses expire *)
(* or are renewed.  RelayHealth has the detail of a relay's standing, and   *)
(* its OneRelayAtATime shows that no step of it does more than change one   *)
(* standing, and never to unknown.                                          *)
(***************************************************************************)
EXTENDS Integers

CONSTANTS
  Relays,   \* the relays that match the request's filter
  NoRelay,  \* the empty remoteID
  Outages,  \* whether the list server and the DNS server may fail; the fetch
            \* a request shares with another's may also end with the other
  MaxRetries \* maxRetries (3): attempts of a request, one selection each

ASSUME SelectionAssumption == NoRelay \notin Relays /\ Outages \in BOOLEAN
ASSUME RetriesAssumption == MaxRetries \in Nat \ {0}

VARIABLES
  standing,  \* what PeekHealth says of a relay: unknown, online, offline
  listed,    \* the relay list is cached and fresh
  cached,    \* relays whose address is cached and fresh
  named,     \* relays whose metadata this request has stored
  live,      \* the context given to the selection has not been cancelled
  excluded,  \* what the request has given up on
  sel,       \* where the selection stands
  todo,      \* relays the scan has still to look at
  up,        \* relays the scan found online or unknown
  pick,      \* its result
  alwaysUp,  \* history: relays never offline since the selection began
  everUp     \* history: relays not offline at some time since then

shared == <<standing, listed, cached>>
since == <<alwaysUp, everUp>>
scan == <<sel, todo, up, pick>>
selVars == <<shared, named, live, excluded, scan, since>>

\* "chosen": a relay but no address yet.  Failures: the list could not be
\* fetched, no relay is left, the address of the relay cannot be found.
Failures == {"unlisted", "none", "unresolved"}

SelTypeOK ==
  /\ standing \in [Relays -> {"unknown", "online", "offline"}]
  /\ listed \in BOOLEAN /\ cached \subseteq Relays
  /\ named \subseteq Relays
  /\ live \in BOOLEAN
  /\ excluded \subseteq Relays \cup {NoRelay}
  /\ sel \in {"idle", "list", "scan", "relist", "rescan", "chosen", "resolved"}
               \cup Failures
  /\ todo \subseteq Relays /\ up \subseteq Relays
  /\ pick \in Relays \cup {NoRelay}
  /\ alwaysUp \subseteq Relays /\ everUp \subseteq Relays

\* PeekHealth: an unknown relay counts as usable.
Up(r) == standing[r] # "offline"
UpIn(f) == {r \in Relays : f[r] # "offline"}

\* Any standings, and any state of the caches that earlier requests left.
SelInit ==
  /\ standing \in [Relays -> {"unknown", "online", "offline"}]
  /\ listed \in BOOLEAN /\ cached \in SUBSET Relays
  /\ named = {}
  /\ live = TRUE /\ excluded = {}
  /\ sel = "idle" /\ todo = {} /\ up = {} /\ pick = NoRelay
  /\ alwaysUp = UpIn(standing) /\ everUp = UpIn(standing)

-----------------------------------------------------------------------------
(* The selection.                                                          *)

\* The call, with a context that is live or not and the relays to avoid.
Select(ctx, avoid) ==
  /\ alwaysUp' = UpIn(standing') /\ everUp' = UpIn(standing')
  /\ live' = ctx /\ excluded' = avoid
  /\ sel' = "list" /\ todo' = {} /\ up' = {} /\ pick' = NoRelay

\* FetchMullvadList: a cancelled context fetches nothing.  The search for a
\* healthy relay swallows its error and leaves the fallback to try again.
ListArrives ==
  /\ sel \in {"list", "relist"}
  /\ listed \/ live
  /\ listed' = TRUE
  /\ sel' = IF sel = "list" THEN "scan" ELSE "rescan"
  /\ todo' = Relays \ excluded /\ up' = {}
  /\ UNCHANGED <<standing, cached, named, live, excluded, pick, since>>

ListFails ==
  /\ sel \in {"list", "relist"}
  /\ ~listed /\ (~live \/ Outages)
  /\ sel' = IF sel = "list" THEN "relist" ELSE "unlisted"
  /\ UNCHANGED <<shared, named, live, excluded, todo, up, pick, since>>

\* isOnline, and the loop of pickFallbackServer.
Peek(r) ==
  /\ sel \in {"scan", "rescan"}
  /\ r \in todo
  /\ todo' = todo \ {r}
  /\ up' = IF Up(r) THEN up \cup {r} ELSE up
  /\ UNCHANGED <<shared, named, live, excluded, sel, pick, since>>

\* A relay is picked and its metadata stored (SetRemoteMetadataSync).
Pick(pool) ==
  \E r \in pool : pick' = r /\ named' = named \cup {r} /\ sel' = "chosen"

PickHealthy ==
  /\ sel = "scan" /\ todo = {} /\ up # {}
  /\ Pick(up)
  /\ UNCHANGED <<shared, live, excluded, todo, up, since>>

NoneHealthy ==
  /\ sel = "scan" /\ todo = {} /\ up = {}
  /\ sel' = "relist"
  /\ UNCHANGED <<shared, named, live, excluded, todo, up, pick, since>>

\* Mutants of Pool: the fallback ignores what failed; dead relays come first.
MutPoolAll == IF up # {} THEN up ELSE Relays
MutPoolDead == IF Relays \ (excluded \cup up) # {}
               THEN Relays \ (excluded \cup up) ELSE up

\* pickFallbackServer: relays known to be dead only when there is no other.
Pool == IF up # {} THEN up ELSE Relays \ excluded

PickFallback ==
  /\ sel = "rescan" /\ todo = {}
  /\ Pick(Pool)
  /\ UNCHANGED <<shared, live, excluded, todo, up, since>>

NoneLeft ==
  /\ sel = "rescan" /\ todo = {} /\ Pool = {}
  /\ sel' = "none"
  /\ UNCHANGED <<shared, named, live, excluded, todo, up, pick, since>>

\* ResolveRelayAddr: a cancelled context resolves nothing.
AddressArrives ==
  /\ sel = "chosen"
  /\ pick \in cached \/ live
  /\ cached' = cached \cup {pick}
  /\ sel' = "resolved"
  /\ UNCHANGED <<standing, listed, named, live, excluded, todo, up, pick, since>>

AddressFails ==
  /\ sel = "chosen"
  /\ pick \notin cached /\ (~live \/ Outages)
  /\ sel' = "unresolved"
  /\ UNCHANGED <<shared, named, live, excluded, todo, up, pick, since>>

Choose ==
  \/ ListArrives \/ ListFails \/ PickHealthy \/ NoneHealthy \/ PickFallback
  \/ NoneLeft \/ \E r \in Relays : Peek(r)
Address == AddressArrives \/ AddressFails

-----------------------------------------------------------------------------
(* The rest of the program.                                                *)

\* History: what is known of the relays now that r has the standing s.
Seen(r, s) ==
  IF s = "offline"
  THEN alwaysUp' = alwaysUp \ {r} /\ UNCHANGED everUp
  ELSE everUp' = everUp \cup {r} /\ UNCHANGED alwaysUp

Restand(r) ==
  \E s \in {"online", "offline"} :
    standing' = [standing EXCEPT ![r] = s] /\ Seen(r, s)

StandingChanges(r) ==
  /\ Restand(r)
  /\ UNCHANGED <<listed, cached, named, live, excluded, scan>>

ListAges ==
  /\ listed' = ~listed
  /\ UNCHANGED <<standing, cached, named, live, excluded, scan, since>>

AddressAges(r) ==
  /\ cached' = IF r \in cached THEN cached \ {r} ELSE cached \cup {r}
  /\ UNCHANGED <<standing, listed, named, live, excluded, scan, since>>

Elsewhere ==
  ListAges \/ \E r \in Relays : StandingChanges(r) \/ AddressAges(r)

-----------------------------------------------------------------------------
(* Properties.                                                             *)

\* A relay that was dead during the whole selection is chosen only if no
\* relay the request may use was alive during the whole selection, whatever
\* flips between the peeks of the two scans.
LiveBeforeDead ==
  sel \in {"chosen", "resolved"}
    => \/ pick \in everUp
       \/ alwaysUp \subseteq excluded
=============================================================================
