----------------------------- MODULE RelayFilter ------------------------------
(***************************************************************************)
(* Which relays a request may use.  The connection string of a request      *)
(* (Proxy-Authorization of the HTTP proxy, user name of the SOCKS5 server)  *)
(* is parsed by ParseProxyAuth and applied to the base filter of the        *)
(* process; filterByFilter keeps the relays that match the outcome.         *)
(*                                                                         *)
(* Abstractions: a connection string is the sequence of its parts between   *)
(* commas, a part a key (or none: Keyless) and a decoded value, and Blank a *)
(* part that is empty itself; only after a key may a value be empty.  The   *)
(* lists of a filter are sets.  A step is one turn of the parser's loop, over a part that it appends: at   *)
(* any time the parser has read the whole string.                          *)
(***************************************************************************)
EXTENDS Integers, Sequences

CONSTANTS
  Servers,     \* relays: records of country, city, provider, owned, speed, multihop, host
  BaseFilters, \* the base filters to look at
  Parts,       \* the parts a connection string is made of, Blank left out
  MaxParts     \* bound: parts of a connection string

ListKeys == {"country", "city", "provider"}
ScalarKeys == {"seed", "owned", "speed", "multihop", "relay-hostname"}
FilterKeys == ListKeys \cup ScalarKeys

Keyless == "keyless"
Blank == [key |-> Keyless, value |-> ""]

ASSUME FilterAssumption ==
  /\ MaxParts \in Nat
  /\ \A f \in BaseFilters : DOMAIN f = FilterKeys
  /\ \A s \in Servers : s.speed \in Nat
  /\ \A part \in Parts : part.key = Keyless => part.value # ""

VARIABLES
  base,  \* baseFilter of the process
  typed, \* the connection string
  parser \* the loop of ParseProxyAuth: no error so far, lastKey, auth

filterVars == <<base, typed, parser>>

Unset == "unset"

\* lastKey before there is a key, which a part like "=x" sets as well.
NoKey == ""

PartKeys == {part.key : part \in Parts} \cup {NoKey}

\* The zero value of a ProxyAuth, and of a Filter.
NoFilter == [k \in FilterKeys |-> IF k \in ListKeys THEN {} ELSE Unset]

NewParser == [ok |-> TRUE, lastKey |-> NoKey, auth |-> NoFilter]

\* A list of the texts it was given, a scalar unset or one of them.
IsAuth(a) ==
  /\ a = [k \in FilterKeys |-> a[k]]
  /\ \A k \in ListKeys : a[k] \subseteq {part.value : part \in Parts}
  /\ \A k \in ScalarKeys : a[k] \in {part.value : part \in Parts} \cup {Unset}

FilterTypeOK ==
  /\ base \in BaseFilters
  /\ typed \in Seq(Parts \cup {Blank})
  /\ parser \in [ok : BOOLEAN, lastKey : PartKeys, auth : {parser.auth}]
  /\ IsAuth(parser.auth)

-----------------------------------------------------------------------------
(* ParseProxyAuth.                                                         *)

\* strconv and parseBool; the keys of lists and the host name take any text.
\* A scalar is known by its text; a seed or multihop of zero or false, and a
\* speed that is not above zero, count as unset.
Valid(k, v) ==
  CASE k = "seed" -> v \in {"0", "7", "-1"}
    [] k = "speed" -> v \in {"0", "1", "2", "-1"}
    [] k \in {"owned", "multihop"} -> v \in {"true", "false"}
    [] OTHER -> k \in FilterKeys

Zero(k, v) ==
  \/ k \in {"seed", "speed", "multihop"} /\ v \in {"0", "false"}
  \/ k = "speed" /\ v = "-1"

Put(auth, k, v) ==
  [auth EXCEPT ![k] = IF k \in ListKeys THEN @ \cup {v}
                      ELSE IF Zero(k, v) THEN Unset ELSE v]

Failed(p) == [p EXCEPT !.ok = FALSE]

\* A part without a key continues the list of the key before.
KeyOfPart(p, part) == IF part.key = Keyless THEN p.lastKey ELSE part.key

\* Mutant: the key of a part without a value is forgotten.
MutParsePart(p, part) ==
  LET k == KeyOfPart(p, part) IN
  IF ~p.ok \/ part = Blank \/ part.value = "" THEN p
  ELSE IF ~Valid(k, part.value) THEN Failed(p)
  ELSE [p EXCEPT !.lastKey = k, !.auth = Put(@, k, part.value)]

\* A turn of the loop, none after an error.  An empty value is skipped before
\* its key is looked at; NoKey takes no value.
ParsePart(p, part) ==
  LET k == KeyOfPart(p, part) IN
  IF ~p.ok \/ part = Blank THEN p
  ELSE IF part.value = "" THEN [p EXCEPT !.lastKey = k]
  ELSE IF ~Valid(k, part.value) THEN Failed(p)
  ELSE [p EXCEPT !.lastKey = k, !.auth = Put(@, k, part.value)]

-----------------------------------------------------------------------------
(* ApplyTo and filterByFilter.                                             *)

\* Mutant: what the request does not set is reset.
MutApplyTo(auth, filter) ==
  [k \in FilterKeys |-> IF k \in ListKeys THEN filter[k] \cup auth[k] ELSE auth[k]]

\* Lists grow, scalars are replaced if they are set.
ApplyTo(auth, filter) ==
  [k \in FilterKeys |-> IF k \in ListKeys THEN filter[k] \cup auth[k]
                        ELSE IF auth[k] = Unset THEN filter[k] ELSE auth[k]]

Speed(v) == CASE v = "1" -> 1 [] v = "2" -> 2 [] OTHER -> 0

Matches(s, f) ==
  /\ \A k \in ListKeys : f[k] = {} \/ s[k] \in f[k]
  /\ \A k \in {"owned", "relay-hostname"} : f[k] \in {Unset, s[k]}
  /\ s.speed >= Speed(f.speed)
  /\ f.multihop = Unset \/ s.multihop

FilterBy(f) == {s \in Servers : Matches(s, f)}

\* The relays of a request: the HTTP proxy refuses what it cannot parse, the
\* SOCKS5 server goes by the base filter alone.
HttpRelays ==
  IF parser.ok THEN FilterBy(ApplyTo(parser.auth, base)) ELSE {}
SocksRelays ==
  FilterBy(IF parser.ok THEN ApplyTo(parser.auth, base) ELSE base)

-----------------------------------------------------------------------------
FilterInit == base \in BaseFilters /\ typed = <<>> /\ parser = NewParser

TypePart ==
  /\ Len(typed) < MaxParts
  /\ \E part \in Parts \cup {Blank} :
       typed' = Append(typed, part) /\ parser' = ParsePart(parser, part)
  /\ UNCHANGED base

FilterNext == TypePart

FilterSpec == FilterInit /\ [][FilterNext]_filterVars

-----------------------------------------------------------------------------
(* Properties.                                                             *)

\* Part i counts for key k: its own, or that of the last part before it that
\* has one.
CountsFor(i, k) ==
  \E j \in 1..i : /\ typed[j].key = k /\ k # Keyless
                  /\ \A l \in (j + 1)..i : typed[l].key = Keyless

\* The parts that give key k a value, and whether the parser may read part i.
Giving(k) == {i \in DOMAIN typed : CountsFor(i, k) /\ typed[i].value # ""}
Readable(i) ==
  \/ typed[i] = Blank
  \/ \E k \in PartKeys : CountsFor(i, k) /\ (typed[i].value = "" \/ Valid(k, typed[i].value))

\* ParseProxyAuth, one part after the other, finds what the string says as a
\* whole: for a list all values of the key, for a scalar its last one, a part
\* without a key counting for the last key before it; and it refuses exactly
\* the strings with a value that its key does not take or that has no key.
ParseAgrees ==
  /\ parser.ok <=> \A i \in DOMAIN typed : Readable(i)
  /\ parser.ok => \A k \in FilterKeys :
       IF k \in ListKeys
       THEN parser.auth[k] = {typed[i].value : i \in Giving(k)}
       ELSE \/ Giving(k) = {} /\ parser.auth[k] = Unset
            \/ \E i \in Giving(k) :
                 /\ \A j \in Giving(k) : j <= i
                 /\ parser.auth[k] =
                      IF Zero(k, typed[i].value) THEN Unset ELSE typed[i].value

\* A request gets relays outside the base filter only if it names values that
\* the base filter leaves out: its lists then add to those of the base, and
\* its scalars replace them.
WidenedByName ==
  LET a == parser.auth IN
  /\ \A k \in ListKeys : base[k] = {} \/ a[k] \subseteq base[k]
  /\ \A k \in {"owned", "relay-hostname"} : base[k] = Unset \/ a[k] \in {Unset, base[k]}
  /\ a.speed = Unset \/ Speed(a.speed) >= Speed(base.speed)
  => HttpRelays \cup SocksRelays \subseteq FilterBy(base)

\* README.md:48: the filter flags of serve "set base filter for all requests":
\* no request is sent through a relay that the base filter excludes.
BaseFilterKept == HttpRelays \subseteq FilterBy(base)
=============================================================================
