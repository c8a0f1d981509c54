------------------------ MODULE RelaySelectionProofs -------------------------
(* The invariant of the selection, kept by its own steps, by the rest of the  *)
(* program and by a new call.  ConnectProofs and HttpProxyProofs combine these *)
(* lemmas with the steps of their handler.                                  *)
EXTENDS RelaySelection, TLAPS

\* During a scan, what was up all along is either still to be looked at or
\* found: this is why the two scans, taken one lock at a time, agree enough.
Scanning ==
  sel \in {"scan", "rescan"} =>
    /\ todo \cap excluded = {} /\ up \cap excluded = {}
    /\ up \subseteq everUp
    /\ alwaysUp \subseteq excluded \cup todo \cup up

\* The histories frame what is up now.
Framed == alwaysUp \subseteq UpIn(standing) /\ UpIn(standing) \subseteq everUp

Picked ==
  /\ sel \in {"chosen", "resolved", "unresolved"} => pick \in Relays \ excluded
  /\ sel \in {"idle", "list", "scan", "relist", "rescan", "unlisted", "none"}
       => pick = NoRelay

SelInv == SelTypeOK /\ Scanning /\ Framed /\ Picked /\ LiveBeforeDead

\* The selection starts in its invariant.
LEMMA SelInitInv == SelInit => SelInv
  BY SelectionAssumption DEF SelInit, SelInv, SelTypeOK, Scanning, Framed, Picked,
     LiveBeforeDead, UpIn, Failures

\* A new call: its histories start from what is up now.
LEMMA SelectInv ==
  ASSUME NEW ctx \in BOOLEAN, NEW avoid \in SUBSET (Relays \cup {NoRelay}),
         SelInv, Select(ctx, avoid),
         (listed \in BOOLEAN /\ cached \subseteq Relays /\ named \subseteq Relays)',
         standing' \in [Relays -> {"unknown", "online", "offline"}]
  PROVE  SelInv'
  BY SelectionAssumption DEF SelInv, SelTypeOK, Select, Scanning, Framed, Picked,
     LiveBeforeDead, UpIn, Failures

\* Every step of the choice of a relay keeps the invariant.
LEMMA ChooseInv == ASSUME SelInv, Choose PROVE SelInv'
<1> USE SelectionAssumption DEF SelInv, SelTypeOK, Scanning, Framed, Picked,
        LiveBeforeDead, shared, since, scan, Failures
<1>1. CASE ListArrives
  BY <1>1 DEF ListArrives
<1>2. CASE ListFails
  BY <1>2 DEF ListFails
<1>3. CASE PickHealthy
  BY <1>3 DEF PickHealthy, Pick
<1>4. CASE NoneHealthy
  BY <1>4 DEF NoneHealthy
<1>5. CASE PickFallback
  BY <1>5 DEF PickFallback, Pick, Pool
<1>6. CASE NoneLeft
  BY <1>6 DEF NoneLeft
<1>7. ASSUME NEW r \in Relays, Peek(r) PROVE SelInv'
  BY <1>7 DEF Peek, Up, UpIn
<1>8. QED
  BY <1>1, <1>2, <1>3, <1>4, <1>5, <1>6, <1>7 DEF Choose

\* So does the search for the relay's address.
LEMMA AddressInv == ASSUME SelInv, Address PROVE SelInv'
  BY SelectionAssumption DEF Address, AddressArrives, AddressFails, SelInv, SelTypeOK,
     Scanning, Framed, Picked, LiveBeforeDead, shared, since, scan, Failures

\* A standing that changes is entered in the histories.
LEMMA RestandInv ==
  ASSUME SelInv, NEW r \in Relays, Restand(r),
         UNCHANGED <<listed, cached, named, live, excluded, scan>>
  PROVE  SelInv'
<1>1. PICK s \in {"online", "offline"} :
        standing' = [standing EXCEPT ![r] = s] /\ Seen(r, s)
  BY DEF Restand
<1>2. CASE s = "offline"
  BY <1>1, <1>2, SelectionAssumption DEF Seen, SelInv, SelTypeOK, Scanning, Framed,
     Picked, LiveBeforeDead, UpIn, scan, Failures
<1>3. CASE s = "online"
  BY <1>1, <1>3, SelectionAssumption DEF Seen, SelInv, SelTypeOK, Scanning, Framed,
     Picked, LiveBeforeDead, UpIn, scan, Failures
<1>4. QED
  BY <1>1, <1>2, <1>3

\* The rest of the program keeps the invariant.
LEMMA ElsewhereInv == ASSUME SelInv, Elsewhere PROVE SelInv'
<1>1. CASE ListAges
  BY <1>1 DEF ListAges, SelInv, SelTypeOK, Scanning, Framed, Picked, LiveBeforeDead,
     since, scan
<1>2. ASSUME NEW r \in Relays, StandingChanges(r) PROVE SelInv'
  BY <1>2, RestandInv DEF StandingChanges
<1>3. ASSUME NEW r \in Relays, AddressAges(r) PROVE SelInv'
  BY <1>3 DEF AddressAges, SelInv, SelTypeOK, Scanning, Framed, Picked, LiveBeforeDead,
     since, scan
<1>4. QED
  BY <1>1, <1>2, <1>3 DEF Elsewhere

\* A cancelled context changes nothing of what was chosen.
LEMMA CancelInv ==
  ASSUME SelInv, live' = FALSE,
         UNCHANGED <<shared, named, excluded, scan, since>>
  PROVE  SelInv'
  BY DEF SelInv, SelTypeOK, Scanning, Framed, Picked, LiveBeforeDead, shared, since, scan

LEMMA SelStutterInv == ASSUME SelInv, UNCHANGED selVars PROVE SelInv'
  BY DEF SelInv, SelTypeOK, Scanning, Framed, Picked, LiveBeforeDead, selVars, shared,
     since, scan, UpIn
=============================================================================
