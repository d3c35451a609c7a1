--------------------------- MODULE Aetherlight_proofs ---------------------------
(***************************************************************************)
(* Proofs about Aetherlight, for any ids, any requests and any skews.      *)
(***************************************************************************)
EXTENDS Aetherlight, TLAPS

\* Where a registering handler is between its look-up and its end.
Registering == {"accept", "register"}
Registered  == {"serve", "recheck", "delete"}
Active(r)   == IsMaster(r) /\ pc[r] \in Registering \cup Registered

\* A registration past its arrival has been verified, and has a session once
\* its connection was accepted.
MasterVerified ==
    \A r \in Requests :
        /\ pc[r] \in {"register", "serve", "recheck", "delete"} => IsMaster(r)
        /\ pc[r] \in {"register", "serve", "recheck", "delete"} => session[r] # "none"
        /\ pc[r] \in {"lookup"} \cup Registering \cup Registered /\ IsMaster(r)
              => Authentic(req[r])

\* What an egress looked up is a verified session for the id it asked for.
EgressBound ==
    \A e \in Requests :
        pc[e] \in {"accept", "open", "relay"} /\ ~IsMaster(e) =>
            /\ ing[e] \in Requests
            /\ req[ing[e]].id = req[e].id
            /\ Authentic(req[ing[e]])
            /\ session[ing[e]] # "none"

\* Only an egress relays.
RelayIsEgress ==
    \A e \in Requests : pc[e] \in {"open", "relay"} => ~IsMaster(e)

\* For an id that is not contested one registration at a time is under way:
\* the map is empty until it registers, and holds it from then on.
OneAtATime ==
    /\ \A r, s \in Requests :
         Active(r) /\ Active(s) /\ r # s /\ req[r].id = req[s].id
            => req[r].id \in contested
    /\ \A r \in Requests :
         Active(r) /\ req[r].id \notin contested =>
            ingresses[req[r].id] = (IF pc[r] \in Registering THEN None ELSE r)

\* The inductive invariant.
IInv ==
    /\ TypeOK
    /\ MasterVerified
    /\ EntryHasLiveOwner
    /\ EgressBound
    /\ RelayIsEgress
    /\ OneAtATime

-----------------------------------------------------------------------------
\* No entry, no session and no history at the start.
LEMMA InitIInv == Init => IInv
<1> SUFFICES ASSUME Init PROVE IInv
  OBVIOUS
<1>1. TypeOK
  <2>1. crashed \in BOOLEAN /\ contested \subseteq Ids
    BY DEF Init
  <2>2. QED
    BY <2>1 DEF Init, TypeOK, PC
<1>2. QED
  BY <1>1
  DEF Init, IInv, MasterVerified, EntryHasLiveOwner, EgressBound, RelayIsEgress,
      OneAtATime, Active, Registering, Registered

\* Every step preserves the invariant; Recheck and Delete need to know whose
\* entry the map holds, Lookup and Register what a racing look-up leaves.
LEMMA NextIInv == IInv /\ [Next]_vars => IInv'
<1> SUFFICES ASSUME IInv, [Next]_vars PROVE IInv'
  OBVIOUS
<1> USE AetherlightAssumption
    DEF IInv, PC, Registering, Registered, Active, IsMaster
<1>1. ASSUME NEW r \in Requests, Arrive(r) PROVE IInv'
  <2>1. TypeOK' /\ MasterVerified' /\ EntryHasLiveOwner'
    BY <1>1 DEF TypeOK, MasterVerified, EntryHasLiveOwner, Arrive, Goto
  <2>2. EgressBound' /\ RelayIsEgress' /\ OneAtATime'
    BY <1>1 DEF TypeOK, EgressBound, RelayIsEgress, OneAtATime, Arrive, Goto
  <2>3. QED
    BY <2>1, <2>2
<1>2. ASSUME NEW r \in Requests, Lookup(r) PROVE IInv'
  <2> DEFINE entry == ingresses[req[r].id]
  <2>0. req[r].id \in Ids /\ entry \in Requests \cup {None}
    BY DEF TypeOK, Request
  <2>1. TypeOK'
    BY <1>2, <2>0 DEF TypeOK, Lookup, Goto
  <2>2. MasterVerified' /\ EntryHasLiveOwner'
    BY <1>2 DEF TypeOK, MasterVerified, EntryHasLiveOwner, Lookup, Goto
  <2>3. EgressBound' /\ RelayIsEgress'
    BY <1>2, <2>0
    DEF TypeOK, EgressBound, RelayIsEgress, EntryHasLiveOwner, Lookup, Goto
  <2>4. OneAtATime'
    BY <1>2, <2>0 DEF TypeOK, OneAtATime, Lookup, Goto, Racing
  <2>5. QED
    BY <2>1, <2>2, <2>3, <2>4
<1>3. ASSUME NEW r \in Requests, Accept(r) PROVE IInv'
  <2>1. TypeOK'
    BY <1>3 DEF TypeOK, EgressBound, Accept, Goto
  <2>2. MasterVerified' /\ EntryHasLiveOwner'
    BY <1>3 DEF TypeOK, MasterVerified, EntryHasLiveOwner, Accept, Goto
  <2>3. EgressBound' /\ RelayIsEgress'
    BY <1>3 DEF TypeOK, EgressBound, RelayIsEgress, Accept, Goto
  <2>4. OneAtATime'
    BY <1>3 DEF TypeOK, OneAtATime, Accept, Goto
  <2>5. QED
    BY <2>1, <2>2, <2>3, <2>4
<1>4. ASSUME NEW r \in Requests, Register(r) PROVE IInv'
  <2>0. req[r].id \in Ids
    BY DEF TypeOK, Request
  <2>1. TypeOK'
    BY <1>4 DEF TypeOK, Register, Goto
  <2>2. MasterVerified' /\ EntryHasLiveOwner'
    BY <1>4, <2>0 DEF TypeOK, MasterVerified, EntryHasLiveOwner, Register, Goto
  <2>3. EgressBound' /\ RelayIsEgress'
    BY <1>4 DEF TypeOK, EgressBound, RelayIsEgress, Register, Goto
  <2>4. OneAtATime'
    BY <1>4, <2>0 DEF TypeOK, MasterVerified, OneAtATime, Register, Goto
  <2>5. QED
    BY <2>1, <2>2, <2>3, <2>4
<1>5. ASSUME NEW r \in Requests, Disconnected(r) PROVE IInv'
  <2>1. TypeOK' /\ MasterVerified' /\ EntryHasLiveOwner'
    BY <1>5 DEF TypeOK, MasterVerified, EntryHasLiveOwner, Disconnected, Goto
  <2>2. EgressBound' /\ RelayIsEgress' /\ OneAtATime'
    BY <1>5 DEF TypeOK, EgressBound, RelayIsEgress, OneAtATime, Disconnected, Goto
  <2>3. QED
    BY <2>1, <2>2
<1>6. ASSUME NEW r \in Requests, Recheck(r) PROVE IInv'
  <2>1. TypeOK' /\ MasterVerified'
    BY <1>6 DEF TypeOK, MasterVerified, Recheck, Goto
  <2>2. EntryHasLiveOwner'
    \* A handler that leaves here is not the one the entry names.
    BY <1>6 DEF TypeOK, EntryHasLiveOwner, Recheck, Goto
  <2>3. EgressBound' /\ RelayIsEgress' /\ OneAtATime'
    BY <1>6 DEF TypeOK, EgressBound, RelayIsEgress, OneAtATime, Recheck, Goto
  <2>4. QED
    BY <2>1, <2>2, <2>3
<1>7. ASSUME NEW r \in Requests, Delete(r) PROVE IInv'
  <2>0. req[r].id \in Ids
    BY DEF TypeOK, Request
  <2>1. TypeOK' /\ MasterVerified'
    BY <1>7 DEF TypeOK, MasterVerified, Delete, Goto
  <2>2. EntryHasLiveOwner'
    \* An entry for another id is not this handler's.
    BY <1>7, <2>0 DEF TypeOK, EntryHasLiveOwner, Delete, Goto
  <2>3. EgressBound' /\ RelayIsEgress'
    BY <1>7 DEF TypeOK, EgressBound, RelayIsEgress, Delete, Goto
  <2>4. OneAtATime'
    BY <1>7, <2>0 DEF TypeOK, MasterVerified, OneAtATime, Delete, Goto
  <2>5. QED
    BY <2>1, <2>2, <2>3, <2>4
<1>8. ASSUME NEW r \in Requests, Open(r) \/ EndRelay(r) PROVE IInv'
  <2>1. TypeOK' /\ MasterVerified' /\ EntryHasLiveOwner'
    BY <1>8 DEF TypeOK, MasterVerified, EntryHasLiveOwner, Open, EndRelay, Goto
  <2>2. EgressBound' /\ RelayIsEgress' /\ OneAtATime'
    BY <1>8 DEF TypeOK, EgressBound, RelayIsEgress, OneAtATime, Open, EndRelay, Goto
  <2>3. QED
    BY <2>1, <2>2
<1>9. ASSUME NEW r \in Requests, SessionClose(r) PROVE IInv'
  <2>1. TypeOK' /\ MasterVerified' /\ EntryHasLiveOwner'
    BY <1>9 DEF TypeOK, MasterVerified, EntryHasLiveOwner, SessionClose
  <2>2. EgressBound' /\ RelayIsEgress' /\ OneAtATime'
    BY <1>9 DEF TypeOK, EgressBound, RelayIsEgress, OneAtATime, SessionClose
  <2>3. QED
    BY <2>1, <2>2
<1>10. ASSUME ConcurrentMapFatal PROVE IInv'
  <2>1. TypeOK'
    <3>1. crashed' \in BOOLEAN
      BY <1>10 DEF ConcurrentMapFatal
    <3>2. QED
      BY <1>10, <3>1 DEF TypeOK, ConcurrentMapFatal
  <2>2. QED
    BY <1>10, <2>1
    DEF MasterVerified, EntryHasLiveOwner, EgressBound, RelayIsEgress, OneAtATime,
        ConcurrentMapFatal
<1>11. ASSUME UNCHANGED vars PROVE IInv'
  BY <1>11
  DEF vars, TypeOK, MasterVerified, EntryHasLiveOwner, EgressBound, RelayIsEgress,
      OneAtATime
<1>12. QED
  BY <1>1, <1>2, <1>3, <1>4, <1>5, <1>6, <1>7, <1>8, <1>9, <1>10, <1>11
  DEF Next, HandlerStep

\* The inductive invariant holds in every reachable state.
THEOREM Inductive == Spec => []IInv
  BY InitIInv, NextIInv, PTL DEF Spec

-----------------------------------------------------------------------------
(* The results. *)

\* Every variable stays within its domain, and no handler relays through the
\* nil session of a missing entry.
THEOREM TypeCorrect == Spec => []TypeOK
<1>1. IInv => TypeOK
  BY DEF IInv
<1>2. QED
  BY <1>1, Inductive, PTL

\* Whatever the interleaving of the unlocked map accesses, an entry names a
\* verified handler that will still remove it.
THEOREM LiveOwner == Spec => []EntryHasLiveOwner
<1>1. IInv => EntryHasLiveOwner
  BY DEF IInv
<1>2. QED
  BY <1>1, Inductive, PTL

\* An egress is relayed only to a holder of the private key its url names.
THEOREM ToOwner == Spec => []RelayedToOwner
<1>1. IInv => RelayedToOwner
  BY DEF IInv, EgressBound, RelayIsEgress, RelayedToOwner
<1>2. QED
  BY <1>1, Inductive, PTL

\* A connected ingress whose registration raced with no other is reachable.
THEOREM Reachable == Spec => []UncontestedIsReachable
<1>1. IInv => UncontestedIsReachable
  BY DEF IInv, MasterVerified, OneAtATime, Active, Registering, Registered,
         UncontestedIsReachable
<1>2. QED
  BY <1>1, Inductive, PTL

\* Only a racing registration replaces an entry.
THEOREM Takeover == Spec => NoTakeover
<1> DEFINE Kept == \A i \in Ids :
             ingresses[i] # None /\ ingresses'[i] # None
                /\ ingresses'[i] # ingresses[i] => i \in contested
<1>1. IInv /\ [Next]_vars => [Kept]_vars
  <2> SUFFICES ASSUME IInv, Next PROVE Kept
    OBVIOUS
  <2>1. ASSUME NEW r \in Requests, Register(r) PROVE Kept
    <3>1. Active(r) /\ pc[r] = "register"
      BY <2>1 DEF IInv, MasterVerified, Register, Goto, Active, Registering
    <3>2. req[r].id \notin contested => ingresses[req[r].id] = None
      BY <3>1 DEF IInv, OneAtATime, Registering
    <3>3. \A i \in Ids \ {req[r].id} : ingresses'[i] = ingresses[i]
      BY <2>1 DEF IInv, TypeOK, Register
    <3>4. QED
      BY <3>2, <3>3
  <2>2. ASSUME NEW r \in Requests, Delete(r) PROVE Kept
    BY <2>2 DEF IInv, TypeOK, Delete
  <2>3. CASE ingresses' = ingresses
    BY <2>3
  <2>4. QED
    BY <2>1, <2>2, <2>3
    DEF Next, HandlerStep, Arrive, Lookup, Accept, Disconnected, Recheck, Open,
        EndRelay, SessionClose, ConcurrentMapFatal
<1>2. QED
  BY <1>1, Inductive, PTL DEF Spec, NoTakeover
================================================================================
