---------------------------- MODULE DiscoveryProofs ----------------------------
(***************************************************************************)
(* What the table of known devices and its file hold, for any number of    *)
(* devices and addresses and any MaxPeers.                                 *)
(***************************************************************************)
EXTENDS Discovery, FiniteSetTheorems, FunctionTheorems, TLAPS

\* Where the file lags behind by a failed write only, it agrees with memory.
Agree == lag # "write" =>
    \A d \in Devices :
        /\ (disk[d] = None) = (table[d] = None)
        /\ disk[d] # None => disk[d].at = table[d].at

Inv ==
    /\ TypeOK
    /\ Ranked(table)
    /\ Ranked(disk)
    /\ Agree

-----------------------------------------------------------------------------
\* One sighting: it keeps the table a table, and its ranks apart.

LEMMA AgedRanks ==
    ASSUME table \in Tables, Ranked(table), NEW d \in Devices, NEW r \in Nat
    PROVE  /\ \A e \in Known(table) \cup {d} : Aged(d, r, e) \in Nat
           /\ \A e, f \in Known(table) \cup {d} : e # f => Aged(d, r, e) # Aged(d, r, f)
<1>1. \A e \in Known(table) : table[e].age \in Nat
  BY StoreAssumption DEF Known, Tables, Entry
<1>2. \A e \in Known(table) \ {d} : Without(d, e) \in Nat
  BY <1>1 DEF Without, Known
<1>3. \A e, f \in Known(table) \ {d} : e # f => Without(d, e) # Without(d, f)
  BY <1>1 DEF Without, Ranked, Known
<1>4. \A e \in Known(table) \ {d} : Aged(d, r, e) \in Nat /\ Aged(d, r, e) # r
  BY <1>2 DEF Aged
<1>5. \A e, f \in Known(table) \ {d} : e # f => Aged(d, r, e) # Aged(d, r, f)
  BY <1>2, <1>3 DEF Aged
<1>6. Aged(d, r, d) = r
  BY DEF Aged
<1> QED
  BY <1>4, <1>5, <1>6

LEMMA SightedTyped ==
    ASSUME table \in Tables, Ranked(table), NEW d \in Devices, NEW a \in Addresses, NEW r \in Nat
    PROVE  Sighted(d, a, r) \in Tables
<1>1. ASSUME NEW e \in Devices, Kept(d, r, e)
      PROVE  [at |-> IF e = d THEN a ELSE table[e].at, age |-> Aged(d, r, e)] \in Entry
  <2>1. e \in Known(table) \cup {d}
    BY <1>1 DEF Kept, Known
  <2>2. Aged(d, r, e) \in 0 .. MaxPeers - 1
    BY <1>1, <2>1, AgedRanks, StoreAssumption DEF Kept
  <2>3. (IF e = d THEN a ELSE table[e].at) \in Addresses
    BY <2>1 DEF Known, Tables, Entry
  <2> QED
    BY <2>2, <2>3 DEF Entry
<1> QED
  BY <1>1 DEF Sighted, Tables

LEMMA SightedRanked ==
    ASSUME table \in Tables, Ranked(table), NEW d \in Devices, NEW a \in Addresses, NEW r \in Nat
    PROVE  Ranked(Sighted(d, a, r))
<1> DEFINE t == Sighted(d, a, r)
<1>1. \A e \in Known(t) : e \in Known(table) \cup {d} /\ t[e].age = Aged(d, r, e)
  BY DEF Known, Sighted, Kept
<1> QED
  BY <1>1, AgedRanks DEF Ranked

\* A sighting that is not written changes neither who is known nor where.
LEMMA NotMaterial ==
    ASSUME table \in Tables, Ranked(table), NEW d \in Devices, NEW a \in Addresses, NEW r \in Nat,
           ~Material(d, a, r)
    PROVE  \A e \in Devices :
               /\ (Sighted(d, a, r)[e] = None) = (table[e] = None)
               /\ table[e] # None => Sighted(d, a, r)[e].at = table[e].at
<1>1. table[d] # None /\ table[d].at = a
  BY DEF Material
<1>2. \A e \in Devices : table[e] # None => Kept(d, r, e)
  BY DEF Material, Known
<1>3. Sighted(d, a, r) \in Tables
  BY SightedTyped
<1> SUFFICES ASSUME NEW e \in Devices
             PROVE  /\ (Sighted(d, a, r)[e] = None) = (table[e] = None)
                    /\ table[e] # None => Sighted(d, a, r)[e].at = table[e].at
  OBVIOUS
<1>4. CASE table[e] = None
  BY <1>1, <1>4 DEF Sighted, Kept
<1>5. CASE table[e] # None
  <2>1. Kept(d, r, e)
    BY <1>2, <1>5
  <2>2. Sighted(d, a, r)[e] = [at |-> IF e = d THEN a ELSE table[e].at, age |-> Aged(d, r, e)]
    BY <2>1 DEF Sighted
  <2>3. Aged(d, r, e) \in 0 .. MaxPeers - 1
    BY <1>5, <2>1, AgedRanks, StoreAssumption DEF Kept, Known
  <2>4. (IF e = d THEN a ELSE table[e].at) \in Addresses
    BY <1>5 DEF Tables, Entry
  <2>5. Sighted(d, a, r)[e] \in Entry
    BY <2>2, <2>3, <2>4 DEF Entry
  <2> QED
    BY <1>1, <1>5, <2>2, <2>5, StoreAssumption
<1> QED
  BY <1>4, <1>5

\* What SavePeer does to the part of the invariant it can disturb.
StoreInv == StoreTypeOK /\ Ranked(table) /\ Ranked(disk) /\ Agree

LEMMA SavePeerKeeps ==
    ASSUME StoreInv, NEW d \in Devices, NEW a \in Addresses, SavePeer(d, a)
    PROVE  StoreInv'
<1> USE DEF StoreInv
<1>0. PICK r \in 0 .. MaxPeers :
          /\ table' = Sighted(d, a, r)
          /\ IF Writes(d, a, r)
             THEN Persist
             ELSE /\ lag' = IF lag = "write" THEN "write" ELSE "order"
                  /\ UNCHANGED <<disk, due, failures>>
  BY DEF SavePeer
<1> r \in Nat
  BY StoreAssumption
<1>1. table \in Tables /\ table' = Sighted(d, a, r) /\ Sighted(d, a, r) \in Tables
  BY <1>0, SightedTyped DEF StoreTypeOK
<1>2. Ranked(table)'
  BY <1>1, SightedRanked DEF Ranked, Known
<1>3. CASE Writes(d, a, r) /\ disk' = table' /\ lag' = "nothing" /\ due' = FALSE /\ UNCHANGED failures
  <2>1. Ranked(disk)' /\ Agree'
    BY <1>2, <1>3 DEF Ranked, Known, Agree
  <2> QED
    BY <1>1, <1>2, <1>3, <2>1 DEF StoreTypeOK
<1>4. CASE Writes(d, a, r) /\ failures < MaxFailures /\ failures' = failures + 1 /\ lag' = "write"
           /\ due' = FALSE /\ UNCHANGED disk
  <2>1. Ranked(disk)' /\ Agree'
    BY <1>4 DEF Ranked, Known, Agree
  <2>2. failures' \in 0 .. MaxFailures
    BY <1>4, StoreAssumption DEF StoreTypeOK
  <2> QED
    BY <1>1, <1>2, <1>4, <2>1, <2>2 DEF StoreTypeOK
<1>5. CASE ~Writes(d, a, r) /\ lag' = (IF lag = "write" THEN "write" ELSE "order")
           /\ UNCHANGED <<disk, due, failures>>
  <2>1. Agree'
    <3>1. ~Material(d, a, r)
      BY <1>5 DEF Writes
    <3>2. \A e \in Devices : /\ (table'[e] = None) = (table[e] = None)
                             /\ table[e] # None => table'[e].at = table[e].at
      BY <1>1, <3>1, NotMaterial
    <3> QED
      BY <1>5, <3>2 DEF Agree
  <2>2. Ranked(disk)'
    BY <1>5 DEF Ranked, Known
  <2> QED
    BY <1>1, <1>2, <1>5, <2>1, <2>2 DEF StoreTypeOK
<1> QED
  BY <1>0, <1>3, <1>4, <1>5 DEF Persist

-----------------------------------------------------------------------------
\* The steps of Discovery.

LEMMA InitInv == Init => Inv
<1> SUFFICES ASSUME Init
             PROVE  Inv
  OBVIOUS
<1> USE DEF Init, StoreInit
<1>1. Nobody \in Tables /\ Known(Nobody) = {}
  BY DEF Nobody, Tables, Known
<1>2. failures \in 0 .. MaxFailures /\ moves \in 0 .. MaxMoves /\ crashes \in 0 .. MaxCrashes
  BY StoreAssumption, DiscoveryAssumption
<1>3. TypeOK
  BY <1>1, <1>2, DiscoveryAssumption DEF TypeOK, StoreTypeOK, Sightings
<1>4. Ranked(table) /\ Ranked(disk) /\ Agree
  BY <1>1 DEF Ranked, Agree, Nobody
<1> QED
  BY <1>3, <1>4 DEF Inv

\* Only Read, Save, Wait and Start change the table or its file.
LEMMA StoreStep ==
    ASSUME Inv, Next
    PROVE  StoreInv'
<1> USE DEF Inv, TypeOK, StoreInv
<1>1. ASSUME UNCHANGED storeVars
      PROVE  StoreInv'
  BY <1>1 DEF storeVars, StoreTypeOK, Tables, Ranked, Known, Agree
<1>2. ASSUME NEW d \in Devices, Read(d)
      PROVE  StoreInv'
  <2> PICK p \in packets : p[1] = d /\ SavePeer(d, p[2])
    BY <1>2 DEF Read
  <2>1. p[2] \in Addresses
    BY DEF Sightings
  <2> QED
    BY <2>1, SavePeerKeeps
<1>3. ASSUME Save
      PROVE  StoreInv'
  <2> PICK s \in saves : SavePeer(s[1], s[2])
    BY <1>3 DEF Save
  <2>1. s[1] \in Devices /\ s[2] \in Addresses
    BY DEF Sightings
  <2> QED
    BY <2>1, SavePeerKeeps
<1>4. ASSUME FiveMinutes
      PROVE  StoreInv'
  BY <1>4 DEF FiveMinutes, StoreTypeOK, Tables, Ranked, Known, Agree
<1>5. ASSUME Load
      PROVE  StoreInv'
  BY <1>5 DEF Load, StoreTypeOK, Tables, Ranked, Known, Agree
<1> QED
  BY <1>1, <1>2, <1>3, <1>4, <1>5
     DEF Next, ReadTimeout, ReadFails, SelectAnnounce, SelectTick, SelectDefault, Announced,
         Trigger, CallAnswered, CallFails, Wait, Request, DeviceAnnounces, Move, Crash, Start

LEMMA NetStep ==
    ASSUME Inv, Next
    PROVE  TypeOK'
<1> USE DEF Inv, TypeOK
<1>0. StoreTypeOK'
  BY StoreStep DEF StoreInv
<1>1. CASE ReadTimeout
  BY <1>0, <1>1 DEF ReadTimeout, netVars, counts
<1>2. CASE ReadFails
  BY <1>0, <1>2 DEF ReadFails, counts
<1>3. CASE SelectAnnounce
  BY <1>0, <1>3 DEF SelectAnnounce, Announced, netVars, counts
<1>4. CASE SelectTick
  BY <1>0, <1>4 DEF SelectTick, Announced, netVars, counts
<1>5. CASE SelectDefault
  BY <1>0, <1>5 DEF SelectDefault, netVars, counts
<1>6. CASE Trigger
  BY <1>0, <1>6 DEF Trigger, netVars, counts
<1>7. CASE CallAnswered
  BY <1>0, <1>7 DEF CallAnswered, counts, Sightings
<1>8. CASE CallFails
  BY <1>0, <1>8 DEF CallFails, counts
<1>9. CASE Save
  BY <1>0, <1>9 DEF Save, counts
<1>10. CASE Wait
  BY <1>0, <1>10 DEF Wait, netVars, counts
<1>11. ASSUME NEW d \in Devices, Read(d)
       PROVE  TypeOK'
  BY <1>0, <1>11 DEF Read, counts
<1>12. ASSUME NEW d \in Devices, Request(d)
       PROVE  TypeOK'
  BY <1>0, <1>12 DEF Request, counts, Sightings, Places
<1>13. ASSUME NEW d \in Devices, DeviceAnnounces(d)
       PROVE  TypeOK'
  BY <1>0, <1>13 DEF DeviceAnnounces, counts, Sightings, Places
<1>14. ASSUME NEW d \in Devices, Move(d)
       PROVE  TypeOK'
  <2>1. where' \in Places
    BY <1>14 DEF Move, Places
  <2>2. moves' \in 0 .. MaxMoves
    BY <1>14, DiscoveryAssumption DEF Move
  <2> QED
    BY <1>0, <1>14, <2>1, <2>2 DEF Move
<1>15. CASE Crash
  <2>1. crashes' \in 0 .. MaxCrashes
    BY <1>15, DiscoveryAssumption DEF Crash
  <2> QED
    BY <1>0, <1>15, <2>1 DEF Crash
<1>16. CASE Start
  BY <1>0, <1>16 DEF Start, netVars, counts
<1> QED
  BY <1>1, <1>2, <1>3, <1>4, <1>5, <1>6, <1>7, <1>8, <1>9, <1>10, <1>11, <1>12, <1>13, <1>14,
     <1>15, <1>16 DEF Next

LEMMA Invariance == Spec => []Inv
<1>1. ASSUME Inv, UNCHANGED vars
      PROVE  Inv'
  BY <1>1 DEF vars, Inv, TypeOK, StoreTypeOK, Tables, Ranked, Known, Agree, Sightings, Places
<1>2. ASSUME Inv, Next
      PROVE  Inv'
  BY <1>2, StoreStep, NetStep DEF Inv, StoreInv
<1>3. Inv /\ [Next]_vars => Inv'
  BY <1>1, <1>2
<1> QED
  BY InitInv, <1>3, PTL DEF Spec

\* Devices with ranks of their own are at most as many as there are ranks.
LEMMA RankedIsBounded ==
    ASSUME NEW t \in Tables, Ranked(t)
    PROVE  Cardinality(Known(t)) <= MaxPeers
<1> DEFINE rank == [d \in Known(t) |-> t[d].age]
<1>1. \A d \in Known(t) : t[d].age \in 0 .. MaxPeers - 1
  BY DEF Known, Tables, Entry
<1>2. rank \in Injection(Known(t), 0 .. MaxPeers - 1)
  BY <1>1 DEF Ranked, Injection, IsInjective
<1>3. IsFiniteSet(0 .. MaxPeers - 1) /\ Cardinality(0 .. MaxPeers - 1) = MaxPeers
  BY FS_Interval, StoreAssumption
<1> QED
  BY <1>2, <1>3, FS_Injection

-----------------------------------------------------------------------------
\* Every reachable state of the discovery is well typed: an entry's rank stays
\* below MaxPeers, and the devices' endpoints stay apart.
THEOREM TypeCorrect == Spec => []TypeOK
BY Invariance, PTL DEF Inv

\* The menu and the sender, which read peers.json, find the devices and the
\* endpoints that the daemon has in memory, unless the last write failed: the
\* writes that SavePeer leaves out change neither.
THEOREM FileKnows == Spec => []DiskKnows
<1>1. Inv => DiskKnows
  BY DEF Inv, Agree, DiskKnows
<1> QED
  BY Invariance, <1>1, PTL

\* The table and the file hold at most MaxPeers devices, of different ranks,
\* for every MaxPeers and any number of devices: the eviction suffices.
THEOREM PeersAreBounded == Spec => []PeersBounded
<1>1. Inv => PeersBounded
  BY RankedIsBounded DEF Inv, TypeOK, StoreTypeOK, PeersBounded
<1> QED
  BY Invariance, <1>1, PTL
=============================================================================
