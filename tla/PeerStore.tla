------------------------------- MODULE PeerStore -------------------------------
(***************************************************************************)
(* The table of known devices (internal/app/state.go): the peers of a      *)
(* StateStore in the memory of the daemon, and state/peers.json, which the *)
(* menu and the sender, processes of their own, read instead.  A sighting  *)
(* always reaches the memory; it reaches the file if it changed what is    *)
(* known, or if the last write is five minutes old.                        *)
(*                                                                         *)
(* LastSeen appears as the rank it gives: an entry's age is the number of  *)
(* devices of the table that were seen after it.                           *)
(***************************************************************************)
EXTENDS Naturals, FiniteSets

CONSTANTS
    Devices,      \* fingerprints of other devices
    Addresses,    \* endpoints: IP, port and protocol
    MaxPeers,     \* Config.MaxPeers
    MaxFailures,  \* bound: writes of peers.json that fail
    None          \* not in the table

Entry == [at : Addresses, age : 0 .. MaxPeers - 1]

ASSUME StoreAssumption ==
    /\ MaxPeers \in Nat \ {0}
    /\ MaxFailures \in Nat
    /\ None \notin Entry

VARIABLES
    table,     \* StateStore.peers
    disk,      \* state/peers.json
    due,       \* five minutes have passed since lastPeerPersist
    failures,  \* writes that failed
    lag        \* history: what the file lacks: "nothing", "order" (when a
               \* device was last seen) or "write" (the last write failed)

storeVars == <<table, disk, due, failures, lag>>

Tables == [Devices -> Entry \cup {None}]

Nobody == [d \in Devices |-> None]

StoreTypeOK ==
    /\ table \in Tables
    /\ disk \in Tables
    /\ due \in BOOLEAN
    /\ failures \in 0 .. MaxFailures
    /\ lag \in {"nothing", "order", "write"}

StoreInit ==
    /\ table = Nobody
    /\ disk = Nobody
    /\ due = TRUE
    /\ failures = 0
    /\ lag = "nothing"

Known(t) == {d \in Devices : t[d] # None}

\* The rank of e among the devices other than d.
Without(d, e) ==
    IF table[d] # None /\ table[d].age < table[e].age THEN table[e].age - 1 ELSE table[e].age

\* The rank of e once d has entered at rank r.
Aged(d, r, e) ==
    IF e = d THEN r ELSE IF Without(d, e) < r THEN Without(d, e) ELSE Without(d, e) + 1

\* Mutant: nothing is evicted.
MutantKept(d, r, e) == e = d \/ table[e] # None

\* Beyond MaxPeers the longest unseen goes.
Kept(d, r, e) == (e = d \/ table[e] # None) /\ Aged(d, r, e) < MaxPeers

\* Mutant: a device that is known keeps its endpoint.
MutantSighted(d, a, r) ==
    [e \in Devices |->
        IF Kept(d, r, e)
        THEN [at |-> IF table[e] = None THEN a ELSE table[e].at, age |-> Aged(d, r, e)]
        ELSE None]

\* The table once d was seen at a.
Sighted(d, a, r) ==
    [e \in Devices |->
        IF Kept(d, r, e)
        THEN [at |-> IF e = d THEN a ELSE table[e].at, age |-> Aged(d, r, e)]
        ELSE None]

\* Mutant: the address is no part of what peerMateriallyEqual compares.
MutantMaterial(d, a, r) ==
    \/ table[d] = None
    \/ \E e \in Known(table) : ~Kept(d, r, e)

\* peerMateriallyEqual, and the eviction.
Material(d, a, r) ==
    \/ table[d] = None
    \/ table[d].at # a
    \/ \E e \in Known(table) : ~Kept(d, r, e)

\* Mutant: only a change is written.
MutantWrites(d, a, r) == Material(d, a, r)

Writes(d, a, r) == Material(d, a, r) \/ due

\* atomicWriteJSON replaces the file or leaves it; the time is noted either
\* way.
Persist ==
    /\ due' = FALSE
    /\ \/ disk' = table' /\ lag' = "nothing" /\ UNCHANGED failures
       \/ /\ failures < MaxFailures
          /\ failures' = failures + 1
          /\ lag' = "write"
          /\ UNCHANGED disk

\* Who calls SavePeer takes the time before the lock: it may find devices
\* there, or d itself, that were seen later than what it brings.  (A clock
\* that was set back does the same.)  In a full table it is then the one to
\* go.
SavePeer(d, a) ==
    \E r \in 0 .. MaxPeers :
        /\ r <= Cardinality(Known(table) \ {d})
        /\ table' = Sighted(d, a, r)
        /\ IF Writes(d, a, r)
           THEN Persist
           ELSE /\ lag' = IF lag = "write" THEN "write" ELSE "order"
                /\ UNCHANGED <<disk, due, failures>>

FiveMinutes == ~due /\ due' = TRUE /\ UNCHANGED <<table, disk, failures, lag>>

\* NewStateStore: the time of the last write is the file's own, and none
\* without a file.
Load ==
    /\ table' = disk
    /\ lag' = "nothing"
    /\ due' = (due \/ disk = Nobody)
    /\ UNCHANGED <<disk, failures>>
=============================================================================
