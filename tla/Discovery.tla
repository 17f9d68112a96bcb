------------------------------- MODULE Discovery -------------------------------
(***************************************************************************)
(* How the daemon comes to know other devices: the multicast loop of       *)
(* internal/app/discovery.go, the calls to /register it starts, and the    *)
(* requests of devices that answer its announcements, all of them through  *)
(* SavePeer.  Devices change their address while packets, calls and        *)
(* requests are on their way, so what is saved may be out of date.         *)
(*                                                                         *)
(* The loop reads one packet, waiting a second at most, then looks once at *)
(* the ticker and at the refresh requests (SIGUSR1).                       *)
(***************************************************************************)
EXTENDS PeerStore

CONSTANTS
    Encryption,   \* Config.Encryption: the daemon itself serves HTTPS
    Plain,        \* devices that announce http, the others https
    Staying,      \* devices that go on announcing themselves
    Home,         \* the endpoint every device has at first
    MaxInFlight,  \* bound: packets, calls and requests on their way
    MaxMoves,     \* bound: changes of address
    MaxCrashes    \* bound: crashes of the daemon

\* The endpoints of devices that share the network differ.
Places == {w \in [Devices -> Addresses] : \A d, e \in Devices : w[d] = w[e] => d = e}

ASSUME DiscoveryAssumption ==
    /\ Encryption \in BOOLEAN
    /\ Plain \subseteq Devices /\ Staying \subseteq Devices
    /\ Home \in Places
    /\ MaxInFlight \in Nat /\ MaxMoves \in Nat /\ MaxCrashes \in Nat

VARIABLES
    loop,     \* the loop is about to "read" or to "select", has ended on an
              \* error ("off"), or the daemon is "down"
    asked,    \* a token is in Server.announce, a channel of one place
    owed,     \* history: a refresh was asked for, nothing announced since
    packets,  \* announcements of other devices in the socket's buffer
    calls,    \* registerWithPeer: the peer it calls
    saves,    \* handlers and calls about to SavePeer
    where,    \* the endpoint every device has now
    moves,    \* changes of address so far
    crashes   \* crashes so far

netVars == <<packets, calls, saves, where>>
counts == <<moves, crashes>>
vars == <<table, disk, due, failures, lag, loop, asked, owed, packets, calls, saves,
          where, moves, crashes>>

Sightings == Devices \X Addresses

TypeOK ==
    /\ StoreTypeOK
    /\ loop \in {"read", "select", "off", "down"}
    /\ asked \in BOOLEAN /\ owed \in BOOLEAN
    /\ packets \subseteq Sightings /\ calls \subseteq Sightings /\ saves \subseteq Sightings
    /\ where \in Places
    /\ moves \in 0 .. MaxMoves
    /\ crashes \in 0 .. MaxCrashes

Init ==
    /\ StoreInit
    /\ loop = "read"
    /\ asked = FALSE /\ owed = FALSE
    /\ packets = {} /\ calls = {} /\ saves = {}
    /\ where = Home
    /\ moves = 0 /\ crashes = 0

Room == Cardinality(packets) + Cardinality(calls) + Cardinality(saves) < MaxInFlight

-----------------------------------------------------------------------------
\* The loop.

\* An announcement, which answers every request made before it, is the
\* attempt to send one: a packet that cannot be sent is logged, and any packet
\* may be lost.
Announced == loop' = "read" /\ owed' = FALSE /\ UNCHANGED <<storeVars, netVars, counts>>

\* In the compatibility mode of the KUAL menu no https device is called.
Calls(d) == Encryption \/ d \in Plain

Read(d) ==
    /\ loop = "read"
    /\ \E p \in packets :
          /\ p[1] = d
          /\ SavePeer(d, p[2])
          /\ packets' = packets \ {p}
          /\ calls' = IF Calls(d) THEN calls \cup {p} ELSE calls
    /\ loop' = "select"
    /\ UNCHANGED <<asked, owed, saves, where, counts>>

ReadTimeout ==
    /\ loop = "read" /\ packets = {}
    /\ loop' = "select"
    /\ UNCHANGED <<storeVars, asked, owed, netVars, counts>>

\* Any other error ends the loop for as long as the daemon lives.
ReadFails ==
    /\ loop = "read"
    /\ loop' = "off"
    /\ packets' = {}
    /\ UNCHANGED <<storeVars, asked, owed, calls, saves, where, counts>>

SelectAnnounce == loop = "select" /\ asked /\ asked' = FALSE /\ Announced

SelectTick == loop = "select" /\ Announced /\ UNCHANGED asked

SelectDefault ==
    /\ loop = "select" /\ ~asked
    /\ loop' = "read"
    /\ UNCHANGED <<storeVars, asked, owed, netVars, counts>>

\* Mutant: a channel without a place; the request is lost unless the loop is
\* at its select.
MutantTrigger ==
    /\ loop # "down"
    /\ owed' = TRUE
    /\ asked' = (asked \/ loop = "select")
    /\ UNCHANGED <<storeVars, loop, netVars, counts>>

\* TriggerAnnouncement on SIGUSR1: a second token finds no place.
Trigger ==
    /\ loop # "down"
    /\ owed' = TRUE
    /\ asked' = TRUE
    /\ UNCHANGED <<storeVars, loop, netVars, counts>>

-----------------------------------------------------------------------------
\* Calls to /register, and requests of other devices.

\* Over https only the device announced can answer, over http whichever one
\* has the address now; what it says is saved under the address called.
CallAnswered ==
    \E c \in calls, d \in Devices :
        /\ where[d] = c[2]
        /\ IF c[1] \in Plain THEN d \in Plain ELSE d = c[1]
        /\ calls' = calls \ {c}
        /\ saves' = saves \cup {<<d, c[2]>>}
        /\ UNCHANGED <<storeVars, loop, asked, owed, packets, where, counts>>

CallFails ==
    \E c \in calls :
        /\ calls' = calls \ {c}
        /\ UNCHANGED <<storeVars, loop, asked, owed, packets, saves, where, counts>>

\* A device calls /register or /prepare-upload.
Request(d) ==
    /\ loop # "down" /\ Room
    /\ saves' = saves \cup {<<d, where[d]>>}
    /\ UNCHANGED <<storeVars, loop, asked, owed, packets, calls, where, counts>>

Save ==
    \E s \in saves :
        /\ SavePeer(s[1], s[2])
        /\ saves' = saves \ {s}
        /\ UNCHANGED <<loop, asked, owed, packets, calls, where, counts>>

-----------------------------------------------------------------------------
\* The clock, the other devices, and the daemon's end and start.

Wait == FiveMinutes /\ UNCHANGED <<loop, asked, owed, netVars, counts>>

\* A packet that is lost is one that was not sent.
DeviceAnnounces(d) ==
    /\ loop \notin {"off", "down"} /\ Room
    /\ packets' = packets \cup {<<d, where[d]>>}
    /\ UNCHANGED <<storeVars, loop, asked, owed, calls, saves, where, counts>>

Move(d) ==
    /\ moves < MaxMoves
    /\ moves' = moves + 1
    /\ \E a \in Addresses :
          /\ \A e \in Devices : where[e] # a
          /\ where' = [where EXCEPT ![d] = a]
    /\ UNCHANGED <<storeVars, loop, asked, owed, packets, calls, saves, crashes>>

Crash ==
    /\ loop # "down" /\ crashes < MaxCrashes
    /\ crashes' = crashes + 1
    /\ loop' = "down"
    /\ asked' = FALSE /\ owed' = FALSE
    /\ packets' = {} /\ calls' = {} /\ saves' = {}
    /\ UNCHANGED <<storeVars, where, moves>>

\* The loop begins with an announcement; the multicast socket may not open.
Start ==
    /\ loop = "down"
    /\ Load
    /\ loop' \in {"read", "off"}
    /\ UNCHANGED <<asked, owed, netVars, counts>>

Next ==
    \/ ReadTimeout \/ ReadFails
    \/ SelectAnnounce \/ SelectTick \/ SelectDefault
    \/ Trigger \/ CallAnswered \/ CallFails \/ Save \/ Wait
    \/ \E d \in Devices : Read(d) \/ Request(d) \/ DeviceAnnounces(d) \/ Move(d)
    \/ Crash \/ Start

\* The loop, its calls and the handlers get the processor and time passes; a
\* device that stays repeats its announcement, and again and again one of
\* them arrives and is read.
Fairness ==
    /\ WF_vars(ReadTimeout \/ \E d \in Devices : Read(d))
    /\ WF_vars(SelectAnnounce \/ SelectTick \/ SelectDefault)
    /\ WF_vars(CallAnswered \/ CallFails) /\ WF_vars(Save) /\ WF_vars(Wait)
    /\ \A d \in Staying : SF_vars(Read(d)) /\ SF_vars(DeviceAnnounces(d))

Spec == Init /\ [][Next]_vars

FairSpec == Spec /\ Fairness

-----------------------------------------------------------------------------
\* What the table and the file owe to their readers.

\* The menu and the sender read the file, not the daemon's memory: unless the
\* last write failed, it names exactly the devices the daemon knows and the
\* endpoints it knows them at (SavePeer skips the write for an unchanged
\* device only).
DiskKnows ==
    loop # "down" /\ lag # "write" =>
        \A d \in Devices :
            /\ (disk[d] = None) = (table[d] = None)
            /\ disk[d] # None => disk[d].at = table[d].at

\* Neither the memory nor the file ever holds more than MaxPeers devices,
\* however many are seen, in whatever order, before and after a restart: no
\* two devices of a list were last seen at the same rank.
Ranked(t) == \A d, e \in Known(t) : d # e => t[d].age # t[e].age

PeersBounded ==
    \A t \in {table, disk} : Ranked(t) /\ Cardinality(Known(t)) <= MaxPeers

\* A refresh asked for by SIGUSR1 is followed by an announcement, wherever the
\* loop was when the signal came, unless the loop or the daemon ends.
RequestAnnounced == owed ~> (~owed \/ loop \in {"off", "down"})

\* A call, a request or a packet that outlives a change of address brings the
\* old endpoint back after the new one: it does not stay.  Once addresses no
\* longer change, a device that stays is known where it is, if at all.
EndpointConverges ==
    <>[](\/ loop \in {"off", "down"}
         \/ \A d \in Known(table) \cap Staying : table[d].at = where[d])

\* The file catches up with the sightings that changed nothing else, and with
\* what a failed write left out, again and again.
SightingsPersisted == []<>(lag = "nothing" \/ loop \in {"off", "down"})
=============================================================================
