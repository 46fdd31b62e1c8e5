----------------------------- MODULE Discovery -----------------------------
(***************************************************************************)
(* The discovery service of one machine, Me, among others that start, stop *)
(* and announce themselves: UDP datagrams that are lost, delayed, repeated *)
(* or overtaken, the table of devices, the sweep that drops the silent     *)
(* ones, and the lists that the pages show.  Time goes in ticks of a       *)
(* second; whatever is due happens before the next tick.                   *)
(***************************************************************************)
EXTENDS Naturals

CONSTANTS
    Hosts, Me,
    DefaultPort, OtherPort,   \* a port in use makes the server take another
    Announce,                 \* seconds between two announcements
    Sweep,                    \* seconds between two sweeps
    Timeout,                  \* age in seconds past which a sweep drops
    MaxDelay,                 \* bound: seconds a datagram may take
    MaxChanges                \* bound: starts, stops, renamings, refreshes

Ports == {DefaultPort, OtherPort}
DeviceIds == Hosts \X Ports

ASSUME DiscoveryAssumption ==
    /\ Me \in Hosts
    /\ {Announce, Sweep, Timeout} \subseteq Nat \ {0}
    /\ MaxDelay \in Nat /\ MaxChanges \in Nat
    /\ (Timeout - MaxDelay) \div Announce \in Nat \ {0}

VARIABLES
    up,         \* the program runs on this machine
    port,       \* m_tcpPort of each
    name,       \* m_deviceName of Me, as the number of its renamings
    nextSend,   \* seconds to each broadcast timer's next timeout
    nextSweep,  \* seconds to Me's cleanup timer's next timeout
    net,        \* announcements on their way to Me
    table,      \* m_devices: seconds since lastSeen, for each id
    shown,      \* the ids in the lists of the three pages
    changes,    \* starts, stops, renamings and refreshes so far
    unheard,    \* history: seconds since an id was last announced
    unsettled,  \* history: seconds since Me started or was renamed
    missed      \* history: announcements in a row that another machine lost

vars == <<up, port, name, nextSend, nextSweep, net, table, shown, changes,
          unheard, unsettled, missed>>

\* The longest an id can stay in the table after it was last announced.
Limit == Timeout + Sweep + MaxDelay
\* The announcements in a row a device may lose and stay listed.
Tolerated == (Timeout - MaxDelay) \div Announce - 1

Capped(n, c) == IF n < c THEN n ELSE c

IdOf(d) == <<d.from, d.port>>
\* An announcement; one that comes back to its own machine has no way to go.
Packet(h, p, n) ==
    [from |-> h, port |-> p, name |-> n, age |-> IF h = Me THEN MaxDelay ELSE 0]

-----------------------------------------------------------------------------
(* Announcing.                                                             *)

\* One announcement of h, with the port p and the name n, in its many copies:
\* the first that reaches Me counts.  It may be that none does.
Sends(h, p, n) ==
    /\ \/ /\ net' = net \cup {Packet(h, p, n)}
          /\ UNCHANGED missed
       \/ /\ h # Me
          /\ missed' = [missed EXCEPT ![h] = Capped(@ + 1, Tolerated + 1)]
          /\ UNCHANGED net
    /\ unheard' = [unheard EXCEPT ![<<h, p>>] = 0]

NameOf(h) == IF h = Me THEN name ELSE 0

SendBroadcastAnnouncement(h) ==
    /\ up[h] /\ nextSend[h] = 0
    /\ Sends(h, port[h], NameOf(h))
    /\ nextSend' = [nextSend EXCEPT ![h] = Announce]
    /\ UNCHANGED <<up, port, name, nextSweep, table, changes, unsettled, shown>>

\* refresh(), and with it setEthernetOnly and the renaming of another machine.
Refresh(h) ==
    /\ up[h] /\ changes < MaxChanges
    /\ Sends(h, port[h], NameOf(h))
    /\ changes' = changes + 1
    /\ UNCHANGED <<up, port, name, nextSend, nextSweep, table,
                   unsettled, shown>>

\* initialize(): the first announcement goes out before the server listens.
Start(h) ==
    /\ ~up[h]
    /\ IF h = Me THEN UNCHANGED changes
                 ELSE changes < MaxChanges /\ changes' = changes + 1
    /\ up' = [up EXCEPT ![h] = TRUE]
    /\ Sends(h, DefaultPort, NameOf(h))
    /\ \E p \in Ports : port' = [port EXCEPT ![h] = p]
    /\ nextSend' = [nextSend EXCEPT ![h] = Announce]
    /\ IF h = Me THEN nextSweep' = Sweep /\ unsettled' = 0
                 ELSE UNCHANGED <<nextSweep, unsettled>>
    /\ UNCHANGED <<name, table, shown>>

\* A machine leaves, by stop() or otherwise: nobody is told.
Stop(h) ==
    /\ h # Me /\ up[h] /\ changes < MaxChanges
    /\ up' = [up EXCEPT ![h] = FALSE]
    /\ nextSend' = [nextSend EXCEPT ![h] = Announce]
    /\ missed' = [missed EXCEPT ![h] = Tolerated + 1]
    /\ changes' = changes + 1
    /\ UNCHANGED <<port, name, nextSweep, net, table, unheard, unsettled, shown>>

SetDeviceName ==
    /\ up[Me] /\ changes < MaxChanges
    /\ name' = name + 1
    /\ Sends(Me, port[Me], name + 1)
    /\ unsettled' = 0
    /\ changes' = changes + 1
    /\ UNCHANGED <<up, port, nextSend, nextSweep, table, shown>>

-----------------------------------------------------------------------------
(* Receiving.                                                              *)

\* Mutant of IsOwn: the port compared is not the one listened on.
IsOwnByDefault(d) == d.from = Me /\ d.name = name /\ d.port = DefaultPort

IsOwn(d) == d.from = Me /\ d.name = name /\ d.port = port[Me]

Current(d) == up[d.from] /\ d.port = port[d.from]

\* Mutant of IsNew: looked up once the device is in the table.
IsNewAfterwards(id) == FALSE

IsNew(id) == id \notin DOMAIN table

\* Mutant of Seen: a device already in the table keeps its first lastSeen.
SeenFirst(d) ==
    [i \in DOMAIN table \cup {IdOf(d)} |-> IF i \in DOMAIN table THEN table[i] ELSE 0]

\* m_devices with the device of d, seen now.
Seen(d) ==
    [i \in DOMAIN table \cup {IdOf(d)} |-> IF i = IdOf(d) THEN 0 ELSE table[i]]

\* devicesChanged: every page rebuilds its list from activeDevices().
DevicesChanged == shown' = DOMAIN table'

\* One round of onReadyRead's loop.  The pages are told of new ids only.
OnReadyRead(d) ==
    /\ up[Me] /\ d \in net
    /\ net' = net \ {d}
    /\ IF IsOwn(d) THEN UNCHANGED <<table, shown>>
       ELSE /\ table' = Seen(d)
            /\ IF IsNew(IdOf(d)) THEN DevicesChanged
                                 ELSE UNCHANGED shown
    /\ missed' = IF Current(d) /\ d.from # Me THEN [missed EXCEPT ![d.from] = 0] ELSE missed
    /\ UNCHANGED <<up, port, name, nextSend, nextSweep, changes, unheard, unsettled>>

\* Mutant of Stale: an age of exactly Timeout is too old.
StaleAtTimeout == {i \in DOMAIN table : table[i] >= Timeout}
\* Mutant of Stale: one device in a sweep.
StaleFirst ==
    LET old == {i \in DOMAIN table : table[i] > Timeout}
    IN  IF old = {} THEN {} ELSE {CHOOSE i \in old : TRUE}

Stale == {i \in DOMAIN table : table[i] > Timeout}

CleanupStaleDevices ==
    /\ up[Me] /\ nextSweep = 0
    /\ table' = [i \in DOMAIN table \ Stale |-> table[i]]
    /\ IF Stale = {} THEN UNCHANGED shown ELSE DevicesChanged
    /\ nextSweep' = Sweep
    /\ UNCHANGED <<up, port, name, nextSend, net, changes, unheard, unsettled, missed>>

-----------------------------------------------------------------------------
(* Time.                                                                   *)

Tick ==
    /\ up[Me]
    /\ \A d \in net : d.age < MaxDelay
    /\ \A h \in Hosts : up[h] => nextSend[h] > 0
    /\ nextSweep > 0
    /\ nextSend' = [h \in Hosts |-> IF up[h] THEN nextSend[h] - 1 ELSE nextSend[h]]
    /\ nextSweep' = nextSweep - 1
    /\ net' = {[d EXCEPT !.age = @ + 1] : d \in net}
    /\ table' = [i \in DOMAIN table |-> table[i] + 1]
    /\ unheard' = [i \in DeviceIds |-> Capped(unheard[i] + 1, Limit + 1)]
    /\ unsettled' = Capped(unsettled + 1, Limit + 1)
    /\ UNCHANGED <<up, port, name, changes, missed, shown>>

Init ==
    /\ up = [h \in Hosts |-> FALSE]
    /\ port = [h \in Hosts |-> DefaultPort] /\ name = 0
    /\ nextSend = [h \in Hosts |-> Announce] /\ nextSweep = Sweep
    /\ net = {} /\ table = [i \in {} |-> 0] /\ shown = {} /\ changes = 0
    /\ unheard = [i \in DeviceIds |-> Limit + 1] /\ unsettled = Limit + 1
    /\ missed = [h \in Hosts |-> Tolerated + 1]

Next ==
    \/ \E h \in Hosts : \/ SendBroadcastAnnouncement(h) \/ Refresh(h)
                        \/ Start(h) \/ Stop(h)
    \/ SetDeviceName
    \/ \E d \in net : OnReadyRead(d)
    \/ CleanupStaleDevices \/ Tick

Spec == Init /\ [][Next]_vars

-----------------------------------------------------------------------------
(* Properties.                                                             *)

\* Types.
TypeOK ==
    /\ up \in [Hosts -> BOOLEAN] /\ port \in [Hosts -> Ports] /\ name \in Nat
    /\ nextSend \in [Hosts -> 0..Announce] /\ nextSweep \in 0..Sweep
    /\ net \subseteq [from : Hosts, port : Ports, name : Nat,
                      age : 0..MaxDelay]
    /\ DOMAIN table \subseteq DeviceIds /\ \A i \in DOMAIN table : table[i] \in Nat
    /\ unheard \in [DeviceIds -> 0..Limit + 1] /\ unsettled \in 0..Limit + 1
    /\ missed \in [Hosts -> 0..Tolerated + 1]

\* How old everything can be: what is on its way, what is in the table, and
\* how long ago a listed id was announced or this machine last changed.
AgesOK ==
    /\ \A d \in net : unheard[IdOf(d)] <= d.age
    /\ \A d \in net : (d.from = Me /\ d.port = port[Me] /\ ~IsOwn(d)) => unsettled <= d.age
    /\ \A i \in DOMAIN table :
          /\ table[i] + nextSweep <= Timeout + Sweep
          /\ unheard[i] <= table[i] + MaxDelay
          /\ i = <<Me, port[Me]>> => unsettled <= table[i] + MaxDelay

\* No address stays on offer longer than Limit after it was last announced:
\* neither a machine that left, nor the port that a server announced before
\* it had to take another (TransferManager.cpp:43, DiscoveryService.cpp:206).
StaleAddressesGo == \A i \in DOMAIN table : unheard[i] <= Limit

\* A machine lists itself at most for Limit after a start or a renaming, when
\* an announcement of its own comes back that it no longer recognises.
OwnListedBriefly == <<Me, port[Me]>> \in DOMAIN table => unsettled <= Limit

\* The lists of the pages show the ids of the table: the signal devicesChanged
\* is never missing (MainWindow.cpp:151).
ListIsTable == shown = DOMAIN table

\* The inductive invariant: the table is as fresh as the timers promise, the
\* pages show it, and a service not started has none (DiscoveryService.cpp:25).
DiscoveryInv ==
    /\ TypeOK /\ ListIsTable /\ AgesOK
    /\ ~up[Me] => DOMAIN table = {}

\* The longest that a machine is left unheard after it lost m announcements.
Span(m) == (m + 1) * Announce

\* The entry of h is no older than the announcements that h has sent since
\* allow: the next one comes in time, or is on its way.
OnTime(h) ==
    LET i == <<h, port[h]>>
    IN  \/ i \notin DOMAIN table
        \/ table[i] + nextSend[h] <= Span(missed[h])
        \/ \E d \in net : IdOf(d) = i /\ table[i] <= Span(missed[h]) + d.age

\* What the broadcast timer, the delay and the losses allow: a machine that
\* runs and lost few announcements is on time (DiscoveryService.cpp:206).
HeardInTime ==
    \A h \in Hosts \ {Me} :
        IF up[h] THEN missed[h] > Tolerated \/ OnTime(h)
                 ELSE missed[h] = Tolerated + 1

\* A machine that runs is dropped only when more than Tolerated announcements
\* in a row were lost.
DroppedOnlyIfSilent ==
    [][\A i \in DOMAIN table \ DOMAIN table' :
          \/ ~up[i[1]] \/ port[i[1]] # i[2]
          \/ missed[i[1]] > Tolerated
          \/ i[1] = Me]_vars
=============================================================================
