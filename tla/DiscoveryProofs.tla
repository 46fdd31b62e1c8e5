-------------------------- MODULE DiscoveryProofs --------------------------
(***************************************************************************)
(* Proofs about Discovery, for every set of machines and every choice of   *)
(* the timers, the timeout and the delay.                                  *)
(***************************************************************************)
EXTENDS Discovery, TLAPS

USE DiscoveryAssumption

Datagram == [from : Hosts, port : Ports, name : Nat, age : 0..MaxDelay]

LEMMA Numbers ==
    /\ Limit \in Nat /\ Tolerated \in Nat
    /\ Announce \in Nat \ {0} /\ Sweep \in Nat \ {0} /\ Timeout \in Nat \ {0}
    /\ MaxDelay \in Nat
    /\ Limit = Timeout + Sweep + MaxDelay
BY DEF Limit, Tolerated

LEMMA CappedFacts ==
    ASSUME NEW n \in Nat, NEW c \in Nat
    PROVE  Capped(n, c) \in 0..c /\ Capped(n, c) <= n
BY DEF Capped

LEMMA PacketFacts ==
    ASSUME NEW h \in Hosts, NEW p \in Ports, NEW n \in Nat
    PROVE  /\ Packet(h, p, n) \in Datagram
           /\ IdOf(Packet(h, p, n)) = <<h, p>>
           /\ Packet(h, p, n).from = h /\ Packet(h, p, n).port = p
           /\ Packet(h, p, n).name = n
BY Numbers DEF Packet, Datagram, IdOf

\* An announcement: the id is fresh, and what is on its way is known.
LEMMA SendsFacts ==
    ASSUME TypeOK, NEW h \in Hosts, NEW p \in Ports, NEW n \in Nat, Sends(h, p, n)
    PROVE  /\ net' \subseteq Datagram
           /\ \A d \in net' : d \in net \/ d = Packet(h, p, n)
           /\ missed' \in [Hosts -> 0..Tolerated + 1]
           /\ unheard' \in [DeviceIds -> 0..Limit + 1]
           /\ unheard'[<<h, p>>] = 0
           /\ \A i \in DeviceIds : unheard'[i] <= unheard[i]
<1>1. /\ net \subseteq Datagram /\ <<h, p>> \in DeviceIds
      /\ missed \in [Hosts -> 0..Tolerated + 1]
      /\ unheard \in [DeviceIds -> 0..Limit + 1]
  BY DEF TypeOK, Datagram, DeviceIds
<1>2. Packet(h, p, n) \in Datagram
  BY PacketFacts
<1>3. net' \subseteq Datagram /\ \A d \in net' : d \in net \/ d = Packet(h, p, n)
  BY <1>1, <1>2 DEF Sends
<1>4. missed' \in [Hosts -> 0..Tolerated + 1]
  <2>1. missed[h] + 1 \in Nat /\ Tolerated + 1 \in Nat
    BY <1>1, Numbers
  <2>2. Capped(missed[h] + 1, Tolerated + 1) \in 0..Tolerated + 1
    BY <2>1, CappedFacts
  <2>3. QED BY <1>1, <2>2 DEF Sends
<1>5. /\ unheard' \in [DeviceIds -> 0..Limit + 1]
      /\ unheard'[<<h, p>>] = 0
      /\ \A i \in DeviceIds : unheard'[i] <= unheard[i]
  BY <1>1, Numbers DEF Sends
<1>6. QED BY <1>3, <1>4, <1>5

\* An announcement keeps the ages: of another machine, of this one under its
\* own name and port, or when this machine has just changed.
LEMMA SendsKeepsAges ==
    ASSUME DiscoveryInv, NEW h \in Hosts, NEW p \in Ports, NEW n \in Nat,
           Sends(h, p, n), UNCHANGED table,
           \/ unsettled' = 0
           \/ /\ UNCHANGED <<unsettled, name>> /\ port'[Me] = port[Me]
              /\ h # Me \/ (n = name /\ p = port[Me]),
           \/ UNCHANGED nextSweep
           \/ DOMAIN table = {}
    PROVE  AgesOK'
<1>1. TypeOK /\ AgesOK
  BY DEF DiscoveryInv
<1>2. /\ \A d \in net' : d \in Datagram /\ (d \in net \/ d = Packet(h, p, n))
      /\ unheard \in [DeviceIds -> 0..Limit + 1]
      /\ unheard' \in [DeviceIds -> 0..Limit + 1] /\ unheard'[<<h, p>>] = 0
      /\ \A i \in DeviceIds : unheard'[i] <= unheard[i]
  BY <1>1, SendsFacts DEF TypeOK
<1>3. ASSUME NEW d \in net'
      PROVE  d.age \in Nat /\ unheard'[IdOf(d)] <= d.age
  <2>1. d.age \in Nat /\ IdOf(d) \in DeviceIds
    BY <1>2, <1>3, Numbers DEF Datagram, IdOf, DeviceIds
  <2>2. CASE d \in net
    <3>1. unheard[IdOf(d)] <= d.age
      BY <1>1, <2>2 DEF AgesOK
    <3>2. unheard'[IdOf(d)] \in Nat /\ unheard[IdOf(d)] \in Nat
      BY <1>2, <2>1, Numbers
    <3>3. unheard'[IdOf(d)] <= unheard[IdOf(d)]
      BY <1>2, <2>1
    <3>4. QED BY <2>1, <3>1, <3>2, <3>3
  <2>3. CASE d = Packet(h, p, n)
    <3>1. IdOf(d) = <<h, p>>
      <4>1. d.from = h /\ d.port = p
        BY <2>3, PacketFacts
      <4>2. QED BY <4>1 DEF IdOf
    <3>2. unheard'[IdOf(d)] = 0
      BY <1>2, <3>1
    <3>3. QED BY <2>1, <3>2
  <2>4. QED BY <1>2, <2>1, <2>2, <2>3
<1>4. ASSUME NEW d \in net', d.from = Me, d.port = port'[Me], ~IsOwn(d)'
      PROVE  unsettled' <= d.age
  <2>1. CASE unsettled' = 0
    BY <1>3, <1>4, <2>1
  <2>2. CASE /\ UNCHANGED <<unsettled, name>> /\ port'[Me] = port[Me]
             /\ h # Me \/ (n = name /\ p = port[Me])
    <3>1. CASE d \in net
      BY <1>1, <1>4, <2>2, <3>1 DEF AgesOK, IsOwn
    <3>2. CASE d = Packet(h, p, n)
      BY <1>4, <2>2, <3>2, PacketFacts DEF IsOwn
    <3>3. QED BY <1>2, <3>1, <3>2
  <2>3. QED BY <2>1, <2>2
<1>5. ASSUME NEW i \in DOMAIN table
      PROVE  /\ table[i] + nextSweep' <= Timeout + Sweep
             /\ unheard'[i] <= table[i] + MaxDelay
             /\ i = <<Me, port'[Me]>> => unsettled' <= table[i] + MaxDelay
  <2>1. i \in DeviceIds /\ table[i] \in Nat /\ nextSweep' = nextSweep
    BY <1>1, <1>5 DEF TypeOK
  <2>2. /\ table[i] + nextSweep <= Timeout + Sweep
        /\ unheard[i] <= table[i] + MaxDelay
        /\ i = <<Me, port[Me]>> => unsettled <= table[i] + MaxDelay
    BY <1>1 DEF AgesOK
  <2>3. unheard'[i] \in Nat /\ unheard[i] \in Nat /\ unheard'[i] <= unheard[i]
    BY <1>2, <2>1, Numbers
  <2>4. QED BY <2>1, <2>2, <2>3, Numbers
<1>6. QED BY <1>3, <1>4, <1>5 DEF AgesOK

LEMMA SendBroadcastAnnouncementStep ==
    ASSUME DiscoveryInv, NEW h \in Hosts, SendBroadcastAnnouncement(h)
    PROVE  DiscoveryInv'
<1>1. TypeOK /\ port[h] \in Ports /\ NameOf(h) \in Nat
  BY DEF DiscoveryInv, TypeOK, NameOf
<1>2. AgesOK'
  BY <1>1, SendsKeepsAges DEF SendBroadcastAnnouncement, NameOf
<1>3. nextSend' \in [Hosts -> 0..Announce]
  BY <1>1, Numbers DEF TypeOK, SendBroadcastAnnouncement
<1>4. TypeOK'
  BY <1>1, <1>3, SendsFacts DEF TypeOK, SendBroadcastAnnouncement, Datagram
<1>5. QED BY <1>2, <1>4 DEF DiscoveryInv, ListIsTable, SendBroadcastAnnouncement

LEMMA RefreshStep ==
    ASSUME DiscoveryInv, NEW h \in Hosts, Refresh(h)
    PROVE  DiscoveryInv'
<1>1. TypeOK /\ port[h] \in Ports /\ NameOf(h) \in Nat
  BY DEF DiscoveryInv, TypeOK, NameOf
<1>2. AgesOK'
  BY <1>1, SendsKeepsAges DEF Refresh, NameOf
<1>3. TypeOK'
  BY <1>1, SendsFacts DEF TypeOK, Refresh, Datagram
<1>4. QED BY <1>2, <1>3 DEF DiscoveryInv, ListIsTable, Refresh

LEMMA StartStep ==
    ASSUME DiscoveryInv, NEW h \in Hosts, Start(h)
    PROVE  DiscoveryInv'
<1>1. TypeOK /\ DefaultPort \in Ports /\ NameOf(h) \in Nat
  BY DEF DiscoveryInv, TypeOK, NameOf, Ports
<1>2. AgesOK'
  <2>1. CASE h = Me
    <3>1. DOMAIN table = {} /\ unsettled' = 0
      BY <2>1 DEF Start, DiscoveryInv
    <3>2. QED BY <1>1, <3>1, SendsKeepsAges DEF Start
  <2>2. CASE h # Me
    <3>1. port'[Me] = port[Me]
      BY <1>1, <2>2 DEF Start, TypeOK
    <3>2. QED BY <1>1, <2>2, <3>1, SendsKeepsAges DEF Start
  <2>3. QED BY <2>1, <2>2
<1>3. /\ up' \in [Hosts -> BOOLEAN] /\ port' \in [Hosts -> Ports]
      /\ nextSend' \in [Hosts -> 0..Announce] /\ nextSweep' \in 0..Sweep
      /\ unsettled' \in 0..Limit + 1
  BY <1>1, Numbers DEF TypeOK, Start
<1>4. TypeOK'
  BY <1>1, <1>3, SendsFacts DEF TypeOK, Start, Datagram
<1>5. ~up'[Me] => DOMAIN table' = {}
  BY <1>1 DEF DiscoveryInv, TypeOK, Start
<1>6. QED BY <1>2, <1>4, <1>5 DEF DiscoveryInv, ListIsTable, Start

LEMMA StopStep ==
    ASSUME DiscoveryInv, NEW h \in Hosts, Stop(h)
    PROVE  DiscoveryInv'
<1>1. TypeOK /\ AgesOK
  BY DEF DiscoveryInv
<1>2. /\ up' \in [Hosts -> BOOLEAN] /\ nextSend' \in [Hosts -> 0..Announce]
      /\ missed' \in [Hosts -> 0..Tolerated + 1]
  BY <1>1, Numbers DEF TypeOK, Stop
<1>3. TypeOK'
  BY <1>1, <1>2 DEF TypeOK, Stop
<1>4. AgesOK'
  BY <1>1 DEF AgesOK, IsOwn, Stop
<1>5. ~up'[Me] => DOMAIN table' = {}
  BY <1>1 DEF DiscoveryInv, TypeOK, Stop
<1>6. QED BY <1>3, <1>4, <1>5 DEF DiscoveryInv, ListIsTable, Stop

LEMMA SetDeviceNameStep ==
    ASSUME DiscoveryInv, SetDeviceName
    PROVE  DiscoveryInv'
<1>1. TypeOK /\ port[Me] \in Ports /\ name + 1 \in Nat
  BY DEF DiscoveryInv, TypeOK
<1>2. AgesOK'
  BY <1>1, SendsKeepsAges DEF SetDeviceName
<1>3. Sends(Me, port[Me], name + 1)
  BY DEF SetDeviceName
<1>4. /\ net' \subseteq Datagram
      /\ missed' \in [Hosts -> 0..Tolerated + 1]
      /\ unheard' \in [DeviceIds -> 0..Limit + 1]
  BY <1>1, <1>3, SendsFacts
<1>5. name' \in Nat /\ unsettled' \in 0..Limit + 1
  BY <1>1, Numbers DEF SetDeviceName
<1>6. TypeOK'
  BY <1>1, <1>4, <1>5 DEF TypeOK, SetDeviceName, Datagram
<1>7. QED BY <1>2, <1>6 DEF DiscoveryInv, ListIsTable, SetDeviceName

LEMMA OnReadyReadStep ==
    ASSUME DiscoveryInv, NEW d \in net, OnReadyRead(d)
    PROVE  DiscoveryInv'
<1>1. TypeOK /\ AgesOK /\ shown = DOMAIN table /\ up[Me] /\ up'[Me]
  BY DEF DiscoveryInv, ListIsTable, OnReadyRead
<1>2. d \in Datagram /\ IdOf(d) \in DeviceIds /\ d.age \in 0..MaxDelay
  BY <1>1 DEF TypeOK, Datagram, IdOf, DeviceIds
<1>3. missed' \in [Hosts -> 0..Tolerated + 1]
  BY <1>1, Numbers DEF TypeOK, OnReadyRead
<1>4. CASE IsOwn(d)
  <2>1. UNCHANGED <<table, shown>>
    BY <1>4 DEF OnReadyRead
  <2>2. TypeOK'
    BY <1>1, <1>3, <2>1 DEF TypeOK, OnReadyRead
  <2>3. AgesOK'
    BY <1>1, <2>1 DEF AgesOK, IsOwn, OnReadyRead
  <2>4. QED BY <1>1, <2>1, <2>2, <2>3 DEF DiscoveryInv, ListIsTable, OnReadyRead
<1>5. CASE ~IsOwn(d)
  <2>1. /\ table' = [i \in DOMAIN table \cup {IdOf(d)} |->
                        IF i = IdOf(d) THEN 0 ELSE table[i]]
        /\ IF IsNew(IdOf(d)) THEN DevicesChanged ELSE UNCHANGED shown
    BY <1>5 DEF OnReadyRead, Seen
  <2>2. shown' = DOMAIN table'
    BY <1>1, <2>1 DEF IsNew, DevicesChanged
  <2>3. TypeOK'
    BY <1>1, <1>2, <1>3, <2>1 DEF TypeOK, OnReadyRead
  <2>4. unheard[IdOf(d)] <= d.age /\ unheard[IdOf(d)] \in Nat /\ unsettled \in Nat
    BY <1>1, <1>2, Numbers DEF AgesOK, TypeOK
  <2>5. IdOf(d) = <<Me, port[Me]>> => unsettled <= d.age
    BY <1>1, <1>5 DEF AgesOK, IdOf
  <2>6. ASSUME NEW i \in DOMAIN table'
        PROVE  /\ table'[i] + nextSweep <= Timeout + Sweep
               /\ unheard[i] <= table'[i] + MaxDelay
               /\ i = <<Me, port[Me]>> => unsettled <= table'[i] + MaxDelay
    <3>1. CASE i = IdOf(d)
      BY <1>1, <1>2, <2>1, <2>4, <2>5, <3>1, Numbers DEF TypeOK
    <3>2. CASE i # IdOf(d)
      BY <1>1, <2>1, <2>6, <3>2 DEF AgesOK
    <3>3. QED BY <3>1, <3>2
  <2>7. AgesOK'
    BY <1>1, <2>6 DEF AgesOK, IsOwn, OnReadyRead
  <2>8. QED BY <1>1, <2>2, <2>3, <2>7 DEF DiscoveryInv, ListIsTable
<1>6. QED BY <1>4, <1>5

LEMMA CleanupStaleDevicesStep ==
    ASSUME DiscoveryInv, CleanupStaleDevices
    PROVE  DiscoveryInv'
<1>1. /\ TypeOK /\ AgesOK /\ shown = DOMAIN table /\ up[Me] /\ up'[Me]
      /\ nextSweep' = Sweep
      /\ table' = [i \in DOMAIN table \ Stale |-> table[i]]
  BY DEF DiscoveryInv, ListIsTable, CleanupStaleDevices
<1>2. shown' = DOMAIN table'
  BY <1>1 DEF CleanupStaleDevices, DevicesChanged, Stale
<1>3. TypeOK'
  BY <1>1, Numbers DEF TypeOK, CleanupStaleDevices
<1>4. ASSUME NEW i \in DOMAIN table'
      PROVE  /\ i \in DOMAIN table /\ table'[i] = table[i]
             /\ table[i] <= Timeout /\ table[i] \in Nat
  BY <1>1, <1>4, Numbers DEF Stale, TypeOK
<1>5. AgesOK'
  <2>1. \A i \in DOMAIN table' : table'[i] + nextSweep' <= Timeout + Sweep
    BY <1>1, <1>4, Numbers
  <2>2. QED BY <1>1, <1>4, <2>1 DEF AgesOK, IsOwn, CleanupStaleDevices
<1>6. QED BY <1>1, <1>2, <1>3, <1>5 DEF DiscoveryInv, ListIsTable

LEMMA TickStep ==
    ASSUME DiscoveryInv, Tick
    PROVE  DiscoveryInv'
<1>1. /\ TypeOK /\ AgesOK /\ shown = DOMAIN table /\ up[Me] /\ up'[Me]
      /\ nextSweep' = nextSweep - 1 /\ nextSweep \in 1..Sweep
      /\ table' = [i \in DOMAIN table |-> table[i] + 1]
  BY Numbers DEF DiscoveryInv, ListIsTable, Tick, TypeOK
<1>2. /\ unsettled' \in 0..Limit + 1 /\ unsettled' <= unsettled + 1
      /\ unsettled \in Nat
  <2>1. unsettled \in Nat /\ unsettled' = Capped(unsettled + 1, Limit + 1)
    BY <1>1, Numbers DEF Tick, TypeOK
  <2>2. unsettled + 1 \in Nat /\ Limit + 1 \in Nat
    BY <2>1, Numbers
  <2>3. QED BY <2>1, <2>2, CappedFacts
<1>3. ASSUME NEW i \in DeviceIds
      PROVE  /\ unheard[i] \in Nat /\ unheard'[i] \in 0..Limit + 1
             /\ unheard'[i] <= unheard[i] + 1
  <2>1. unheard[i] \in Nat /\ unheard'[i] = Capped(unheard[i] + 1, Limit + 1)
    BY <1>1, Numbers DEF Tick, TypeOK
  <2>2. unheard[i] + 1 \in Nat /\ Limit + 1 \in Nat
    BY <2>1, Numbers
  <2>3. /\ Capped(unheard[i] + 1, Limit + 1) \in 0..Limit + 1
        /\ Capped(unheard[i] + 1, Limit + 1) <= unheard[i] + 1
    BY <2>2, CappedFacts
  <2>4. QED BY <2>1, <2>3
<1>4. ASSUME NEW e \in net'
      PROVE  \E d \in net : /\ e = [d EXCEPT !.age = @ + 1]
                            /\ d \in Datagram /\ d.age < MaxDelay
  BY <1>1 DEF Tick, TypeOK, Datagram
<1>5. ASSUME NEW e \in net'
      PROVE  /\ e \in Datagram /\ unheard'[IdOf(e)] <= e.age
             /\ (e.from = Me /\ e.port = port[Me] /\ ~IsOwn(e)') => unsettled' <= e.age
  <2>1. PICK d \in net : /\ e = [d EXCEPT !.age = @ + 1]
                         /\ d \in Datagram /\ d.age < MaxDelay
    BY <1>4
  <2>2. /\ e \in Datagram /\ e.age = d.age + 1 /\ d.age \in Nat
        /\ e.from = d.from /\ e.port = d.port /\ e.name = d.name
        /\ IdOf(e) = IdOf(d) /\ IdOf(d) \in DeviceIds
    BY <2>1, Numbers DEF Datagram, IdOf, DeviceIds
  <2>3. unheard[IdOf(d)] <= d.age
    BY <1>1 DEF AgesOK
  <2>4. unheard'[IdOf(e)] <= e.age
    BY <1>3, <2>2, <2>3, Numbers
  <2>5. ASSUME e.from = Me, e.port = port[Me], ~IsOwn(e)' PROVE unsettled' <= e.age
    <3>1. ~IsOwn(d)
      BY <2>2, <2>5 DEF IsOwn, Tick
    <3>2. unsettled <= d.age
      BY <1>1, <2>2, <2>5, <3>1 DEF AgesOK
    <3>3. QED BY <1>2, <2>2, <3>2, Numbers
  <2>6. QED BY <2>2, <2>4, <2>5
<1>6. ASSUME NEW i \in DOMAIN table'
      PROVE  /\ table'[i] + nextSweep' <= Timeout + Sweep
             /\ unheard'[i] <= table'[i] + MaxDelay
             /\ i = <<Me, port[Me]>> => unsettled' <= table'[i] + MaxDelay
  <2>1. /\ i \in DOMAIN table /\ table'[i] = table[i] + 1 /\ table[i] \in Nat
        /\ i \in DeviceIds
    BY <1>1, <1>6 DEF TypeOK
  <2>2. /\ table[i] + nextSweep <= Timeout + Sweep
        /\ unheard[i] <= table[i] + MaxDelay
        /\ i = <<Me, port[Me]>> => unsettled <= table[i] + MaxDelay
    BY <1>1, <2>1 DEF AgesOK
  <2>3. unheard'[i] \in Nat /\ unheard[i] \in Nat /\ unheard'[i] <= unheard[i] + 1
    BY <1>3, <2>1, Numbers
  <2>4. QED BY <1>1, <1>2, <2>1, <2>2, <2>3, Numbers
<1>7. AgesOK'
  BY <1>5, <1>6 DEF AgesOK, Tick
<1>8. TypeOK'
  <2>1. nextSend' \in [Hosts -> 0..Announce]
    BY <1>1, Numbers DEF TypeOK, Tick
  <2>2. unheard' \in [DeviceIds -> 0..Limit + 1]
    BY <1>3 DEF Tick
  <2>3. net' \subseteq Datagram
    BY <1>5
  <2>4. DOMAIN table' \subseteq DeviceIds /\ \A i \in DOMAIN table' : table'[i] \in Nat
    BY <1>1 DEF TypeOK
  <2>5. nextSweep' \in 0..Sweep
    BY <1>1, Numbers
  <2>6. QED BY <1>1, <1>2, <2>1, <2>2, <2>3, <2>4, <2>5 DEF TypeOK, Tick, Datagram
<1>9. QED BY <1>1, <1>7, <1>8 DEF DiscoveryInv, ListIsTable, Tick

-----------------------------------------------------------------------------
(* The theorems.                                                           *)

LEMMA InitInv == ASSUME Init PROVE DiscoveryInv
<1>1. TypeOK
  BY Numbers DEF Init, TypeOK, Ports
<1>2. AgesOK /\ ListIsTable
  BY DEF Init, AgesOK, ListIsTable
<1>3. QED BY <1>1, <1>2 DEF Init, DiscoveryInv

LEMMA StepInv == ASSUME DiscoveryInv, [Next]_vars PROVE DiscoveryInv'
<1>1. CASE UNCHANGED vars
  BY <1>1 DEF vars, DiscoveryInv, TypeOK, ListIsTable, AgesOK, IsOwn
<1>2. CASE Next
  BY <1>2, SendBroadcastAnnouncementStep, RefreshStep, StartStep, StopStep,
     SetDeviceNameStep, OnReadyReadStep, CleanupStaleDevicesStep, TickStep
  DEF Next
<1>3. QED BY <1>1, <1>2

\* The table is as fresh as the timers promise and the pages show it, for
\* every number of machines and every choice of the timers.
THEOREM DiscoveryInvHolds == Spec => []DiscoveryInv
<1>1. Init => DiscoveryInv
  BY InitInv
<1>2. DiscoveryInv /\ [Next]_vars => DiscoveryInv'
  BY StepInv
<1>3. QED BY <1>1, <1>2, PTL DEF Spec

\* No address is offered longer than the timeout, one sweep and the delay after
\* it was last announced (DiscoveryService.cpp:206).
THEOREM StaleAddressesGoHolds == Spec => []StaleAddressesGo
<1>1. DiscoveryInv => StaleAddressesGo
  <2>1. SUFFICES ASSUME DiscoveryInv, NEW i \in DOMAIN table
                 PROVE  unheard[i] <= Limit
    BY DEF StaleAddressesGo
  <2>2. /\ table[i] \in Nat /\ nextSweep \in Nat /\ unheard[i] \in Nat
        /\ table[i] + nextSweep <= Timeout + Sweep
        /\ unheard[i] <= table[i] + MaxDelay
    BY <2>1, Numbers DEF DiscoveryInv, TypeOK, AgesOK
  <2>3. QED BY <2>2, Numbers
<1>2. QED BY <1>1, DiscoveryInvHolds, PTL

\* A machine lists itself only for as long after a start or a renaming
\* (DiscoveryService.cpp:166).
THEOREM OwnListedBrieflyHolds == Spec => []OwnListedBriefly
<1>1. DiscoveryInv => OwnListedBriefly
  <2> DEFINE own == <<Me, port[Me]>>
  <2>1. SUFFICES ASSUME DiscoveryInv, own \in DOMAIN table
                 PROVE  unsettled <= Limit
    BY DEF OwnListedBriefly
  <2>2. /\ table[own] \in Nat /\ nextSweep \in Nat /\ unsettled \in Nat
        /\ table[own] + nextSweep <= Timeout + Sweep
        /\ unsettled <= table[own] + MaxDelay
    BY <2>1, Numbers DEF DiscoveryInv, TypeOK, AgesOK
  <2>3. QED BY <2>2, Numbers
<1>2. QED BY <1>1, DiscoveryInvHolds, PTL

\* No change of the table is kept from the pages (MainWindow.cpp:151).
THEOREM ListIsTableHolds == Spec => []ListIsTable
<1>1. DiscoveryInv => ListIsTable
  BY DEF DiscoveryInv
<1>2. QED BY <1>1, DiscoveryInvHolds, PTL

-----------------------------------------------------------------------------
(* Who is dropped.                                                         *)

LEMMA SpanFacts ==
    ASSUME NEW m \in Nat
    PROVE  /\ Span(m) \in Nat /\ Announce <= Span(m)
           /\ Span(m + 1) = Span(m) + Announce
           /\ m <= Tolerated => Span(m) + MaxDelay <= Timeout
<1>1. Announce \in Nat \ {0} /\ Timeout \in Nat /\ MaxDelay \in Nat
  BY Numbers
<1>2. Span(m) \in Nat /\ Announce <= Span(m) /\ Span(m + 1) = Span(m) + Announce
  BY <1>1 DEF Span
<1>3. ASSUME m <= Tolerated
      PROVE  Span(m) + MaxDelay <= Timeout
  <2> DEFINE q == (Timeout - MaxDelay) \div Announce
  <2>1. q \in Nat \ {0} /\ Tolerated = q - 1
    BY DEF Tolerated
  <2>2. q * Announce <= Timeout - MaxDelay
    BY <1>1
  <2> HIDE DEF q
  <2>3. (m + 1) * Announce <= q * Announce
    <3>1. m + 1 <= q /\ m + 1 \in Nat
      BY <1>3, <2>1
    <3>2. QED BY <1>1, <2>1, <3>1
  <2>4. QED BY <1>1, <1>2, <2>1, <2>2, <2>3 DEF Span
<1>4. QED BY <1>2, <1>3

Silent(h) ==
    IF up[h] THEN missed[h] > Tolerated \/ OnTime(h)
             ELSE missed[h] = Tolerated + 1

LEMMA HostFacts ==
    ASSUME TypeOK, NEW h \in Hosts
    PROVE  /\ nextSend[h] \in Nat /\ missed[h] \in 0..Tolerated + 1
           /\ missed[h] \in Nat /\ Tolerated \in Nat
           /\ \A i \in DOMAIN table : table[i] \in Nat
           /\ \A d \in net : d.age \in Nat
BY Numbers DEF TypeOK

\* An announcement of another machine than h is nothing to h, and one of h
\* counts a loss or is on its way.
LEMMA SendsKeepsTime ==
    ASSUME TypeOK, NEW g \in Hosts, NEW p \in Ports, NEW n \in Nat, Sends(g, p, n),
           NEW h \in Hosts \ {Me}, Silent(h),
           UNCHANGED table, up'[h] = up[h], port'[h] = port[h],
           \/ nextSend'[h] = nextSend[h]
           \/ g = h /\ p = port[h] /\ nextSend[h] = 0 /\ nextSend'[h] = Announce
    PROVE  Silent(h)'
<1> DEFINE i == <<h, port[h]>>
<1>1. /\ nextSend[h] \in Nat /\ missed[h] \in 0..Tolerated + 1
      /\ missed[h] \in Nat /\ Tolerated \in Nat /\ h \in Hosts
      /\ \A j \in DOMAIN table : table[j] \in Nat
      /\ \A d \in net : d.age \in Nat
      /\ missed \in [Hosts -> 0..Tolerated + 1]
      /\ Announce \in Nat /\ MaxDelay \in Nat
  BY HostFacts, Numbers DEF TypeOK
<1>2. net \subseteq net'
  BY DEF Sends
<1>3. \/ missed'[h] = missed[h]
      \/ missed'[h] = Capped(missed[h] + 1, Tolerated + 1)
  BY <1>1 DEF Sends
<1>4. CASE ~up[h]
  BY <1>1, <1>3, <1>4 DEF Silent, Capped
<1>5. CASE missed[h] > Tolerated
  BY <1>1, <1>3, <1>5 DEF Silent, Capped
<1>6. ASSUME up[h], missed[h] <= Tolerated
      PROVE  Silent(h)'
  <2>1. OnTime(h)
    BY <1>1, <1>6 DEF Silent
  <2>2. missed'[h] \in {missed[h], missed[h] + 1}
    BY <1>1, <1>3, <1>6 DEF Capped
  <2>3. /\ Span(missed[h]) \in Nat /\ Span(missed'[h]) \in Nat
        /\ Span(missed[h]) <= Span(missed'[h])
        /\ missed'[h] = missed[h] + 1 => Span(missed'[h]) = Span(missed[h]) + Announce
    BY <1>1, <2>2, SpanFacts
  <2>4. SUFFICES ASSUME i \in DOMAIN table
                 PROVE  OnTime(h)'
    BY <1>6, <2>1 DEF Silent, OnTime
  <2>5. table[i] \in Nat
    BY <1>1, <2>4
  <2>6. CASE \E d \in net : IdOf(d) = i /\ table[i] <= Span(missed[h]) + d.age
    <3>1. PICK d \in net : IdOf(d) = i /\ table[i] <= Span(missed[h]) + d.age
      BY <2>6
    <3>2. table[i] <= Span(missed'[h]) + d.age /\ d \in net'
      BY <1>1, <1>2, <2>3, <2>5, <3>1
    <3>3. QED BY <3>1, <3>2 DEF OnTime, IdOf
  <2>7. CASE table[i] + nextSend[h] <= Span(missed[h])
    <3>1. CASE nextSend'[h] = nextSend[h]
      <4>1. table[i] + nextSend'[h] <= Span(missed'[h])
        BY <1>1, <2>3, <2>5, <2>7, <3>1
      <4>2. QED BY <4>1 DEF OnTime
    <3>2. CASE g = h /\ p = port[h] /\ nextSend[h] = 0 /\ nextSend'[h] = Announce
      <4>1. CASE net' = net \cup {Packet(g, p, n)}
        <5>1. /\ Packet(g, p, n) \in net' /\ IdOf(Packet(g, p, n)) = i
              /\ Packet(g, p, n).age \in Nat
          BY <1>1, <3>2, <4>1, PacketFacts DEF Packet
        <5>2. table[i] <= Span(missed'[h]) + Packet(g, p, n).age
          BY <2>3, <2>5, <2>7, <3>2, <5>1
        <5>3. QED BY <5>1, <5>2 DEF OnTime, IdOf
      <4>2. CASE missed' = [missed EXCEPT ![g] = Capped(@ + 1, Tolerated + 1)]
        <5>1. missed'[h] = missed[h] + 1
          BY <1>1, <1>6, <3>2, <4>2 DEF Capped
        <5>2. table[i] + nextSend'[h] <= Span(missed'[h])
          BY <1>1, <2>3, <2>5, <2>7, <3>2, <5>1
        <5>3. QED BY <5>2 DEF OnTime
      <4>3. QED BY <4>1, <4>2 DEF Sends
    <3>3. QED BY <3>1, <3>2
  <2>8. QED BY <2>1, <2>4, <2>6, <2>7 DEF OnTime
<1>7. QED BY <1>1, <1>4, <1>5, <1>6

LEMMA SilentSends ==
    ASSUME TypeOK, NEW h \in Hosts \ {Me}, Silent(h), NEW g \in Hosts,
           SendBroadcastAnnouncement(g) \/ Refresh(g) \/ (SetDeviceName /\ g = Me)
    PROVE  Silent(h)'
<1>1. /\ port[g] \in Ports /\ NameOf(g) \in Nat /\ name + 1 \in Nat /\ h \in Hosts
      /\ nextSend \in [Hosts -> 0..Announce] /\ Me \in Hosts
  BY DEF TypeOK, NameOf
<1>2. CASE SendBroadcastAnnouncement(g)
  <2>1. \/ nextSend'[h] = nextSend[h]
        \/ /\ g = h /\ port[g] = port[h]
           /\ nextSend[h] = 0 /\ nextSend'[h] = Announce
    BY <1>1, <1>2 DEF SendBroadcastAnnouncement
  <2>2. /\ Sends(g, port[g], NameOf(g)) /\ UNCHANGED table
        /\ up'[h] = up[h] /\ port'[h] = port[h]
    BY <1>2 DEF SendBroadcastAnnouncement
  <2>3. QED BY <1>1, <2>1, <2>2, SendsKeepsTime
<1>3. CASE Refresh(g)
  BY <1>1, <1>3, SendsKeepsTime DEF Refresh
<1>4. CASE SetDeviceName /\ g = Me
  BY <1>1, <1>4, SendsKeepsTime DEF SetDeviceName
<1>5. QED BY <1>2, <1>3, <1>4

LEMMA SilentStart ==
    ASSUME TypeOK, NEW h \in Hosts \ {Me}, Silent(h), NEW g \in Hosts, Start(g)
    PROVE  Silent(h)'
<1>1. /\ DefaultPort \in Ports /\ NameOf(g) \in Nat /\ h \in Hosts
      /\ Sends(g, DefaultPort, NameOf(g)) /\ UNCHANGED table
      /\ up \in [Hosts -> BOOLEAN] /\ port \in [Hosts -> Ports]
      /\ nextSend \in [Hosts -> 0..Announce] /\ missed \in [Hosts -> 0..Tolerated + 1]
      /\ Tolerated \in Nat
  BY Numbers DEF TypeOK, NameOf, Start, Ports
<1>2. CASE g = h
  <2>1. missed[h] = Tolerated + 1
    BY <1>2 DEF Start, Silent
  <2>2. missed'[h] = Tolerated + 1
    BY <1>1, <2>1 DEF Sends, Capped
  <2>3. QED BY <1>1, <2>2 DEF Silent
<1>3. CASE g # h
  <2>1. up'[h] = up[h] /\ port'[h] = port[h] /\ nextSend'[h] = nextSend[h]
    BY <1>1, <1>3 DEF Start
  <2>2. QED BY <1>1, <2>1, SendsKeepsTime
<1>4. QED BY <1>2, <1>3

LEMMA SilentStop ==
    ASSUME TypeOK, NEW h \in Hosts \ {Me}, Silent(h), NEW g \in Hosts, Stop(g)
    PROVE  Silent(h)'
<1>1. /\ h \in Hosts /\ up \in [Hosts -> BOOLEAN] /\ nextSend \in [Hosts -> 0..Announce]
      /\ missed \in [Hosts -> 0..Tolerated + 1]
      /\ UNCHANGED <<port, net, table>>
  BY DEF TypeOK, Stop
<1>2. CASE g = h
  BY <1>1, <1>2 DEF Silent, Stop
<1>3. CASE g # h
  <2>1. up'[h] = up[h] /\ nextSend'[h] = nextSend[h] /\ missed'[h] = missed[h]
    BY <1>1, <1>3 DEF Stop
  <2>2. QED BY <1>1, <2>1 DEF Silent, OnTime
<1>4. QED BY <1>2, <1>3

\* A datagram of h either brings its entry up to date or is of another id.
LEMMA SilentRead ==
    ASSUME TypeOK, NEW h \in Hosts \ {Me}, Silent(h), NEW d \in net, OnReadyRead(d)
    PROVE  Silent(h)'
<1> DEFINE i == <<h, port[h]>>
<1>1. /\ h \in Hosts /\ nextSend[h] \in 0..Announce /\ missed \in [Hosts -> 0..Tolerated + 1]
      /\ Announce \in Nat /\ Tolerated \in Nat
      /\ UNCHANGED <<up, port, nextSend>> /\ net' = net \ {d}
  BY Numbers DEF TypeOK, OnReadyRead
<1>2. CASE IdOf(d) = i /\ up[h]
  <2>1. d.from = h /\ d.port = port[h]
    BY <1>2 DEF IdOf
  <2>2. ~IsOwn(d) /\ Current(d)
    BY <1>2, <2>1 DEF IsOwn, Current
  <2>3. missed'[h] = 0 /\ table'[i] = 0
    BY <1>1, <1>2, <2>1, <2>2 DEF OnReadyRead, Seen
  <2>4. table'[i] + nextSend'[h] <= Span(missed'[h])
    <3>1. Span(0) \in Nat /\ Announce <= Span(0)
      BY SpanFacts
    <3>2. QED BY <1>1, <2>3, <3>1
  <2>5. QED BY <1>1, <1>2, <2>4 DEF Silent, OnTime
<1>3. CASE ~up[h]
  <2>1. missed'[h] = missed[h]
    BY <1>1, <1>3 DEF OnReadyRead, Seen, Current
  <2>2. QED BY <1>1, <1>3, <2>1 DEF Silent
<1>4. CASE IdOf(d) # i /\ up[h]
  <2>1. d.from # h \/ d.port # port[h]
    BY <1>4 DEF IdOf
  <2>2. missed'[h] = missed[h]
    BY <1>1, <2>1 DEF OnReadyRead, Seen, Current
  <2>3. i \in DOMAIN table' => i \in DOMAIN table /\ table'[i] = table[i]
    BY <1>4 DEF OnReadyRead, Seen
  <2>4. \A e \in net : IdOf(e) = i => e \in net'
    BY <1>1, <1>4
  <2>5. QED BY <1>1, <1>4, <2>2, <2>3, <2>4 DEF Silent, OnTime, IdOf
<1>5. QED BY <1>2, <1>3, <1>4

LEMMA SilentCleanup ==
    ASSUME TypeOK, NEW h \in Hosts \ {Me}, Silent(h), CleanupStaleDevices
    PROVE  Silent(h)'
BY DEF CleanupStaleDevices, Silent, OnTime, IdOf

LEMMA SilentTick ==
    ASSUME TypeOK, NEW h \in Hosts \ {Me}, Silent(h), Tick
    PROVE  Silent(h)'
<1> DEFINE i == <<h, port[h]>>
<1>1. /\ h \in Hosts /\ nextSend[h] \in Nat /\ missed[h] \in Nat
      /\ \A j \in DOMAIN table : table[j] \in Nat
      /\ \A d \in net : d \in Datagram /\ d.age \in Nat
      /\ UNCHANGED <<up, port, missed>>
      /\ net' = {[d EXCEPT !.age = @ + 1] : d \in net}
      /\ table' = [j \in DOMAIN table |-> table[j] + 1]
  BY HostFacts DEF TypeOK, Tick, Datagram
<1>2. Span(missed[h]) \in Nat
  BY <1>1, SpanFacts
<1>3. SUFFICES ASSUME up[h], OnTime(h), i \in DOMAIN table
               PROVE  OnTime(h)'
  BY <1>1 DEF Silent, OnTime
<1>4. table[i] \in Nat /\ table'[i] = table[i] + 1
  BY <1>1, <1>3
<1>5. CASE table[i] + nextSend[h] <= Span(missed[h])
  <2>1. nextSend'[h] = nextSend[h] - 1
    BY <1>1, <1>3 DEF Tick
  <2>2. table'[i] + nextSend'[h] <= Span(missed'[h])
    BY <1>1, <1>2, <1>4, <1>5, <2>1
  <2>3. QED BY <1>1, <2>2 DEF OnTime
<1>6. CASE \E d \in net : IdOf(d) = i /\ table[i] <= Span(missed[h]) + d.age
  <2>1. PICK d \in net : IdOf(d) = i /\ table[i] <= Span(missed[h]) + d.age
    BY <1>6
  <2> DEFINE e == [d EXCEPT !.age = @ + 1]
  <2>2. e \in net' /\ e.age = d.age + 1 /\ IdOf(e) = i
    BY <1>1, <2>1 DEF Datagram, IdOf
  <2> HIDE DEF e
  <2>3. table'[i] <= Span(missed'[h]) + e.age
    BY <1>1, <1>2, <1>4, <2>1, <2>2
  <2>4. QED BY <1>1, <2>2, <2>3 DEF OnTime, IdOf
<1>7. QED BY <1>3, <1>5, <1>6 DEF OnTime

LEMMA StepHeard ==
    ASSUME TypeOK, HeardInTime, [Next]_vars
    PROVE  HeardInTime'
<1>1. SUFFICES ASSUME NEW h \in Hosts \ {Me}
               PROVE  Silent(h)'
  BY DEF HeardInTime, Silent
<1>2. Silent(h)
  BY DEF HeardInTime, Silent
<1>3. CASE UNCHANGED vars
  BY <1>2, <1>3 DEF vars, Silent, OnTime, IdOf
<1>4. CASE \E g \in Hosts : \/ SendBroadcastAnnouncement(g) \/ Refresh(g)
                            \/ Start(g) \/ Stop(g)
  BY <1>2, <1>4, SilentSends, SilentStart, SilentStop
<1>5. CASE SetDeviceName
  BY <1>2, <1>5, SilentSends, DiscoveryAssumption
<1>6. CASE \E d \in net : OnReadyRead(d)
  BY <1>2, <1>6, SilentRead
<1>7. CASE CleanupStaleDevices \/ Tick
  BY <1>2, <1>7, SilentCleanup, SilentTick
<1>8. QED BY <1>3, <1>4, <1>5, <1>6, <1>7 DEF Next

\* The entry of a machine that runs and lost few announcements is never older
\* than its broadcast timer and the delay allow (DiscoveryService.cpp:206).
THEOREM HeardInTimeHolds == Spec => []HeardInTime
<1>1. Init => HeardInTime
  BY DEF Init, HeardInTime
<1>2. TypeOK /\ HeardInTime /\ [Next]_vars => HeardInTime'
  BY StepHeard
<1>3. DiscoveryInv => TypeOK
  BY DEF DiscoveryInv
<1>4. QED BY <1>1, <1>2, <1>3, DiscoveryInvHolds, PTL DEF Spec

\* Only the sweep drops, and only what is older than the timeout.
LEMMA DroppedIsStale ==
    ASSUME [Next]_vars, NEW i \in DOMAIN table \ DOMAIN table'
    PROVE  table[i] > Timeout
<1>1. CASE UNCHANGED vars
  BY <1>1 DEF vars
<1>2. ASSUME NEW h \in Hosts,
             \/ SendBroadcastAnnouncement(h) \/ Refresh(h) \/ Start(h) \/ Stop(h)
      PROVE  FALSE
  BY <1>2 DEF SendBroadcastAnnouncement, Refresh, Start, Stop
<1>3. CASE SetDeviceName
  BY <1>3 DEF SetDeviceName
<1>4. ASSUME NEW d \in net, OnReadyRead(d)
      PROVE  FALSE
  BY <1>4 DEF OnReadyRead, Seen
<1>5. CASE CleanupStaleDevices
  BY <1>5 DEF CleanupStaleDevices, Stale
<1>6. CASE Tick
  BY <1>6 DEF Tick
<1>7. QED BY <1>1, <1>2, <1>3, <1>4, <1>5, <1>6 DEF Next

\* A machine that runs and has lost no more announcements in a row than the
\* timeout tolerates is never dropped (DiscoveryService.cpp:206).
THEOREM DroppedOnlyIfSilentHolds == Spec => DroppedOnlyIfSilent
<1> DEFINE Kept == \A i \in DOMAIN table \ DOMAIN table' :
                      \/ ~up[i[1]] \/ port[i[1]] # i[2]
                      \/ missed[i[1]] > Tolerated
                      \/ i[1] = Me
<1>1. ASSUME TypeOK, HeardInTime, [Next]_vars
      PROVE  Kept
  <2>1. SUFFICES ASSUME NEW i \in DOMAIN table \ DOMAIN table',
                        up[i[1]], port[i[1]] = i[2], i[1] # Me,
                        ~(missed[i[1]] > Tolerated)
                 PROVE  FALSE
    OBVIOUS
  <2> DEFINE h == i[1]
  <2>2. i \in DeviceIds /\ i = <<h, port[h]>> /\ h \in Hosts \ {Me}
    <3>1. i \in Hosts \X Ports
      BY <1>1 DEF TypeOK, DeviceIds
    <3>2. i = <<i[1], i[2]>> /\ h \in Hosts
      BY <3>1
    <3>3. QED BY <2>1, <3>1, <3>2 DEF DeviceIds
  <2>3. table[i] > Timeout /\ table[i] \in Nat /\ Timeout \in Nat
    BY <1>1, DroppedIsStale, Numbers DEF TypeOK
  <2>4. OnTime(h)
    BY <1>1, <2>1, <2>2 DEF HeardInTime
  <2>5. missed[h] \in Nat /\ missed[h] <= Tolerated /\ nextSend[h] \in Nat
    BY <1>1, <2>1, <2>2, HostFacts
  <2>6. /\ Span(missed[h]) \in Nat /\ Span(missed[h]) + MaxDelay <= Timeout
        /\ MaxDelay \in Nat
    BY <2>5, SpanFacts, Numbers
  <2>7. \A d \in net : d.age \in Nat /\ d.age <= MaxDelay
    BY <1>1, Numbers DEF TypeOK
  <2>8. CASE table[i] + nextSend[h] <= Span(missed[h])
    BY <2>3, <2>5, <2>6, <2>8
  <2>9. CASE \E d \in net : table[i] <= Span(missed[h]) + d.age
    BY <2>3, <2>6, <2>7, <2>9
  <2>10. QED BY <2>2, <2>4, <2>8, <2>9 DEF OnTime
<1>2. TypeOK /\ HeardInTime /\ [Next]_vars => [Kept]_vars
  BY <1>1
<1>3. DiscoveryInv => TypeOK
  BY DEF DiscoveryInv
<1>4. Spec => [][Kept]_vars
  BY <1>2, <1>3, DiscoveryInvHolds, HeardInTimeHolds, PTL DEF Spec
<1>5. QED BY <1>4 DEF DroppedOnlyIfSilent
=============================================================================
