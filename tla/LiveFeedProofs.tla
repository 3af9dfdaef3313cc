--------------------------- MODULE LiveFeedProofs --------------------------
(* Theorems about both ends of the live path: the server's (LiveFeed), for  *)
(* every set of messages, devices, connections and organizations, and the   *)
(* page's (WsClient), for every number of sockets, hides and lost           *)
(* connections.  The two share no variable and no assumption.               *)
EXTENDS LiveFeed, WsClient, FiniteSetTheorems, TLAPS

----------------------------------------------------------------------------
(* Inductive invariants.                                                   *)

\* Tenants.  What is on the way to a dashboard belongs to its organization as
\* well; an organization is bound, and given up, only while nothing is there.
Bound ==
  \A c \in Clients :
    /\ conn[c] \in {"connected", "closed"} => org[c] = None
    /\ conn[c] \in {"closing", "closed"} => c \in lost
    /\ c \in lost => sent[c] = {} /\ \A d \in Devices : view[c][d] = None

SnapshotSeparate ==
  \A c \in Clients :
    /\ conn[c] # "read" => listed[c] = {}
    /\ \A d \in listed[c] : OrgOf[d] = org[c]
    /\ \A d \in Devices : snap[c][d] # None => conn[c] = "snapshot" /\ OrgOf[d] = org[c]

TenantInv == Bound /\ SnapshotSeparate /\ TenantsSeparate

\* No gap.  A client that has listed its devices is registered, and a message in
\* its broadcast either has reached it in some way or still has it as a target.
Reached(m, c) == m \in before[c] \cup sent[c] \cup withheld[c]

Registered ==
  \A c \in Clients : conn[c] \in {"authok", "list", "read", "snapshot", "live"} => c \in clients

ReachedOrTarget ==
  \A c \in Clients, m \in Msgs :
    /\ conn[c] \in {"read", "snapshot", "live"} /\ c \notin lost /\ Concerns(c, DevOf[m])
    => /\ handler[m] = "done" => Reached(m, c)
       /\ handler[m] = "send" => Reached(m, c) \/ c \in targets[m]

GapInv == Registered /\ ReachedOrTarget

\* Memory of devices.  A device that never existed has no reading, a purged one
\* gets a new reading only from a message that had passed the lookup.
MemoryInv ==
  \A d \in Devices :
    /\ store[d] # None => DevOf[store[d]] = d
    /\ d \in purge => device[d] = "deleted"
    /\ device[d] = "absent" =>
         /\ store[d] = None
         /\ \A m \in Msgs : DevOf[m] = d => handler[m] \in {"new", "dropped"}
    /\ device[d] = "deleted" /\ d \notin purge /\ d \notin late =>
         store[d] = None /\ ~PastLookup(d)

\* Visits.  A broadcast visits registered clients only, and a client that is not
\* registered yet shows nothing.
NotYetServed ==
  \A c \in Clients : conn[c] \in {"connected", "register"} =>
    c \notin clients /\ \A d \in Devices : view[c][d] = None

TargetsRegistered == \A m \in Msgs : handler[m] = "send" => targets[m] \subseteq clients

VisitInv == NotYetServed /\ TargetsRegistered

\* Tiles.  Unless readings of a device crossed, the only reading of it that is in
\* a broadcast is the one in memory; a dashboard shows the reading in memory, or
\* is about to get it.
LatestInBroadcast ==
  \A d \in Devices : device[d] # "deleted" /\ d \notin crossed =>
    \A m \in InBroadcast(d) : store[d] = m

OnTheWay(c, d) ==
  \E m \in Msgs : /\ store[d] = m
                  /\ handler[m] = "lock" \/ (handler[m] = "send" /\ c \in targets[m])

Tiles(c) == {d \in Devices : /\ OrgOf[d] = org[c] /\ device[d] # "deleted"
                             /\ d \notin crossed}

UnfilteredBeforeLive ==
  \A c \in Clients :
    conn[c] \in {"connected", "register", "authok", "list", "read", "snapshot"} =>
      filter[c] = None /\ torn[c] = {}

\* What the client shows, or is about to show, of the device is the reading in
\* memory, or that reading is on the way.
Follows(c, d) ==
  /\ conn[c] \in {"connected", "register", "authok", "list"} /\ view[c][d] # None =>
       view[c][d] = store[d] \/ OnTheWay(c, d)
  /\ conn[c] = "read" /\ d \notin listed[c] /\ d \notin stale[c] =>
       store[d] = None \/ OnTheWay(c, d)
  /\ conn[c] = "snapshot" /\ d \notin stale[c] =>
       snap[c][d] = store[d] \/ OnTheWay(c, d)
  /\ conn[c] = "live" /\ d \notin stale[c] =>
       view[c][d] = store[d] \/ OnTheWay(c, d)

TilesFollow == \A c \in Clients : c \notin lost => \A d \in Tiles(c) : Follows(c, d)

TileInv == LatestInBroadcast /\ UnfilteredBeforeLive /\ TilesFollow
----------------------------------------------------------------------------
(* Type correctness.                                                       *)

\* The live path starts well-typed.
LEMMA InitTypeOK == Init => TypeOK
BY OrgsAssumption, DevOfAssumption, NoneAssumption
   DEF Init, TypeOK, Types, Registration, PastRegister, Nothing, Readings, ConnSteps

\* What a write to a dashboard does to what it shows.
LEMMA SendTypes ==
  ASSUME Types, NEW m \in Msgs, NEW c \in Clients, Send(m, c)
  PROVE  /\ view' \in [Clients -> [Devices -> Readings]]
         /\ sent' \in [Clients -> SUBSET Msgs]
         /\ withheld' \in [Clients -> SUBSET Msgs]
         /\ stale' \in [Clients -> SUBSET Devices]
<1>0. DevOf[m] \in Devices /\ m \in Readings
  BY DevOfAssumption DEF Readings
<1>1. /\ view \in [Clients -> [Devices -> Readings]]
      /\ sent \in [Clients -> SUBSET Msgs]
      /\ withheld \in [Clients -> SUBSET Msgs]
      /\ stale \in [Clients -> SUBSET Devices]
  BY DEF Types
<1>2. CASE UNCHANGED board
  BY <1>1, <1>2 DEF board
<1>3. CASE HoldBack(m, c)
  BY <1>0, <1>1, <1>3 DEF HoldBack
<1>4. CASE Deliver(m, c)
  BY <1>0, <1>1, <1>4 DEF Deliver
<1> QED
  BY <1>2, <1>3, <1>4 DEF Send

\* Every step of a message, of a connection and of an administrator keeps the
\* types.
LEMMA StepTypes == Types /\ [Next]_vars => Types'
<1> SUFFICES ASSUME Types, [Next]_vars PROVE Types'
  OBVIOUS
<1> USE DEF Types, ConnSteps, feed, peer, board, admin
<1>0. None \in Readings /\ Msgs \subseteq Readings /\ Nothing \in [Devices -> Readings]
  BY DEF Readings, Nothing
<1>1. ASSUME NEW d \in Devices, CreateDevice(d) \/ PatchDevice(d) \/ DeleteDevice(d)
      PROVE  Types'
  <2>1. /\ UNCHANGED <<feed, peer, board, late>>
        /\ purge' \subseteq Devices
        /\ \E s \in {"active", "inactive", "deleted"} :
             device' = [device EXCEPT ![d] = s]
    BY <1>1 DEF CreateDevice, PatchDevice, DeleteDevice, SetDevice
  <2> QED
    BY <2>1
<1>2. ASSUME NEW d \in Devices, Purge(d) PROVE Types'
  <2>1. store' \in [Devices -> Readings] /\ late' \subseteq Devices
    BY <1>0, <1>2 DEF Purge, Forget
  <2> QED
    BY <1>2, <2>1 DEF Purge
<1>3. ASSUME NEW m \in Msgs, Lookup(m) \/ CheckOrg(m) \/ Drop(m) \/ EndBroadcast(m)
      PROVE  Types'
  <2>1. /\ UNCHANGED <<store, targets, crossed, peer, board, admin>>
        /\ \E step \in {"org", "set", "dropped", "done"} :
             handler' = [handler EXCEPT ![m] = step]
    BY <1>3 DEF Lookup, CheckOrg, Drop, EndBroadcast, Handle
  <2>2. handler' \in [Msgs -> {"new", "org", "set", "lock", "send", "done", "dropped"}]
    BY <2>1
  <2> QED
    BY <2>1, <2>2
<1>4. ASSUME NEW m \in Msgs, Set(m) PROVE Types'
  <2>1. DevOf[m] \in Devices
    BY DevOfAssumption
  <2>2. crossed' \subseteq Devices
    BY <1>4, <2>1 DEF Set
  <2> QED
    BY <1>0, <1>4, <2>1, <2>2 DEF Set, Handle
<1>5. ASSUME NEW m \in Msgs, BeginBroadcast(m) PROVE Types'
  BY <1>5 DEF BeginBroadcast, Handle
<1>6. ASSUME NEW m \in Msgs, NEW c \in Clients, Send(m, c) PROVE Types'
  <2>1. /\ targets' = [targets EXCEPT ![m] = @ \ {c}]
        /\ UNCHANGED <<store, handler, crossed, peer, admin>>
    BY <1>6 DEF Send
  <2> QED
    BY <1>6, <2>1, SendTypes
<1>7. ASSUME NEW c \in Clients, Authenticate(c) PROVE Types'
  BY <1>7 DEF Authenticate, At, Advance, GoTo, StepAfter
<1>8. ASSUME NEW c \in Clients, Register(c) PROVE Types'
  BY <1>8 DEF Register, At, Advance, GoTo, StepAfter
<1>9. ASSUME NEW c \in Clients, WriteAuthOk(c) PROVE Types'
  BY <1>9 DEF WriteAuthOk, At, Advance, GoTo, StepAfter
<1>10. ASSUME NEW c \in Clients, ListDevices(c) PROVE Types'
  <2>1. OrgDevices(c) \subseteq Devices
    BY DEF OrgDevices, Present
  <2> QED
    BY <1>10, <2>1 DEF ListDevices, At, Advance, GoTo, StepAfter
<1>11. ASSUME NEW c \in Clients, ListFails(c) PROVE Types'
  BY <1>11 DEF ListFails, At, GoTo
<1>12. ASSUME NEW c \in Clients, ReadSnapshot(c) PROVE Types'
  <2>1. snap' \in [Clients -> [Devices -> Readings]]
    BY <1>0, <1>12 DEF ReadSnapshot
  <2> QED
    BY <1>12, <2>1 DEF ReadSnapshot, At, Advance, GoTo, StepAfter
<1>13. ASSUME NEW c \in Clients, WriteSnapshot(c) PROVE Types'
  BY <1>0, <1>13 DEF WriteSnapshot, At, Advance, GoTo, StepAfter
<1>14. ASSUME NEW c \in Clients, NEW ids \in SUBSET Devices, SetFilter(c, ids)
       PROVE  Types'
  BY <1>14 DEF SetFilter
<1>15. ASSUME NEW c \in Clients, Lose(c) \/ Close(c) PROVE Types'
  <2>1. UNCHANGED <<feed, admin, clients, org>> /\ Forgotten(c)
    BY <1>15 DEF Lose, Close
  <2>2. conn' = conn \/ conn' = [conn EXCEPT ![c] = "closing"]
    BY <1>15 DEF Lose, Close, GoTo
  <2>3. conn' \in [Clients -> ConnSteps]
    BY <2>2
  <2>4. /\ lost' \subseteq Clients
        /\ filter' \in [Clients -> (SUBSET Devices) \cup {None}]
        /\ listed' \in [Clients -> SUBSET Devices]
        /\ stale' \in [Clients -> SUBSET Devices]
    BY <2>1 DEF Forgotten
  <2>5. /\ torn' \in [Clients -> SUBSET Msgs] /\ sent' \in [Clients -> SUBSET Msgs]
        /\ withheld' \in [Clients -> SUBSET Msgs] /\ before' \in [Clients -> SUBSET Msgs]
    BY <2>1 DEF Forgotten
  <2>6. /\ snap' \in [Clients -> [Devices -> Readings]]
        /\ view' \in [Clients -> [Devices -> Readings]]
    BY <1>0, <2>1 DEF Forgotten
  <2> HIDE DEF ConnSteps
  <2> QED
    BY <2>1, <2>3, <2>4, <2>5, <2>6
<1>16. ASSUME NEW c \in Clients, Remove(c) PROVE Types'
  BY <1>16 DEF Remove, At, GoTo, Unregister
<1>17. CASE UNCHANGED vars
  BY <1>17 DEF vars
<1> QED
  BY <1>1, <1>2, <1>3, <1>4, <1>5, <1>6, <1>7, <1>8, <1>9, <1>10, <1>11, <1>12,
     <1>13, <1>14, <1>15, <1>16, <1>17 DEF Next, HandlerStep, ConnStep

\* The organization is bound by Authenticate, the client is registered by Register,
\* and Remove undoes both.
LEMMA StepRegistration == TypeOK /\ [Next]_vars => Registration'
<1> SUFFICES ASSUME TypeOK, [Next]_vars, NEW x \in Clients
             PROVE  /\ conn'[x] \in {"connected", "closed"} => org'[x] = None
                    /\ conn'[x] \in {"register", "authok", "list", "read", "snapshot", "live"} =>
                         org'[x] # None
                    /\ x \in clients' <=> PastRegister(x)'
  BY DEF Registration
<1> DEFINE Goal == /\ conn'[x] \in {"connected", "closed"} => org'[x] = None
                   /\ conn'[x] \in {"register", "authok", "list", "read", "snapshot", "live"} =>
                        org'[x] # None
                   /\ x \in clients' <=> PastRegister(x)'
<1>0. /\ conn[x] \in {"connected", "closed"} => org[x] = None
      /\ conn[x] \in {"register", "authok", "list", "read", "snapshot", "live"} => org[x] # None
      /\ x \in clients <=> PastRegister(x)
      /\ Types
  BY DEF TypeOK, Registration
<1>1. CASE /\ conn'[x] = conn[x] /\ org'[x] = org[x]
           /\ x \in clients' <=> x \in clients
  BY <1>0, <1>1 DEF PastRegister
<1>2. ASSUME NEW c \in Clients, Authenticate(c) PROVE Goal
  <2>1. /\ clients' = clients /\ conn[c] = "connected"
        /\ conn' = [conn EXCEPT ![c] = "register"]
        /\ \E o \in Orgs : org' = [org EXCEPT ![c] = o]
    BY <1>2 DEF Authenticate, Advance, GoTo, At, StepAfter
  <2>2. CASE x = c
    <3>1. conn'[x] = "register" /\ org'[x] \in Orgs
      BY <1>0, <2>1, <2>2 DEF Types
    <3> QED
      BY <1>0, <2>1, <2>2, <3>1, NoneAssumption DEF PastRegister
  <2>3. CASE x # c
    BY <1>0, <1>1, <2>1, <2>3 DEF Types
  <2> QED
    BY <2>2, <2>3
<1>3. ASSUME NEW c \in Clients, Register(c) PROVE Goal
  <2>1. /\ clients' = clients \cup {c} /\ conn[c] = "register" /\ org' = org
        /\ conn' = [conn EXCEPT ![c] = "authok"]
    BY <1>3 DEF Register, Advance, GoTo, At, StepAfter
  <2>2. CASE x = c
    BY <1>0, <2>1, <2>2 DEF PastRegister, Types
  <2>3. CASE x # c
    BY <1>0, <1>1, <2>1, <2>3 DEF Types
  <2> QED
    BY <2>2, <2>3
<1>4. ASSUME NEW c \in Clients,
             \/ WriteAuthOk(c) \/ ListDevices(c) \/ ListFails(c)
             \/ ReadSnapshot(c) \/ WriteSnapshot(c)
      PROVE  Goal
  <2>1. /\ UNCHANGED <<org, clients>>
        /\ conn[c] \in {"authok", "list", "read", "snapshot"}
    BY <1>4 DEF WriteAuthOk, ListDevices, ListFails, ReadSnapshot, WriteSnapshot, At
  <2>2. /\ conn'[c] \in {"list", "read", "snapshot", "live", "closing"}
        /\ \A y \in Clients \ {c} : conn'[y] = conn[y]
    BY <1>0, <1>4 DEF WriteAuthOk, ListDevices, ListFails, ReadSnapshot, WriteSnapshot,
       At, Advance, GoTo, StepAfter, Types
  <2>3. CASE x = c
    BY <1>0, <2>1, <2>2, <2>3 DEF PastRegister
  <2>4. CASE x # c
    BY <1>1, <2>1, <2>2, <2>4
  <2> QED
    BY <2>3, <2>4
<1>5. ASSUME NEW c \in Clients, Lose(c) \/ Close(c) PROVE Goal
  <2>1. UNCHANGED <<org, clients>>
    BY <1>5 DEF Lose, Close
  <2>2. \/ conn' = conn
        \/ conn[c] \in {"connected", "live"} /\ conn' = [conn EXCEPT ![c] = "closing"]
    BY <1>5 DEF Lose, Close, GoTo
  <2>3. CASE x = c /\ conn' # conn
    <3>1. conn'[x] = "closing" /\ conn[x] \in {"connected", "live"}
      BY <1>0, <2>2, <2>3 DEF Types
    <3> QED
      BY <1>0, <2>1, <3>1 DEF PastRegister
  <2>4. CASE x # c \/ conn' = conn
    BY <1>0, <1>1, <2>1, <2>2, <2>4 DEF Types
  <2> QED
    BY <2>3, <2>4
<1>6. ASSUME NEW c \in Clients, Remove(c) PROVE Goal
  <2>1. /\ clients' = clients \ {c} /\ conn' = [conn EXCEPT ![c] = "closed"]
        /\ org' = [org EXCEPT ![c] = None]
    BY <1>6 DEF Remove, Unregister, GoTo
  <2>2. CASE x = c
    BY <1>0, <2>1, <2>2 DEF PastRegister, Types
  <2>3. CASE x # c
    BY <1>0, <1>1, <2>1, <2>3 DEF Types
  <2> QED
    BY <2>2, <2>3
<1>7. ASSUME UNCHANGED <<conn, org, clients>> PROVE Goal
  BY <1>1, <1>7
<1>8. ASSUME NEW c \in Clients, NEW ids \in SUBSET Devices, SetFilter(c, ids)
      PROVE  UNCHANGED <<conn, org, clients>>
  BY <1>8 DEF SetFilter
<1>9. ASSUME NEW d \in Devices,
             CreateDevice(d) \/ PatchDevice(d) \/ DeleteDevice(d) \/ Purge(d)
      PROVE  UNCHANGED <<conn, org, clients>>
  BY <1>9 DEF CreateDevice, PatchDevice, DeleteDevice, Purge, SetDevice, peer
<1>10. ASSUME NEW m \in Msgs, HandlerStep(m) PROVE UNCHANGED <<conn, org, clients>>
  BY <1>10 DEF HandlerStep, Lookup, CheckOrg, Drop, Set, BeginBroadcast, Send,
     EndBroadcast, peer
<1>11. CASE UNCHANGED vars
  BY <1>7, <1>11 DEF vars, peer
<1> QED
  BY <1>2, <1>3, <1>4, <1>5, <1>6, <1>7, <1>8, <1>9, <1>10, <1>11 DEF Next, ConnStep

\* Every step keeps the types and the registrations.
LEMMA StepTypeOK == TypeOK /\ [Next]_vars => TypeOK'
BY StepTypes, StepRegistration DEF TypeOK

\* The state has the declared types in every execution, and the hub's set holds
\* no connection that has not authenticated or whose goroutine has ended.
THEOREM TypeCorrect == Spec => []TypeOK
BY InitTypeOK, StepTypeOK, PTL DEF Spec

----------------------------------------------------------------------------
(* What the steps do, client by client.                                    *)

\* What a visit can come to: nothing (another organization, peer gone), a reading
\* held back by the filter, or a reading shown.
Skipped(m, c) == /\ ~Concerns(c, DevOf[m]) \/ c \in lost
                 /\ UNCHANGED <<view, sent, withheld, stale>>

HeldBack(m, c) == /\ Concerns(c, DevOf[m]) /\ c \notin lost
                  /\ Excludes(c, DevOf[m]) \/ m \in torn[c]
                  /\ UNCHANGED <<view, sent>>
                  /\ withheld'[c] = withheld[c] \cup {m}
                  /\ stale'[c] = stale[c] \cup {DevOf[m]}

Delivered(m, c) == /\ Concerns(c, DevOf[m]) /\ c \notin lost
                   /\ view'[c][DevOf[m]] = m
                   /\ \A d \in Devices \ {DevOf[m]} : view'[c][d] = view[c][d]
                   /\ sent'[c] = sent[c] \cup {m}
                   /\ UNCHANGED withheld
                   /\ stale'[c] = IF SnapshotPending(c) THEN stale[c] \cup {DevOf[m]}
                                                        ELSE stale[c] \ {DevOf[m]}

\* A visit changes only what its client shows and has been sent, in one of the
\* three ways.
LEMMA SendEffects ==
  ASSUME TypeOK, NEW m \in Msgs, NEW c \in Clients, Send(m, c)
  PROVE  /\ handler[m] = "send" /\ c \in targets[m]
         /\ targets' = [targets EXCEPT ![m] = @ \ {c}]
         /\ UNCHANGED <<store, handler, crossed, peer, admin>>
         /\ \A x \in Clients \ {c} : /\ view'[x] = view[x]
                                     /\ sent'[x] = sent[x]
                                     /\ withheld'[x] = withheld[x]
                                     /\ stale'[x] = stale[x]
         /\ Skipped(m, c) \/ HeldBack(m, c) \/ Delivered(m, c)
<1>0. DevOf[m] \in Devices
  BY DevOfAssumption
<1>1. /\ view \in [Clients -> [Devices -> Readings]]
      /\ sent \in [Clients -> SUBSET Msgs]
      /\ withheld \in [Clients -> SUBSET Msgs]
      /\ stale \in [Clients -> SUBSET Devices]
  BY DEF TypeOK, Types
<1>2. /\ handler[m] = "send" /\ c \in targets[m]
      /\ targets' = [targets EXCEPT ![m] = @ \ {c}]
      /\ UNCHANGED <<store, handler, crossed, peer, admin>>
  BY DEF Send
<1>3. CASE (~Concerns(c, DevOf[m]) \/ c \in lost) /\ UNCHANGED board
  BY <1>2, <1>3 DEF board, Skipped
<1>4. CASE /\ Concerns(c, DevOf[m]) /\ c \notin lost /\ HoldBack(m, c)
           /\ Excludes(c, DevOf[m]) \/ m \in torn[c]
  BY <1>1, <1>2, <1>4 DEF HoldBack, HeldBack
<1>5. CASE Concerns(c, DevOf[m]) /\ c \notin lost /\ Deliver(m, c)
  BY <1>0, <1>1, <1>2, <1>5 DEF Deliver, Delivered
<1>6. \/ (~Concerns(c, DevOf[m]) \/ c \in lost) /\ UNCHANGED board
      \/ /\ Concerns(c, DevOf[m]) /\ c \notin lost /\ HoldBack(m, c)
         /\ Excludes(c, DevOf[m]) \/ m \in torn[c]
      \/ Concerns(c, DevOf[m]) /\ c \notin lost /\ Deliver(m, c)
  BY Zenon DEF Send
<1> QED
  BY <1>3, <1>4, <1>5, <1>6

\* The other dashboards do not notice a write.
LEMMA SendOthers ==
  ASSUME TypeOK, NEW m \in Msgs, NEW c \in Clients, Send(m, c)
  PROVE  \A x \in Clients \ {c} : /\ view'[x] = view[x]
                                  /\ sent'[x] = sent[x]
                                  /\ withheld'[x] = withheld[x]
                                  /\ stale'[x] = stale[x]
BY SendEffects

\* A reading that concerns a client whose peer is there is written or held back.
LEMMA SendReaches ==
  ASSUME TypeOK, NEW m \in Msgs, NEW c \in Clients, Send(m, c)
  PROVE  /\ sent[c] \cup withheld[c] \subseteq sent'[c] \cup withheld'[c]
         /\ c \notin lost /\ Concerns(c, DevOf[m]) => m \in sent'[c] \cup withheld'[c]
<1>1. Skipped(m, c) \/ HeldBack(m, c) \/ Delivered(m, c)
  BY SendEffects
<1> QED
  BY <1>1 DEF Skipped, HeldBack, Delivered

\* A peer that goes away takes what it saw with it, and nothing of another's.
LEMMA ForgottenEffects ==
  ASSUME TypeOK, NEW c \in Clients, Forgotten(c)
  PROVE  /\ lost' = lost \cup {c}
         /\ \A x \in Clients \ {c} :
              /\ filter'[x] = filter[x] /\ torn'[x] = torn[x] /\ listed'[x] = listed[x]
              /\ snap'[x] = snap[x] /\ view'[x] = view[x]
              /\ sent'[x] = sent[x] /\ withheld'[x] = withheld[x]
              /\ before'[x] = before[x] /\ stale'[x] = stale[x]
         /\ filter'[c] = None /\ torn'[c] = {} /\ listed'[c] = {} /\ sent'[c] = {}
         /\ \A d \in Devices : snap'[c][d] = None /\ view'[c][d] = None
BY DEF TypeOK, Types, Forgotten, Nothing

\* Lose and Close: the peer's state is forgotten, and the goroutine of the
\* connection goes on, or goes to its end.
LEMMA GoneEffects ==
  ASSUME TypeOK, NEW c \in Clients, Lose(c) \/ Close(c)
  PROVE  /\ Forgotten(c)
         /\ UNCHANGED <<org, clients, feed, admin>>
         /\ \A x \in Clients \ {c} : conn'[x] = conn[x]
         /\ conn'[c] = "closing" \/ (conn'[c] = conn[c] /\ conn[c] \notin {"connected", "closed"})
BY DEF TypeOK, Types, Lose, Close, GoTo

----------------------------------------------------------------------------
(* Tenants.                                                                *)

\* Nothing is bound, on the way or shown at the start.
LEMMA InitTenantInv == Init => TenantInv
BY DEF Init, TenantInv, Bound, SnapshotSeparate, TenantsSeparate, Nothing

\* Bound survives every step: an organization is bound when nothing has been
\* shown yet, and given up when the peer is gone.
LEMMA StepBound == TypeOK /\ TenantInv /\ [Next]_vars => Bound'
<1> SUFFICES ASSUME TypeOK, TenantInv, [Next]_vars, NEW x \in Clients
             PROVE  /\ conn'[x] \in {"connected", "closed"} => org'[x] = None
                    /\ conn'[x] \in {"closing", "closed"} => x \in lost'
                    /\ x \in lost' => /\ sent'[x] = {}
                                      /\ \A d \in Devices : view'[x][d] = None
  BY DEF Bound
<1> DEFINE Goal == /\ conn'[x] \in {"connected", "closed"} => org'[x] = None
                   /\ conn'[x] \in {"closing", "closed"} => x \in lost'
                   /\ x \in lost' => /\ sent'[x] = {}
                                     /\ \A d \in Devices : view'[x][d] = None
<1>0. /\ conn[x] \in {"connected", "closed"} => org[x] = None
      /\ conn[x] \in {"closing", "closed"} => x \in lost
      /\ x \in lost => sent[x] = {} /\ \A d \in Devices : view[x][d] = None
  BY DEF TenantInv, Bound
<1>1. CASE UNCHANGED <<conn, org, lost, sent, view>>
  BY <1>0, <1>1
<1>2. ASSUME NEW m \in Msgs, NEW c \in Clients, Send(m, c) PROVE Goal
  <2>1. UNCHANGED <<conn, org, lost>>
    BY <1>2, SendEffects DEF peer
  <2>2. x \in lost => sent'[x] = sent[x] /\ view'[x] = view[x]
    <3>1. Skipped(m, c) \/ HeldBack(m, c) \/ Delivered(m, c)
      BY <1>2, SendEffects
    <3>2. \A y \in Clients \ {c} : sent'[y] = sent[y] /\ view'[y] = view[y]
      BY <1>2, SendOthers
    <3> QED
      BY <3>1, <3>2 DEF Skipped, HeldBack, Delivered
  <2> QED
    BY <1>0, <2>1, <2>2
<1>3. ASSUME NEW c \in Clients, Lose(c) \/ Close(c) PROVE Goal
  <2>1. CASE x = c
    BY <1>0, <1>3, <2>1, ForgottenEffects, GoneEffects
  <2>2. CASE x # c
    BY <1>0, <1>3, <2>2, ForgottenEffects, GoneEffects
  <2> QED
    BY <2>1, <2>2
<1>4. ASSUME NEW c \in Clients,
             \/ Authenticate(c) \/ Register(c) \/ ListDevices(c)
             \/ ListFails(c) \/ ReadSnapshot(c)
      PROVE  Goal
  <2>1. UNCHANGED <<lost, sent, view>>
    BY <1>4 DEF Authenticate, Register, ListDevices, ListFails, ReadSnapshot,
       board
  <2>2. x = c => conn'[x] \in {"register", "authok", "read", "live", "snapshot"}
    BY <1>4 DEF Authenticate, Register, ListDevices, ListFails, ReadSnapshot,
       Advance, GoTo, At, StepAfter, TypeOK, Types
  <2>3. x # c => UNCHANGED <<conn[x], org[x]>>
    BY <1>4 DEF Authenticate, Register, ListDevices, ListFails, ReadSnapshot,
       Advance, GoTo, At, TypeOK, Types
  <2> QED
    BY <1>0, <2>1, <2>2, <2>3
<1>5. ASSUME NEW c \in Clients, WriteAuthOk(c) PROVE Goal
  <2>1. UNCHANGED <<org, lost, sent, view>>
    BY <1>5 DEF WriteAuthOk, board
  <2>2. x = c => conn'[x] = IF x \in lost THEN "closing" ELSE "list"
    BY <1>5 DEF WriteAuthOk, Advance, GoTo, At, StepAfter, TypeOK, Types
  <2>3. x # c => conn'[x] = conn[x]
    BY <1>5 DEF WriteAuthOk, Advance, GoTo, At, StepAfter, TypeOK, Types
  <2> QED
    BY <1>0, <2>1, <2>2, <2>3
<1>6. ASSUME NEW c \in Clients, WriteSnapshot(c) PROVE Goal
  <2>1. UNCHANGED <<org, lost, sent>>
    BY <1>6 DEF WriteSnapshot
  <2>2. x = c => conn'[x] = "live" /\ (x \in lost => view' = view)
    BY <1>6 DEF WriteSnapshot, Advance, GoTo, At, StepAfter, TypeOK, Types
  <2>3. x # c => conn'[x] = conn[x] /\ view'[x] = view[x]
    BY <1>6 DEF WriteSnapshot, Advance, GoTo, At, StepAfter, TypeOK, Types
  <2> QED
    BY <1>0, <2>1, <2>2, <2>3
<1>7. ASSUME NEW c \in Clients, Remove(c) PROVE Goal
  <2>1. UNCHANGED <<lost, sent, view>> /\ conn[c] = "closing"
    BY <1>7 DEF Remove, board, At
  <2>2. x = c => conn'[x] = "closed" /\ org'[x] = None
    BY <1>7 DEF Remove, GoTo, TypeOK, Types
  <2>3. x # c => conn'[x] = conn[x] /\ org'[x] = org[x]
    BY <1>7 DEF Remove, GoTo, TypeOK, Types
  <2> QED
    BY <1>0, <2>1, <2>2, <2>3
<1>8. ASSUME NEW c \in Clients, NEW ids \in SUBSET Devices, SetFilter(c, ids)
      PROVE  UNCHANGED <<conn, org, lost, sent, view>>
  BY <1>8 DEF SetFilter, board
<1>9. ASSUME NEW d \in Devices,
             CreateDevice(d) \/ PatchDevice(d) \/ DeleteDevice(d) \/ Purge(d)
      PROVE  UNCHANGED <<conn, org, lost, sent, view>>
  BY <1>9 DEF CreateDevice, PatchDevice, DeleteDevice, Purge, SetDevice, peer, board
<1>10. ASSUME NEW m \in Msgs,
              \/ Lookup(m) \/ CheckOrg(m) \/ Drop(m) \/ Set(m)
              \/ BeginBroadcast(m) \/ EndBroadcast(m)
       PROVE  UNCHANGED <<conn, org, lost, sent, view>>
  BY <1>10 DEF Lookup, CheckOrg, Drop, Set, BeginBroadcast, EndBroadcast, peer, board
<1>11. CASE UNCHANGED vars
  BY <1>11, <1>1 DEF vars, peer, board
<1> QED
  BY <1>1, <1>2, <1>3, <1>4, <1>5, <1>6, <1>7, <1>8, <1>9, <1>10, <1>11
     DEF Next, HandlerStep, ConnStep

\* SnapshotSeparate survives every step: what is read for a snapshot comes from
\* the devices of the organization that the client is bound to, and is gone
\* before the binding is.
LEMMA StepSnapshotSeparate ==
  TypeOK /\ TenantInv /\ [Next]_vars => SnapshotSeparate'
<1> SUFFICES ASSUME TypeOK, TenantInv, [Next]_vars, NEW x \in Clients
             PROVE  /\ conn'[x] # "read" => listed'[x] = {}
                    /\ \A d \in listed'[x] : OrgOf[d] = org'[x]
                    /\ \A d \in Devices : snap'[x][d] # None =>
                         conn'[x] = "snapshot" /\ OrgOf[d] = org'[x]
  BY DEF SnapshotSeparate
<1> DEFINE Goal == /\ conn'[x] # "read" => listed'[x] = {}
                   /\ \A d \in listed'[x] : OrgOf[d] = org'[x]
                   /\ \A d \in Devices : snap'[x][d] # None =>
                        conn'[x] = "snapshot" /\ OrgOf[d] = org'[x]
<1>0. /\ conn[x] # "read" => listed[x] = {}
      /\ \A d \in listed[x] : OrgOf[d] = org[x]
      /\ \A d \in Devices : snap[x][d] # None =>
           conn[x] = "snapshot" /\ OrgOf[d] = org[x]
  BY DEF TenantInv, SnapshotSeparate
<1>1. CASE UNCHANGED <<conn, org, listed, snap>>
  BY <1>0, <1>1
<1>2. ASSUME NEW c \in Clients,
             Authenticate(c) \/ Register(c) \/ WriteAuthOk(c) \/ ListFails(c) \/ Remove(c)
      PROVE  Goal
  <2>1. UNCHANGED <<listed, snap>>
    BY <1>2 DEF Authenticate, Register, WriteAuthOk, ListFails, Remove
  <2>2. conn[c] \notin {"read", "snapshot"}
    BY <1>2 DEF Authenticate, Register, WriteAuthOk, ListFails, Remove, At
  <2>3. x # c => conn'[x] = conn[x] /\ org'[x] = org[x]
    BY <1>2 DEF Authenticate, Register, WriteAuthOk, ListFails, Remove, Advance,
       GoTo, TypeOK, Types
  <2>4. CASE x = c
    <3>1. listed[x] = {} /\ \A d \in Devices : snap[x][d] = None
      BY <1>0, <2>2, <2>4
    <3> QED
      BY <2>1, <3>1
  <2> QED
    BY <1>0, <2>1, <2>3, <2>4
<1>3. ASSUME NEW c \in Clients, ListDevices(c) PROVE Goal
  <2>1. UNCHANGED <<org, snap>> /\ conn[c] = "list"
    BY <1>3 DEF ListDevices, At
  <2>2. x # c => conn'[x] = conn[x] /\ listed'[x] = listed[x]
    BY <1>3 DEF ListDevices, Advance, GoTo, TypeOK, Types
  <2>3. x = c => conn'[x] = "read" /\ listed'[x] = OrgDevices(x)
    BY <1>3 DEF ListDevices, Advance, GoTo, At, StepAfter, TypeOK, Types
  <2> QED
    BY <1>0, <2>1, <2>2, <2>3 DEF OrgDevices
<1>4. ASSUME NEW c \in Clients, ReadSnapshot(c) PROVE Goal
  <2>1. UNCHANGED org
    BY <1>4 DEF ReadSnapshot
  <2>2. x # c => conn'[x] = conn[x] /\ listed'[x] = listed[x] /\ snap'[x] = snap[x]
    BY <1>4 DEF ReadSnapshot, Advance, GoTo, TypeOK, Types
  <2>3. x = c => /\ conn'[x] = "snapshot" /\ listed'[x] = {}
                 /\ \A d \in Devices : snap'[x][d] # None => d \in listed[x]
    BY <1>4 DEF ReadSnapshot, Advance, GoTo, At, StepAfter, TypeOK, Types
  <2> QED
    BY <1>0, <2>1, <2>2, <2>3
<1>5. ASSUME NEW c \in Clients, WriteSnapshot(c) PROVE Goal
  <2>1. UNCHANGED <<org, listed>> /\ conn[c] = "snapshot"
    BY <1>5 DEF WriteSnapshot, At
  <2>2. x # c => conn'[x] = conn[x] /\ snap'[x] = snap[x]
    BY <1>5 DEF WriteSnapshot, Advance, GoTo, TypeOK, Types
  <2>3. x = c => /\ conn'[x] = "live"
                 /\ \A d \in Devices : snap'[x][d] = None
    BY <1>5 DEF WriteSnapshot, Advance, GoTo, At, StepAfter, Nothing, TypeOK, Types
  <2> QED
    BY <1>0, <2>1, <2>2, <2>3
<1>6. ASSUME NEW c \in Clients, Lose(c) \/ Close(c) PROVE Goal
  <2>1. x = c => listed'[x] = {} /\ \A d \in Devices : snap'[x][d] = None
    BY <1>6, ForgottenEffects, GoneEffects
  <2>2. x # c => /\ conn'[x] = conn[x] /\ org'[x] = org[x]
                 /\ listed'[x] = listed[x] /\ snap'[x] = snap[x]
    BY <1>6, ForgottenEffects, GoneEffects
  <2> QED
    BY <1>0, <2>1, <2>2
<1>7. ASSUME NEW c \in Clients, NEW ids \in SUBSET Devices, SetFilter(c, ids)
      PROVE  UNCHANGED <<conn, org, listed, snap>>
  BY <1>7 DEF SetFilter
<1>8. ASSUME NEW d \in Devices,
             CreateDevice(d) \/ PatchDevice(d) \/ DeleteDevice(d) \/ Purge(d)
      PROVE  UNCHANGED <<conn, org, listed, snap>>
  BY <1>8 DEF CreateDevice, PatchDevice, DeleteDevice, Purge, SetDevice, peer
<1>9. ASSUME NEW m \in Msgs, HandlerStep(m)
      PROVE  UNCHANGED <<conn, org, listed, snap>>
  BY <1>9 DEF HandlerStep, Lookup, CheckOrg, Drop, Set, BeginBroadcast, Send,
     EndBroadcast, peer
<1>10. CASE UNCHANGED vars
  BY <1>10, <1>1 DEF vars, peer
<1> QED
  BY <1>1, <1>2, <1>3, <1>4, <1>5, <1>6, <1>7, <1>8, <1>9, <1>10
     DEF Next, ConnStep

\* TenantsSeparate survives every step: readings are written to clients of the
\* device's organization, and snapshots are separate already.
LEMMA StepTenantsSeparate ==
  TypeOK /\ TenantInv /\ [Next]_vars => TenantsSeparate'
<1> SUFFICES ASSUME TypeOK, TenantInv, [Next]_vars, NEW x \in Clients
             PROVE  /\ \A m \in sent'[x] : OrgOf[DevOf[m]] = org'[x]
                    /\ \A d \in Devices : view'[x][d] # None => OrgOf[d] = org'[x]
  BY DEF TenantsSeparate
<1> DEFINE Goal == /\ \A m \in sent'[x] : OrgOf[DevOf[m]] = org'[x]
                   /\ \A d \in Devices : view'[x][d] # None => OrgOf[d] = org'[x]
<1>0. /\ \A m \in sent[x] : OrgOf[DevOf[m]] = org[x]
      /\ \A d \in Devices : view[x][d] # None => OrgOf[d] = org[x]
  BY DEF TenantInv, TenantsSeparate
<1>1. CASE UNCHANGED <<org, sent, view>>
  BY <1>0, <1>1
<1>2. ASSUME NEW m \in Msgs, NEW c \in Clients, Send(m, c) PROVE Goal
  <2>1. UNCHANGED org
    BY <1>2, SendEffects DEF peer
  <2>2. CASE sent'[x] = sent[x] /\ view'[x] = view[x]
    BY <1>0, <2>1, <2>2
  <2>3. CASE /\ x = c /\ Concerns(c, DevOf[m])
             /\ sent'[c] = sent[c] \cup {m}
             /\ \A d \in Devices \ {DevOf[m]} : view'[c][d] = view[c][d]
    BY <1>0, <2>1, <2>3 DEF Concerns
  <2>4. \A y \in Clients \ {c} : sent'[y] = sent[y] /\ view'[y] = view[y]
    BY <1>2, SendOthers
  <2>5. \/ sent'[c] = sent[c] /\ view'[c] = view[c]
        \/ /\ Concerns(c, DevOf[m])
           /\ sent'[c] = sent[c] \cup {m}
           /\ \A d \in Devices \ {DevOf[m]} : view'[c][d] = view[c][d]
    <3>1. Skipped(m, c) \/ HeldBack(m, c) \/ Delivered(m, c)
      BY <1>2, SendEffects
    <3> QED
      BY <3>1 DEF Skipped, HeldBack, Delivered
  <2> QED
    BY <2>2, <2>3, <2>4, <2>5
<1>3. ASSUME NEW c \in Clients, Authenticate(c) \/ Remove(c) PROVE Goal
  <2>1. UNCHANGED <<sent, view>>
    BY <1>3 DEF Authenticate, Remove, board
  <2>2. x # c => org'[x] = org[x]
    BY <1>3 DEF Authenticate, Remove, TypeOK, Types
  <2>3. conn[c] \in {"connected", "closing"}
    BY <1>3 DEF Authenticate, Remove, At
  <2>4. CASE x = c /\ conn[c] = "connected"
    <3>1. org[x] = None /\ \A d \in Devices : OrgOf[d] # None
      BY <2>4, OrgsAssumption, NoneAssumption DEF TenantInv, Bound
    <3>2. \A m \in sent[x] : DevOf[m] \in Devices
      BY DevOfAssumption DEF TypeOK, Types
    <3> QED
      BY <1>0, <2>1, <3>1, <3>2
  <2>5. CASE x = c /\ conn[c] = "closing"
    BY <2>1, <2>5 DEF TenantInv, Bound
  <2> QED
    BY <1>0, <2>1, <2>2, <2>3, <2>4, <2>5
<1>4. ASSUME NEW c \in Clients, WriteSnapshot(c) PROVE Goal
  <2>1. UNCHANGED <<org, sent>>
    BY <1>4 DEF WriteSnapshot
  <2>2. view'[x] = view[x] \/ view'[x] = snap[x]
    BY <1>4 DEF WriteSnapshot, TypeOK, Types
  <2> QED
    BY <1>0, <2>1, <2>2 DEF TenantInv, SnapshotSeparate
<1>5. ASSUME NEW c \in Clients, Lose(c) \/ Close(c) PROVE Goal
  <2>1. x = c => sent'[x] = {} /\ \A d \in Devices : view'[x][d] = None
    BY <1>5, ForgottenEffects, GoneEffects
  <2>2. UNCHANGED org /\ (x # c => sent'[x] = sent[x] /\ view'[x] = view[x])
    BY <1>5, ForgottenEffects, GoneEffects
  <2> QED
    BY <1>0, <2>1, <2>2
<1>6. ASSUME NEW c \in Clients,
             \/ Register(c) \/ WriteAuthOk(c) \/ ListDevices(c)
             \/ ListFails(c) \/ ReadSnapshot(c)
      PROVE  UNCHANGED <<org, sent, view>>
  BY <1>6 DEF Register, WriteAuthOk, ListDevices, ListFails, ReadSnapshot, board
<1>7. ASSUME NEW c \in Clients, NEW ids \in SUBSET Devices, SetFilter(c, ids)
      PROVE  UNCHANGED <<org, sent, view>>
  BY <1>7 DEF SetFilter, board
<1>8. ASSUME NEW d \in Devices,
             CreateDevice(d) \/ PatchDevice(d) \/ DeleteDevice(d) \/ Purge(d)
      PROVE  UNCHANGED <<org, sent, view>>
  BY <1>8 DEF CreateDevice, PatchDevice, DeleteDevice, Purge, SetDevice, peer, board
<1>9. ASSUME NEW m \in Msgs,
             \/ Lookup(m) \/ CheckOrg(m) \/ Drop(m) \/ Set(m)
             \/ BeginBroadcast(m) \/ EndBroadcast(m)
      PROVE  UNCHANGED <<org, sent, view>>
  BY <1>9 DEF Lookup, CheckOrg, Drop, Set, BeginBroadcast, EndBroadcast, peer, board
<1>10. CASE UNCHANGED vars
  BY <1>10, <1>1 DEF vars, peer, board
<1> QED
  BY <1>1, <1>2, <1>3, <1>4, <1>5, <1>6, <1>7, <1>8, <1>9, <1>10
     DEF Next, HandlerStep, ConnStep

\* Tenants are separate in every execution: no reading and no snapshot of another
\* organization's devices reaches a dashboard, whatever its filter names.
THEOREM TenantsSeparateHolds == Spec => []TenantsSeparate
<1>1. TypeOK /\ TenantInv /\ [Next]_vars => TypeOK' /\ TenantInv'
  BY StepTypeOK, StepBound, StepSnapshotSeparate, StepTenantsSeparate DEF TenantInv
<1>2. TenantInv => TenantsSeparate
  BY DEF TenantInv
<1> QED
  BY <1>1, <1>2, InitTypeOK, InitTenantInv, PTL DEF Spec

----------------------------------------------------------------------------
(* No gap between snapshot and live readings.                              *)

\* A client enters the hub's set before it is greeted and leaves it after its read
\* loop has ended.
LEMMA RegisteredByType == /\ TypeOK => Registered
                          /\ TypeOK' => Registered'
BY DEF TypeOK, Registration, PastRegister, Registered

\* ReachedOrTarget survives every step: a broadcast begins with every registered
\* client as a target, and a visit that removes the target writes the reading or
\* holds it back, unless the peer is gone.
LEMMA StepReachedOrTarget == TypeOK /\ GapInv /\ [Next]_vars => ReachedOrTarget'
<1> SUFFICES ASSUME TypeOK, GapInv, [Next]_vars, NEW x \in Clients, NEW n \in Msgs,
                    conn'[x] \in {"read", "snapshot", "live"}, x \notin lost',
                    org'[x] = OrgOf[DevOf[n]]
             PROVE  /\ handler'[n] = "done" =>
                         n \in before'[x] \cup sent'[x] \cup withheld'[x]
                    /\ handler'[n] = "send" =>
                         \/ n \in before'[x] \cup sent'[x] \cup withheld'[x]
                         \/ x \in targets'[n]
  BY DEF ReachedOrTarget, Reached, Concerns
<1> DEFINE accounted == before[x] \cup sent[x] \cup withheld[x]
           Goal == /\ handler'[n] = "done" =>
                        n \in before'[x] \cup sent'[x] \cup withheld'[x]
                   /\ handler'[n] = "send" =>
                        \/ n \in before'[x] \cup sent'[x] \cup withheld'[x]
                        \/ x \in targets'[n]
<1>0. /\ conn[x] \in {"read", "snapshot", "live"} /\ x \notin lost
      /\ org[x] = OrgOf[DevOf[n]]
      => /\ handler[n] = "done" => n \in accounted
         /\ handler[n] = "send" => n \in accounted \/ x \in targets[n]
  BY DEF GapInv, ReachedOrTarget, Reached, Concerns
<1>1. CASE UNCHANGED <<conn, org, lost, before, sent, withheld, handler, targets>>
  BY <1>0, <1>1
<1>2. ASSUME NEW m \in Msgs, Lookup(m) \/ CheckOrg(m) \/ Drop(m) \/ Set(m) PROVE Goal
  <2>1. UNCHANGED <<conn, org, lost, before, sent, withheld, targets>>
    BY <1>2 DEF Lookup, CheckOrg, Drop, Set, peer, board
  <2>2. handler'[n] = handler[n] \/ handler'[n] \notin {"send", "done"}
    BY <1>2 DEF Lookup, CheckOrg, Drop, Set, Handle, TypeOK, Types
  <2> QED
    BY <1>0, <2>1, <2>2
<1>3. ASSUME NEW m \in Msgs, BeginBroadcast(m) PROVE Goal
  <2>1. UNCHANGED <<conn, org, lost, before, sent, withheld>>
    BY <1>3 DEF BeginBroadcast, peer, board
  <2>2. n # m => handler'[n] = handler[n] /\ targets'[n] = targets[n]
    BY <1>3 DEF BeginBroadcast, Handle, TypeOK, Types
  <2>3. n = m => handler'[n] = "send" /\ targets'[n] = clients
    BY <1>3 DEF BeginBroadcast, Handle, TypeOK, Types
  <2>4. x \in clients
    BY <2>1 DEF GapInv, Registered
  <2> QED
    BY <1>0, <2>1, <2>2, <2>3, <2>4
<1>4. ASSUME NEW m \in Msgs, NEW c \in Clients, Send(m, c) PROVE Goal
  <2>1. /\ UNCHANGED <<handler, conn, org, lost, before>>
        /\ targets' = [targets EXCEPT ![m] = @ \ {c}]
    BY <1>4 DEF Send, peer
  <2>2. \A y \in Clients \ {c} : sent'[y] = sent[y] /\ withheld'[y] = withheld[y]
    BY <1>4, SendOthers
  <2>3. sent[c] \cup withheld[c] \subseteq sent'[c] \cup withheld'[c]
    BY <1>4, SendReaches
  <2>4. c \notin lost /\ Concerns(c, DevOf[m]) => m \in sent'[c] \cup withheld'[c]
    BY <1>4, SendReaches
  <2>5. n # m \/ x # c => (x \in targets[n] => x \in targets'[n])
    BY <2>1 DEF TypeOK, Types
  <2>6. CASE n = m /\ x = c
    BY <2>1, <2>4, <2>6 DEF Concerns
  <2>7. CASE n # m \/ x # c
    BY <1>0, <2>1, <2>2, <2>3, <2>5, <2>7
  <2> QED
    BY <2>6, <2>7
<1>5. ASSUME NEW m \in Msgs, EndBroadcast(m) PROVE Goal
  <2>1. UNCHANGED <<conn, org, lost, before, sent, withheld, targets>>
    BY <1>5 DEF EndBroadcast, peer, board
  <2>2. n # m => handler'[n] = handler[n]
    BY <1>5 DEF EndBroadcast, Handle, TypeOK, Types
  <2>3. n = m => handler[n] = "send" /\ handler'[n] = "done" /\ targets[n] = {}
    BY <1>5 DEF EndBroadcast, Handle, TypeOK, Types
  <2> QED
    BY <1>0, <2>1, <2>2, <2>3
<1>6. ASSUME NEW c \in Clients,
             Authenticate(c) \/ Register(c) \/ WriteAuthOk(c) \/ Remove(c)
      PROVE  Goal
  <2>1. UNCHANGED <<lost, before, sent, withheld, handler, targets>>
    BY <1>6 DEF Authenticate, Register, WriteAuthOk, Remove, feed, board
  <2>2. x # c => conn'[x] = conn[x] /\ org'[x] = org[x]
    BY <1>6 DEF Authenticate, Register, WriteAuthOk, Remove, Advance, GoTo, TypeOK, Types
  <2>3. conn'[c] \notin {"read", "snapshot", "live"}
    BY <1>6 DEF Authenticate, Register, WriteAuthOk, Remove, Advance, GoTo, At,
       StepAfter, TypeOK, Types
  <2> QED
    BY <1>0, <2>1, <2>2, <2>3
<1>7. ASSUME NEW c \in Clients, ListDevices(c) \/ ListFails(c) PROVE Goal
  <2>1. UNCHANGED <<org, lost, sent, withheld, handler, targets>>
    BY <1>7 DEF ListDevices, ListFails, feed, board
  <2>2. x # c => conn'[x] = conn[x] /\ before'[x] = before[x]
    BY <1>7 DEF ListDevices, ListFails, Advance, GoTo, TypeOK, Types
  <2>3. before'[c] = {m \in Msgs : Stored(m)}
    BY <1>7 DEF ListDevices, ListFails, TypeOK, Types
  <2> QED
    BY <1>0, <2>1, <2>2, <2>3 DEF Stored
<1>8. ASSUME NEW c \in Clients, ReadSnapshot(c) \/ WriteSnapshot(c) PROVE Goal
  <2>1. UNCHANGED <<org, lost, before, sent, withheld, handler, targets>>
    BY <1>8 DEF ReadSnapshot, WriteSnapshot, feed, board
  <2>2. x # c => conn'[x] = conn[x]
    BY <1>8 DEF ReadSnapshot, WriteSnapshot, Advance, GoTo, TypeOK, Types
  <2>3. conn[c] \in {"read", "snapshot"}
    BY <1>8 DEF ReadSnapshot, WriteSnapshot, At
  <2> QED
    BY <1>0, <2>1, <2>2, <2>3
<1>9. ASSUME NEW c \in Clients, Lose(c) \/ Close(c) PROVE Goal
  <2>1. x # c
    BY <1>9, ForgottenEffects, GoneEffects
  <2>2. UNCHANGED <<org, handler, targets>> /\ lost' = lost \cup {c}
    BY <1>9, ForgottenEffects, GoneEffects DEF feed
  <2>3. \A y \in Clients \ {c} :
          /\ conn'[y] = conn[y] /\ before'[y] = before[y]
          /\ sent'[y] = sent[y] /\ withheld'[y] = withheld[y]
    BY <1>9, ForgottenEffects, GoneEffects
  <2> QED
    BY <1>0, <2>1, <2>2, <2>3
<1>10. ASSUME NEW c \in Clients, NEW ids \in SUBSET Devices, SetFilter(c, ids)
       PROVE  UNCHANGED <<conn, org, lost, before, sent, withheld, handler, targets>>
  BY <1>10 DEF SetFilter, feed, board
<1>11. ASSUME NEW d \in Devices,
              CreateDevice(d) \/ PatchDevice(d) \/ DeleteDevice(d) \/ Purge(d)
       PROVE  UNCHANGED <<conn, org, lost, before, sent, withheld, handler, targets>>
  BY <1>11 DEF CreateDevice, PatchDevice, DeleteDevice, Purge, SetDevice, feed, peer,
     board
<1>12. CASE UNCHANGED vars
  BY <1>12, <1>1 DEF vars, feed, peer, board
<1> QED
  BY <1>1, <1>2, <1>3, <1>4, <1>5, <1>6, <1>7, <1>8, <1>9, <1>10, <1>11, <1>12
     DEF Next, HandlerStep, ConnStep

\* No client is registered or served at the start.
LEMMA InitGapInv == Init => GapInv
BY DEF Init, GapInv, Registered, ReachedOrTarget

\* No gap in any execution: a served dashboard has every reading of its
\* organization whose broadcast is over, through its snapshot or by itself, or
\* its filter held it back.
THEOREM NoGapHolds == Spec => []NoGap
<1>1. TypeOK /\ GapInv /\ [Next]_vars => TypeOK' /\ GapInv'
  BY StepTypeOK, RegisteredByType, StepReachedOrTarget DEF GapInv
<1>2. GapInv => NoGap
  BY DEF GapInv, ReachedOrTarget, Reached, NoGap, Served
<1> QED
  BY <1>1, <1>2, InitTypeOK, InitGapInv, PTL DEF Spec

----------------------------------------------------------------------------
(* Memory of deleted devices.                                              *)

\* At the start nothing is stored and no device was ever created.
LEMMA InitMemoryInv == Init => MemoryInv
BY DEF Init, MemoryInv, Nothing

\* MemoryInv survives every step: a message that stores a reading had passed the
\* lookup, which an absent device refuses and which a purge takes note of.
LEMMA StepMemoryInv == TypeOK /\ MemoryInv /\ [Next]_vars => MemoryInv'
<1> SUFFICES ASSUME TypeOK, MemoryInv, [Next]_vars, NEW d \in Devices
             PROVE  /\ store'[d] # None => DevOf[store'[d]] = d
                    /\ d \in purge' => device'[d] = "deleted"
                    /\ device'[d] = "absent" =>
                         /\ store'[d] = None
                         /\ \A m \in Msgs : DevOf[m] = d => handler'[m] \in {"new", "dropped"}
                    /\ device'[d] = "deleted" /\ d \notin purge' /\ d \notin late' =>
                         store'[d] = None /\ ~PastLookup(d)'
  BY DEF MemoryInv
<1> DEFINE Goal == /\ store'[d] # None => DevOf[store'[d]] = d
                   /\ d \in purge' => device'[d] = "deleted"
                   /\ device'[d] = "absent" =>
                        /\ store'[d] = None
                        /\ \A m \in Msgs : DevOf[m] = d => handler'[m] \in {"new", "dropped"}
                   /\ device'[d] = "deleted" /\ d \notin purge' /\ d \notin late' =>
                        store'[d] = None /\ ~PastLookup(d)'
<1>0. /\ store[d] # None => DevOf[store[d]] = d
      /\ d \in purge => device[d] = "deleted"
      /\ device[d] = "absent" =>
           /\ store[d] = None
           /\ \A m \in Msgs : DevOf[m] = d => handler[m] \in {"new", "dropped"}
      /\ device[d] = "deleted" /\ d \notin purge /\ d \notin late =>
           store[d] = None /\ ~PastLookup(d)
  BY DEF MemoryInv
<1>1. CASE UNCHANGED <<store, device, purge, late, handler>>
  BY <1>0, <1>1 DEF PastLookup
<1>2. ASSUME NEW e \in Devices, CreateDevice(e) \/ PatchDevice(e) \/ DeleteDevice(e)
      PROVE  Goal
  <2>1. UNCHANGED <<store, handler, late>>
    BY <1>2 DEF CreateDevice, PatchDevice, DeleteDevice, SetDevice, feed
  <2>2. d # e => device'[d] = device[d] /\ (d \in purge' <=> d \in purge)
    BY <1>2 DEF CreateDevice, PatchDevice, DeleteDevice, SetDevice, TypeOK, Types
  <2>3. d = e => \/ device[d] # "deleted" /\ purge' = purge /\ device'[d] \in {"active", "inactive"}
                 \/ device'[d] = "deleted" /\ d \in purge'
    BY <1>2 DEF CreateDevice, PatchDevice, DeleteDevice, SetDevice, Present, TypeOK, Types
  <2> QED
    BY <1>0, <2>1, <2>2, <2>3 DEF PastLookup
<1>3. ASSUME NEW e \in Devices, Purge(e) PROVE Goal
  <2>1. /\ UNCHANGED <<device, handler>> /\ e \in purge /\ purge' = purge \ {e}
        /\ late' = IF PastLookup(e) THEN late \cup {e} ELSE late
    BY <1>3 DEF Purge
  <2>2. /\ d # e => store'[d] = store[d]
        /\ d = e => store'[d] = None
    BY <1>3 DEF Purge, Forget, TypeOK, Types
  <2>3. PastLookup(d)' <=> PastLookup(d)
    BY <2>1 DEF PastLookup
  <2> QED
    BY <1>0, <2>1, <2>2, <2>3
<1>4. ASSUME NEW m \in Msgs, Lookup(m) PROVE Goal
  <2>1. UNCHANGED <<store, device, purge, late>> /\ device[DevOf[m]] = "active"
    BY <1>4 DEF Lookup, admin
  <2>2. \A n \in Msgs \ {m} : handler'[n] = handler[n]
    BY <1>4 DEF Lookup, Handle, TypeOK, Types
  <2> QED
    BY <1>0, <2>1, <2>2 DEF PastLookup
<1>5. ASSUME NEW m \in Msgs,
             \/ CheckOrg(m) \/ Drop(m) \/ BeginBroadcast(m) \/ EndBroadcast(m)
      PROVE  Goal
  <2>1. UNCHANGED <<store, device, purge, late>>
    BY <1>5 DEF CheckOrg, Drop, BeginBroadcast, EndBroadcast, admin
  <2>2. \A n \in Msgs \ {m} : handler'[n] = handler[n]
    BY <1>5 DEF CheckOrg, Drop, BeginBroadcast, EndBroadcast, Handle, TypeOK, Types
  <2>3. \/ handler[m] \in {"org", "lock", "send"} /\ handler'[m] \notin {"org", "set"}
        \/ handler[m] = "org"
        \/ handler'[m] = "dropped"
    BY <1>5 DEF CheckOrg, Drop, BeginBroadcast, EndBroadcast, Handle, TypeOK, Types
  <2> QED
    BY <1>0, <2>1, <2>2, <2>3 DEF PastLookup
<1>6. ASSUME NEW m \in Msgs, Set(m) PROVE Goal
  <2>1. UNCHANGED <<device, purge, late>> /\ handler[m] = "set"
    BY <1>6 DEF Set, admin
  <2>2. /\ \A n \in Msgs \ {m} : handler'[n] = handler[n]
        /\ handler'[m] = "lock"
    BY <1>6 DEF Set, Handle, TypeOK, Types
  <2>3. /\ d # DevOf[m] => store'[d] = store[d]
        /\ d = DevOf[m] => store'[d] = m
    BY <1>6, DevOfAssumption DEF Set, TypeOK, Types
  <2>4. PastLookup(d)' => PastLookup(d)
    BY <2>2 DEF PastLookup
  <2>5. CASE d = DevOf[m]
    <3>1. PastLookup(d)
      BY <2>1, <2>5 DEF PastLookup
    <3>2. device[d] # "absent"
      BY <1>0, <2>1, <2>5
    <3> QED
      BY <1>0, <2>1, <2>3, <2>5, <3>1, <3>2
  <2>6. CASE d # DevOf[m]
    BY <1>0, <2>1, <2>2, <2>3, <2>4, <2>6
  <2> QED
    BY <2>5, <2>6
<1>7. ASSUME NEW m \in Msgs, NEW c \in Clients, Send(m, c)
      PROVE  UNCHANGED <<store, device, purge, late, handler>>
  BY <1>7 DEF Send, admin
<1>8. ASSUME NEW c \in Clients,
             \/ Authenticate(c) \/ ConnStep(c) \/ Lose(c) \/ Close(c)
             \/ \E ids \in SUBSET Devices : SetFilter(c, ids)
      PROVE  UNCHANGED <<store, device, purge, late, handler>>
  BY <1>8 DEF Authenticate, ConnStep, Register, WriteAuthOk, ListDevices, ListFails,
     ReadSnapshot, WriteSnapshot, Remove, Lose, Close, SetFilter, feed, admin
<1>9. CASE UNCHANGED vars
  BY <1>9, <1>1 DEF vars, feed, admin
<1> QED
  BY <1>1, <1>2, <1>3, <1>4, <1>5, <1>6, <1>7, <1>8, <1>9 DEF Next, HandlerStep

\* In every execution the reading of a deleted device that is still in memory
\* came from a message that had passed its lookup before the entry was purged.
THEOREM GhostOnlyByRaceHolds == Spec => []GhostOnlyByRace
<1>1. TypeOK /\ MemoryInv /\ [Next]_vars => TypeOK' /\ MemoryInv'
  BY StepTypeOK, StepMemoryInv
<1>2. MemoryInv => GhostOnlyByRace
  BY DEF MemoryInv, GhostOnlyByRace
<1> QED
  BY <1>1, <1>2, InitTypeOK, InitMemoryInv, PTL DEF Spec

----------------------------------------------------------------------------
(* Visits.                                                                 *)

\* At the start nobody is registered and no broadcast runs.
LEMMA InitVisitInv == Init => VisitInv
BY DEF Init, VisitInv, NotYetServed, TargetsRegistered, Nothing

\* NotYetServed survives every step: what writes to a client visits a target,
\* and targets are registered.
LEMMA StepNotYetServed == TypeOK /\ VisitInv /\ [Next]_vars => NotYetServed'
<1> SUFFICES ASSUME TypeOK, VisitInv, [Next]_vars, NEW x \in Clients,
                    conn'[x] \in {"connected", "register"}
             PROVE  x \notin clients' /\ \A d \in Devices : view'[x][d] = None
  BY DEF NotYetServed
<1> DEFINE Goal == x \notin clients' /\ \A d \in Devices : view'[x][d] = None
<1>0. conn[x] \in {"connected", "register"} =>
        x \notin clients /\ \A d \in Devices : view[x][d] = None
  BY DEF VisitInv, NotYetServed
<1>1. CASE UNCHANGED <<conn, clients, view>>
  BY <1>0, <1>1
<1>2. ASSUME NEW m \in Msgs, NEW c \in Clients, Send(m, c) PROVE Goal
  <2>1. UNCHANGED <<conn, clients>> /\ handler[m] = "send" /\ c \in targets[m]
    BY <1>2 DEF Send, peer
  <2>2. c \in clients
    BY <2>1 DEF VisitInv, TargetsRegistered
  <2>3. view'[x] = view[x]
    BY <1>0, <1>2, <2>1, <2>2, SendOthers
  <2> QED
    BY <1>0, <2>1, <2>3
<1>3. ASSUME NEW c \in Clients, Authenticate(c) PROVE Goal
  BY <1>0, <1>3 DEF Authenticate, Advance, GoTo, At, board, TypeOK, Types
<1>4. ASSUME NEW c \in Clients, Register(c) PROVE Goal
  BY <1>0, <1>4 DEF Register, Advance, GoTo, At, StepAfter, board, TypeOK, Types
<1>5. ASSUME NEW c \in Clients,
             \/ WriteAuthOk(c) \/ ListDevices(c) \/ ListFails(c) \/ ReadSnapshot(c)
      PROVE  Goal
  <2>1. UNCHANGED <<clients, view>>
    BY <1>5 DEF WriteAuthOk, ListDevices, ListFails, ReadSnapshot, board
  <2>2. x # c => conn'[x] = conn[x]
    BY <1>5 DEF WriteAuthOk, ListDevices, ListFails, ReadSnapshot, Advance, GoTo, TypeOK, Types
  <2>3. conn'[c] \in {"closing", "list", "read", "snapshot", "live"}
    BY <1>5 DEF WriteAuthOk, ListDevices, ListFails, ReadSnapshot, Advance, GoTo, At,
       StepAfter, TypeOK, Types
  <2> QED
    BY <1>0, <2>1, <2>2, <2>3
<1>6. ASSUME NEW c \in Clients, WriteSnapshot(c) \/ Remove(c) PROVE Goal
  <2>1. conn'[c] \in {"live", "closed"}
    BY <1>6 DEF WriteSnapshot, Remove, Advance, GoTo, At, StepAfter, TypeOK, Types
  <2>2. x # c => conn'[x] = conn[x] /\ view'[x] = view[x] /\ (x \in clients' => x \in clients)
    BY <1>6 DEF WriteSnapshot, Remove, Unregister, Advance, GoTo, board, TypeOK, Types
  <2> QED
    BY <1>0, <2>1, <2>2
<1>7. ASSUME NEW c \in Clients, Lose(c) \/ Close(c) PROVE Goal
  <2>1. x = c => conn'[x] = conn[x] /\ \A d \in Devices : view'[x][d] = None
    BY <1>7, ForgottenEffects, GoneEffects
  <2>2. UNCHANGED clients /\ (x # c => conn'[x] = conn[x] /\ view'[x] = view[x])
    BY <1>7, ForgottenEffects, GoneEffects
  <2> QED
    BY <1>0, <2>1, <2>2
<1>8. ASSUME NEW c \in Clients, NEW ids \in SUBSET Devices, SetFilter(c, ids)
      PROVE  UNCHANGED <<conn, clients, view>>
  BY <1>8 DEF SetFilter, board
<1>9. ASSUME NEW d \in Devices,
             CreateDevice(d) \/ PatchDevice(d) \/ DeleteDevice(d) \/ Purge(d)
      PROVE  UNCHANGED <<conn, clients, view>>
  BY <1>9 DEF CreateDevice, PatchDevice, DeleteDevice, Purge, SetDevice, peer, board
<1>10. ASSUME NEW m \in Msgs,
              \/ Lookup(m) \/ CheckOrg(m) \/ Drop(m) \/ Set(m)
              \/ BeginBroadcast(m) \/ EndBroadcast(m)
       PROVE  UNCHANGED <<conn, clients, view>>
  BY <1>10 DEF Lookup, CheckOrg, Drop, Set, BeginBroadcast, EndBroadcast, peer, board
<1>11. CASE UNCHANGED vars
  BY <1>11, <1>1 DEF vars, peer, board
<1> QED
  BY <1>1, <1>2, <1>3, <1>4, <1>5, <1>6, <1>7, <1>8, <1>9, <1>10, <1>11
     DEF Next, HandlerStep, ConnStep

\* TargetsRegistered survives every step: the hub's lock keeps clients from
\* leaving while a broadcast visits them.
LEMMA StepTargetsRegistered == TypeOK /\ VisitInv /\ [Next]_vars => TargetsRegistered'
<1> SUFFICES ASSUME TypeOK, VisitInv, [Next]_vars, NEW n \in Msgs, handler'[n] = "send"
             PROVE  targets'[n] \subseteq clients'
  BY DEF TargetsRegistered
<1>0. handler[n] = "send" => targets[n] \subseteq clients
  BY DEF VisitInv, TargetsRegistered
<1>1. CASE UNCHANGED <<handler, targets, clients>>
  BY <1>0, <1>1
<1>2. ASSUME NEW m \in Msgs,
             \/ Lookup(m) \/ CheckOrg(m) \/ Drop(m) \/ Set(m) \/ EndBroadcast(m)
      PROVE  targets'[n] \subseteq clients'
  <2>1. UNCHANGED <<targets, clients>>
    BY <1>2 DEF Lookup, CheckOrg, Drop, Set, EndBroadcast, peer
  <2>2. handler[n] = "send"
    BY <1>2 DEF Lookup, CheckOrg, Drop, Set, EndBroadcast, Handle, TypeOK, Types
  <2> QED
    BY <1>0, <2>1, <2>2
<1>3. ASSUME NEW m \in Msgs, BeginBroadcast(m) PROVE targets'[n] \subseteq clients'
  BY <1>0, <1>3 DEF BeginBroadcast, Handle, peer, TypeOK, Types
<1>4. ASSUME NEW m \in Msgs, NEW c \in Clients, Send(m, c)
      PROVE  targets'[n] \subseteq clients'
  <2>1. /\ UNCHANGED <<handler, clients>>
        /\ targets' = [targets EXCEPT ![m] = @ \ {c}]
    BY <1>4 DEF Send, peer
  <2>2. targets'[n] \subseteq targets[n]
    BY <2>1 DEF TypeOK, Types
  <2> QED
    BY <1>0, <2>1, <2>2
<1>5. ASSUME NEW c \in Clients, Register(c) PROVE targets'[n] \subseteq clients'
  BY <1>0, <1>5 DEF Register, feed
<1>6. ASSUME NEW c \in Clients, Remove(c) PROVE targets'[n] \subseteq clients'
  BY <1>6 DEF Remove, Lockable, feed
<1>7. ASSUME NEW c \in Clients,
             \/ Authenticate(c) \/ WriteAuthOk(c) \/ ListDevices(c) \/ ListFails(c)
             \/ ReadSnapshot(c) \/ WriteSnapshot(c) \/ Lose(c) \/ Close(c)
             \/ \E ids \in SUBSET Devices : SetFilter(c, ids)
      PROVE  UNCHANGED <<handler, targets, clients>>
  BY <1>7 DEF Authenticate, WriteAuthOk, ListDevices, ListFails, ReadSnapshot,
     WriteSnapshot, Lose, Close, SetFilter, feed
<1>8. ASSUME NEW d \in Devices,
             CreateDevice(d) \/ PatchDevice(d) \/ DeleteDevice(d) \/ Purge(d)
      PROVE  UNCHANGED <<handler, targets, clients>>
  BY <1>8 DEF CreateDevice, PatchDevice, DeleteDevice, Purge, SetDevice, feed, peer
<1>9. CASE UNCHANGED vars
  BY <1>9, <1>1 DEF vars, feed, peer
<1> QED
  BY <1>1, <1>2, <1>3, <1>4, <1>5, <1>6, <1>7, <1>8, <1>9
     DEF Next, HandlerStep, ConnStep

----------------------------------------------------------------------------
(* Tiles.                                                                  *)

\* At the start nothing is broadcast and nothing is shown.
LEMMA InitTileInv == Init => TileInv
BY DEF Init, TileInv, LatestInBroadcast, InBroadcast, UnfilteredBeforeLive, TilesFollow,
   Follows, Nothing

\* LatestInBroadcast survives every step: a reading that is set while another of
\* its device is in a broadcast makes the device crossed.
LEMMA StepLatestInBroadcast ==
  TypeOK /\ MemoryInv /\ LatestInBroadcast /\ [Next]_vars => LatestInBroadcast'
<1> SUFFICES ASSUME TypeOK, MemoryInv, LatestInBroadcast, [Next]_vars,
                    NEW d \in Devices, device'[d] # "deleted", d \notin crossed',
                    NEW n \in Msgs, DevOf[n] = d, handler'[n] \in {"lock", "send"}
             PROVE  store'[d] = n
  BY DEF LatestInBroadcast, InBroadcast
<1>0. device[d] # "deleted" /\ d \notin crossed /\ handler[n] \in {"lock", "send"} => store[d] = n
  BY DEF LatestInBroadcast, InBroadcast
<1>1. CASE UNCHANGED <<device, store, handler, crossed>>
  BY <1>0, <1>1
<1>2. ASSUME NEW e \in Devices, CreateDevice(e) \/ PatchDevice(e) \/ DeleteDevice(e)
      PROVE  store'[d] = n
  <2>1. UNCHANGED <<store, handler, crossed>>
    BY <1>2 DEF CreateDevice, PatchDevice, DeleteDevice, SetDevice, feed
  <2>2. device[d] # "deleted"
    BY <1>2 DEF CreateDevice, PatchDevice, DeleteDevice, SetDevice, Present, TypeOK, Types
  <2> QED
    BY <1>0, <2>1, <2>2
<1>3. ASSUME NEW e \in Devices, Purge(e) PROVE store'[d] = n
  <2>1. UNCHANGED <<device, handler, crossed>> /\ device[e] = "deleted"
    BY <1>3 DEF Purge, MemoryInv
  <2>2. d # e => store'[d] = store[d]
    BY <1>3 DEF Purge, Forget, TypeOK, Types
  <2> QED
    BY <1>0, <2>1, <2>2
<1>4. ASSUME NEW m \in Msgs,
             \/ Lookup(m) \/ CheckOrg(m) \/ Drop(m)
             \/ BeginBroadcast(m) \/ EndBroadcast(m)
      PROVE  store'[d] = n
  <2>1. UNCHANGED <<device, store, crossed>>
    BY <1>4 DEF Lookup, CheckOrg, Drop, BeginBroadcast, EndBroadcast, admin
  <2>2. handler[n] \in {"lock", "send"}
    BY <1>4 DEF Lookup, CheckOrg, Drop, BeginBroadcast, EndBroadcast, Handle, TypeOK, Types
  <2> QED
    BY <1>0, <2>1, <2>2
<1>5. ASSUME NEW m \in Msgs, Set(m) PROVE store'[d] = n
  <2>1. /\ UNCHANGED device
        /\ n # m => handler'[n] = handler[n]
        /\ crossed' = IF InBroadcast(DevOf[m]) # {} THEN crossed \cup {DevOf[m]}
                                                    ELSE crossed \ {DevOf[m]}
    BY <1>5 DEF Set, Handle, admin, TypeOK, Types
  <2>2. store'[d] = IF d = DevOf[m] THEN m ELSE store[d]
    BY <1>5, DevOfAssumption DEF Set, TypeOK, Types
  <2>3. CASE d = DevOf[m] /\ n # m
    BY <2>1, <2>3 DEF InBroadcast
  <2>4. CASE d = DevOf[m] /\ n = m
    BY <2>2, <2>4
  <2>5. CASE d # DevOf[m]
    BY <1>0, <2>1, <2>2, <2>5
  <2> QED
    BY <2>3, <2>4, <2>5
<1>6. ASSUME NEW m \in Msgs, NEW c \in Clients, Send(m, c)
      PROVE  UNCHANGED <<device, store, handler, crossed>>
  BY <1>6 DEF Send, admin
<1>7. ASSUME NEW c \in Clients,
             \/ Authenticate(c) \/ ConnStep(c) \/ Lose(c) \/ Close(c)
             \/ \E ids \in SUBSET Devices : SetFilter(c, ids)
      PROVE  UNCHANGED <<device, store, handler, crossed>>
  BY <1>7 DEF Authenticate, ConnStep, Register, WriteAuthOk, ListDevices, ListFails,
     ReadSnapshot, WriteSnapshot, Remove, Lose, Close, SetFilter, feed, admin
<1>8. CASE UNCHANGED vars
  BY <1>8, <1>1 DEF vars, feed, admin
<1> QED
  BY <1>1, <1>2, <1>3, <1>4, <1>5, <1>6, <1>7, <1>8 DEF Next, HandlerStep

\* UnfilteredBeforeLive survives every step: the read loop accepts a filter only
\* when the snapshot has been written.
LEMMA StepUnfilteredBeforeLive ==
  TypeOK /\ UnfilteredBeforeLive /\ [Next]_vars => UnfilteredBeforeLive'
<1> DEFINE Early == {"connected", "register", "authok", "list", "read", "snapshot"}
<1> SUFFICES ASSUME TypeOK, UnfilteredBeforeLive, [Next]_vars,
                    NEW x \in Clients, conn'[x] \in Early
             PROVE  filter'[x] = None /\ torn'[x] = {}
  BY DEF UnfilteredBeforeLive
<1>0. conn[x] \in Early => filter[x] = None /\ torn[x] = {}
  BY DEF UnfilteredBeforeLive
<1>1. CASE UNCHANGED <<conn, filter, torn>>
  BY <1>0, <1>1
<1>2. ASSUME NEW c \in Clients, Authenticate(c) \/ ConnStep(c) PROVE filter'[x] = None /\ torn'[x] = {}
  <2>1. UNCHANGED <<filter, torn>>
    BY <1>2 DEF Authenticate, ConnStep, Register, WriteAuthOk, ListDevices, ListFails,
       ReadSnapshot, WriteSnapshot, Remove
  <2>2. x # c => conn'[x] = conn[x]
    BY <1>2 DEF Authenticate, ConnStep, Register, WriteAuthOk, ListDevices, ListFails,
       ReadSnapshot, WriteSnapshot, Remove, Advance, GoTo, TypeOK, Types
  <2>3. conn[c] \in Early \/ conn'[c] = "closed"
    BY <1>2 DEF Authenticate, ConnStep, Register, WriteAuthOk, ListDevices, ListFails,
       ReadSnapshot, WriteSnapshot, Remove, At, GoTo, TypeOK, Types
  <2> QED
    BY <1>0, <2>1, <2>2, <2>3
<1>3. ASSUME NEW c \in Clients, NEW ids \in SUBSET Devices, SetFilter(c, ids)
      PROVE  filter'[x] = None /\ torn'[x] = {}
  BY <1>0, <1>3 DEF SetFilter, At, TypeOK, Types
<1>4. ASSUME NEW c \in Clients, Lose(c) \/ Close(c) PROVE filter'[x] = None /\ torn'[x] = {}
  <2>1. x = c => filter'[x] = None /\ torn'[x] = {}
    BY <1>4, ForgottenEffects, GoneEffects
  <2>2. x # c => conn'[x] = conn[x] /\ filter'[x] = filter[x] /\ torn'[x] = torn[x]
    BY <1>4, ForgottenEffects, GoneEffects
  <2> QED
    BY <1>0, <2>1, <2>2
<1>5. ASSUME NEW d \in Devices,
             CreateDevice(d) \/ PatchDevice(d) \/ DeleteDevice(d) \/ Purge(d)
      PROVE  UNCHANGED <<conn, filter, torn>>
  BY <1>5 DEF CreateDevice, PatchDevice, DeleteDevice, Purge, SetDevice, peer
<1>6. ASSUME NEW m \in Msgs, HandlerStep(m) PROVE UNCHANGED <<conn, filter, torn>>
  BY <1>6 DEF HandlerStep, Lookup, CheckOrg, Drop, Set, BeginBroadcast, Send,
     EndBroadcast, peer
<1>7. CASE UNCHANGED vars
  BY <1>7, <1>1 DEF vars, peer
<1> QED
  BY <1>1, <1>2, <1>3, <1>4, <1>5, <1>6, <1>7 DEF Next

\* A reading stays on the way to a client while its device has no newer one, its
\* handler has not finished, and the client has not been visited.
LEMMA StaysOnTheWay ==
  ASSUME NEW c, NEW d, OnTheWay(c, d), store'[d] = store[d],
         \A m \in Msgs : store[d] = m =>
           \/ handler'[m] = handler[m] /\ (c \in targets[m] => c \in targets'[m])
           \/ handler'[m] = "send" /\ c \in targets'[m]
           \/ handler[m] \notin {"lock", "send"}
           \/ handler[m] = "send" /\ c \notin targets[m]
  PROVE  OnTheWay(c, d)'
BY DEF OnTheWay

\* A step that leaves the client alone keeps what it shows in step with memory,
\* if it keeps the reading of the device and what is on the way.
LEMMA FollowsKept ==
  ASSUME NEW c \in Clients, NEW d \in Devices, Follows(c, d),
         OnTheWay(c, d) => OnTheWay(c, d)', store'[d] = store[d],
         conn'[c] = conn[c], listed'[c] = listed[c], snap'[c] = snap[c],
         view'[c] = view[c], stale'[c] = stale[c]
  PROVE  Follows(c, d)'
BY DEF Follows

\* An administrator does not disturb what dashboards show of the devices that
\* are left.
LEMMA AdminFollows ==
  ASSUME TypeOK, MemoryInv, NEW c \in Clients, NEW d \in Devices, NEW e \in Devices,
         CreateDevice(e) \/ PatchDevice(e) \/ DeleteDevice(e) \/ Purge(e),
         device'[d] # "deleted",
         device[d] # "deleted" => Follows(c, d)
  PROVE  Follows(c, d)'
<1>1. UNCHANGED <<handler, targets, peer, board>>
  BY DEF CreateDevice, PatchDevice, DeleteDevice, Purge, SetDevice, feed
<1>2. device[d] # "deleted" /\ store'[d] = store[d]
  <2>1. CASE CreateDevice(e) \/ PatchDevice(e) \/ DeleteDevice(e)
    BY <2>1 DEF CreateDevice, PatchDevice, DeleteDevice, SetDevice, Present, feed, TypeOK, Types
  <2>2. CASE Purge(e)
    <3>1. UNCHANGED device /\ device[e] = "deleted"
      BY <2>2 DEF Purge, MemoryInv
    <3> QED
      BY <2>2, <3>1 DEF Purge, Forget, TypeOK, Types
  <2> QED
    BY <2>1, <2>2
<1>3. OnTheWay(c, d) => OnTheWay(c, d)'
  BY <1>1, <1>2, StaysOnTheWay
<1> QED
  BY <1>1, <1>2, <1>3, FollowsKept DEF peer, board

\* A message that is looked up, checked, dropped or done with changes nothing
\* for a dashboard: its own reading is not on the way.
LEMMA QuietFollows ==
  ASSUME TypeOK, NEW c \in Clients, NEW d \in Devices, NEW m \in Msgs,
         Lookup(m) \/ CheckOrg(m) \/ Drop(m) \/ EndBroadcast(m), Follows(c, d)
  PROVE  Follows(c, d)'
<1>1. UNCHANGED <<store, targets, peer, board>>
  BY DEF Lookup, CheckOrg, Drop, EndBroadcast
<1>2. \A n \in Msgs \ {m} : handler'[n] = handler[n]
  BY DEF Lookup, CheckOrg, Drop, EndBroadcast, Handle, TypeOK, Types
<1>3. \/ handler[m] \notin {"lock", "send"}
      \/ handler[m] = "send" /\ c \notin targets[m]
  BY DEF Lookup, CheckOrg, Drop, EndBroadcast
<1>4. OnTheWay(c, d) => OnTheWay(c, d)'
  BY <1>1, <1>2, <1>3, StaysOnTheWay
<1> QED
  BY <1>1, <1>4, FollowsKept DEF peer, board

\* A reading that is set is on the way to everyone.
LEMMA SetFollows ==
  ASSUME TypeOK, NEW c \in Clients, NEW d \in Devices, NEW m \in Msgs, Set(m),
         d \notin crossed', d \notin crossed => Follows(c, d)
  PROVE  Follows(c, d)'
<1>1. /\ UNCHANGED <<targets, peer, board>> /\ handler[m] = "set" /\ handler'[m] = "lock"
      /\ \A n \in Msgs \ {m} : handler'[n] = handler[n]
  BY DEF Set, Handle, TypeOK, Types
<1>2. store'[d] = IF d = DevOf[m] THEN m ELSE store[d]
  BY DevOfAssumption DEF Set, TypeOK, Types
<1>3. CASE d = DevOf[m]
  <2>1. OnTheWay(c, d)'
    BY <1>1, <1>2, <1>3 DEF OnTheWay
  <2> QED
    BY <2>1 DEF Follows
<1>4. CASE d # DevOf[m]
  <2>1. Follows(c, d)
    BY <1>4 DEF Set
  <2>2. OnTheWay(c, d) => OnTheWay(c, d)'
    BY <1>1, <1>2, <1>4, StaysOnTheWay
  <2> QED
    BY <1>1, <1>2, <1>4, <2>1, <2>2, FollowsKept DEF peer, board
<1> QED
  BY <1>3, <1>4

\* When a broadcast begins, its reading stays on the way to the registered.
LEMMA BeginFollows ==
  ASSUME TypeOK, Registered, NotYetServed, NEW c \in Clients, NEW d \in Devices,
         NEW m \in Msgs, BeginBroadcast(m), Follows(c, d)
  PROVE  Follows(c, d)'
<1>1. /\ UNCHANGED <<store, peer, board>> /\ handler'[m] = "send" /\ targets'[m] = clients
      /\ \A n \in Msgs \ {m} : handler'[n] = handler[n] /\ targets'[n] = targets[n]
  BY DEF BeginBroadcast, Handle, TypeOK, Types
<1>2. CASE c \in clients
  <2>1. OnTheWay(c, d) => OnTheWay(c, d)'
    BY <1>1, <1>2, StaysOnTheWay
  <2> QED
    BY <1>1, <2>1, FollowsKept DEF peer, board
<1>3. CASE c \notin clients
  <2>1. /\ conn[c] \notin {"authok", "list", "read", "snapshot", "live"}
        /\ conn[c] \in {"connected", "register"} => view[c][d] = None
    BY <1>3 DEF Registered, NotYetServed
  <2> QED
    BY <1>1, <2>1 DEF Follows, peer, board
<1> QED
  BY <1>2, <1>3

\* A visit leaves the client with the reading in memory, or with a stale tile; the
\* readings of other devices stay on the way.
LEMMA SendFollows ==
  ASSUME TypeOK, MemoryInv, LatestInBroadcast, UnfilteredBeforeLive,
         NEW c \in Clients, NEW d \in Tiles(c), c \notin lost, Follows(c, d),
         NEW m \in Msgs, NEW v \in Clients, Send(m, v)
  PROVE  Follows(c, d)'
<1>0. d \in Devices /\ OrgOf[d] = org[c] /\ device[d] # "deleted" /\ d \notin crossed
  BY DEF Tiles
<1>1. /\ UNCHANGED <<store, handler, peer, admin, crossed>>
      /\ targets' = [targets EXCEPT ![m] = @ \ {v}]
      /\ handler[m] = "send"
  BY DEF Send
<1>2. /\ \A n \in Msgs \ {m} : targets'[n] = targets[n]
      /\ targets'[m] = targets[m] \ {v}
  BY <1>1 DEF TypeOK, Types
<1>3. CASE v # c
  <2>1. OnTheWay(c, d) => OnTheWay(c, d)'
    BY <1>1, <1>2, <1>3, StaysOnTheWay
  <2>2. view'[c] = view[c] /\ stale'[c] = stale[c]
    BY <1>3, SendOthers
  <2> QED
    BY <1>0, <1>1, <2>1, <2>2, FollowsKept DEF peer
<1>4. CASE v = c /\ DevOf[m] # d
  <2>1. store[d] # m
    BY <1>0, <1>4, NoneAssumption DEF MemoryInv
  <2>2. OnTheWay(c, d) => OnTheWay(c, d)'
    BY <1>1, <1>2, <2>1, StaysOnTheWay
  <2>3. view'[c][d] = view[c][d] /\ (d \in stale'[c] <=> d \in stale[c])
    <3>1. Skipped(m, c) \/ HeldBack(m, c) \/ Delivered(m, c)
      BY <1>4, SendEffects
    <3> QED
      BY <1>0, <1>4, <3>1 DEF Skipped, HeldBack, Delivered
  <2> QED
    BY <1>1, <2>2, <2>3 DEF Follows, peer
<1>5. CASE v = c /\ DevOf[m] = d
  <2>1. store[d] = m
    BY <1>0, <1>1, <1>5 DEF LatestInBroadcast, InBroadcast
  <2>2. \/ (Excludes(c, d) \/ m \in torn[c]) /\ stale'[c] = stale[c] \cup {d}
        \/ /\ view'[c][d] = m
           /\ stale'[c] = IF SnapshotPending(c) THEN stale[c] \cup {d} ELSE stale[c] \ {d}
    <3>1. Concerns(c, DevOf[m]) /\ c \notin lost
      BY <1>0, <1>5 DEF Concerns
    <3>2. HeldBack(m, c) \/ Delivered(m, c)
      BY <1>5, <3>1, SendEffects DEF Skipped
    <3>3. CASE HeldBack(m, c)
      BY <1>5, <3>3 DEF HeldBack
    <3>4. CASE Delivered(m, c)
      BY <1>5, <3>4 DEF Delivered
    <3> QED
      BY <3>2, <3>3, <3>4
  <2>3. CASE (Excludes(c, d) \/ m \in torn[c]) /\ stale'[c] = stale[c] \cup {d}
    <3>1. conn[c] \notin {"connected", "register", "authok", "list", "read", "snapshot"}
      BY <1>0, <2>3 DEF UnfilteredBeforeLive, Excludes
    <3> QED
      BY <1>1, <2>3, <3>1 DEF Follows, peer
  <2>4. CASE /\ view'[c][d] = m
             /\ stale'[c] = IF SnapshotPending(c) THEN stale[c] \cup {d} ELSE stale[c] \ {d}
    BY <1>1, <2>1, <2>4 DEF Follows, SnapshotPending, peer
  <2> QED
    BY <2>2, <2>3, <2>4
<1> QED
  BY <1>3, <1>4, <1>5

\* The steps of the client's own goroutine: the snapshot carries the readings in
\* memory, and what a failed snapshot leaves blank counts as stale.
LEMMA ConnFollows ==
  ASSUME TypeOK, MemoryInv, NotYetServed, NEW c \in Clients, NEW d \in Devices,
         c \notin lost,
         Authenticate(c) \/ ConnStep(c),
         OrgOf[d] = org'[c], device[d] # "deleted", OrgOf[d] = org[c] => Follows(c, d)
  PROVE  Follows(c, d)'
<1>0. UNCHANGED <<store, handler, targets>>
  BY DEF Authenticate, ConnStep, Register, WriteAuthOk, ListDevices, ListFails,
     ReadSnapshot, WriteSnapshot, Remove, feed
<1>1. OnTheWay(c, d)' <=> OnTheWay(c, d)
  BY <1>0 DEF OnTheWay
<1>2. CASE Authenticate(c)
  <2>1. conn'[c] = "register" /\ view' = view /\ view[c][d] = None
    BY <1>2 DEF Authenticate, Advance, GoTo, At, StepAfter, NotYetServed, board, TypeOK, Types
  <2> QED
    BY <2>1 DEF Follows
<1>3. CASE Remove(c)
  <2>1. conn'[c] = "closed"
    BY <1>3 DEF Remove, GoTo, TypeOK, Types
  <2> QED
    BY <2>1 DEF Follows
<1>4. CASE Register(c) \/ WriteAuthOk(c)
  <2>1. /\ UNCHANGED <<org, view>> /\ conn[c] \in {"register", "authok"}
        /\ conn'[c] \in {"authok", "list"}
    BY <1>4 DEF Register, WriteAuthOk, Advance, GoTo, At, StepAfter, board, TypeOK, Types
  <2> QED
    BY <1>0, <1>1, <2>1 DEF Follows
<1>5. CASE ListDevices(c)
  <2>1. UNCHANGED org /\ conn'[c] = "read" /\ listed'[c] = OrgDevices(c)
    BY <1>5 DEF ListDevices, Advance, GoTo, At, StepAfter, TypeOK, Types
  <2>2. d \notin listed'[c] => device[d] = "absent"
    BY <2>1 DEF OrgDevices, Present, TypeOK, Types
  <2>3. d \notin listed'[c] => store[d] = None
    BY <2>2 DEF MemoryInv
  <2> QED
    BY <1>0, <1>1, <2>1, <2>3 DEF Follows
<1>6. CASE ListFails(c)
  <2>1. /\ UNCHANGED <<org, view>> /\ conn[c] = "list" /\ conn'[c] = "live"
        /\ stale'[c] = {e \in Devices : view[c][e] = None}
    BY <1>6 DEF ListFails, GoTo, At, TypeOK, Types
  <2> QED
    BY <1>0, <1>1, <2>1 DEF Follows
<1>7. CASE ReadSnapshot(c)
  <2>1. /\ UNCHANGED <<org, stale>> /\ conn[c] = "read" /\ conn'[c] = "snapshot"
        /\ snap'[c][d] = IF d \in listed[c] THEN store[d] ELSE None
    BY <1>7 DEF ReadSnapshot, Advance, GoTo, At, StepAfter, board, TypeOK, Types
  <2> QED
    BY <1>0, <1>1, <2>1 DEF Follows
<1>8. CASE WriteSnapshot(c)
  <2>1. /\ UNCHANGED <<org, stale>> /\ conn[c] = "snapshot" /\ conn'[c] = "live"
        /\ view'[c] = snap[c]
    BY <1>8 DEF WriteSnapshot, Advance, GoTo, At, StepAfter, TypeOK, Types
  <2> QED
    BY <1>0, <1>1, <2>1 DEF Follows
<1> QED
  BY <1>2, <1>3, <1>4, <1>5, <1>6, <1>7, <1>8 DEF ConnStep

\* The goroutine of one connection does not touch the dashboard of another.
LEMMA OtherConnFollows ==
  ASSUME TypeOK, NEW c \in Clients, NEW d \in Devices, NEW o \in Clients, o # c,
         \/ Authenticate(o) \/ ConnStep(o) \/ Lose(o) \/ Close(o)
         \/ \E ids \in SUBSET Devices : SetFilter(o, ids)
  PROVE  /\ org'[c] = org[c] /\ UNCHANGED <<device, crossed>> /\ (c \notin lost' => c \notin lost)
         /\ Follows(c, d) => Follows(c, d)'
<1>0. UNCHANGED <<store, handler, targets, crossed, device>>
  BY DEF Authenticate, ConnStep, Register, WriteAuthOk, ListDevices, ListFails,
     ReadSnapshot, WriteSnapshot, Remove, Lose, Close, SetFilter, feed, admin
<1>1. OnTheWay(c, d) => OnTheWay(c, d)'
  BY <1>0 DEF OnTheWay
<1>2. CASE Lose(o) \/ Close(o)
  <2>1. /\ conn'[c] = conn[c] /\ listed'[c] = listed[c] /\ snap'[c] = snap[c]
        /\ view'[c] = view[c] /\ stale'[c] = stale[c]
    BY <1>2, ForgottenEffects, GoneEffects
  <2>2. org' = org /\ lost' = lost \cup {o}
    BY <1>2, ForgottenEffects, GoneEffects
  <2> QED
    BY <1>0, <1>1, <2>1, <2>2, FollowsKept
<1>3. CASE Authenticate(o) \/ ConnStep(o) \/ \E ids \in SUBSET Devices : SetFilter(o, ids)
  <2>1. lost' = lost /\ conn'[c] = conn[c] /\ org'[c] = org[c]
    BY <1>3 DEF Authenticate, ConnStep, Register, WriteAuthOk, ListDevices, ListFails,
       ReadSnapshot, WriteSnapshot, Remove, SetFilter, Advance, GoTo, TypeOK, Types
  <2>2. listed'[c] = listed[c] /\ snap'[c] = snap[c]
    BY <1>3 DEF Authenticate, ConnStep, Register, WriteAuthOk, ListDevices, ListFails,
       ReadSnapshot, WriteSnapshot, Remove, SetFilter, TypeOK, Types
  <2>3. view'[c] = view[c] /\ stale'[c] = stale[c]
    BY <1>3 DEF Authenticate, ConnStep, Register, WriteAuthOk, ListDevices, ListFails,
       ReadSnapshot, WriteSnapshot, Remove, SetFilter, board, TypeOK, Types
  <2> QED
    BY <1>0, <1>1, <2>1, <2>2, <2>3, FollowsKept
<1> QED
  BY <1>2, <1>3

\* TilesFollow survives every step.
LEMMA StepTilesFollow ==
  ASSUME TypeOK, MemoryInv, GapInv, VisitInv, TileInv, [Next]_vars
  PROVE  TilesFollow'
<1> SUFFICES ASSUME NEW c \in Clients, c \notin lost',
                    NEW d \in Devices, OrgOf[d] = org'[c], device'[d] # "deleted",
                    d \notin crossed'
             PROVE  Follows(c, d)'
  BY DEF TilesFollow, Tiles
<1>0. /\ Registered /\ NotYetServed /\ LatestInBroadcast /\ UnfilteredBeforeLive
      /\ (/\ c \notin lost /\ OrgOf[d] = org[c] /\ device[d] # "deleted"
          /\ d \notin crossed) => Follows(c, d)
  BY DEF GapInv, VisitInv, TileInv, TilesFollow, Tiles
<1>1. ASSUME NEW e \in Devices,
             CreateDevice(e) \/ PatchDevice(e) \/ DeleteDevice(e) \/ Purge(e)
      PROVE  Follows(c, d)'
  <2>1. UNCHANGED <<peer, crossed>>
    BY <1>1 DEF CreateDevice, PatchDevice, DeleteDevice, Purge, SetDevice, feed
  <2> QED
    BY <1>0, <1>1, <2>1, AdminFollows DEF peer
<1>2. ASSUME NEW m \in Msgs, Lookup(m) \/ CheckOrg(m) \/ Drop(m) \/ EndBroadcast(m)
      PROVE  Follows(c, d)'
  <2>1. UNCHANGED <<peer, device, crossed>>
    BY <1>2 DEF Lookup, CheckOrg, Drop, EndBroadcast, admin
  <2> QED
    BY <1>0, <1>2, <2>1, QuietFollows DEF peer
<1>3. ASSUME NEW m \in Msgs, Set(m) PROVE Follows(c, d)'
  <2>1. UNCHANGED <<peer, device>>
    BY <1>3 DEF Set, admin
  <2> QED
    BY <1>0, <1>3, <2>1, SetFollows DEF peer
<1>4. ASSUME NEW m \in Msgs, BeginBroadcast(m) PROVE Follows(c, d)'
  <2>1. UNCHANGED <<peer, device, crossed>>
    BY <1>4 DEF BeginBroadcast, admin
  <2> QED
    BY <1>0, <1>4, <2>1, BeginFollows DEF peer
<1>5. ASSUME NEW m \in Msgs, NEW v \in Clients, Send(m, v) PROVE Follows(c, d)'
  <2>1. UNCHANGED <<peer, device, crossed>>
    BY <1>5 DEF Send, admin
  <2> QED
    BY <1>0, <1>5, <2>1, SendFollows DEF peer, Tiles
<1>6. ASSUME NEW o \in Clients, o # c,
             \/ Authenticate(o) \/ ConnStep(o) \/ Lose(o) \/ Close(o)
             \/ \E ids \in SUBSET Devices : SetFilter(o, ids)
      PROVE  Follows(c, d)'
  BY <1>0, <1>6, OtherConnFollows
<1>7. CASE Authenticate(c) \/ ConnStep(c)
  <2>1. UNCHANGED <<device, crossed, lost>>
    BY <1>7 DEF Authenticate, ConnStep, Register, WriteAuthOk, ListDevices, ListFails,
       ReadSnapshot, WriteSnapshot, Remove, feed, admin
  <2> QED
    BY <1>0, <1>7, <2>1, ConnFollows
<1>8. CASE Lose(c) \/ Close(c)
  BY <1>8, ForgottenEffects, GoneEffects
<1>9. ASSUME NEW ids \in SUBSET Devices, SetFilter(c, ids) PROVE Follows(c, d)'
  <2>1. UNCHANGED <<conn, org, lost, listed, snap, feed, board, admin>>
    BY <1>9 DEF SetFilter
  <2>2. OnTheWay(c, d) => OnTheWay(c, d)'
    BY <2>1 DEF OnTheWay, feed
  <2> QED
    BY <1>0, <2>1, <2>2, FollowsKept DEF feed, board, admin
<1>10. CASE UNCHANGED vars
  <2>1. OnTheWay(c, d) => OnTheWay(c, d)'
    BY <1>10 DEF OnTheWay, vars, feed
  <2> QED
    BY <1>0, <1>10, <2>1, FollowsKept DEF vars, feed, peer, board, admin
<1> QED
  BY <1>1, <1>2, <1>3, <1>4, <1>5, <1>6, <1>7, <1>8, <1>9, <1>10
     DEF Next, HandlerStep

\* In every execution a served dashboard shows the reading in memory of each
\* device of its organization that exists, unless readings of the device crossed,
\* its tile may lag for a reason that is counted in stale, or a reading of the
\* device is in a broadcast.
THEOREM TilesAgreeHolds == Spec => []TilesAgree
<1> DEFINE Inv == TypeOK /\ MemoryInv /\ GapInv /\ VisitInv /\ TileInv
<1>1. Init => Inv
  BY InitTypeOK, InitMemoryInv, InitGapInv, InitVisitInv, InitTileInv
<1>2. Inv /\ [Next]_vars => Inv'
  <2> SUFFICES ASSUME Inv, [Next]_vars PROVE Inv'
    OBVIOUS
  <2>1. TypeOK' /\ MemoryInv'
    BY StepTypeOK, StepMemoryInv
  <2>2. GapInv'
    BY <2>1, RegisteredByType, StepReachedOrTarget DEF GapInv
  <2>3. VisitInv'
    BY StepNotYetServed, StepTargetsRegistered DEF VisitInv
  <2>4. LatestInBroadcast' /\ UnfilteredBeforeLive'
    BY StepLatestInBroadcast, StepUnfilteredBeforeLive DEF TileInv
  <2>5. TilesFollow'
    BY StepTilesFollow
  <2> QED
    BY <2>1, <2>2, <2>3, <2>4, <2>5 DEF TileInv
<1>3. Inv => TilesAgree
  <2> SUFFICES ASSUME Inv, NEW c \in Clients, Served(c),
                      NEW d \in OrgDevices(c) \ (stale[c] \cup crossed),
                      InBroadcast(d) = {}
               PROVE  view[c][d] = store[d]
    BY DEF TilesAgree
  <2>1. d \in Tiles(c) /\ conn[c] = "live" /\ c \notin lost /\ d \in Devices
    BY DEF OrgDevices, Present, Tiles, Served
  <2>2. view[c][d] = store[d] \/ OnTheWay(c, d)
    BY <2>1 DEF TileInv, TilesFollow, Follows
  <2>3. ~OnTheWay(c, d)
    BY <2>1, NoneAssumption DEF OnTheWay, InBroadcast, MemoryInv
  <2> QED
    BY <2>2, <2>3
<1> QED
  BY <1>1, <1>2, <1>3, PTL DEF Spec

----------------------------------------------------------------------------
(* The other end: the page that shows the dashboard (WsClient).            *)

\* What the browser still knows of.
Known == {s \in Sockets : sock[s] # "none"}

\* While the page is hidden nothing is opened or scheduled: hiding it left one
\* connection behind at most, and showing it opens one.
ClientInv ==
  /\ paused \in BOOLEAN /\ timer \in BOOLEAN /\ strays \in Nat /\ hides \in Nat
  /\ ws \in Sockets \cup {NoSocket} /\ sock \in [Sockets -> States]
  /\ Cardinality(Known) + Timers <= hides + (IF paused THEN 0 ELSE 1)

\* There are finitely many sockets, and one more or one less counts as that.
LEMMA KnownCounts ==
  /\ IsFiniteSet(Known) /\ Cardinality(Known) \in Nat
  /\ \A s \in Sockets : /\ sock[s] = "none" => Cardinality(Known \cup {s}) = Cardinality(Known) + 1
                        /\ sock[s] # "none" => Cardinality(Known \ {s}) = Cardinality(Known) - 1
<1>1. MaxSockets \in Nat
  BY BoundsAssumption
<1>2. IsFiniteSet(Known)
  <2>1. IsFiniteSet(Sockets)
    BY <1>1, FS_Interval DEF Sockets
  <2> QED
    BY <2>1, FS_Subset DEF Known
<1>3. ASSUME NEW s \in Sockets
      PROVE  /\ sock[s] = "none" => Cardinality(Known \cup {s}) = Cardinality(Known) + 1
             /\ sock[s] # "none" => Cardinality(Known \ {s}) = Cardinality(Known) - 1
  <2>1. s \in Known <=> sock[s] # "none"
    BY DEF Known
  <2> QED
    BY <1>2, <2>1, FS_AddElement, FS_RemoveElement
<1> QED
  BY <1>2, <1>3, FS_CardinalityType

\* close() leaves it to the close event to forget a socket.
LEMMA CloseKeeps ==
  ASSUME ClientInv
  PROVE  /\ CloseWs \in [Sockets -> States]
         /\ \A s \in Sockets : CloseWs[s] = "none" <=> sock[s] = "none"
BY DEF ClientInv, CloseWs, CloseState, States, Up

\* No socket appears or is forgotten.
LEMMA SameKnown ==
  ASSUME \A s \in Sockets : sock'[s] = "none" <=> sock[s] = "none"
  PROVE  Known' = Known
BY DEF Known

\* A page starts with one socket if it is visible.
LEMMA ClientInit == ConnectLive => ClientInv
<1> SUFFICES ASSUME ConnectLive PROVE ClientInv
  OBVIOUS
<1>1. MaxSockets \in Nat \ {0}
  BY BoundsAssumption
<1>2. /\ paused \in BOOLEAN /\ timer = FALSE /\ strays = 0 /\ hides = 0
      /\ ws \in Sockets \cup {NoSocket} /\ sock \in [Sockets -> States]
  BY <1>1 DEF ConnectLive, Sockets, States, Up
<1>3. Timers = 0
  BY <1>2 DEF Timers
<1>4. CASE paused
  <2>1. Known = {}
    BY <1>4 DEF Known, ConnectLive
  <2>2. Cardinality(Known) = 0
    BY <2>1, FS_EmptySet
  <2>3. Cardinality(Known) + Timers <= hides + (IF paused THEN 0 ELSE 1)
    BY <1>2, <1>3, <1>4, <2>2
  <2> QED
    BY <1>2, <1>4, <2>3 DEF ClientInv
<1>5. CASE ~paused
  <2>1. Known = {1}
    BY <1>1, <1>5 DEF Known, ConnectLive, Sockets
  <2>2. Cardinality(Known) = 1
    BY <2>1, FS_Singleton
  <2>3. Cardinality(Known) + Timers <= hides + (IF paused THEN 0 ELSE 1)
    BY <1>2, <1>3, <1>5, <2>2
  <2> QED
    BY <1>2, <1>5, <2>3 DEF ClientInv
<1> QED
  BY <1>2, <1>4, <1>5

\* A step that opens no socket, forgets none and starts no timer.
LEMMA NothingOpened ==
  ASSUME ClientInv, sock' \in [Sockets -> States],
         \A s \in Sockets : sock'[s] = "none" <=> sock[s] = "none",
         ws' \in Sockets \cup {NoSocket}, UNCHANGED strays, timer' \in {timer, FALSE},
         \/ UNCHANGED <<paused, hides>>
         \/ paused' = TRUE /\ hides' = hides + 1 /\ paused = FALSE
  PROVE  ClientInv'
<1>1. Known' = Known
  BY SameKnown
<1>2. Cardinality(Known) \in Nat
  BY KnownCounts
<1>3. /\ timer \in BOOLEAN /\ timer' \in BOOLEAN /\ strays \in Nat /\ hides \in Nat
      /\ Cardinality(Known) + Timers <= hides + (IF paused THEN 0 ELSE 1)
  BY DEF ClientInv
<1>4. Timers' <= Timers /\ Timers \in Nat /\ Timers' \in Nat
  <2>1. timer \in BOOLEAN /\ strays \in Nat /\ timer' \in {timer, FALSE} /\ strays' = strays
    BY <1>3
  <2>2. CASE timer' = timer
    BY <2>1, <2>2 DEF Timers
  <2>3. CASE timer' = FALSE
    BY <2>1, <2>3 DEF Timers
  <2> QED
    BY <2>1, <2>2, <2>3
<1>5. /\ paused' \in BOOLEAN /\ hides' \in Nat
      /\ Cardinality(Known) + Timers <= hides' + (IF paused' THEN 0 ELSE 1)
  <2>1. CASE UNCHANGED <<paused, hides>>
    BY <1>3, <2>1 DEF ClientInv
  <2>2. CASE paused' = TRUE /\ hides' = hides + 1 /\ paused = FALSE
    BY <1>3, <2>2
  <2> QED
    BY <2>1, <2>2
<1>6. Cardinality(Known') + Timers' <= hides' + (IF paused' THEN 0 ELSE 1)
  BY <1>1, <1>2, <1>4, <1>5
<1> QED
  BY <1>3, <1>5, <1>6 DEF ClientInv

\* A close event; a visible page waits for a timer in its place.
LEMMA ForgetsSocket ==
  ASSUME ClientInv, NEW s \in Sockets, OnClose(s)
  PROVE  ClientInv'
<1>1. /\ sock[s] # "none" /\ ws' = NoSocket /\ UNCHANGED <<paused, hides>>
      /\ sock' = [(IF sock[s] = "failing" THEN CloseWs ELSE sock) EXCEPT ![s] = "none"]
  BY DEF OnClose, WsAfterClose
<1>2. sock' \in [Sockets -> States] /\ Known' = Known \ {s}
  <2>1. "none" \in States
    BY DEF States
  <2> QED
    BY <1>1, <2>1, CloseKeeps DEF ClientInv, Known
<1>3. Cardinality(Known') = Cardinality(Known) - 1 /\ Cardinality(Known) \in Nat
  BY <1>1, <1>2, KnownCounts
<1>4. /\ timer' \in BOOLEAN /\ strays' \in Nat /\ Timers \in Nat /\ Timers' \in Nat
      /\ Timers' <= Timers + 1
  <2>0. timer \in BOOLEAN /\ strays \in Nat
    BY DEF ClientInv
  <2>1. CASE UNCHANGED <<timer, strays>>
    BY <2>0, <2>1 DEF Timers
  <2>2. CASE Schedule
    <3>1. timer' = TRUE /\ strays' = strays + (IF timer THEN 1 ELSE 0)
      BY <2>2 DEF Schedule
    <3> QED
      BY <2>0, <3>1 DEF Timers
  <2> QED
    BY <2>1, <2>2 DEF OnClose
<1>5. Cardinality(Known') + Timers' <= hides' + (IF paused' THEN 0 ELSE 1)
  <2>1. Cardinality(Known) + Timers <= hides + (IF paused THEN 0 ELSE 1) /\ hides \in Nat
    BY DEF ClientInv
  <2> QED
    BY <1>1, <1>3, <1>4, <2>1
<1> QED
  BY <1>1, <1>2, <1>4, <1>5 DEF ClientInv

\* open() makes one socket known, or none without a token.
LEMMA OpensOne ==
  ASSUME ClientInv, NEW st, Open(st)
  PROVE  /\ sock' \in [Sockets -> States] /\ ws' \in Sockets \cup {NoSocket}
         /\ Cardinality(Known') \in {Cardinality(Known), Cardinality(Known) + 1}
<1>1. CASE token
  <2>1. PICK s \in Free : ws' = s /\ sock' = [sock EXCEPT ![s] = "connecting"]
    BY <1>1 DEF Open
  <2>2. s \in Sockets /\ sock[s] = "none"
    BY DEF Free
  <2>3. sock' \in [Sockets -> States] /\ Known' = Known \cup {s}
    <3>1. "connecting" \in States
      BY DEF States, Up
    <3> QED
      BY <2>1, <2>2, <3>1 DEF ClientInv, Known
  <2> QED
    BY <2>1, <2>2, <2>3, KnownCounts
<1>2. CASE ~token
  <2>1. UNCHANGED <<ws, sock>>
    BY <1>2 DEF Open
  <2>2. Known' = Known
    BY <2>1 DEF Known
  <2> QED
    BY <2>1, <2>2 DEF ClientInv
<1> QED
  BY <1>1, <1>2

\* A timer that ran is gone, and opens one socket if the page is visible.
LEMMA TimerOpens ==
  ASSUME ClientInv, TimerFires
  PROVE  ClientInv'
<1>0. Cardinality(Known) \in Nat
  BY KnownCounts
<1>1. /\ timer' \in BOOLEAN /\ strays' \in Nat /\ Timers' \in Nat /\ Timers' + 1 = Timers
      /\ UNCHANGED <<paused, hides>>
  <2>1. timer \in BOOLEAN /\ strays \in Nat /\ UNCHANGED <<paused, hides>>
    BY DEF ClientInv, TimerFires
  <2>2. CASE timer /\ timer' = AfterTimeout /\ UNCHANGED strays
    <3>1. timer /\ timer' = FALSE /\ strays' = strays
      BY <2>2 DEF AfterTimeout
    <3>2. Timers = strays + 1
      BY <3>1 DEF Timers
    <3>3. Timers' = strays
      BY <2>1, <3>1 DEF Timers
    <3> QED
      BY <2>1, <3>1, <3>2, <3>3
  <2>3. CASE strays > 0 /\ strays' = strays - 1 /\ UNCHANGED timer
    <3>1. strays' \in Nat /\ strays' + 1 = strays
      BY <2>1, <2>3
    <3> QED
      BY <2>1, <2>3, <3>1 DEF Timers
  <2> QED
    BY <2>1, <2>2, <2>3 DEF TimerFires
<1>2. /\ sock' \in [Sockets -> States] /\ ws' \in Sockets \cup {NoSocket}
      /\ Cardinality(Known') \in {Cardinality(Known), Cardinality(Known) + 1}
  <2>1. CASE MaySchedule
    BY <2>1, OpensOne DEF TimerFires
  <2>2. CASE ~MaySchedule
    <3>1. UNCHANGED <<ws, sock>>
      BY <2>2 DEF TimerFires
    <3>2. Known' = Known
      BY <3>1 DEF Known
    <3> QED
      BY <3>1, <3>2 DEF ClientInv
  <2> QED
    BY <2>1, <2>2
<1>3. Cardinality(Known') + Timers' <= hides' + (IF paused' THEN 0 ELSE 1)
  <2>1. Cardinality(Known) + Timers <= hides + (IF paused THEN 0 ELSE 1) /\ hides \in Nat
    BY DEF ClientInv
  <2> QED
    BY <1>0, <1>1, <1>2, <2>1
<1> QED
  BY <1>1, <1>2, <1>3 DEF ClientInv

\* Shown again, a page may open one.
LEMMA ShowOpens ==
  ASSUME ClientInv, Show
  PROVE  ClientInv'
<1>1. /\ paused = TRUE /\ paused' = FALSE /\ UNCHANGED <<timer, strays, hides>>
      /\ timer \in BOOLEAN /\ strays \in Nat /\ hides \in Nat
      /\ Cardinality(Known) + Timers <= hides
  BY DEF Show, ClientInv
<1>2. Timers' = Timers /\ Timers \in Nat /\ Cardinality(Known) \in Nat
  BY <1>1, KnownCounts DEF Timers
<1>3. /\ sock' \in [Sockets -> States] /\ ws' \in Sockets \cup {NoSocket}
      /\ Cardinality(Known') \in {Cardinality(Known), Cardinality(Known) + 1}
  BY OpensOne DEF Show
<1>4. Cardinality(Known') + Timers' <= hides' + 1
  BY <1>1, <1>2, <1>3
<1> QED
  BY <1>1, <1>3, <1>4 DEF ClientInv

\* Each time the page was hidden can add one connection for good, and nothing else can.
THEOREM OneMorePerHideHolds == ClientSpec => []OneMorePerHide
<1>1. ClientInv /\ [ClientNext]_clientVars => ClientInv'
  <2> SUFFICES ASSUME ClientInv, [ClientNext]_clientVars PROVE ClientInv'
    OBVIOUS
  <2>1. CASE UNCHANGED clientVars
    BY <2>1, NothingOpened DEF clientVars, ClientInv
  <2>2. ASSUME NEW s \in Sockets, OnOpen(s) \/ AuthOk(s) \/ ServerCloses(s) \/ LoseConnection(s)
        PROVE  ClientInv'
    <3>1. /\ sock' \in [Sockets -> States]
          /\ \A t \in Sockets : sock'[t] = "none" <=> sock[t] = "none"
      BY <2>2 DEF OnOpen, AuthOk, ServerCloses, LoseConnection, ClientInv, States, Up
    <3>2. UNCHANGED <<ws, timer, strays, paused, hides>>
      BY <2>2 DEF OnOpen, AuthOk, ServerCloses, LoseConnection
    <3> QED
      BY <3>1, <3>2, NothingOpened DEF ClientInv
  <2>3. ASSUME NEW s \in Sockets, OnClose(s) PROVE ClientInv'
    BY <2>3, ForgetsSocket
  <2>4. CASE Hide \/ Stop
    BY <2>4, CloseKeeps, NothingOpened DEF Hide, Stop, ClientInv
  <2>5. CASE LoseToken \/ Left
    BY <2>5, NothingOpened DEF LoseToken, Left, clientVars, ClientInv
  <2> QED
    BY <2>1, <2>2, <2>3, <2>4, <2>5, TimerOpens, ShowOpens DEF ClientNext
<1>2. ClientInv => OneMorePerHide
  <2> SUFFICES ASSUME ClientInv PROVE OneMorePerHide
    OBVIOUS
  <2>1. Cardinality(Known) \in Nat /\ Timers \in Nat
    BY KnownCounts DEF ClientInv, Timers
  <2>2. Cardinality(Known) + Timers <= 1 + hides
    BY <2>1 DEF ClientInv
  <2> QED
    BY <2>2 DEF OneMorePerHide, Known
<1> QED
  BY <1>1, <1>2, ClientInit, PTL DEF ClientSpec
=============================================================================
