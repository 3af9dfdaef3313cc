------------------------------ MODULE LiveFeed ------------------------------
(***************************************************************************)
(* The live path: MQTT messages through Ingestor.HandleMQTT                *)
(* (src/internal/telemetry/ingest.go) into the map of latest readings      *)
(* (src/internal/state/store.go) and through Hub.Broadcast                 *)
(* (src/internal/ws/hub.go) to the dashboards of the organization, while   *)
(* dashboards connect, authenticate, receive a snapshot, set filters and   *)
(* leave, and administrators create, disable and delete devices.           *)
(*                                                                         *)
(* Every message is handled by a goroutine of its own (the subscriber asks *)
(* for unordered delivery), every connection by the goroutine of its       *)
(* readLoop.  An action is one critical section, one database statement or *)
(* one write to a connection.  The hub's RWMutex is held for reading from  *)
(* BeginBroadcast to EndBroadcast.  A message stands for its reading.      *)
(***************************************************************************)
EXTENDS FiniteSets

CONSTANTS
  Devices,   \* device ids; an id is never used twice
  Msgs,      \* telemetry messages, duplicates included
  Clients,   \* WebSocket connections
  OrgOf,     \* OrgOf[d]: the organization of device d
  DevOf,     \* DevOf[m]: the device that the topic of m names
  Orgs,      \* organizations
  None       \* no reading; no organization; no filter

ASSUME OrgsAssumption == OrgOf \in [Devices -> Orgs]
ASSUME DevOfAssumption == DevOf \in [Msgs -> Devices]
ASSUME NoneAssumption == None \notin Msgs \cup Orgs

VARIABLES
  device,    \* device[d]: "absent", or the status of its row, or "deleted"
  purge,     \* deleted devices that are still to be removed from store
  store,     \* store[d]: the latest reading of d in memory
  handler,   \* handler[m]: the next step of the goroutine of m
  targets,   \* targets[m]: clients that the broadcast of m still has to visit
  conn,      \* conn[c]: the next step of the goroutine of c
  org,       \* org[c]: the organization that c is bound to
  clients,   \* the hub's set of registered clients
  lost,      \* connections whose peer is gone: writes to them fail
  filter,    \* filter[c]: devices whose readings pass; None: no filter is set
  torn,      \* torn[c]: messages whose broadcast may have found a filter set and
             \* looks it up after it was cleared
  listed,    \* listed[c]: devices read for the snapshot
  snap,      \* snap[c]: readings read for the snapshot
  view,      \* view[c]: the readings that the dashboard shows
  \* History, read by the properties only:
  sent,      \* sent[c]: messages written to c
  withheld,  \* withheld[c]: messages that the filter of c held back
  before,    \* before[c]: messages in store before the devices were listed
  stale,     \* stale[c]: devices whose tile may lag (snapshot race or filter)
  crossed,   \* devices whose last reading was set during another's broadcast
  late       \* devices with a message past its lookup when they were purged

feed == <<store, handler, targets, crossed>>
peer == <<conn, org, clients, lost, filter, torn, listed, snap, before>>
board == <<view, sent, withheld, stale>>
admin == <<device, purge, late>>
vars == <<feed, peer, board, admin>>

Nothing == [d \in Devices |-> None]
Stored(m) == handler[m] \in {"lock", "send", "done"}
Present == {d \in Devices : device[d] \in {"active", "inactive"}}
OrgDevices(c) == {d \in Present : OrgOf[d] = org[c]}

Init ==
  /\ device = [d \in Devices |-> "absent"]
  /\ purge = {}
  /\ store = Nothing
  /\ handler = [m \in Msgs |-> "new"]
  /\ targets = [m \in Msgs |-> {}]
  /\ conn = [c \in Clients |-> "connected"]
  /\ org = [c \in Clients |-> None]
  /\ clients = {}
  /\ lost = {}
  /\ filter = [c \in Clients |-> None]
  /\ torn = [c \in Clients |-> {}]
  /\ listed = [c \in Clients |-> {}]
  /\ snap = [c \in Clients |-> Nothing]
  /\ view = [c \in Clients |-> Nothing]
  /\ sent = [c \in Clients |-> {}]
  /\ withheld = [c \in Clients |-> {}]
  /\ before = [c \in Clients |-> {}]
  /\ stale = [c \in Clients |-> {}]
  /\ crossed = {}
  /\ late = {}

----------------------------------------------------------------------------
(* Device administration over HTTP.                                        *)

SetDevice(d, s) ==
  /\ device' = [device EXCEPT ![d] = s]
  /\ UNCHANGED <<feed, peer, board, late>>

CreateDevice(d) ==
  /\ device[d] = "absent"
  /\ \E s \in {"active", "inactive"} : SetDevice(d, s)
  /\ UNCHANGED purge

PatchDevice(d) ==
  /\ d \in Present
  /\ \E s \in {"active", "inactive"} : SetDevice(d, s)
  /\ UNCHANGED purge

\* deleteDevice: first the row, then the reading in memory.
DeleteDevice(d) ==
  /\ d \in Present
  /\ SetDevice(d, "deleted")
  /\ purge' = purge \cup {d}

\* Mutant of Forget: the reading stays in memory.
KeepReading(d) == UNCHANGED store
Forget(d) == store' = [store EXCEPT ![d] = None]

PastLookup(d) == \E m \in Msgs : DevOf[m] = d /\ handler[m] \in {"org", "set"}

Purge(d) ==
  /\ d \in purge
  /\ purge' = purge \ {d}
  /\ Forget(d)
  /\ late' = IF PastLookup(d) THEN late \cup {d} ELSE late
  /\ UNCHANGED <<device, handler, targets, crossed, peer, board>>

----------------------------------------------------------------------------
(* HandleMQTT.                                                             *)

Handle(m, step) == handler' = [handler EXCEPT ![m] = step]

Lookup(m) ==
  /\ handler[m] = "new"
  /\ device[DevOf[m]] = "active"
  /\ Handle(m, "org")
  /\ UNCHANGED <<store, targets, crossed, peer, board, admin>>

CheckOrg(m) ==
  /\ handler[m] = "org"
  /\ Handle(m, "set")
  /\ UNCHANGED <<store, targets, crossed, peer, board, admin>>

\* A bad topic or payload, an unknown or inactive device, a disabled
\* organization, a failed statement.
Drop(m) ==
  /\ handler[m] \in {"new", "org"}
  /\ Handle(m, "dropped")
  /\ UNCHANGED <<store, targets, crossed, peer, board, admin>>

InBroadcast(d) == {m \in Msgs : DevOf[m] = d /\ handler[m] \in {"lock", "send"}}

Set(m) ==
  LET d == DevOf[m]
  IN  /\ handler[m] = "set"
      /\ store' = [store EXCEPT ![d] = m]
      /\ Handle(m, "lock")
      /\ crossed' = IF InBroadcast(d) # {} THEN crossed \cup {d} ELSE crossed \ {d}
      /\ UNCHANGED <<targets, peer, board, admin>>

BeginBroadcast(m) ==
  /\ handler[m] = "lock"
  /\ Handle(m, "send")
  /\ targets' = [targets EXCEPT ![m] = clients]
  /\ UNCHANGED <<store, crossed, peer, board, admin>>

\* Mutant of Concerns: readings go to every organization.
ConcernsAll(c, d) == TRUE
Concerns(c, d) == org[c] = OrgOf[d]

\* Until the snapshot is written, it may overwrite what is shown.
SnapshotPending(c) == conn[c] \in {"read", "snapshot"}

HoldBack(m, c) ==
  /\ withheld' = [withheld EXCEPT ![c] = @ \cup {m}]
  /\ stale' = [stale EXCEPT ![c] = @ \cup {DevOf[m]}]
  /\ UNCHANGED <<view, sent>>

Deliver(m, c) ==
  LET d == DevOf[m]
  IN  /\ view' = [view EXCEPT ![c][d] = m]
      /\ sent' = [sent EXCEPT ![c] = @ \cup {m}]
      /\ stale' = [stale EXCEPT ![c] = IF SnapshotPending(c) THEN @ \cup {d} ELSE @ \ {d}]
      /\ UNCHANGED withheld

Excludes(c, d) == filter[c] # None /\ d \notin filter[c]

\* The filter is read twice, and without a lock: whether there is one, and whether
\* the device is in it.  A device is in no filter that was cleared in between.
Send(m, c) ==
  /\ handler[m] = "send"
  /\ c \in targets[m]
  /\ targets' = [targets EXCEPT ![m] = @ \ {c}]
  /\ IF ~Concerns(c, DevOf[m]) \/ c \in lost THEN UNCHANGED board
     ELSE \/ (Excludes(c, DevOf[m]) \/ m \in torn[c]) /\ HoldBack(m, c)
          \/ ~Excludes(c, DevOf[m]) /\ Deliver(m, c)
  /\ UNCHANGED <<store, handler, crossed, peer, admin>>

\* Then the record goes to the archive (module ArchiveWriter).
EndBroadcast(m) ==
  /\ handler[m] = "send"
  /\ targets[m] = {}
  /\ Handle(m, "done")
  /\ UNCHANGED <<store, targets, crossed, peer, board, admin>>

----------------------------------------------------------------------------
(* readLoop of one connection.                                             *)

\* The hub's lock, taken for writing.
Lockable == \A m \in Msgs : handler[m] # "send"

\* Mutant of StepAfter: the client is registered when it has its snapshot.
RegisterLast(step) ==
  CASE step = "connected" -> "authok" [] step = "authok" -> "list"
    [] step = "list" -> "read"        [] step = "read" -> "snapshot"
    [] step = "snapshot" -> "register" [] step = "register" -> "live"
StepAfter(step) ==
  CASE step = "connected" -> "register" [] step = "register" -> "authok"
    [] step = "authok" -> "list"        [] step = "list" -> "read"
    [] step = "read" -> "snapshot"      [] step = "snapshot" -> "live"

At(c, step) == conn[c] = step
GoTo(c, step) == conn' = [conn EXCEPT ![c] = step]
Advance(c) == GoTo(c, StepAfter(conn[c]))

\* A valid token of an active user and organization, in time.
Authenticate(c) ==
  /\ At(c, "connected")
  /\ \E o \in Orgs : org' = [org EXCEPT ![c] = o]
  /\ Advance(c)
  /\ UNCHANGED <<clients, lost, filter, torn, listed, snap, before, feed, board, admin>>

Register(c) ==
  /\ At(c, "register")
  /\ Lockable
  /\ clients' = clients \cup {c}
  /\ Advance(c)
  /\ UNCHANGED <<org, lost, filter, torn, listed, snap, before, feed, board, admin>>

WriteAuthOk(c) ==
  /\ At(c, "authok")
  /\ IF c \in lost THEN GoTo(c, "closing") ELSE Advance(c)
  /\ UNCHANGED <<org, clients, lost, filter, torn, listed, snap, before, feed, board, admin>>

ListDevices(c) ==
  /\ At(c, "list")
  /\ listed' = [listed EXCEPT ![c] = OrgDevices(c)]
  /\ before' = [before EXCEPT ![c] = {m \in Msgs : Stored(m)}]
  /\ Advance(c)
  /\ UNCHANGED <<org, clients, lost, filter, torn, snap, feed, board, admin>>

\* No snapshot: the connection stays, tiles fill up with the next readings.
ListFails(c) ==
  /\ At(c, "list")
  /\ GoTo(c, "live")
  /\ stale' = [stale EXCEPT ![c] = {d \in Devices : view[c][d] = None}]
  /\ before' = [before EXCEPT ![c] = {m \in Msgs : Stored(m)}]
  /\ UNCHANGED <<org, clients, lost, filter, torn, listed, snap, view, sent, withheld, feed,
                 admin>>

ReadSnapshot(c) ==
  /\ At(c, "read")
  /\ snap' = [snap EXCEPT ![c] =
                [d \in Devices |-> IF d \in listed[c] THEN store[d] ELSE None]]
  /\ listed' = [listed EXCEPT ![c] = {}]
  /\ Advance(c)
  /\ UNCHANGED <<org, clients, lost, filter, torn, before, feed, board, admin>>

\* The dashboard replaces everything it shows.
WriteSnapshot(c) ==
  /\ At(c, "snapshot")
  /\ view' = IF c \in lost THEN view ELSE [view EXCEPT ![c] = snap[c]]
  /\ snap' = [snap EXCEPT ![c] = Nothing]
  /\ Advance(c)
  /\ UNCHANGED <<org, clients, lost, filter, torn, listed, before, sent, withheld, stale,
                 feed, admin>>

\* No ids: no filter.  Otherwise ids of other organizations and of devices that
\* do not exist are left out.
SetFilter(c, ids) ==
  /\ At(c, "live")
  /\ c \notin lost
  /\ filter' = [filter EXCEPT ![c] = IF ids = {} THEN None ELSE ids \cap OrgDevices(c)]
  /\ torn' = [torn EXCEPT ![c] = IF ids = {} /\ filter[c] # None
                                   THEN @ \cup {m \in Msgs : c \in targets[m]} ELSE @]
  /\ UNCHANGED <<conn, org, clients, lost, listed, snap, before, feed, board, admin>>

\* What the peer saw, and the history of it, is gone with it.
Forgotten(c) ==
  /\ lost' = lost \cup {c}
  /\ filter' = [filter EXCEPT ![c] = None]
  /\ torn' = [torn EXCEPT ![c] = {}]
  /\ listed' = [listed EXCEPT ![c] = {}]
  /\ snap' = [snap EXCEPT ![c] = Nothing]
  /\ view' = [view EXCEPT ![c] = Nothing]
  /\ sent' = [sent EXCEPT ![c] = {}]
  /\ withheld' = [withheld EXCEPT ![c] = {}]
  /\ before' = [before EXCEPT ![c] = {}]
  /\ stale' = [stale EXCEPT ![c] = {}]

\* The peer goes away; the goroutine notices at its next read or write.
Lose(c) ==
  /\ conn[c] \notin {"connected", "closing", "closed"}
  /\ c \notin lost
  /\ Forgotten(c)
  /\ UNCHANGED <<conn, org, clients, feed, admin>>

\* The read loop ends: an error or a deadline of a read, a refused message.
Close(c) ==
  /\ conn[c] \in {"connected", "live"}
  /\ GoTo(c, "closing")
  /\ Forgotten(c)
  /\ UNCHANGED <<org, clients, feed, admin>>

\* Mutant of Unregister: the client stays in the hub's set.
StayRegistered(c) == UNCHANGED clients
Unregister(c) == clients' = clients \ {c}

Remove(c) ==
  /\ At(c, "closing")
  /\ Lockable
  /\ Unregister(c)
  /\ GoTo(c, "closed")
  /\ org' = [org EXCEPT ![c] = None]
  /\ UNCHANGED <<lost, filter, torn, listed, snap, before, feed, board, admin>>

----------------------------------------------------------------------------
HandlerStep(m) ==
  \/ Lookup(m)
  \/ CheckOrg(m)
  \/ Drop(m)
  \/ Set(m)
  \/ BeginBroadcast(m)
  \/ \E c \in Clients : Send(m, c)
  \/ EndBroadcast(m)

\* What the goroutine of a connection does without waiting for its peer.
ConnStep(c) ==
  \/ Register(c)
  \/ WriteAuthOk(c)
  \/ ListDevices(c)
  \/ ListFails(c)
  \/ ReadSnapshot(c)
  \/ WriteSnapshot(c)
  \/ Remove(c)

Next ==
  \/ \E d \in Devices : CreateDevice(d) \/ PatchDevice(d) \/ DeleteDevice(d) \/ Purge(d)
  \/ \E m \in Msgs : HandlerStep(m)
  \/ \E c \in Clients : \/ Authenticate(c)
                        \/ ConnStep(c)
                        \/ \E ids \in SUBSET Devices : SetFilter(c, ids)
                        \/ Lose(c)
                        \/ Close(c)

\* Goroutines are scheduled, statements return, a write returns (it has a
\* deadline of 10 seconds), a waiting writer of the hub's lock gets it.
Fairness ==
  /\ \A m \in Msgs : WF_vars(HandlerStep(m))
  /\ \A c \in Clients : WF_vars(ConnStep(c))

Spec == Init /\ [][Next]_vars

FairSpec == Spec /\ Fairness

----------------------------------------------------------------------------
(* Properties.                                                             *)

Readings == Msgs \cup {None}
ConnSteps == {"connected", "register", "authok", "list", "read", "snapshot", "live",
              "closing", "closed"}

Types ==
  /\ device \in [Devices -> {"absent", "active", "inactive", "deleted"}]
  /\ purge \subseteq Devices
  /\ store \in [Devices -> Readings]
  /\ handler \in [Msgs -> {"new", "org", "set", "lock", "send", "done", "dropped"}]
  /\ targets \in [Msgs -> SUBSET Clients]
  /\ conn \in [Clients -> ConnSteps]
  /\ org \in [Clients -> Orgs \cup {None}]
  /\ clients \subseteq Clients
  /\ lost \subseteq Clients
  /\ filter \in [Clients -> (SUBSET Devices) \cup {None}]
  /\ \A f \in {listed, stale} : f \in [Clients -> SUBSET Devices]
  /\ \A f \in {snap, view} : f \in [Clients -> [Devices -> Readings]]
  /\ \A f \in {torn, sent, withheld, before} : f \in [Clients -> SUBSET Msgs]
  /\ \A S \in {crossed, late} : S \subseteq Devices

\* Register is behind c, Remove is not; a connection that ended before it was
\* authenticated never had an organization.
PastRegister(c) ==
  \/ conn[c] \in {"authok", "list", "read", "snapshot", "live"}
  \/ conn[c] = "closing" /\ org[c] # None

Registration ==
  \A c \in Clients :
    /\ conn[c] \in {"connected", "closed"} => org[c] = None
    /\ conn[c] \in {"register", "authok", "list", "read", "snapshot", "live"} => org[c] # None
    /\ c \in clients <=> PastRegister(c)

\* Types; a client is registered exactly between its Register and its Remove.
TypeOK == Types /\ Registration

\* Served(c): c is registered and has been offered its snapshot.
Served(c) == conn[c] = "live" /\ c \notin lost

\* Tenants are separate: nothing of another organization's devices reaches a
\* dashboard, as a reading or in a snapshot, whatever ids its filter names.
TenantsSeparate ==
  \A c \in Clients :
    /\ \A m \in sent[c] : OrgOf[DevOf[m]] = org[c]
    /\ \A d \in Devices : view[c][d] # None => OrgOf[d] = org[c]

\* No gap between snapshot and live readings: every reading of the organization
\* whose broadcast is over was in memory before the devices of the snapshot were
\* listed, or was sent, or was held back by a filter.  It holds because the client
\* is registered before its snapshot is read.
NoGap ==
  \A c \in Clients, m \in Msgs :
    Served(c) /\ handler[m] = "done" /\ Concerns(c, DevOf[m]) =>
      m \in before[c] \cup sent[c] \cup withheld[c]

\* A dashboard shows the latest reading of each device, unless a reading was sent
\* while its snapshot was on the way or held back by its filter, the last readings
\* of the device crossed, or one is being broadcast right now.
TilesAgree ==
  \A c \in Clients : Served(c) =>
    \A d \in OrgDevices(c) \ (stale[c] \cup crossed) :
      InBroadcast(d) = {} => view[c][d] = store[d]

\* Memory of a deleted device: a reading is left only when its message had passed
\* the lookup before the entry was purged.
GhostOnlyByRace ==
  \A d \in Devices :
    device[d] = "deleted" /\ d \notin purge /\ store[d] # None => d \in late

\* The first message of a connection is auth_ok; no reading comes before it
\* (what TestWSRequiresAuthBeforeTelemetry asserts).  The code violates it: a client
\* is registered before it is greeted.
AuthOkFirst == \A c \in Clients : conn[c] \in {"register", "authok"} => sent[c] = {}

\* A connection that authenticates is served or ends; one that ends is forgotten.
ConnectionsSettle ==
  \A c \in Clients :
    /\ conn[c] = "register" ~> conn[c] \in {"live", "closed"}
    /\ conn[c] = "closing" ~> c \notin clients
=============================================================================
