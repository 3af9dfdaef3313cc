------------------------------ MODULE Catalogue ------------------------------
(***************************************************************************)
(* Locations, sub-locations and devices: the handlers of                   *)
(* src/internal/api/handlers.go, the operator's overview of internal.go    *)
(* and the statements of src/internal/repository/postgres.go under them.   *)
(*                                                                         *)
(* A handler is a sequence of statements without a transaction; the        *)
(* statements of concurrent requests interleave and each may fail.  The    *)
(* schema refers from devices to sub_locations and from those to           *)
(* locations by id alone, so that rows of one organization refer only to   *)
(* rows of the same one rests on the checks the handlers make first.       *)
(***************************************************************************)
EXTENDS Naturals, Sequences

CONSTANTS
  Orgs, Locs, Subs, Devs, Idents, Names,  \* ids, identifiers and names
  None,                             \* SQL NULL; no row; a JSON field that is absent
  Slots,                            \* requests served at the same time
  Bodies,                           \* bodies of the requests
  SeedLocs, SeedSubs, SeedDevices,  \* rows the seed command writes
  MaxRequests, MaxFaults            \* bounds of the model

Statuses == {"active", "inactive"}
Location == [org : Orgs]
SubLocation == [org : Orgs, loc : Locs]
Device == [org : Orgs, ident : Idents, name : Names, status : Statuses, sub : Subs \cup {None}]

\* A body: the fields of a PATCH or POST that are present.  "clear" is the empty
\* string, which clears the sub-location; JSON null is an absent field.
Body == [name : Names \cup {None}, status : Statuses \cup {None}, sub : Subs \cup {"clear", None}]

ASSUME BodiesAssumption == Orgs # {} /\ Bodies \subseteq Body
\* NULL is no id of a sub-location and no row.
ASSUME NullAssumption == None \notin Subs \cup Slots \cup Device
ASSUME SeedAssumption ==
  /\ SeedLocs \in [Locs -> Location \cup {None}]
  /\ SeedSubs \in [Subs -> SubLocation \cup {None}]
  /\ SeedDevices \in [Devs -> Device \cup {None}]
\* The seed command gives its rows one organization and distinct identifiers.
ASSUME SeedRowsAssumption ==
  /\ \A l \in Subs : SeedSubs[l] # None => 
       /\ SeedLocs[SeedSubs[l].loc] # None
       /\ SeedLocs[SeedSubs[l].loc].org = SeedSubs[l].org
  /\ \A d \in Devs : SeedDevices[d] # None /\ SeedDevices[d].sub # None =>
       /\ SeedSubs[SeedDevices[d].sub] # None
       /\ SeedSubs[SeedDevices[d].sub].org = SeedDevices[d].org
  /\ \A d, e \in Devs : SeedDevices[d] # None /\ SeedDevices[e] # None
                           /\ SeedDevices[d].ident = SeedDevices[e].ident => d = e
ASSUME BoundsAssumption == MaxRequests \in Nat /\ MaxFaults \in Nat

VARIABLES
  locations, sub_locations, devices,  \* the tables
  req,                                \* req[s]: the request in slot s
  requests, faults                    \* requests served and statements failed so far

vars == <<locations, sub_locations, devices, req, requests, faults>>
tables == <<locations, sub_locations, devices>>

Rows(table) == {id \in DOMAIN table : table[id] # None}

NoBody == [name |-> None, status |-> None, sub |-> None]
Fields == {"name", "status", "sub"}
Value(body, f) == IF f = "sub" /\ body.sub = "clear" THEN None ELSE body[f]

\* A request: its kind, organization, the row it is about, its body, the statements
\* it still has to run, its answer, and what an overview read so far.  History:
\* before, the device when the request arrived; disturbed, that somebody else wrote
\* it since (for an overview: that a location or sub-location was created).
NoReq == [kind |-> "none", org |-> CHOOSE o \in Orgs : TRUE, about |-> None, body |-> NoBody,
          todo |-> {}, answer |-> "none", before |-> None, disturbed |-> FALSE, seen |-> <<>>]

\* The order of the statements of a request.  Mutant of CheckPlace: the sub-location
\* is checked only when it is about to be written.
LatePlace == 5
CheckPlace == 1
Place(step) ==
  CASE step = "check" -> CheckPlace
    [] step \in {"get_location", "locations"} -> 1
    [] step \in {"get", "insert", "insert_sub_location", "sub_locations"} -> 2
    [] step \in {"name", "devices"} -> 3
    [] step = "status" -> 4
    [] step = "sub" -> 6
    [] step = "reget" -> 7
    [] OTHER -> 1
Doing(s, step) == step \in req[s].todo /\ \A t \in req[s].todo : Place(step) <= Place(t)

Init ==
  /\ locations = SeedLocs /\ sub_locations = SeedSubs /\ devices = SeedDevices
  /\ req = [s \in Slots |-> NoReq]
  /\ requests = 0 /\ faults = 0

----------------------------------------------------------------------------
(* What a statement does to the request that runs it and to the others.    *)

Answer(r, a) == [r EXCEPT !.todo = {}, !.answer = a]
Advance(r, step) ==
  IF r.todo = {step} THEN Answer(r, "ok") ELSE [r EXCEPT !.todo = @ \ {step}]

\* A read is done; or it finds no row, which ends the request.
ReadBy(s, step, found, r) ==
  /\ Doing(s, step)
  /\ req' = [req EXCEPT ![s] = IF found THEN Advance(r, step) ELSE Answer(r, "not_found")]
  /\ UNCHANGED <<tables, requests, faults>>

\* Slot s (None: the seed command) wrote row x; the other requests about x note it.
Disturb(s, x) ==
  [t \in Slots |-> [req[t] EXCEPT !.disturbed = @ \/ (t # s /\ req[t].about = x)]]

\* A write is done; or it is done and the handler gets an error all the same.
WrittenBy(s, step, x, r) ==
  /\ Doing(s, step)
  /\ \/ /\ req' = [Disturb(s, x) EXCEPT ![s] = Advance(r, step)]
        /\ UNCHANGED faults
     \/ /\ faults < MaxFaults
        /\ faults' = faults + 1
        /\ req' = [Disturb(s, x) EXCEPT ![s] = Answer(r, "failed")]
  /\ UNCHANGED requests

\* The statement fails without an effect.
StatementFails(s) ==
  /\ req[s].todo # {}
  /\ faults < MaxFaults
  /\ faults' = faults + 1
  /\ req' = [req EXCEPT ![s] = Answer(@, "failed")]
  /\ UNCHANGED <<tables, requests>>

----------------------------------------------------------------------------
(* Requests arrive; what the handlers check without the database is behind *)
(* them.                                                                   *)

Arrives(s, kind, o, x, body, todo) ==
  /\ req[s] = NoReq
  /\ requests < MaxRequests
  /\ requests' = requests + 1
  /\ req' = [req EXCEPT ![s] = [NoReq EXCEPT !.kind = kind, !.org = o, !.about = x, !.body = body,
                                  !.todo = todo,
                                  !.before = IF x \in Devs THEN devices[x] ELSE None]]
  /\ UNCHANGED <<tables, faults>>

Runs(body, step) ==
  CASE step = "check" -> body.sub \in Subs
    [] step \in Fields -> body[step] # None
    [] OTHER -> TRUE

PatchDevice(s, o, d, body) ==
  Arrives(s, "patch", o, d, body,
          {step \in {"check", "get", "name", "status", "sub", "reget"} : Runs(body, step)})
CreateDevice(s, o, body) ==
  /\ body.name # None /\ body.status # None
  /\ Arrives(s, "create", o, None, body,
             {step \in {"check", "insert", "reget"} : Runs(body, step)})
DeleteDevice(s, o, d) == Arrives(s, "delete", o, d, NoBody, {"delete"})
CreateLocation(s, o) == Arrives(s, "location", o, None, NoBody, {"insert_location"})
CreateSubLocation(s, o, l) ==
  Arrives(s, "sub_location", o, l, NoBody, {"get_location", "insert_sub_location"})
ListInternalOrganizations(s) ==
  \E o \in Orgs : Arrives(s, "overview", o, "overview", NoBody,
                          {"locations", "sub_locations", "devices"})

Leave(s) ==
  /\ req[s].answer # "none"
  /\ req' = [req EXCEPT ![s] = NoReq]
  /\ UNCHANGED <<tables, requests, faults>>

----------------------------------------------------------------------------
(* The statements.                                                         *)

\* Mutant of GetSubLocation: WHERE id=$1 alone.
GetSubLocationById(o, l) == l \in Rows(sub_locations)
GetSubLocation(o, l) == l \in Rows(sub_locations) /\ sub_locations[l].org = o
GetDevice(o, d) == d \in Rows(devices) /\ devices[d].org = o
GetLocation(o, l) == l \in Rows(locations) /\ locations[l].org = o

CheckSubLocation(s) ==
  ReadBy(s, "check", GetSubLocation(req[s].org, req[s].body.sub), req[s])

\* GetDevice first and last in UpdateDevice.  After an INSERT, createDevice answers
\* 500, not 404, if the new device is gone.
ReadDevice(s) ==
  /\ req[s].kind = "create" => GetDevice(req[s].org, req[s].about)
  /\ \E step \in {"get", "reget"} :
       ReadBy(s, step, GetDevice(req[s].org, req[s].about), req[s])
CreatedDeviceGone(s) ==
  /\ Doing(s, "reget") /\ req[s].kind = "create"
  /\ ~GetDevice(req[s].org, req[s].about)
  /\ req' = [req EXCEPT ![s] = Answer(@, "failed")]
  /\ UNCHANGED <<tables, requests, faults>>

\* One UPDATE of one column; the rows affected are not asked for.
UpdateColumn(s, f) ==
  LET r == req[s] IN
  /\ devices' = IF GetDevice(r.org, r.about)
                THEN [devices EXCEPT ![r.about][f] = Value(r.body, f)] ELSE devices
  /\ WrittenBy(s, f, r.about, r)
  /\ UNCHANGED <<locations, sub_locations>>

\* The unique index on device_identifier spans the organizations.  Mutant: it
\* leaves out inactive devices.
IdentFreeOfActive(i) ==
  \A d \in Rows(devices) : devices[d].status = "active" => devices[d].ident # i
IdentFree(i) == \A d \in Rows(devices) : devices[d].ident # i

\* A new id: ids are not reused while a request knows them, nor the seed's.
InsertDevice(s, i, d) ==
  LET r == req[s] IN
  /\ IdentFree(i)
  /\ d \notin Rows(devices) /\ SeedDevices[d] = None /\ \A t \in Slots : req[t].about # d
  /\ devices' = [devices EXCEPT ![d] = [org |-> r.org, ident |-> i, name |-> r.body.name,
                                        status |-> r.body.status, sub |-> Value(r.body, "sub")]]
  /\ WrittenBy(s, "insert", d, [r EXCEPT !.about = d])
  /\ UNCHANGED <<locations, sub_locations>>

InsertConflicts(s) ==
  /\ Doing(s, "insert")
  /\ \E i \in Idents : ~IdentFree(i)
  /\ req' = [req EXCEPT ![s] = Answer(@, "conflict")]
  /\ UNCHANGED <<tables, requests, faults>>

\* The live store forgets the device too: that is in LiveFeed.
DeleteRow(s) ==
  LET r == req[s] IN
  /\ \/ /\ GetDevice(r.org, r.about)
        /\ devices' = [devices EXCEPT ![r.about] = None]
        /\ WrittenBy(s, "delete", r.about, r)
        /\ UNCHANGED <<locations, sub_locations>>
     \/ /\ ~GetDevice(r.org, r.about)
        /\ ReadBy(s, "delete", FALSE, r)

InsertLocation(s, l) ==
  /\ l \notin Rows(locations)
  /\ locations' = [locations EXCEPT ![l] = [org |-> req[s].org]]
  /\ WrittenBy(s, "insert_location", "overview", req[s])
  /\ UNCHANGED <<sub_locations, devices>>

CheckLocation(s) ==
  ReadBy(s, "get_location", GetLocation(req[s].org, req[s].about), req[s])

InsertSubLocation(s, l) ==
  /\ l \notin Rows(sub_locations)
  /\ sub_locations' = [sub_locations EXCEPT ![l] = [org |-> req[s].org, loc |-> req[s].about]]
  /\ WrittenBy(s, "insert_sub_location", "overview", req[s])
  /\ UNCHANGED <<locations, devices>>

\* One list of the overview.
ReadTable(s, name, table) ==
  ReadBy(s, name, TRUE, [req[s] EXCEPT !.seen = Append(@, table)])

\* The seed command, run again, restores a seeded device whose identifier is free.
SeedDevice(d) ==
  /\ SeedDevices[d] # None /\ d \notin Rows(devices)
  /\ IdentFree(SeedDevices[d].ident)
  /\ devices' = [devices EXCEPT ![d] = SeedDevices[d]]
  /\ req' = Disturb(None, d)
  /\ UNCHANGED <<locations, sub_locations, requests, faults>>

Handle(s) ==
  \/ StatementFails(s) \/ Leave(s)
  \/ CheckSubLocation(s) \/ ReadDevice(s) \/ CreatedDeviceGone(s)
  \/ \E f \in Fields : UpdateColumn(s, f)
  \/ \E i \in Idents : \E d \in Devs : InsertDevice(s, i, d)
  \/ InsertConflicts(s) \/ DeleteRow(s)
  \/ \E l \in Locs : InsertLocation(s, l)
  \/ CheckLocation(s) \/ \E l \in Subs : InsertSubLocation(s, l)
  \/ ReadTable(s, "locations", locations)
  \/ ReadTable(s, "sub_locations", sub_locations)
  \/ ReadTable(s, "devices", devices)

Next ==
  \/ \E s \in Slots : Handle(s) \/ ListInternalOrganizations(s)
  \/ \E s \in Slots : \E o \in Orgs :
       \/ \E d \in Devs : DeleteDevice(s, o, d) \/ \E body \in Bodies : PatchDevice(s, o, d, body)
       \/ \E body \in Bodies : CreateDevice(s, o, body)
       \/ CreateLocation(s, o)
       \/ \E l \in Locs : CreateSubLocation(s, o, l)
  \/ \E d \in Devs : SeedDevice(d)

Spec == Init /\ [][Next]_vars

----------------------------------------------------------------------------

Table == [Locs -> Location \cup {None}] \cup [Subs -> SubLocation \cup {None}]
           \cup [Devs -> Device \cup {None}]
Steps == {"check", "get", "name", "status", "sub", "reget", "insert", "delete", "get_location",
          "insert_location", "insert_sub_location", "locations", "sub_locations", "devices"}
Request ==
  [kind : {"none", "patch", "create", "delete", "location", "sub_location", "overview"},
   org : Orgs, about : Locs \cup Devs \cup {"overview", None}, body : Body, todo : SUBSET Steps,
   answer : {"none", "ok", "not_found", "conflict", "failed"},
   before : Device \cup {None}, disturbed : BOOLEAN, seen : Seq(Table)]

TypeOK ==
  /\ locations \in [Locs -> Location \cup {None}]
  /\ sub_locations \in [Subs -> SubLocation \cup {None}]
  /\ devices \in [Devs -> Device \cup {None}]
  /\ \A d, e \in Rows(devices) : devices[d].ident = devices[e].ident => d = e
  /\ req \in [Slots -> Request]
  /\ requests \in 0..MaxRequests /\ faults \in 0..MaxFaults

\* A row of one organization never refers to a row of another: a device's
\* sub-location, and a sub-location's location, belong to the same organization.
\* The foreign keys do not say so; the handlers' checks must (GetSubLocation and
\* GetLocation with the caller's organization before each write).
SameOrganization ==
  /\ \A d \in Rows(devices) : devices[d].sub # None =>
       /\ devices[d].sub \in Rows(sub_locations)
       /\ sub_locations[devices[d].sub].org = devices[d].org
  /\ \A l \in Rows(sub_locations) :
       /\ sub_locations[l].loc \in Rows(locations)
       /\ locations[sub_locations[l].loc].org = sub_locations[l].org

\* The device as a PATCH leaves it once the first k columns are written.
Patched(row, body, k) ==
  [row EXCEPT !.name = IF k >= 1 /\ body.name # None THEN body.name ELSE @,
              !.status = IF k >= 2 /\ body.status # None THEN body.status ELSE @,
              !.sub = IF k >= 3 /\ body.sub # None THEN Value(body, "sub") ELSE @]

\* What the answer to a PATCH tells about the device, when nobody else wrote it
\* meanwhile: after 200 every field of the body is written; after 404 nothing is,
\* be it the device or the sub-location that was not found; after 500 the columns
\* before the failed statement are, and stay, written (UpdateDevice, no transaction).
PatchAnswers ==
  \A s \in Slots :
    LET r == req[s] IN
    r.kind = "patch" /\ ~r.disturbed =>
      /\ r.answer = "ok" => devices[r.about] = Patched(r.before, r.body, 3)
      /\ r.answer = "not_found" => devices[r.about] = r.before
      /\ r.answer = "failed" =>
           \/ devices[r.about] = r.before
           \/ \E k \in 1..3 : devices[r.about] = Patched(r.before, r.body, k)

\* organizationOverviewList: the counts shown for organization o.  Mutant: only
\* active devices count.
ActiveDevices(seen, o) ==
  {d \in Rows(seen[3]) : seen[3][d].org = o /\ seen[3][d].status = "active"}
DeviceCount(seen, o) == {d \in Rows(seen[3]) : seen[3][d].org = o}
Unassigned(seen, o) == {d \in DeviceCount(seen, o) : seen[3][d].sub = None}
\* Summed over the sub-locations listed under the locations listed under o.
SubsOf(seen, o) ==
  {l \in Rows(seen[2]) : seen[2][l].loc \in Rows(seen[1]) /\ seen[1][seen[2][l].loc].org = o}
InSubs(seen, o) == {d \in Rows(seen[3]) : seen[3][d].sub \in SubsOf(seen, o)}

\* In an overview, the devices counted under an organization's sub-locations and
\* the unassigned ones never exceed its device count, and make it up exactly unless
\* a location or sub-location was created while the tables were read one by one.
OverviewSums ==
  \A s \in Slots : \A o \in Orgs :
    LET seen == req[s].seen IN
    req[s].kind = "overview" /\ req[s].answer = "ok" =>
      /\ InSubs(seen, o) \cup Unassigned(seen, o) \subseteq DeviceCount(seen, o)
      /\ req[s].disturbed \/ InSubs(seen, o) \cup Unassigned(seen, o) = DeviceCount(seen, o)
=============================================================================
