--------------------------- MODULE CatalogueProofs ---------------------------
(* Theorems about locations, sub-locations and devices, for any number of    *)
(* organizations, rows and concurrent requests.                              *)
EXTENDS Catalogue, TLAPS

\* The rows the seed command refers to stay: nothing deletes a location or sub-location.
SeedStays ==
  \A l \in Subs : SeedSubs[l] # None => sub_locations[l] = SeedSubs[l]

\* What is behind a request by the time it writes: its fields are present, and the
\* sub-location and the location it will refer to were found in its organization.
Ready(r) ==
  /\ "name" \in r.todo => r.body.name # None
  /\ "status" \in r.todo => r.body.status # None
  /\ "insert" \in r.todo => /\ r.body.name # None /\ r.body.status # None
                            /\ "insert_sub_location" \notin r.todo
  /\ r.body.sub \in Subs /\ ("sub" \in r.todo \/ "insert" \in r.todo) =>
       "check" \in r.todo \/ GetSubLocation(r.org, r.body.sub)
  /\ "insert_sub_location" \in r.todo =>
       /\ r.about \in Locs
       /\ "get_location" \in r.todo \/ GetLocation(r.org, r.about)

IInv == TypeOK /\ SameOrganization /\ SeedStays /\ \A s \in Slots : Ready(req[s])

\* An empty slot has the type of a request, with nothing to do.
LEMMA NoReqIsRequest == NoReq \in Request /\ NoReq.todo = {}
<1>1. (CHOOSE o \in Orgs : TRUE) \in Orgs
  BY BodiesAssumption
<1>2. NoBody \in Body
  BY DEF NoBody, Body
<1>3. <<>> \in Seq(Table)
  OBVIOUS
<1> QED
  BY <1>1, <1>2, <1>3 DEF NoReq, Request

\* The invariant holds of the rows the seed command wrote.
LEMMA InitHolds == Init => IInv
<1> SUFFICES ASSUME Init PROVE IInv
  OBVIOUS
<1>1. TypeOK
  BY NoReqIsRequest, SeedAssumption, SeedRowsAssumption, BoundsAssumption
  DEF Init, TypeOK, Rows
<1>2. SameOrganization
  BY SeedAssumption, SeedRowsAssumption DEF Init, SameOrganization, Rows, SubLocation, Device
<1>3. SeedStays
  BY DEF Init, SeedStays
<1>4. \A s \in Slots : Ready(req[s])
  BY NoReqIsRequest DEF Init, Ready
<1> QED
  BY <1>1, <1>2, <1>3, <1>4 DEF IInv

----------------------------------------------------------------------------
(* What a step does to the requests.                                       *)

\* Locations and sub-locations are only added.
Grow ==
  /\ \A l \in Rows(locations) : l \in Rows(locations)' /\ locations'[l] = locations[l]
  /\ \A l \in Rows(sub_locations) :
       l \in Rows(sub_locations)' /\ sub_locations'[l] = sub_locations[l]

\* A request goes on: it has fewer statements to run, and if it has done a check,
\* the row was found.
GoesOn(r, q) ==
  \/ q.todo = {}
  \/ /\ q.org = r.org /\ q.body = r.body /\ q.todo \subseteq r.todo
     /\ q.about = r.about \/ "insert_sub_location" \notin r.todo
     /\ "check" \in r.todo \ q.todo => GetSubLocation(r.org, r.body.sub)
     /\ "get_location" \in r.todo \ q.todo => GetLocation(r.org, r.about)

\* A request that goes on stays ready, whatever rows are added.
LEMMA GoingOnStaysReady ==
  ASSUME Grow, NEW s \in Slots, Ready(req[s]), GoesOn(req[s], req'[s])
  PROVE  Ready(req[s])'
BY DEF Grow, Ready, GoesOn, GetSubLocation, GetLocation

\* The statement that is done leaves the others; after the last the answer is "ok".
LEMMA AdvanceGoesOn ==
  ASSUME NEW r \in Request, NEW step
  PROVE  /\ Advance(r, step) \in Request
         /\ Advance(r, step).org = r.org /\ Advance(r, step).body = r.body
         /\ Advance(r, step).about = r.about
         /\ Advance(r, step).todo = r.todo \ {step}
BY DEF Advance, Answer, Request

\* An answered request has nothing left to write.
LEMMA AnswerEnds ==
  ASSUME NEW r \in Request, NEW a \in {"ok", "not_found", "conflict", "failed"}
  PROVE  Answer(r, a) \in Request /\ Answer(r, a).todo = {}
BY DEF Answer, Request

\* A read.
LEMMA ReadGoesOn ==
  ASSUME IInv, NEW s \in Slots, NEW step, NEW found \in BOOLEAN, NEW r \in Request,
         r.org = req[s].org, r.body = req[s].body, r.about = req[s].about,
         r.todo = req[s].todo, ReadBy(s, step, found, r),
         found /\ step = "check" => GetSubLocation(r.org, r.body.sub),
         found /\ step = "get_location" => GetLocation(r.org, r.about)
  PROVE  /\ req' \in [Slots -> Request]
         /\ \A t \in Slots : GoesOn(req[t], req'[t])
<1> DEFINE q == IF found THEN Advance(r, step) ELSE Answer(r, "not_found")
<1>1. req \in [Slots -> Request] /\ req' = [req EXCEPT ![s] = q]
  BY DEF IInv, TypeOK, ReadBy
<1>2. q \in Request
  BY AdvanceGoesOn, AnswerEnds
<1>3. GoesOn(req[s], q)
  BY AdvanceGoesOn, AnswerEnds DEF GoesOn
<1>4. \A t \in Slots : GoesOn(req[t], req[t])
  BY DEF GoesOn
<1> HIDE DEF q
<1> QED
  BY <1>1, <1>2, <1>3, <1>4

\* A write notes the disturbance in the other requests and advances its own.
LEMMA WriteGoesOn ==
  ASSUME IInv, NEW s \in Slots, NEW step, step \notin {"check", "get_location"},
         NEW x, NEW r \in Request,
         r.org = req[s].org, r.body = req[s].body, r.todo = req[s].todo,
         r.about = req[s].about \/ "insert_sub_location" \notin req[s].todo,
         WrittenBy(s, step, x, r)
  PROVE  /\ req' \in [Slots -> Request]
         /\ \A t \in Slots : GoesOn(req[t], req'[t])
         /\ faults' \in 0..MaxFaults /\ requests' = requests
<1>1. req \in [Slots -> Request] /\ faults \in 0..MaxFaults
  BY DEF IInv, TypeOK
<1>2. Disturb(s, x) \in [Slots -> Request]
      /\ \A t \in Slots : /\ Disturb(s, x)[t].org = req[t].org
                          /\ Disturb(s, x)[t].body = req[t].body
                          /\ Disturb(s, x)[t].about = req[t].about
                          /\ Disturb(s, x)[t].todo = req[t].todo
  <2> DEFINE D(t) == req[t].disturbed \/ (t # s /\ req[t].about = x)
  <2>1. Disturb(s, x) = [t \in Slots |-> [req[t] EXCEPT !.disturbed = D(t)]]
    BY DEF Disturb
  <2>2. \A t \in Slots : D(t) \in BOOLEAN
    OBVIOUS
  <2> HIDE DEF D
  <2>3. \A t \in Slots : [req[t] EXCEPT !.disturbed = D(t)] \in Request
    BY <1>1, <2>2 DEF Request
  <2>4. ASSUME NEW t \in Slots
        PROVE  /\ Disturb(s, x)[t].org = req[t].org
               /\ Disturb(s, x)[t].body = req[t].body
               /\ Disturb(s, x)[t].about = req[t].about
               /\ Disturb(s, x)[t].todo = req[t].todo
    BY <1>1, <2>1 DEF Request
  <2> QED
    BY <2>1, <2>3, <2>4
<1>3. PICK q \in {Advance(r, step), Answer(r, "failed")} :
        req' = [Disturb(s, x) EXCEPT ![s] = q]
  BY DEF WrittenBy
<1>4. q \in Request /\ GoesOn(req[s], q)
  BY AdvanceGoesOn, AnswerEnds DEF GoesOn
<1>5. \A t \in Slots \ {s} : req'[t] = Disturb(s, x)[t]
  BY <1>2, <1>3
<1>6. \A t \in Slots : GoesOn(req[t], req'[t])
  BY <1>2, <1>3, <1>4, <1>5 DEF GoesOn
<1>7. faults' \in 0..MaxFaults /\ requests' = requests
  BY <1>1, BoundsAssumption DEF WrittenBy
<1> QED
  BY <1>2, <1>3, <1>4, <1>6, <1>7

----------------------------------------------------------------------------
(* What a step does to the tables.                                         *)

\* Nothing is written: only the requests, which go on, and the counters.
LEMMA OnlyRequests ==
  ASSUME IInv, UNCHANGED tables, req' \in [Slots -> Request],
         \A t \in Slots : GoesOn(req[t], req'[t]) \/ Ready(req[t])',
         requests' \in 0..MaxRequests, faults' \in 0..MaxFaults
  PROVE  IInv'
<1>1. Grow
  BY DEF Grow, tables, Rows
<1>2. TypeOK' /\ SameOrganization' /\ SeedStays'
  BY DEF IInv, TypeOK, SameOrganization, SeedStays, tables, Rows
<1> QED
  BY <1>1, <1>2, GoingOnStaysReady DEF IInv

\* A table of locations or sub-locations gets a row; the requests go on.
LEMMA RowAdded ==
  ASSUME IInv, Grow, UNCHANGED devices, req' \in [Slots -> Request],
         \A t \in Slots : GoesOn(req[t], req'[t]),
         locations' \in [Locs -> Location \cup {None}],
         sub_locations' \in [Subs -> SubLocation \cup {None}],
         \A l \in Rows(sub_locations)' : l \in Rows(sub_locations) \/
           (/\ sub_locations'[l].loc \in Rows(locations)
            /\ locations[sub_locations'[l].loc].org = sub_locations'[l].org),
         requests' = requests, faults' \in 0..MaxFaults
  PROVE  IInv'
<1>1. TypeOK'
  BY DEF IInv, TypeOK, Rows
<1>2. SameOrganization'
  BY DEF IInv, SameOrganization, Grow, Rows
<1>3. SeedStays'
  <2>1. \A l \in Subs : sub_locations[l] # None => sub_locations'[l] = sub_locations[l]
    BY DEF IInv, TypeOK, Grow, Rows
  <2> QED
    BY <2>1 DEF IInv, SeedStays
<1> QED
  BY <1>1, <1>2, <1>3, GoingOnStaysReady DEF IInv

\* One device row is written, deleted or created; the requests go on.
LEMMA DeviceWritten ==
  ASSUME IInv, NEW d \in Devs, NEW row \in Device \cup {None},
         devices' = [devices EXCEPT ![d] = row], UNCHANGED <<locations, sub_locations>>,
         row # None => /\ \A e \in Rows(devices) \ {d} : devices[e].ident # row.ident
                       /\ row.sub # None => GetSubLocation(row.org, row.sub),
         req' \in [Slots -> Request], \A t \in Slots : GoesOn(req[t], req'[t]),
         requests' = requests, faults' \in 0..MaxFaults
  PROVE  IInv'
<1>1. Grow
  BY DEF Grow, Rows
<1>2. devices \in [Devs -> Device \cup {None}]
  BY DEF IInv, TypeOK
<1>3. TypeOK'
  <2>1. devices' \in [Devs -> Device \cup {None}]
    BY <1>2
  <2>2. \A e, f \in Rows(devices)' : devices'[e].ident = devices'[f].ident => e = f
    BY <1>2 DEF IInv, TypeOK, Rows
  <2> QED
    BY <2>1, <2>2 DEF IInv, TypeOK
<1>4. SameOrganization'
  BY <1>2 DEF IInv, SameOrganization, GetSubLocation, Rows
<1>5. SeedStays'
  BY DEF IInv, SeedStays
<1> QED
  BY <1>1, <1>3, <1>4, <1>5, GoingOnStaysReady DEF IInv

----------------------------------------------------------------------------
(* The steps of Next.                                                      *)

\* A request arrives in slot s.
NewRequest(s) ==
  \/ ListInternalOrganizations(s)
  \/ \E o \in Orgs :
       \/ \E d \in Devs : DeleteDevice(s, o, d) \/ \E body \in Bodies : PatchDevice(s, o, d, body)
       \/ \E body \in Bodies : CreateDevice(s, o, body)
       \/ CreateLocation(s, o)
       \/ \E l \in Locs : CreateSubLocation(s, o, l)

\* The new request has everything before it, the checks first.
LEMMA ArrivesKeeps ==
  ASSUME IInv, NEW s \in Slots, NEW kind, NEW o \in Orgs, NEW x, NEW body \in Body,
         NEW todo \in SUBSET Steps, Arrives(s, kind, o, x, body, todo),
         kind \in {"patch", "create", "delete", "location", "sub_location", "overview"},
         x \in Locs \cup Devs \cup {"overview", None},
         Ready([NoReq EXCEPT !.kind = kind, !.org = o, !.about = x, !.body = body,
                             !.todo = todo, !.before = IF x \in Devs THEN devices[x] ELSE None])
  PROVE  IInv'
<1> DEFINE q == [NoReq EXCEPT !.kind = kind, !.org = o, !.about = x, !.body = body,
                              !.todo = todo, !.before = IF x \in Devs THEN devices[x] ELSE None]
<1>1. req \in [Slots -> Request] /\ req' = [req EXCEPT ![s] = q] /\ UNCHANGED <<tables, faults>>
  BY DEF IInv, TypeOK, Arrives
<1>2. q \in Request
  <2> DEFINE b == IF x \in Devs THEN devices[x] ELSE None
  <2>1. b \in Device \cup {None}
    BY DEF IInv, TypeOK
  <2>2. NoReq \in Request
    BY NoReqIsRequest
  <2> HIDE DEF b
  <2>3. [NoReq EXCEPT !.kind = kind, !.org = o, !.about = x, !.body = body,
                      !.todo = todo, !.before = b] \in Request
    BY <2>1, <2>2 DEF Request
  <2> QED
    BY <2>3 DEF b
<1>3. requests' \in 0..MaxRequests /\ faults' \in 0..MaxFaults
  BY <1>1, BoundsAssumption DEF IInv, TypeOK, Arrives
<1>4. Ready(req[s])'
  <2>1. req'[s] = q /\ Ready(q)
    BY <1>1
  <2> HIDE DEF q
  <2> QED
    BY <1>1, <2>1 DEF Ready, GetSubLocation, GetLocation, Rows, tables
<1> HIDE DEF q
<1>5. req' \in [Slots -> Request]
  BY <1>1, <1>2
<1>6. ASSUME NEW t \in Slots PROVE GoesOn(req[t], req'[t]) \/ Ready(req[t])'
  <2>1. t # s => GoesOn(req[t], req'[t])
    BY <1>1 DEF GoesOn
  <2> QED
    BY <1>4, <2>1
<1>7. UNCHANGED tables
  BY <1>1
<1> QED
  BY <1>3, <1>5, <1>6, <1>7, OnlyRequests

\* Each kind of request is ready when it arrives.
LEMMA RequestsArrive ==
  ASSUME IInv, NEW s \in Slots, NewRequest(s)
  PROVE  IInv'
<1> DEFINE New(kind, o, x, body, todo) ==
      [NoReq EXCEPT !.kind = kind, !.org = o, !.about = x, !.body = body, !.todo = todo,
                    !.before = IF x \in Devs THEN devices[x] ELSE None]
<1>1. ASSUME NEW kind, NEW o, NEW x, NEW body, NEW todo
      PROVE  LET q == New(kind, o, x, body, todo) IN
             q.org = o /\ q.about = x /\ q.body = body /\ q.todo = todo
  BY DEF NoReq
<1>2. NoBody \in Body
  BY DEF NoBody, Body
<1>3. ASSUME NEW kind, NEW o, NEW x,
             NEW todo \in SUBSET {"delete", "insert_location", "locations", "sub_locations", "devices"}
      PROVE  Ready(New(kind, o, x, NoBody, todo))
  <2> HIDE DEF New
  <2> QED
    BY <1>1 DEF Ready
<1>4. ASSUME NEW o \in Orgs, NEW d \in Devs, NEW body \in Bodies, PatchDevice(s, o, d, body)
      PROVE  IInv'
  <2> DEFINE todo == {step \in {"check", "get", "name", "status", "sub", "reget"} : Runs(body, step)}
  <2>1. Arrives(s, "patch", o, d, body, todo) /\ todo \in SUBSET Steps /\ body \in Body
    BY <1>4, BodiesAssumption DEF PatchDevice, Steps
  <2>2. /\ "name" \in todo => body.name # None
        /\ "status" \in todo => body.status # None
        /\ "insert" \notin todo /\ "insert_sub_location" \notin todo
        /\ body.sub \in Subs => "check" \in todo
    BY DEF Runs, Fields
  <2> HIDE DEF todo
  <2>3. Ready(New("patch", o, d, body, todo))
    <3> HIDE DEF New
    <3> QED
      BY <1>1, <2>2 DEF Ready
  <2> QED
    BY <2>1, <2>3, ArrivesKeeps
<1>5. ASSUME NEW o \in Orgs, NEW body \in Bodies, CreateDevice(s, o, body)
      PROVE  IInv'
  <2> DEFINE todo == {step \in {"check", "insert", "reget"} : Runs(body, step)}
  <2>1. /\ Arrives(s, "create", o, None, body, todo) /\ todo \in SUBSET Steps /\ body \in Body
        /\ body.name # None /\ body.status # None
    BY <1>5, BodiesAssumption DEF CreateDevice, Steps
  <2>2. /\ "name" \notin todo /\ "status" \notin todo /\ "insert_sub_location" \notin todo
        /\ body.sub \in Subs => "check" \in todo
    BY DEF Runs, Fields
  <2> HIDE DEF todo
  <2>3. Ready(New("create", o, None, body, todo))
    <3> HIDE DEF New
    <3> QED
      BY <1>1, <2>1, <2>2 DEF Ready
  <2> QED
    BY <2>1, <2>3, ArrivesKeeps
<1>6. ASSUME NEW o \in Orgs, NEW d \in Devs, DeleteDevice(s, o, d) PROVE IInv'
  <2>1. Arrives(s, "delete", o, d, NoBody, {"delete"}) /\ {"delete"} \in SUBSET Steps
    BY <1>6 DEF DeleteDevice, Steps
  <2>2. Ready(New("delete", o, d, NoBody, {"delete"}))
    BY <1>3
  <2> QED
    BY <1>2, <2>1, <2>2, ArrivesKeeps
<1>7. ASSUME NEW o \in Orgs, CreateLocation(s, o) PROVE IInv'
  <2>1. Arrives(s, "location", o, None, NoBody, {"insert_location"})
        /\ {"insert_location"} \in SUBSET Steps
    BY <1>7 DEF CreateLocation, Steps
  <2>2. Ready(New("location", o, None, NoBody, {"insert_location"}))
    BY <1>3
  <2> QED
    BY <1>2, <2>1, <2>2, ArrivesKeeps
<1>8. ASSUME NEW o \in Orgs, NEW l \in Locs, CreateSubLocation(s, o, l) PROVE IInv'
  <2> DEFINE todo == {"get_location", "insert_sub_location"}
  <2>1. Arrives(s, "sub_location", o, l, NoBody, todo) /\ todo \in SUBSET Steps
    BY <1>8 DEF CreateSubLocation, Steps
  <2>2. Ready(New("sub_location", o, l, NoBody, todo))
    <3> HIDE DEF New
    <3> QED
      BY <1>1 DEF Ready
  <2> QED
    BY <1>2, <2>1, <2>2, ArrivesKeeps
<1>9. ASSUME ListInternalOrganizations(s) PROVE IInv'
  <2> DEFINE todo == {"locations", "sub_locations", "devices"}
  <2>1. PICK o \in Orgs : Arrives(s, "overview", o, "overview", NoBody, todo)
    BY <1>9 DEF ListInternalOrganizations
  <2>2. Ready(New("overview", o, "overview", NoBody, todo)) /\ todo \in SUBSET Steps
    BY <1>3 DEF Steps
  <2> QED
    BY <1>2, <2>1, <2>2, ArrivesKeeps
<1> QED
  BY <1>4, <1>5, <1>6, <1>7, <1>8, <1>9 DEF NewRequest

\* A statement after a check is run only once the check is done.
LEMMA ChecksFirst ==
  ASSUME NEW s \in Slots
  PROVE  /\ Doing(s, "sub") \/ Doing(s, "insert") => "check" \notin req[s].todo
         /\ Doing(s, "insert_sub_location") => "get_location" \notin req[s].todo
<1>1. Place("check") = 1 /\ Place("get_location") = 1 /\ Place("sub") = 6
      /\ Place("insert") = 2 /\ Place("insert_sub_location") = 2
  BY DEF Place, CheckPlace
<1> QED
  BY <1>1 DEF Doing

\* Requests that end without a write, and reads.
LEMMA ReadsKeep ==
  ASSUME IInv, NEW s \in Slots,
         \/ StatementFails(s) \/ Leave(s) \/ CreatedDeviceGone(s) \/ InsertConflicts(s)
         \/ CheckSubLocation(s) \/ ReadDevice(s) \/ CheckLocation(s)
         \/ ReadTable(s, "locations", locations)
         \/ ReadTable(s, "sub_locations", sub_locations)
         \/ ReadTable(s, "devices", devices)
  PROVE  IInv'
<1>1. /\ req \in [Slots -> Request] /\ req[s] \in Request
      /\ requests \in 0..MaxRequests /\ faults \in 0..MaxFaults
  BY DEF IInv, TypeOK
<1>2. ASSUME NEW q \in Request, q.todo = {}, req' = [req EXCEPT ![s] = q],
             UNCHANGED tables, requests' = requests, faults' \in 0..MaxFaults
      PROVE  IInv'
  <2>1. req' \in [Slots -> Request] /\ \A t \in Slots : GoesOn(req[t], req'[t])
    BY <1>1, <1>2 DEF GoesOn
  <2> QED
    BY <1>1, <1>2, <2>1, OnlyRequests
<1>3. ASSUME NEW step, NEW found \in BOOLEAN, NEW r \in Request,
             r.org = req[s].org, r.body = req[s].body, r.about = req[s].about,
             r.todo = req[s].todo, ReadBy(s, step, found, r),
             found /\ step = "check" => GetSubLocation(r.org, r.body.sub),
             found /\ step = "get_location" => GetLocation(r.org, r.about)
      PROVE  IInv'
  <2>1. req' \in [Slots -> Request] /\ \A t \in Slots : GoesOn(req[t], req'[t])
    BY <1>3, ReadGoesOn
  <2>2. UNCHANGED <<tables, requests, faults>>
    BY <1>3 DEF ReadBy
  <2> QED
    BY <1>1, <2>1, <2>2, OnlyRequests
<1>4. ASSUME StatementFails(s) PROVE IInv'
  <2>1. faults' \in 0..MaxFaults
    BY <1>1, <1>4, BoundsAssumption DEF StatementFails
  <2> QED
    BY <1>1, <1>2, <1>4, <2>1, AnswerEnds DEF StatementFails
<1>5. ASSUME Leave(s) PROVE IInv'
  BY <1>1, <1>2, <1>5, NoReqIsRequest DEF Leave
<1>6. ASSUME CreatedDeviceGone(s) \/ InsertConflicts(s) PROVE IInv'
  BY <1>1, <1>2, <1>6, AnswerEnds DEF CreatedDeviceGone, InsertConflicts
<1>7. ASSUME CheckSubLocation(s) PROVE IInv'
  <2>1. GetSubLocation(req[s].org, req[s].body.sub) \in BOOLEAN
    BY DEF GetSubLocation
  <2> QED
    BY <1>1, <1>3, <1>7, <2>1 DEF CheckSubLocation
<1>8. ASSUME ReadDevice(s) PROVE IInv'
  <2>1. GetDevice(req[s].org, req[s].about) \in BOOLEAN
    BY DEF GetDevice
  <2> QED
    BY <1>1, <1>3, <1>8, <2>1 DEF ReadDevice
<1>9. ASSUME CheckLocation(s) PROVE IInv'
  <2>1. GetLocation(req[s].org, req[s].about) \in BOOLEAN
    BY DEF GetLocation
  <2> QED
    BY <1>1, <1>3, <1>9, <2>1 DEF CheckLocation
<1>10. ASSUME NEW name \in {"locations", "sub_locations", "devices"}, NEW table \in Table,
              ReadTable(s, name, table)
       PROVE  IInv'
  <2> DEFINE r == [req[s] EXCEPT !.seen = Append(@, table)]
  <2>1. Append(req[s].seen, table) \in Seq(Table)
    BY <1>1 DEF Request
  <2>2. /\ r \in Request /\ r.org = req[s].org /\ r.body = req[s].body
        /\ r.about = req[s].about /\ r.todo = req[s].todo
    BY <1>1, <2>1 DEF Request
  <2>3. ReadBy(s, name, TRUE, r)
    BY <1>10 DEF ReadTable
  <2> QED
    BY <1>3, <2>2, <2>3
<1>11. locations \in Table /\ sub_locations \in Table /\ devices \in Table
  BY DEF IInv, TypeOK, Table
<1> QED
  BY <1>4, <1>5, <1>6, <1>7, <1>8, <1>9, <1>10, <1>11

\* Writes to devices: the new sub-location was found in the device's organization.
LEMMA DeviceWritesKeep ==
  ASSUME IInv, NEW s \in Slots,
         \/ \E f \in Fields : UpdateColumn(s, f)
         \/ \E i \in Idents : \E d \in Devs : InsertDevice(s, i, d)
         \/ DeleteRow(s)
  PROVE  IInv'
<1> DEFINE r == req[s]
<1>1. /\ req \in [Slots -> Request] /\ r \in Request /\ Ready(r)
      /\ devices \in [Devs -> Device \cup {None}]
      /\ requests \in 0..MaxRequests /\ faults \in 0..MaxFaults
  BY DEF IInv, TypeOK
<1>2. Doing(s, "sub") \/ Doing(s, "insert") =>
        Value(r.body, "sub") \in Subs \cup {None}
        /\ (Value(r.body, "sub") # None => GetSubLocation(r.org, Value(r.body, "sub")))
  <2>1. r.body.sub \in Subs \cup {"clear", None}
    BY <1>1 DEF Request, Body
  <2>2. Doing(s, "sub") \/ Doing(s, "insert") =>
          (r.body.sub \in Subs => GetSubLocation(r.org, r.body.sub))
    BY <1>1, ChecksFirst DEF Doing, Ready
  <2> QED
    BY <2>1, <2>2 DEF Value
<1>3. ASSUME NEW f \in Fields, UpdateColumn(s, f) PROVE IInv'
  <2>1. WrittenBy(s, f, r.about, r) /\ UNCHANGED <<locations, sub_locations>> /\ Doing(s, f)
    BY <1>3 DEF UpdateColumn, WrittenBy
  <2>2. /\ req' \in [Slots -> Request] /\ \A t \in Slots : GoesOn(req[t], req'[t])
        /\ faults' \in 0..MaxFaults /\ requests' = requests
    BY <1>1, <2>1, WriteGoesOn DEF Fields
  <2>3. CASE ~GetDevice(r.org, r.about)
    <3>1. UNCHANGED tables
      BY <1>3, <2>1, <2>3 DEF UpdateColumn, tables
    <3> QED
      BY <1>1, <2>2, <3>1, OnlyRequests
  <2>4. CASE GetDevice(r.org, r.about)
    <3> DEFINE old == devices[r.about]
               row == [old EXCEPT ![f] = Value(r.body, f)]
    <3>1. r.about \in Devs /\ old \in Device /\ old # None /\ old.org = r.org
      BY <1>1, <2>4 DEF GetDevice, Rows
    <3>2. devices' = [devices EXCEPT ![r.about] = row]
      BY <1>1, <1>3, <2>4, <3>1 DEF UpdateColumn
    <3>3. /\ f = "name" => Value(r.body, f) \in Names
          /\ f = "status" => Value(r.body, f) \in Statuses
          /\ old.sub # None => GetSubLocation(old.org, old.sub)
      BY <1>1, <2>1, <3>1
      DEF Request, Body, Value, Ready, Doing, IInv, SameOrganization, GetSubLocation, Rows
    <3>4. row \in Device /\ row.org = r.org /\ row.ident = old.ident
          /\ (row.sub # None => GetSubLocation(row.org, row.sub))
      <4>1. CASE f = "name"
        BY <3>1, <3>3, <4>1 DEF Device
      <4>2. CASE f = "status"
        BY <3>1, <3>3, <4>2 DEF Device
      <4>3. CASE f = "sub"
        BY <1>2, <2>1, <3>1, <4>3 DEF Device
      <4> QED
        BY <4>1, <4>2, <4>3 DEF Fields
    <3>5. \A e \in Rows(devices) \ {r.about} : devices[e].ident # row.ident
      BY <3>1, <3>4 DEF IInv, TypeOK, Rows
    <3> HIDE DEF row
    <3> QED
      BY <2>1, <2>2, <3>1, <3>2, <3>4, <3>5, DeviceWritten
  <2> QED
    BY <2>3, <2>4
<1>4. ASSUME NEW i \in Idents, NEW d \in Devs, InsertDevice(s, i, d) PROVE IInv'
  <2> DEFINE q == [r EXCEPT !.about = d]
             row == [org |-> r.org, ident |-> i, name |-> r.body.name,
                     status |-> r.body.status, sub |-> Value(r.body, "sub")]
  <2>1. /\ WrittenBy(s, "insert", d, q) /\ Doing(s, "insert") /\ IdentFree(i)
        /\ devices' = [devices EXCEPT ![d] = row] /\ UNCHANGED <<locations, sub_locations>>
    BY <1>4 DEF InsertDevice, WrittenBy
  <2>2. /\ q \in Request /\ q.org = r.org /\ q.body = r.body /\ q.todo = r.todo
        /\ "insert_sub_location" \notin r.todo
    BY <1>1, <2>1 DEF Request, Doing, Ready
  <2>3. /\ req' \in [Slots -> Request] /\ \A t \in Slots : GoesOn(req[t], req'[t])
        /\ faults' \in 0..MaxFaults /\ requests' = requests
    <3> HIDE DEF q
    <3> QED
      BY <2>1, <2>2, WriteGoesOn
  <2>4. r.org \in Orgs /\ r.body.name \in Names /\ r.body.status \in Statuses
    BY <1>1, <2>1 DEF Request, Body, Doing, Ready
  <2>5. /\ row \in Device
        /\ \A e \in Rows(devices) \ {d} : devices[e].ident # row.ident
        /\ row.sub # None => GetSubLocation(row.org, row.sub)
    BY <1>2, <2>1, <2>4 DEF Device, IdentFree
  <2> HIDE DEF row
  <2> QED
    BY <2>1, <2>3, <2>5, DeviceWritten
<1>5. ASSUME DeleteRow(s) PROVE IInv'
  <2>1. CASE GetDevice(r.org, r.about) /\ devices' = [devices EXCEPT ![r.about] = None]
             /\ WrittenBy(s, "delete", r.about, r) /\ UNCHANGED <<locations, sub_locations>>
    <3>1. /\ req' \in [Slots -> Request] /\ \A t \in Slots : GoesOn(req[t], req'[t])
          /\ faults' \in 0..MaxFaults /\ requests' = requests
      BY <1>1, <2>1, WriteGoesOn
    <3>2. r.about \in Devs
      BY <1>1, <2>1 DEF GetDevice, Rows
    <3> QED
      BY <2>1, <3>1, <3>2, DeviceWritten
  <2>2. CASE ReadBy(s, "delete", FALSE, r)
    <3>1. req' \in [Slots -> Request] /\ \A t \in Slots : GoesOn(req[t], req'[t])
      BY <1>1, <2>2, ReadGoesOn
    <3>2. UNCHANGED <<tables, requests, faults>>
      BY <2>2 DEF ReadBy
    <3> QED
      BY <1>1, <3>1, <3>2, OnlyRequests
  <2> QED
    BY <1>5, <2>1, <2>2 DEF DeleteRow
<1> QED
  BY <1>3, <1>4, <1>5

\* Writes to the other tables.
LEMMA RowsAddedKeep ==
  ASSUME IInv, NEW s \in Slots,
         \/ \E l \in Locs : InsertLocation(s, l)
         \/ \E l \in Subs : InsertSubLocation(s, l)
  PROVE  IInv'
<1>1. /\ req \in [Slots -> Request] /\ req[s] \in Request /\ Ready(req[s])
      /\ locations \in [Locs -> Location \cup {None}]
      /\ sub_locations \in [Subs -> SubLocation \cup {None}]
  BY DEF IInv, TypeOK
<1>2. ASSUME NEW l \in Locs, InsertLocation(s, l) PROVE IInv'
  <2>1. /\ l \notin Rows(locations) /\ locations' = [locations EXCEPT ![l] = [org |-> req[s].org]]
        /\ WrittenBy(s, "insert_location", "overview", req[s])
        /\ UNCHANGED <<sub_locations, devices>>
    BY <1>2 DEF InsertLocation
  <2>2. /\ req' \in [Slots -> Request] /\ \A t \in Slots : GoesOn(req[t], req'[t])
        /\ faults' \in 0..MaxFaults /\ requests' = requests
    BY <1>1, <2>1, WriteGoesOn
  <2>3. [org |-> req[s].org] \in Location
    BY <1>1 DEF Request, Location
  <2>4. locations' \in [Locs -> Location \cup {None}] /\ Grow
    BY <1>1, <2>1, <2>3 DEF Grow, Rows
  <2> QED
    BY <1>1, <2>1, <2>2, <2>4, RowAdded DEF Rows
<1>3. ASSUME NEW l \in Subs, InsertSubLocation(s, l) PROVE IInv'
  <2> DEFINE row == [org |-> req[s].org, loc |-> req[s].about]
  <2>1. /\ l \notin Rows(sub_locations) /\ sub_locations' = [sub_locations EXCEPT ![l] = row]
        /\ WrittenBy(s, "insert_sub_location", "overview", req[s])
        /\ Doing(s, "insert_sub_location") /\ UNCHANGED <<locations, devices>>
    BY <1>3 DEF InsertSubLocation, WrittenBy
  <2>2. /\ req' \in [Slots -> Request] /\ \A t \in Slots : GoesOn(req[t], req'[t])
        /\ faults' \in 0..MaxFaults /\ requests' = requests
    BY <1>1, <2>1, WriteGoesOn
  <2>3. req[s].about \in Locs /\ GetLocation(req[s].org, req[s].about)
    BY <1>1, <2>1, ChecksFirst DEF Doing, Ready
  <2>4. row \in SubLocation /\ row.loc \in Rows(locations) /\ locations[row.loc].org = row.org
    BY <1>1, <2>3 DEF Request, SubLocation, GetLocation
  <2> HIDE DEF row
  <2>5. sub_locations' \in [Subs -> SubLocation \cup {None}] /\ Grow
    BY <1>1, <2>1, <2>4 DEF Grow, Rows
  <2>6. \A k \in Rows(sub_locations)' : k \in Rows(sub_locations) \/ sub_locations'[k] = row
    BY <1>1, <2>1 DEF Rows
  <2> QED
    BY <1>1, <2>1, <2>2, <2>4, <2>5, <2>6, RowAdded
<1> QED
  BY <1>2, <1>3

\* The seed command restores a device of one organization with its sub-location.
LEMMA SeedKeeps ==
  ASSUME IInv, NEW d \in Devs, SeedDevice(d)
  PROVE  IInv'
<1> DEFINE row == SeedDevices[d]
<1>1. /\ row # None /\ row \in Device /\ IdentFree(row.ident)
      /\ devices' = [devices EXCEPT ![d] = row]
      /\ UNCHANGED <<locations, sub_locations, requests, faults>>
  BY SeedAssumption DEF SeedDevice
<1>2. row.sub # None => GetSubLocation(row.org, row.sub)
  <2>1. row.sub # None => /\ row.sub \in Subs /\ SeedSubs[row.sub] # None
                         /\ SeedSubs[row.sub].org = row.org
    BY <1>1, SeedRowsAssumption DEF Device
  <2>2. row.sub # None => sub_locations[row.sub] = SeedSubs[row.sub]
    BY <2>1 DEF IInv, SeedStays
  <2> QED
    BY <2>1, <2>2 DEF GetSubLocation, Rows, IInv, TypeOK
<1>3. req \in [Slots -> Request] /\ faults \in 0..MaxFaults
  BY DEF IInv, TypeOK
<1>4. req' \in [Slots -> Request] /\ \A t \in Slots : GoesOn(req[t], req'[t])
  <2> DEFINE D(t) == req[t].disturbed \/ (t # None /\ req[t].about = d)
  <2>1. req' = [t \in Slots |-> [req[t] EXCEPT !.disturbed = D(t)]]
    BY DEF SeedDevice, Disturb
  <2>2. \A t \in Slots : D(t) \in BOOLEAN
    OBVIOUS
  <2> HIDE DEF D
  <2>3. ASSUME NEW t \in Slots PROVE [req[t] EXCEPT !.disturbed = D(t)] \in Request
    <3>1. req[t] \in Request /\ D(t) \in BOOLEAN
      BY <1>3, <2>2
    <3> QED
      BY <3>1 DEF Request
  <2>4. ASSUME NEW t \in Slots PROVE GoesOn(req[t], req'[t])
    BY <1>3, <2>1 DEF GoesOn, Request
  <2> QED
    BY <2>1, <2>3, <2>4
<1>5. \A e \in Rows(devices) \ {d} : devices[e].ident # row.ident
  BY <1>1 DEF IdentFree
<1> HIDE DEF row
<1> QED
  BY <1>1, <1>2, <1>3, <1>4, <1>5, DeviceWritten

\* Every step keeps the invariant.
LEMMA Inductive == Spec => []IInv
<1>1. IInv /\ [Next]_vars => IInv'
  <2> SUFFICES ASSUME IInv, [Next]_vars PROVE IInv'
    OBVIOUS
  <2>1. CASE UNCHANGED vars
    <3>1. req' \in [Slots -> Request] /\ \A t \in Slots : GoesOn(req[t], req'[t])
      BY <2>1 DEF IInv, TypeOK, vars, GoesOn
    <3> QED
      BY <2>1, <3>1, OnlyRequests DEF vars, tables, IInv, TypeOK
  <2>2. CASE Next
    BY <2>2, RequestsArrive, ReadsKeep, DeviceWritesKeep, RowsAddedKeep, SeedKeeps
    DEF Next, Handle, NewRequest
  <2> QED
    BY <2>1, <2>2
<1> QED
  BY <1>1, InitHolds, PTL DEF Spec

\* Tables and requests have their types, and an identifier belongs to one device.
THEOREM CatalogueTypeCorrect == Spec => []TypeOK
<1>1. IInv => TypeOK
  BY DEF IInv
<1> QED
  BY <1>1, Inductive, PTL

\* Rows of one organization refer only to rows of the same one, however the
\* statements of any number of requests interleave and fail.
THEOREM TenantsStaySeparate == Spec => []SameOrganization
<1>1. IInv => SameOrganization
  BY DEF IInv
<1> QED
  BY <1>1, Inductive, PTL
----------------------------------------------------------------------------
(* What a step does to the requests it does not run.                       *)

\* A request that waits is the same, but for the note that it was disturbed.
Waits(r, q) ==
  /\ q.kind = r.kind /\ q.org = r.org /\ q.about = r.about /\ q.body = r.body
  /\ q.todo = r.todo /\ q.answer = r.answer /\ q.before = r.before /\ q.seen = r.seen
  /\ r.disturbed => q.disturbed

\* While a request waits undisturbed, nobody adds a location if it is an overview,
\* and nobody writes the device it is about.
LeftAlone(t) ==
  /\ Waits(req[t], req'[t])
  /\ ~req'[t].disturbed /\ req[t].about = "overview" => UNCHANGED <<locations, sub_locations>>
  /\ ~req'[t].disturbed /\ req[t].about \in Devs =>
       devices'[req[t].about] = devices[req[t].about]

\* A step that leaves the tables and the request alone.
LEMMA NothingWritten ==
  ASSUME NEW t \in Slots, req'[t] = req[t], UNCHANGED tables
  PROVE  LeftAlone(t)
BY DEF LeftAlone, Waits, tables

\* Who is about the row that is written notes it.
LEMMA Disturbed ==
  ASSUME req \in [Slots -> Request], NEW t \in Slots, NEW s, t # s, NEW x
  PROVE  /\ Waits(req[t], Disturb(s, x)[t])
         /\ req[t].about = x => Disturb(s, x)[t].disturbed
<1> DEFINE D == req[t].disturbed \/ (t # s /\ req[t].about = x)
<1>1. Disturb(s, x)[t] = [req[t] EXCEPT !.disturbed = D]
  BY DEF Disturb
<1>2. D \in BOOLEAN /\ (req[t].disturbed => D) /\ (req[t].about = x => D)
  OBVIOUS
<1> HIDE DEF D
<1> QED
  BY <1>1, <1>2 DEF Waits, Request

\* A write by one request disturbs the others that are about the row.
LEMMA WriteDisturbs ==
  ASSUME req \in [Slots -> Request], NEW s \in Slots, NEW t \in Slots \ {s},
         NEW step, NEW x, NEW r, WrittenBy(s, step, x, r)
  PROVE  Waits(req[t], req'[t]) /\ (req[t].about = x => req'[t].disturbed)
<1>1. req'[t] = Disturb(s, x)[t]
  BY DEF WrittenBy, Disturb
<1> QED
  BY <1>1, Disturbed

\* A request waits while another arrives or runs a statement.
LEMMA OthersWait ==
  ASSUME IInv, NEW s \in Slots, NEW t \in Slots \ {s},
         Handle(s) \/ NewRequest(s)
  PROVE  LeftAlone(t)
<1>0. req \in [Slots -> Request] /\ devices \in [Devs -> Device \cup {None}]
  BY DEF IInv, TypeOK
<1>1. ASSUME NEW kind, NEW o, NEW x, NEW body, NEW todo, Arrives(s, kind, o, x, body, todo)
      PROVE  LeftAlone(t)
  BY <1>0, <1>1, NothingWritten DEF Arrives
<1>2. ASSUME NEW step, NEW found, NEW r, ReadBy(s, step, found, r) PROVE LeftAlone(t)
  BY <1>0, <1>2, NothingWritten DEF ReadBy
<1>3. ASSUME StatementFails(s) \/ Leave(s) \/ CreatedDeviceGone(s) \/ InsertConflicts(s)
      PROVE  LeftAlone(t)
  BY <1>0, <1>3, NothingWritten DEF StatementFails, Leave, CreatedDeviceGone, InsertConflicts
<1>4. ASSUME NEW step, NEW x, NEW r, WrittenBy(s, step, x, r),
             UNCHANGED <<locations, sub_locations>>,
             \A d \in Devs \ {x} : devices'[d] = devices[d]
      PROVE  LeftAlone(t)
  BY <1>0, <1>4, WriteDisturbs DEF LeftAlone
<1>5. ASSUME NEW step, NEW r, WrittenBy(s, step, "overview", r), UNCHANGED devices
      PROVE  LeftAlone(t)
  BY <1>0, <1>5, WriteDisturbs DEF LeftAlone
<1>6. ASSUME NEW f \in Fields, UpdateColumn(s, f) PROVE LeftAlone(t)
  <2>1. \A d \in Devs \ {req[s].about} : devices'[d] = devices[d]
    BY <1>0, <1>6 DEF UpdateColumn
  <2> QED
    BY <1>4, <1>6, <2>1 DEF UpdateColumn
<1>7. ASSUME NEW i \in Idents, NEW d \in Devs, InsertDevice(s, i, d) PROVE LeftAlone(t)
  <2>1. \A e \in Devs \ {d} : devices'[e] = devices[e]
    BY <1>0, <1>7 DEF InsertDevice
  <2> QED
    BY <1>4, <1>7, <2>1 DEF InsertDevice
<1>8. ASSUME DeleteRow(s) PROVE LeftAlone(t)
  <2>1. CASE devices' = [devices EXCEPT ![req[s].about] = None]
             /\ WrittenBy(s, "delete", req[s].about, req[s])
             /\ UNCHANGED <<locations, sub_locations>>
    <3>1. \A d \in Devs \ {req[s].about} : devices'[d] = devices[d]
      BY <1>0, <2>1
    <3> QED
      BY <1>4, <2>1, <3>1
  <2> QED
    BY <1>2, <1>8, <2>1 DEF DeleteRow
<1>9. ASSUME NEW l \in Locs, InsertLocation(s, l) PROVE LeftAlone(t)
  BY <1>5, <1>9 DEF InsertLocation
<1>10. ASSUME NEW l \in Subs, InsertSubLocation(s, l) PROVE LeftAlone(t)
  BY <1>5, <1>10 DEF InsertSubLocation
<1>11. ASSUME \/ CheckSubLocation(s) \/ ReadDevice(s) \/ CheckLocation(s)
              \/ ReadTable(s, "locations", locations)
              \/ ReadTable(s, "sub_locations", sub_locations)
              \/ ReadTable(s, "devices", devices)
       PROVE  LeftAlone(t)
  BY <1>2, <1>11 DEF CheckSubLocation, ReadDevice, CheckLocation, ReadTable
<1>12. CASE Handle(s)
  BY <1>3, <1>6, <1>7, <1>8, <1>9, <1>10, <1>11, <1>12 DEF Handle
<1> QED
  BY <1>1, <1>12 DEF NewRequest, ListInternalOrganizations, DeleteDevice, PatchDevice,
     CreateDevice, CreateLocation, CreateSubLocation

\* The seed command disturbs the requests about the device it restores.
LEMMA SeedDisturbs ==
  ASSUME IInv, NEW d \in Devs, SeedDevice(d), NEW t \in Slots
  PROVE  LeftAlone(t)
<1>1. /\ req' = Disturb(None, d) /\ UNCHANGED <<locations, sub_locations>>
      /\ \A e \in Devs \ {d} : devices'[e] = devices[e]
  BY DEF SeedDevice, IInv, TypeOK
<1>2. Waits(req[t], req'[t]) /\ (req[t].about = d => req'[t].disturbed)
  BY <1>1, Disturbed, NullAssumption DEF IInv, TypeOK
<1> QED
  BY <1>1, <1>2 DEF LeftAlone

----------------------------------------------------------------------------
(* What a step does to the request it runs.                                *)

\* A request that runs stays what it was asked for.
SameAsked(r, q) ==
  /\ q.kind = r.kind /\ q.org = r.org /\ q.body = r.body
  /\ q.before = r.before /\ q.disturbed = r.disturbed

\* Advance and Answer only touch what is left to do and the answer.
LEMMA AdvanceRuns ==
  ASSUME NEW r \in Request, NEW step, NEW a
  PROVE  /\ SameAsked(r, Advance(r, step)) /\ SameAsked(r, Answer(r, a))
         /\ Advance(r, step).about = r.about /\ Answer(r, a).about = r.about
         /\ Advance(r, step).seen = r.seen /\ Answer(r, a).seen = r.seen
         /\ Answer(r, a).todo = {} /\ Answer(r, a).answer = a
         /\ IF r.todo = {step} THEN Advance(r, step) = Answer(r, "ok")
            ELSE /\ Advance(r, step).todo = r.todo \ {step}
                 /\ Advance(r, step).answer = r.answer
BY DEF Advance, Answer, Request, SameAsked

\* A write by the request itself.
LEMMA WriterRuns ==
  ASSUME req \in [Slots -> Request], NEW s \in Slots, NEW step, NEW x, NEW r \in Request,
         WrittenBy(s, step, x, r)
  PROVE  req'[s] = Advance(r, step) \/ req'[s] = Answer(r, "failed")
<1>1. s \in DOMAIN Disturb(s, x)
  BY DEF Disturb
<1> QED
  BY <1>1 DEF WrittenBy, Disturb

\* Whatever the request in a slot does, it is still the same request or it leaves.
LEMMA SameRequest ==
  ASSUME IInv, NEW s \in Slots, Handle(s)
  PROVE  req'[s] = NoReq \/ SameAsked(req[s], req'[s])
<1>0. req \in [Slots -> Request] /\ req[s] \in Request
  BY DEF IInv, TypeOK
<1>1. ASSUME NEW step, NEW found, NEW r \in Request, ReadBy(s, step, found, r),
             SameAsked(req[s], r)
      PROVE  SameAsked(req[s], req'[s])
  <2>1. req'[s] = Advance(r, step) \/ req'[s] = Answer(r, "not_found")
    BY <1>0, <1>1 DEF ReadBy
  <2> QED
    BY <1>1, <2>1, AdvanceRuns DEF SameAsked
<1>2. ASSUME NEW step, NEW x, NEW r \in Request, WrittenBy(s, step, x, r),
             SameAsked(req[s], r)
      PROVE  SameAsked(req[s], req'[s])
  BY <1>0, <1>2, WriterRuns, AdvanceRuns DEF SameAsked
<1>3. SameAsked(req[s], req[s])
  BY DEF SameAsked
<1>4. ASSUME StatementFails(s) \/ CreatedDeviceGone(s) \/ InsertConflicts(s)
      PROVE  SameAsked(req[s], req'[s])
  BY <1>0, <1>4, AdvanceRuns DEF StatementFails, CreatedDeviceGone, InsertConflicts
<1>5. ASSUME Leave(s) PROVE req'[s] = NoReq
  BY <1>0, <1>5 DEF Leave
<1>6. ASSUME CheckSubLocation(s) \/ ReadDevice(s) \/ CheckLocation(s)
      PROVE  SameAsked(req[s], req'[s])
  BY <1>0, <1>1, <1>3, <1>6 DEF CheckSubLocation, ReadDevice, CheckLocation
<1>7. ASSUME NEW name, NEW table \in Table, ReadTable(s, name, table)
      PROVE  SameAsked(req[s], req'[s])
  <2> DEFINE r == [req[s] EXCEPT !.seen = Append(@, table)]
  <2>1. r \in Request /\ SameAsked(req[s], r)
    <3>1. Append(req[s].seen, table) \in Seq(Table)
      BY <1>0 DEF Request
    <3> QED
      BY <1>0, <3>1 DEF Request, SameAsked
  <2>2. ReadBy(s, name, TRUE, r)
    BY <1>7 DEF ReadTable
  <2> QED
    BY <1>1, <2>1, <2>2
<1>8. locations \in Table /\ sub_locations \in Table /\ devices \in Table
  BY DEF IInv, TypeOK, Table
<1>9. ASSUME NEW i \in Idents, NEW d \in Devs, InsertDevice(s, i, d)
      PROVE  SameAsked(req[s], req'[s])
  <2> DEFINE r == [req[s] EXCEPT !.about = d]
  <2>1. r \in Request /\ SameAsked(req[s], r)
    BY <1>0 DEF Request, SameAsked
  <2>2. WrittenBy(s, "insert", d, r)
    BY <1>9 DEF InsertDevice
  <2> QED
    BY <1>2, <2>1, <2>2
<1>10. ASSUME \/ \E f \in Fields : UpdateColumn(s, f)
              \/ DeleteRow(s)
              \/ \E l \in Locs : InsertLocation(s, l)
              \/ \E l \in Subs : InsertSubLocation(s, l)
       PROVE  SameAsked(req[s], req'[s])
  BY <1>0, <1>1, <1>2, <1>3, <1>10 DEF UpdateColumn, DeleteRow, InsertLocation,
     InsertSubLocation
<1> QED
  BY <1>4, <1>5, <1>6, <1>7, <1>8, <1>9, <1>10 DEF Handle

\* A step of a request is an end, or the statement whose turn it is.
LEMMA StatementsDone ==
  ASSUME NEW s \in Slots, Handle(s)
  PROVE  \/ StatementFails(s) \/ Leave(s)
         \/ Doing(s, "check") /\ CheckSubLocation(s)
         \/ (Doing(s, "get") \/ Doing(s, "reget")) /\ (ReadDevice(s) \/ CreatedDeviceGone(s))
         \/ \E f \in Fields : Doing(s, f) /\ UpdateColumn(s, f)
         \/ Doing(s, "insert") \/ Doing(s, "delete") \/ Doing(s, "insert_location")
         \/ Doing(s, "get_location") \/ Doing(s, "insert_sub_location")
         \/ Doing(s, "locations") /\ ReadTable(s, "locations", locations)
         \/ Doing(s, "sub_locations") /\ ReadTable(s, "sub_locations", sub_locations)
         \/ Doing(s, "devices") /\ ReadTable(s, "devices", devices)
BY DEF Handle, CheckSubLocation, ReadDevice, CreatedDeviceGone, UpdateColumn, InsertDevice,
   InsertConflicts, DeleteRow, InsertLocation, CheckLocation, InsertSubLocation, ReadTable,
   ReadBy, WrittenBy

\* Locations and sub-locations are only added.
LEMMA StepGrows == IInv /\ [Next]_vars => Grow
<1> SUFFICES ASSUME IInv, [Next]_vars PROVE Grow
  OBVIOUS
<1>0. /\ locations \in [Locs -> Location \cup {None}]
      /\ sub_locations \in [Subs -> SubLocation \cup {None}]
  BY DEF IInv, TypeOK
<1>1. CASE UNCHANGED <<locations, sub_locations>>
  BY <1>1 DEF Grow, Rows
<1>2. ASSUME NEW s \in Slots, NEW l \in Locs, InsertLocation(s, l) PROVE Grow
  <2>1. [org |-> req[s].org] \in Location
    BY <1>2 DEF IInv, TypeOK, Request, Location
  <2>2. /\ l \notin Rows(locations) /\ UNCHANGED sub_locations
        /\ locations' = [locations EXCEPT ![l] = [org |-> req[s].org]]
    BY <1>2 DEF InsertLocation
  <2> QED
    BY <1>0, <2>1, <2>2 DEF Grow, Rows
<1>3. ASSUME NEW s \in Slots, NEW l \in Subs, InsertSubLocation(s, l) PROVE Grow
  <2>1. /\ l \notin Rows(sub_locations) /\ UNCHANGED locations
        /\ sub_locations' = [sub_locations EXCEPT ![l] = [org |-> req[s].org, loc |-> req[s].about]]
    BY <1>3 DEF InsertSubLocation
  <2> QED
    BY <1>0, <2>1 DEF Grow, Rows
<1>4. ASSUME NEW s \in Slots, Handle(s),
             ~\E l \in Locs : InsertLocation(s, l), ~\E l \in Subs : InsertSubLocation(s, l)
      PROVE  UNCHANGED <<locations, sub_locations>>
  BY <1>4 DEF Handle, StatementFails, Leave, CheckSubLocation, ReadDevice,
     CreatedDeviceGone, UpdateColumn, InsertDevice, InsertConflicts, DeleteRow,
     CheckLocation, ReadTable, ReadBy, tables
<1>5. ASSUME (\E s \in Slots : NewRequest(s)) \/ \E d \in Devs : SeedDevice(d)
      PROVE  UNCHANGED <<locations, sub_locations>>
  <2>1. ASSUME NEW s \in Slots, NewRequest(s) PROVE UNCHANGED <<locations, sub_locations>>
    BY <2>1 DEF NewRequest, ListInternalOrganizations, DeleteDevice, PatchDevice, CreateDevice,
       CreateLocation, CreateSubLocation, Arrives, tables
  <2>2. ASSUME NEW d \in Devs, SeedDevice(d) PROVE UNCHANGED <<locations, sub_locations>>
    BY <2>2 DEF SeedDevice
  <2> QED
    BY <1>5, <2>1, <2>2
<1> QED
  BY <1>1, <1>2, <1>3, <1>4, <1>5 DEF Next, NewRequest, vars

----------------------------------------------------------------------------
(* The overview.                                                           *)

\* The tables that were read are still there, with more rows perhaps; they are as
\* they were read if nobody disturbed the request.
Kept(old, table) == \A l \in Rows(old) : l \in Rows(table) /\ table[l] = old[l]

Sums(seen, exact) ==
  \A o \in Orgs :
    /\ InSubs(seen, o) \cup Unassigned(seen, o) \subseteq DeviceCount(seen, o)
    /\ exact => InSubs(seen, o) \cup Unassigned(seen, o) = DeviceCount(seen, o)

ReadsInOrder(r) ==
  \/ r.todo = {"locations", "sub_locations", "devices"} /\ r.seen = <<>>
  \/ /\ r.todo = {"sub_locations", "devices"} /\ Len(r.seen) = 1
     /\ Kept(r.seen[1], locations) /\ (~r.disturbed => r.seen[1] = locations)
  \/ /\ r.todo = {"devices"} /\ Len(r.seen) = 2
     /\ Kept(r.seen[1], locations) /\ (~r.disturbed => r.seen[1] = locations)
     /\ Kept(r.seen[2], sub_locations) /\ (~r.disturbed => r.seen[2] = sub_locations)

\* An overview reads locations, sub-locations and devices in this order; when it is
\* answered, its counts add up.
OverviewHolds(r) ==
  r.kind = "overview" =>
    /\ r.about = "overview"
    /\ r.answer = "none" => ReadsInOrder(r)
    /\ r.answer # "none" => r.todo = {}
    /\ r.answer = "ok" => Sums(r.seen, ~r.disturbed)

\* An overview that waits keeps what it read, while rows are added to the tables.
LEMMA OverviewWaits ==
  ASSUME NEW t \in Slots, Grow, LeftAlone(t), OverviewHolds(req[t])
  PROVE  OverviewHolds(req[t])'
<1> SUFFICES ASSUME req'[t].kind = "overview" PROVE OverviewHolds(req[t])'
  BY DEF OverviewHolds
<1>1. /\ Waits(req[t], req'[t]) /\ req[t].kind = "overview" /\ req[t].about = "overview"
      /\ ~req'[t].disturbed => UNCHANGED <<locations, sub_locations>>
  BY DEF OverviewHolds, LeftAlone, Waits
<1>2. \A old : /\ Kept(old, locations) => Kept(old, locations')
               /\ Kept(old, sub_locations) => Kept(old, sub_locations')
  <2> SUFFICES ASSUME NEW old PROVE /\ Kept(old, locations) => Kept(old, locations')
                                    /\ Kept(old, sub_locations) => Kept(old, sub_locations')
    OBVIOUS
  <2>1. Rows(locations)' = Rows(locations') /\ Rows(sub_locations)' = Rows(sub_locations')
    BY DEF Rows
  <2> QED
    BY <2>1 DEF Kept, Grow
<1>3. req[t].answer = "none" => ReadsInOrder(req[t])'
  <2> SUFFICES ASSUME ReadsInOrder(req[t]) PROVE ReadsInOrder(req[t])'
    BY <1>1 DEF OverviewHolds
  <2>1. /\ req'[t].seen = req[t].seen /\ req'[t].todo = req[t].todo
        /\ ~req'[t].disturbed => ~req[t].disturbed
    BY <1>1 DEF Waits
  <2> QED
    BY <1>1, <1>2, <2>1 DEF ReadsInOrder
<1>4. req[t].answer = "ok" => Sums(req'[t].seen, ~req'[t].disturbed)
  BY <1>1 DEF OverviewHolds, Waits, Sums
<1> QED
  BY <1>1, <1>3, <1>4 DEF OverviewHolds, Waits

\* When the devices are read last, each one with a sub-location is found under the
\* organization it belongs to: rows of one organization refer to its rows only, and
\* the locations and sub-locations read before are still there.
LEMMA CountsAddUp ==
  ASSUME IInv, NEW seen, NEW exact \in BOOLEAN,
         Kept(seen[1], locations), exact => seen[1] = locations,
         Kept(seen[2], sub_locations), exact => seen[2] = sub_locations,
         seen[3] = devices
  PROVE  Sums(seen, exact)
<1> SUFFICES ASSUME NEW o \in Orgs
             PROVE  /\ InSubs(seen, o) \cup Unassigned(seen, o) \subseteq DeviceCount(seen, o)
                    /\ exact => DeviceCount(seen, o) \subseteq InSubs(seen, o) \cup Unassigned(seen, o)
  BY DEF Sums
<1>0. /\ \A d \in Rows(devices) : devices[d] \in Device
      /\ SameOrganization
  BY DEF IInv, TypeOK, Rows
<1>1. ASSUME NEW d \in InSubs(seen, o) PROVE d \in DeviceCount(seen, o)
  <2> DEFINE l == devices[d].sub
  <2>1. d \in Rows(devices) /\ l \in SubsOf(seen, o)
    BY <1>1 DEF InSubs
  <2>2. /\ l \in Rows(seen[2]) /\ seen[2][l].loc \in Rows(seen[1])
        /\ seen[1][seen[2][l].loc].org = o
    BY <2>1 DEF SubsOf
  <2>3. /\ l \in Rows(sub_locations) /\ sub_locations[l] = seen[2][l]
        /\ locations[sub_locations[l].loc].org = o
    BY <2>2 DEF Kept
  <2>4. l # None
    BY <2>3, NullAssumption DEF IInv, TypeOK, Rows
  <2>5. devices[d].org = o
    BY <1>0, <2>1, <2>3, <2>4 DEF SameOrganization
  <2> QED
    BY <2>1, <2>5 DEF DeviceCount
<1>2. Unassigned(seen, o) \subseteq DeviceCount(seen, o)
  BY DEF Unassigned
<1>3. ASSUME exact, NEW d \in DeviceCount(seen, o), d \notin Unassigned(seen, o)
      PROVE  d \in InSubs(seen, o)
  <2>1. /\ d \in Rows(devices) /\ devices[d].org = o /\ devices[d].sub # None
        /\ seen[1] = locations /\ seen[2] = sub_locations
    BY <1>3 DEF DeviceCount, Unassigned
  <2> QED
    BY <1>0, <2>1 DEF InSubs, SubsOf, SameOrganization
<1> QED
  BY <1>1, <1>2, <1>3

\* What one list of an overview does to it.
LEMMA TableRead ==
  ASSUME IInv, NEW s \in Slots, NEW name, NEW table \in Table, ReadTable(s, name, table)
  PROVE  /\ UNCHANGED tables
         /\ req'[s].seen = Append(req[s].seen, table)
         /\ IF req[s].todo = {name} THEN req'[s].todo = {} /\ req'[s].answer = "ok"
            ELSE req'[s].todo = req[s].todo \ {name} /\ req'[s].answer = req[s].answer
         /\ req'[s].disturbed = req[s].disturbed /\ req'[s].about = req[s].about
<1> DEFINE r == [req[s] EXCEPT !.seen = Append(@, table)]
<1>0. req \in [Slots -> Request] /\ req[s] \in Request
  BY DEF IInv, TypeOK
<1>1. /\ r \in Request /\ r.seen = Append(req[s].seen, table) /\ r.todo = req[s].todo
      /\ r.answer = req[s].answer /\ r.disturbed = req[s].disturbed /\ r.about = req[s].about
  <2>1. Append(req[s].seen, table) \in Seq(Table)
    BY <1>0 DEF Request
  <2> QED
    BY <1>0, <2>1 DEF Request
<1>2. req'[s] = Advance(r, name) /\ UNCHANGED tables
  BY <1>0 DEF ReadTable, ReadBy
<1> HIDE DEF r
<1> QED
  BY <1>1, <1>2, AdvanceRuns DEF SameAsked

\* An overview that runs a statement reads the next table.
LEMMA OverviewRuns ==
  ASSUME IInv, NEW s \in Slots, OverviewHolds(req[s]), Handle(s)
  PROVE  OverviewHolds(req[s])'
<1> SUFFICES ASSUME req'[s].kind = "overview" PROVE OverviewHolds(req[s])'
  BY DEF OverviewHolds
<1>0. /\ req[s] \in Request /\ req[s].kind = "overview" /\ req[s].about = "overview"
      /\ SameAsked(req[s], req'[s])
  <2>1. req[s] \in Request /\ req'[s] # NoReq
    BY DEF IInv, TypeOK, NoReq
  <2>2. SameAsked(req[s], req'[s])
    BY <2>1, SameRequest
  <2> QED
    BY <2>1, <2>2 DEF SameAsked, OverviewHolds
<1>1. CASE StatementFails(s)
  <2>1. req'[s] = Answer(req[s], "failed")
    BY <1>1 DEF StatementFails, IInv, TypeOK
  <2> QED
    BY <1>0, <2>1, AdvanceRuns DEF OverviewHolds
<1>2. CASE Leave(s)
  BY <1>2 DEF Leave, NoReq, IInv, TypeOK
<1>3. ASSUME NEW step \in req[s].todo
      PROVE  /\ step \in {"locations", "sub_locations", "devices"}
             /\ req[s].answer = "none" /\ ReadsInOrder(req[s])
  BY <1>0, <1>3 DEF OverviewHolds, ReadsInOrder
<1>4. /\ locations \in Table /\ sub_locations \in Table /\ devices \in Table
      /\ req[s].seen \in Seq(Table)
  BY <1>0 DEF IInv, TypeOK, Table, Request
<1>5. /\ Place("locations") = 1 /\ Place("sub_locations") = 2 /\ Place("devices") = 3
  BY DEF Place
<1>6. CASE Doing(s, "locations") /\ ReadTable(s, "locations", locations)
  <2>1. /\ req[s].answer = "none" /\ req[s].seen = <<>>
        /\ req[s].todo = {"locations", "sub_locations", "devices"}
    BY <1>3, <1>6 DEF Doing, ReadsInOrder
  <2>2. /\ req'[s].todo = {"sub_locations", "devices"} /\ req'[s].answer = "none"
        /\ req'[s].seen = Append(<<>>, locations) /\ req'[s].about = "overview"
        /\ UNCHANGED tables
    <3>1. /\ UNCHANGED tables
          /\ req'[s].seen = Append(req[s].seen, locations)
          /\ IF req[s].todo = {"locations"} THEN req'[s].todo = {} /\ req'[s].answer = "ok"
             ELSE /\ req'[s].todo = req[s].todo \ {"locations"}
                  /\ req'[s].answer = req[s].answer
          /\ req'[s].about = req[s].about
      BY <1>4, <1>6, TableRead
    <3>2. /\ req[s].todo # {"locations"}
          /\ req[s].todo \ {"locations"} = {"sub_locations", "devices"}
      BY <2>1
    <3> QED
      BY <1>0, <2>1, <3>1, <3>2
  <2>3. Len(req'[s].seen) = 1 /\ req'[s].seen[1] = locations
    BY <1>4, <2>2
  <2>4. ReadsInOrder(req[s])'
    BY <2>2, <2>3 DEF ReadsInOrder, Kept, tables
  <2> QED
    BY <2>2, <2>4 DEF OverviewHolds
<1>7. CASE Doing(s, "sub_locations") /\ ReadTable(s, "sub_locations", sub_locations)
  <2>1. /\ req[s].answer = "none" /\ Len(req[s].seen) = 1
        /\ req[s].todo = {"sub_locations", "devices"}
        /\ Kept(req[s].seen[1], locations)
        /\ ~req[s].disturbed => req[s].seen[1] = locations
    BY <1>3, <1>5, <1>7 DEF Doing, ReadsInOrder
  <2>2. /\ req'[s].todo = {"devices"} /\ req'[s].answer = "none"
        /\ req'[s].seen = Append(req[s].seen, sub_locations) /\ req'[s].about = "overview"
        /\ UNCHANGED tables /\ req'[s].disturbed = req[s].disturbed
    <3>1. /\ UNCHANGED tables
          /\ req'[s].seen = Append(req[s].seen, sub_locations)
          /\ IF req[s].todo = {"sub_locations"} THEN req'[s].todo = {} /\ req'[s].answer = "ok"
             ELSE /\ req'[s].todo = req[s].todo \ {"sub_locations"}
                  /\ req'[s].answer = req[s].answer
          /\ req'[s].disturbed = req[s].disturbed /\ req'[s].about = req[s].about
      BY <1>4, <1>7, TableRead
    <3>2. /\ req[s].todo # {"sub_locations"}
          /\ req[s].todo \ {"sub_locations"} = {"devices"}
      BY <2>1
    <3> QED
      BY <1>0, <2>1, <3>1, <3>2
  <2>3. /\ Len(req'[s].seen) = 2 /\ req'[s].seen[1] = req[s].seen[1]
        /\ req'[s].seen[2] = sub_locations
    BY <1>4, <2>1, <2>2
  <2>4. ReadsInOrder(req[s])'
    BY <2>1, <2>2, <2>3 DEF ReadsInOrder, Kept, tables
  <2> QED
    BY <2>2, <2>4 DEF OverviewHolds
<1>8. CASE Doing(s, "devices") /\ ReadTable(s, "devices", devices)
  <2>1. /\ req[s].answer = "none" /\ Len(req[s].seen) = 2
        /\ req[s].todo = {"devices"}
        /\ Kept(req[s].seen[1], locations)
        /\ ~req[s].disturbed => req[s].seen[1] = locations
        /\ Kept(req[s].seen[2], sub_locations)
        /\ ~req[s].disturbed => req[s].seen[2] = sub_locations
    BY <1>3, <1>5, <1>8 DEF Doing, ReadsInOrder
  <2>2. /\ req'[s].todo = {} /\ req'[s].answer = "ok"
        /\ req'[s].seen = Append(req[s].seen, devices) /\ req'[s].about = "overview"
        /\ req'[s].disturbed = req[s].disturbed
    BY <1>0, <1>4, <1>8, <2>1, TableRead
  <2>3. /\ req'[s].seen[1] = req[s].seen[1] /\ req'[s].seen[2] = req[s].seen[2]
        /\ req'[s].seen[3] = devices
    BY <1>4, <2>1, <2>2
  <2>4. Sums(req'[s].seen, ~req'[s].disturbed)
    <3>1. (~req'[s].disturbed) \in BOOLEAN
      OBVIOUS
    <3> QED
      BY <2>1, <2>2, <2>3, <3>1, CountsAddUp
  <2> QED
    BY <2>2, <2>4 DEF OverviewHolds
<1> QED
  BY <1>1, <1>2, <1>3, <1>6, <1>7, <1>8, StatementsDone DEF Doing, Fields

\* In a step a request waits, runs a statement, or arrives.
LEMMA EachRequest ==
  ASSUME IInv, [Next]_vars, NEW t \in Slots
  PROVE  LeftAlone(t) \/ Handle(t) \/ NewRequest(t)
<1>1. CASE UNCHANGED vars
  BY <1>1, NothingWritten DEF vars, tables
<1>2. CASE \E s \in Slots : Handle(s) \/ NewRequest(s)
  <2>1. PICK s \in Slots : Handle(s) \/ NewRequest(s)
    BY <1>2
  <2>2. CASE t = s
    BY <2>1, <2>2
  <2>3. CASE t # s
    <3>1. t \in Slots \ {s}
      BY <2>3
    <3> QED
      BY <2>1, <3>1, OthersWait
  <2> QED
    BY <2>2, <2>3
<1>3. CASE \E d \in Devs : SeedDevice(d)
  BY <1>3, SeedDisturbs
<1> QED
  BY <1>1, <1>2, <1>3 DEF Next, NewRequest

\* A request as it arrives.
LEMMA Arrived ==
  ASSUME IInv, NEW t \in Slots, NEW kind, NEW o, NEW x, NEW body, NEW todo,
         Arrives(t, kind, o, x, body, todo)
  PROVE  /\ req'[t].kind = kind /\ req'[t].org = o /\ req'[t].about = x
         /\ req'[t].body = body /\ req'[t].todo = todo
         /\ req'[t].answer = "none" /\ req'[t].seen = <<>> /\ ~req'[t].disturbed
         /\ req'[t].before = IF x \in Devs THEN devices[x] ELSE None
         /\ UNCHANGED tables
<1> DEFINE b == IF x \in Devs THEN devices[x] ELSE None
<1>1. /\ req'[t] = [NoReq EXCEPT !.kind = kind, !.org = o, !.about = x, !.body = body,
                                !.todo = todo, !.before = b]
      /\ UNCHANGED tables
  BY DEF Arrives, IInv, TypeOK
<1> HIDE DEF b
<1>2. /\ req'[t].kind = kind /\ req'[t].org = o /\ req'[t].about = x
      /\ req'[t].body = body /\ req'[t].todo = todo
      /\ req'[t].answer = "none" /\ req'[t].seen = <<>> /\ ~req'[t].disturbed
      /\ req'[t].before = b
  BY <1>1 DEF NoReq
<1> QED
  BY <1>1, <1>2 DEF b

\* The invariant of the overview through each step.
LEMMA OverviewSteps ==
  ASSUME IInv, [Next]_vars, NEW t \in Slots, OverviewHolds(req[t])
  PROVE  OverviewHolds(req[t])'
<1>1. ASSUME LeftAlone(t) PROVE OverviewHolds(req[t])'
  BY <1>1, OverviewWaits, StepGrows
<1>2. ASSUME Handle(t) PROVE OverviewHolds(req[t])'
  BY <1>2, OverviewRuns
<1>3. ASSUME ListInternalOrganizations(t) PROVE OverviewHolds(req[t])'
  <2>1. PICK o \in Orgs : Arrives(t, "overview", o, "overview", NoBody,
                                  {"locations", "sub_locations", "devices"})
    BY <1>3 DEF ListInternalOrganizations
  <2>2. /\ req'[t].about = "overview" /\ req'[t].answer = "none" /\ req'[t].seen = <<>>
        /\ req'[t].todo = {"locations", "sub_locations", "devices"}
    BY <2>1, Arrived
  <2> QED
    BY <2>2 DEF OverviewHolds, ReadsInOrder
<1>4. ASSUME NEW kind, NEW o, NEW x, NEW body, NEW todo, kind # "overview",
             Arrives(t, kind, o, x, body, todo)
      PROVE  OverviewHolds(req[t])'
  <2>1. req'[t].kind # "overview"
    BY <1>4, Arrived
  <2> QED
    BY <2>1 DEF OverviewHolds
<1>5. ASSUME NewRequest(t) PROVE OverviewHolds(req[t])'
  BY <1>3, <1>4, <1>5 DEF NewRequest, DeleteDevice, PatchDevice, CreateDevice, CreateLocation,
     CreateSubLocation
<1> QED
  BY <1>1, <1>2, <1>5, EachRequest

\* The devices an overview counts under an organization's sub-locations and the
\* unassigned ones never exceed its device count, and make it up unless a location or
\* sub-location was created meanwhile, whoever writes devices while it reads.
THEOREM OverviewAddsUp == Spec => []OverviewSums
<1> DEFINE OInv == \A t \in Slots : OverviewHolds(req[t])
<1>1. Init => OInv
  <2> SUFFICES ASSUME Init, NEW t \in Slots PROVE OverviewHolds(req[t])
    OBVIOUS
  <2>1. req[t].kind = "none"
    BY DEF Init, NoReq
  <2> QED
    BY <2>1 DEF OverviewHolds
<1>2. IInv /\ OInv /\ [Next]_vars => OInv'
  <2> SUFFICES ASSUME IInv, OInv, [Next]_vars, NEW t \in Slots PROVE OverviewHolds(req[t])'
    OBVIOUS
  <2> QED
    BY OverviewSteps
<1>3. IInv /\ OInv => OverviewSums
  <2> SUFFICES ASSUME OInv, NEW t \in Slots, req[t].kind = "overview", req[t].answer = "ok"
               PROVE  Sums(req[t].seen, ~req[t].disturbed)
    BY DEF OverviewSums, Sums
  <2> QED
    BY DEF OverviewHolds
<1> QED
  BY <1>1, <1>2, <1>3, Inductive, PTL DEF Spec
----------------------------------------------------------------------------
(* The answer to a PATCH.                                                  *)

PatchSteps == {"check", "get", "name", "status", "sub", "reget"}

\* The device once the columns that are not among the statements left are written.
Written(row, body, todo) ==
  [row EXCEPT !.name = IF body.name # None /\ "name" \notin todo THEN body.name ELSE @,
              !.status = IF body.status # None /\ "status" \notin todo THEN body.status ELSE @,
              !.sub = IF body.sub # None /\ "sub" \notin todo THEN Value(body, "sub") ELSE @]

\* A column that is written comes before every statement left.
InOrder(body, todo) ==
  \A f \in Fields \ todo : body[f] # None => \A step \in todo : Place(f) < Place(step)

\* A PATCH that runs: it reads the device last, and writes the columns in order.
Underway(r) ==
  /\ r.todo \subseteq PatchSteps /\ "reget" \in r.todo
  /\ \A f \in Fields \cap r.todo : r.body[f] # None
  /\ InOrder(r.body, r.todo)

\* What the device is if nobody else writes it.
SoFar(r) ==
  IF "get" \in r.todo THEN devices[r.about] = r.before
  ELSE /\ r.before \in Device /\ r.before.org = r.org
       /\ devices[r.about] = Written(r.before, r.body, r.todo)

Told(r) ==
  /\ r.answer = "ok" => devices[r.about] = Patched(r.before, r.body, 3)
  /\ r.answer = "not_found" => devices[r.about] = r.before
  /\ r.answer = "failed" =>
       \/ devices[r.about] = r.before
       \/ \E k \in 1..3 : devices[r.about] = Patched(r.before, r.body, k)

PatchHolds(r) ==
  r.kind = "patch" =>
    /\ r.about \in Devs
    /\ r.answer = "none" => Underway(r) /\ (~r.disturbed => SoFar(r))
    /\ r.answer # "none" => r.todo = {} /\ (~r.disturbed => Told(r))

\* Written keeps the row a device of its organization.
LEMMA WrittenIsDevice ==
  ASSUME NEW row \in Device, NEW body \in Body, NEW todo
  PROVE  Written(row, body, todo) \in Device /\ Written(row, body, todo).org = row.org
<1> DEFINE name == IF body.name # None /\ "name" \notin todo THEN body.name ELSE row.name
           status == IF body.status # None /\ "status" \notin todo THEN body.status ELSE row.status
           sub == IF body.sub # None /\ "sub" \notin todo THEN Value(body, "sub") ELSE row.sub
<1>1. name \in Names /\ status \in Statuses /\ sub \in Subs \cup {None}
  BY DEF Device, Body, Value
<1>2. Written(row, body, todo) =
        [row EXCEPT !.name = name, !.status = status, !.sub = sub]
  BY DEF Written, Device
<1> HIDE DEF name, status, sub
<1> QED
  BY <1>1, <1>2 DEF Device

\* No column written, and all of them.
LEMMA NoneAndAllWritten ==
  ASSUME NEW row \in Device, NEW body, NEW todo
  PROVE  /\ (\A f \in Fields \ todo : body[f] = None) => Written(row, body, todo) = row
         /\ Fields \cap todo = {} => Written(row, body, todo) = Patched(row, body, 3)
<1>1. ASSUME \A f \in Fields \ todo : body[f] = None PROVE Written(row, body, todo) = row
  <2>1. /\ "name" \notin todo => body.name = None
        /\ "status" \notin todo => body.status = None
        /\ "sub" \notin todo => body.sub = None
    BY <1>1 DEF Fields
  <2> QED
    BY <2>1 DEF Written, Device
<1>2. ASSUME Fields \cap todo = {} PROVE Written(row, body, todo) = Patched(row, body, 3)
  <2>1. "name" \notin todo /\ "status" \notin todo /\ "sub" \notin todo
    BY <1>2 DEF Fields
  <2> QED
    BY <2>1 DEF Written, Patched, Device
<1> QED
  BY <1>1, <1>2

\* The columns of the first two.
LEMMA FirstColumns ==
  ASSUME NEW row \in Device, NEW body
  PROVE  /\ Patched(row, body, 1) = [row EXCEPT !.name = IF body.name # None THEN body.name ELSE @]
         /\ Patched(row, body, 2) =
              [row EXCEPT !.name = IF body.name # None THEN body.name ELSE @,
                          !.status = IF body.status # None THEN body.status ELSE @]
<1> DEFINE name(k) == IF k >= 1 /\ body.name # None THEN body.name ELSE row.name
           status(k) == IF k >= 2 /\ body.status # None THEN body.status ELSE row.status
           sub(k) == IF k >= 3 /\ body.sub # None THEN Value(body, "sub") ELSE row.sub
<1>1. \A k : Patched(row, body, k) =
               [row EXCEPT !.name = name(k), !.status = status(k), !.sub = sub(k)]
  BY DEF Patched, Device
<1>2. /\ name(1) = IF body.name # None THEN body.name ELSE row.name
      /\ status(1) = row.status /\ sub(1) = row.sub
      /\ name(2) = IF body.name # None THEN body.name ELSE row.name
      /\ status(2) = IF body.status # None THEN body.status ELSE row.status
      /\ sub(2) = row.sub
  OBVIOUS
<1> HIDE DEF name, status, sub
<1>3. Patched(row, body, 1) = [row EXCEPT !.name = name(1)]
  BY <1>1, <1>2 DEF Device
<1>4. Patched(row, body, 2) = [row EXCEPT !.name = name(2), !.status = status(2)]
  BY <1>1, <1>2 DEF Device
<1> QED
  BY <1>2, <1>3, <1>4

\* What is written in order is the first k columns.
LEMMA WrittenIsPatched ==
  ASSUME NEW row \in Device, NEW body, NEW todo, InOrder(body, todo)
  PROVE  \/ Written(row, body, todo) = row
         \/ \E k \in 1..3 : Written(row, body, todo) = Patched(row, body, k)
<1> DEFINE name == body.name # None /\ "name" \notin todo
           status == body.status # None /\ "status" \notin todo
           sub == body.sub # None /\ "sub" \notin todo
<1>1. /\ sub => "status" \notin todo /\ "name" \notin todo
      /\ status => "name" \notin todo
  BY DEF InOrder, Fields, Place
<1>2. CASE sub
  <2>1. Fields \cap todo = {}
    BY <1>1, <1>2 DEF Fields
  <2> QED
    BY <2>1, NoneAndAllWritten
<1>3. CASE ~sub /\ status
  <2>1. Written(row, body, todo) =
          [row EXCEPT !.name = IF body.name # None THEN body.name ELSE @,
                      !.status = IF body.status # None THEN body.status ELSE @]
    BY <1>1, <1>3 DEF Written, Device
  <2>2. Patched(row, body, 2) =
          [row EXCEPT !.name = IF body.name # None THEN body.name ELSE @,
                      !.status = IF body.status # None THEN body.status ELSE @]
    BY FirstColumns, Zenon
  <2>3. Written(row, body, todo) = Patched(row, body, 2)
    BY <2>1, <2>2
  <2> HIDE DEF name, status, sub
  <2> QED
    BY <2>3
<1>4. CASE ~sub /\ ~status /\ name
  <2>1. Written(row, body, todo) = [row EXCEPT !.name = IF body.name # None THEN body.name ELSE @]
    BY <1>4 DEF Written, Device
  <2>2. Patched(row, body, 1) = [row EXCEPT !.name = IF body.name # None THEN body.name ELSE @]
    BY FirstColumns, Zenon
  <2>3. Written(row, body, todo) = Patched(row, body, 1)
    BY <2>1, <2>2
  <2> HIDE DEF name, status, sub
  <2> QED
    BY <2>3
<1>5. CASE ~sub /\ ~status /\ ~name
  BY <1>5 DEF Written, Device
<1> QED
  BY <1>2, <1>3, <1>4, <1>5

\* A statement sets one column of a row.
SetColumn(row, f, value) == [row EXCEPT ![f] = value]

\* One more column is written.
LEMMA OneMoreWritten ==
  ASSUME NEW row \in Device, NEW body, NEW todo, NEW f \in Fields \cap todo, body[f] # None
  PROVE  Written(row, body, todo \ {f}) = SetColumn(Written(row, body, todo), f, Value(body, f))
<1>1. CASE f = "name"
  <2>1. Value(body, "name") = body.name /\ body.name # None
    BY <1>1 DEF Value
  <2> QED
    BY <1>1, <2>1 DEF Written, Device, SetColumn
<1>2. CASE f = "status"
  <2>1. Value(body, "status") = body.status /\ body.status # None
    BY <1>2 DEF Value
  <2> QED
    BY <1>2, <2>1 DEF Written, Device, SetColumn
<1>3. CASE f = "sub"
  BY <1>3 DEF Written, Device, SetColumn
<1> QED
  BY <1>1, <1>2, <1>3 DEF Fields

\* A PATCH that waits: nobody writes its device unless it notes it.
LEMMA PatchWaits ==
  ASSUME NEW t \in Slots, LeftAlone(t), PatchHolds(req[t])
  PROVE  PatchHolds(req[t])'
<1> SUFFICES ASSUME req'[t].kind = "patch" PROVE PatchHolds(req[t])'
  BY DEF PatchHolds
<1> DEFINE r == req[t]
           q == req'[t]
<1>1. /\ q.about = r.about /\ q.org = r.org /\ q.body = r.body /\ q.todo = r.todo
      /\ q.answer = r.answer /\ q.before = r.before /\ (~q.disturbed => ~r.disturbed)
      /\ r.about \in Devs
      /\ r.answer = "none" => Underway(r) /\ (~r.disturbed => SoFar(r))
      /\ r.answer # "none" => r.todo = {} /\ (~r.disturbed => Told(r))
      /\ ~q.disturbed => devices'[r.about] = devices[r.about]
  BY DEF PatchHolds, LeftAlone, Waits
<1>2. Underway(r) => Underway(q)
  BY <1>1 DEF Underway
<1>3. ~q.disturbed /\ SoFar(r) => SoFar(r)'
  BY <1>1 DEF SoFar
<1>4. ~q.disturbed /\ Told(r) => Told(r)'
  BY <1>1 DEF Told
<1> QED
  BY <1>1, <1>2, <1>3, <1>4 DEF PatchHolds, Underway

\* A PATCH arrives with everything still to do.
LEMMA PatchArrives ==
  ASSUME IInv, NEW t \in Slots, NEW o \in Orgs, NEW d \in Devs, NEW body \in Bodies,
         PatchDevice(t, o, d, body)
  PROVE  PatchHolds(req[t])'
<1> DEFINE todo == {step \in PatchSteps : Runs(body, step)}
<1>1. /\ req'[t].about = d /\ req'[t].org = o /\ req'[t].body = body /\ req'[t].todo = todo
      /\ req'[t].answer = "none" /\ req'[t].before = devices[d] /\ UNCHANGED tables
  BY Arrived DEF PatchDevice, PatchSteps
<1>2. /\ "reget" \in todo /\ "get" \in todo /\ todo \subseteq PatchSteps
      /\ \A f \in Fields : f \in todo <=> body[f] # None
  BY DEF Runs, Fields, PatchSteps
<1>3. Underway(req'[t])
  BY <1>1, <1>2 DEF Underway, InOrder
<1>4. SoFar(req[t])'
  BY <1>1, <1>2 DEF SoFar, tables
<1> QED
  BY <1>1, <1>3, <1>4 DEF PatchHolds, Underway

\* A PATCH that ends early wrote the first columns, in order.
LEMMA FailsInOrder ==
  ASSUME NEW r, r.body \in Body, r.answer = "none", Underway(r), SoFar(r)
  PROVE  \/ devices[r.about] = r.before
         \/ \E k \in 1..3 : devices[r.about] = Patched(r.before, r.body, k)
<1>1. CASE "get" \in r.todo
  BY <1>1 DEF SoFar
<1>2. CASE "get" \notin r.todo
  <2>1. /\ r.before \in Device /\ devices[r.about] = Written(r.before, r.body, r.todo)
        /\ InOrder(r.body, r.todo)
    BY <1>2 DEF SoFar, Underway
  <2> QED
    BY <2>1, WrittenIsPatched
<1> QED
  BY <1>1, <1>2
\* It goes on with the statement whose turn it is done.
LEMMA UnderwayGoesOn ==
  ASSUME NEW r, NEW q, NEW step \in r.todo, step # "reget", Underway(r),
         \A t \in r.todo : Place(step) <= Place(t),
         q.body = r.body, q.todo = r.todo \ {step}
  PROVE  Underway(q)
<1>1. q.todo \subseteq PatchSteps /\ "reget" \in q.todo
      /\ \A f \in Fields \cap q.todo : q.body[f] # None
  BY DEF Underway
<1>2. ASSUME NEW t \in r.todo, t # step PROVE Place(step) < Place(t)
  <2>1. Place(step) <= Place(t) /\ step \in PatchSteps /\ t \in PatchSteps
    BY <1>2 DEF Underway
  <2> QED
    BY <1>2, <2>1 DEF PatchSteps, Place, CheckPlace
<1>3. InOrder(q.body, q.todo)
  BY <1>2 DEF Underway, InOrder
<1> QED
  BY <1>1, <1>3 DEF Underway

\* The checks of a PATCH: the sub-location, and the device first.
LEMMA PatchChecks ==
  ASSUME IInv, NEW s \in Slots, NEW step \in {"check", "get"}, NEW found \in BOOLEAN,
         PatchHolds(req[s]), req[s].kind = "patch",
         ReadBy(s, step, found, req[s]),
         step = "get" => found = GetDevice(req[s].org, req[s].about)
  PROVE  PatchHolds(req[s])'
<1> DEFINE r == req[s]
           q == req'[s]
<1>1. /\ req \in [Slots -> Request] /\ r \in Request /\ r.body \in Body
      /\ devices \in [Devs -> Device \cup {None}] /\ UNCHANGED devices
  BY DEF IInv, TypeOK, Request, ReadBy, tables
<1>2. /\ r.about \in Devs /\ r.answer = "none" /\ Underway(r) /\ (~r.disturbed => SoFar(r))
      /\ step \in r.todo /\ \A t \in r.todo : Place(step) <= Place(t)
  BY DEF PatchHolds, ReadBy, Doing
<1>3. "reget" \in r.todo /\ r.todo # {step}
  BY <1>2 DEF Underway
<1>4. q = IF found THEN Advance(r, step) ELSE Answer(r, "not_found")
  BY <1>1 DEF ReadBy
<1>5. \A f \in Fields \ r.todo : r.body[f] = None
  <2>1. ASSUME NEW f \in Fields, Place(f) < Place(step) PROVE FALSE
    BY <2>1 DEF Fields, Place, CheckPlace
  <2> QED
    BY <1>2, <2>1 DEF Underway, InOrder
<1>6. ~r.disturbed => /\ devices[r.about] = r.before
                      /\ "get" \notin r.todo => r.before \in Device /\ r.before.org = r.org
  BY <1>2, <1>5, NoneAndAllWritten DEF SoFar
<1>7. /\ SameAsked(r, q) /\ q.about = r.about
      /\ IF found THEN q.todo = r.todo \ {step} /\ q.answer = "none"
         ELSE q.todo = {} /\ q.answer = "not_found"
  BY <1>1, <1>2, <1>3, <1>4, AdvanceRuns
<1>8. CASE ~found
  <2>1. ~q.disturbed => Told(r)'
    BY <1>1, <1>6, <1>7, <1>8 DEF Told, SameAsked
  <2> QED
    BY <1>2, <1>7, <1>8, <2>1 DEF PatchHolds, Underway
<1>9. CASE found
  <2>1. Underway(q)
    BY <1>2, <1>7, <1>9, UnderwayGoesOn DEF SameAsked
  <2>2. "get" \notin q.todo /\ ~r.disturbed => r.before \in Device /\ r.before.org = r.org
    <3>1. step = "get" => devices[r.about] \in Device /\ devices[r.about].org = r.org
      BY <1>1, <1>9 DEF GetDevice, Rows
    <3> QED
      BY <1>6, <1>7, <1>9, <3>1
  <2>3. r.before \in Device => Written(r.before, r.body, q.todo) = r.before
    <3>1. \A f \in Fields \ q.todo : r.body[f] = None
      BY <1>5, <1>7, <1>9 DEF Fields
    <3> QED
      BY <3>1, NoneAndAllWritten
  <2>4. ~q.disturbed => SoFar(r)'
    BY <1>1, <1>6, <1>7, <2>2, <2>3 DEF SoFar, SameAsked
  <2> QED
    BY <1>2, <1>7, <1>9, <2>1, <2>4 DEF PatchHolds, Underway
<1> QED
  BY <1>8, <1>9
\* The device is read last, when every column is written: it is still there unless
\* somebody else deleted it.
LEMMA PatchRereads ==
  ASSUME IInv, NEW s \in Slots, PatchHolds(req[s]), req[s].kind = "patch",
         ReadBy(s, "reget", GetDevice(req[s].org, req[s].about), req[s])
  PROVE  PatchHolds(req[s])'
<1> DEFINE r == req[s]
           q == req'[s]
           found == GetDevice(r.org, r.about)
<1>1. /\ req \in [Slots -> Request] /\ r \in Request /\ r.body \in Body
      /\ devices \in [Devs -> Device \cup {None}] /\ UNCHANGED devices
  BY DEF IInv, TypeOK, Request, ReadBy, tables
<1>2. /\ r.about \in Devs /\ r.answer = "none" /\ Underway(r) /\ (~r.disturbed => SoFar(r))
      /\ "reget" \in r.todo /\ \A t \in r.todo : Place("reget") <= Place(t)
  BY DEF PatchHolds, ReadBy, Doing
<1>3. r.todo = {"reget"}
  <2>1. ASSUME NEW t \in PatchSteps, Place("reget") <= Place(t) PROVE t = "reget"
    BY <2>1 DEF PatchSteps, Place, CheckPlace
  <2> QED
    BY <1>2, <2>1 DEF Underway
<1>4. /\ SameAsked(r, q) /\ q.about = r.about /\ q.todo = {}
      /\ q.answer = IF found THEN "ok" ELSE "not_found"
  <2>1. q = IF found THEN Advance(r, "reget") ELSE Answer(r, "not_found")
    BY <1>1 DEF ReadBy
  <2> QED
    BY <1>1, <1>3, <2>1, AdvanceRuns DEF SameAsked
<1>5. ~r.disturbed => /\ r.before \in Device /\ r.before.org = r.org
                      /\ devices[r.about] = Written(r.before, r.body, r.todo)
  BY <1>2, <1>3 DEF SoFar
<1>6. ~r.disturbed => found
  <2> SUFFICES ASSUME ~r.disturbed PROVE found
    OBVIOUS
  <2>1. devices[r.about] \in Device /\ devices[r.about].org = r.org
    BY <1>1, <1>5, WrittenIsDevice
  <2> QED
    BY <1>1, <1>2, <2>1, NullAssumption DEF GetDevice, Rows
<1>7. ~r.disturbed => devices[r.about] = Patched(r.before, r.body, 3)
  <2>1. Fields \cap r.todo = {}
    BY <1>3 DEF Fields
  <2> QED
    BY <1>5, <2>1, NoneAndAllWritten
<1> HIDE DEF found
<1>8. ~q.disturbed => Told(r)'
  BY <1>1, <1>4, <1>6, <1>7 DEF Told, SameAsked
<1> QED
  BY <1>2, <1>4, <1>8 DEF PatchHolds

\* A column is written, and the handler gets to know or not.
LEMMA PatchWrites ==
  ASSUME IInv, NEW s \in Slots, NEW f \in Fields, PatchHolds(req[s]), req[s].kind = "patch",
         UpdateColumn(s, f)
  PROVE  PatchHolds(req[s])'
<1> DEFINE r == req[s]
           q == req'[s]
           left == r.todo \ {f}
<1>1. /\ req \in [Slots -> Request] /\ r \in Request /\ r.body \in Body
      /\ devices \in [Devs -> Device \cup {None}]
  BY DEF IInv, TypeOK, Request
<1>2. /\ r.about \in Devs /\ r.answer = "none" /\ Underway(r) /\ (~r.disturbed => SoFar(r))
      /\ f \in r.todo /\ \A t \in r.todo : Place(f) <= Place(t)
  BY DEF PatchHolds, UpdateColumn, WrittenBy, Doing
<1>3. "reget" \in r.todo /\ r.todo # {f} /\ f # "reget" /\ "get" \notin r.todo
      /\ r.body[f] # None
  BY <1>2 DEF Underway, Fields, Place, CheckPlace
<1>4. /\ SameAsked(r, q) /\ q.about = r.about
      /\ \/ q.todo = left /\ q.answer = "none"
         \/ q.todo = {} /\ q.answer = "failed"
  <2>1. q = Advance(r, f) \/ q = Answer(r, "failed")
    BY <1>1, WriterRuns DEF UpdateColumn
  <2> QED
    BY <1>1, <1>2, <1>3, <2>1, AdvanceRuns
<1>5. ~r.disturbed => /\ r.before \in Device /\ r.before.org = r.org
                      /\ devices[r.about] = Written(r.before, r.body, r.todo)
  BY <1>2, <1>3 DEF SoFar
<1>6. ~r.disturbed => devices'[r.about] = Written(r.before, r.body, left)
  <2> SUFFICES ASSUME ~r.disturbed PROVE devices'[r.about] = Written(r.before, r.body, left)
    OBVIOUS
  <2>1. devices[r.about] \in Device /\ devices[r.about].org = r.org
    BY <1>1, <1>5, WrittenIsDevice
  <2>2. GetDevice(r.org, r.about)
    BY <1>1, <1>2, <2>1, NullAssumption DEF GetDevice, Rows
  <2>3. devices' = [devices EXCEPT ![r.about] = [devices[r.about] EXCEPT ![f] = Value(r.body, f)]]
    BY <2>2 DEF UpdateColumn
  <2>4. devices'[r.about] = [devices[r.about] EXCEPT ![f] = Value(r.body, f)]
    BY <1>1, <1>2, <2>3
  <2>5. f \in Fields \cap r.todo /\ r.before \in Device
    BY <1>2, <1>5
  <2>6. Written(r.before, r.body, left) =
          SetColumn(Written(r.before, r.body, r.todo), f, Value(r.body, f))
    BY <1>3, <2>5, OneMoreWritten
  <2> QED
    BY <1>5, <2>4, <2>6 DEF SetColumn
<1>7. Underway([r EXCEPT !.todo = left])
  <2> DEFINE p == [r EXCEPT !.todo = left]
  <2>1. p.body = r.body /\ p.todo = left
    BY <1>1 DEF Request
  <2> QED
    BY <1>2, <1>3, <2>1, UnderwayGoesOn
<1>8. CASE q.todo = left /\ q.answer = "none"
  <2>1. Underway(q)
    BY <1>2, <1>3, <1>4, <1>8, UnderwayGoesOn DEF SameAsked
  <2>2. ~q.disturbed => SoFar(r)'
    BY <1>3, <1>4, <1>5, <1>6, <1>8 DEF SoFar, SameAsked
  <2> QED
    BY <1>2, <1>4, <1>8, <2>1, <2>2 DEF PatchHolds, Underway
<1>9. CASE q.todo = {} /\ q.answer = "failed"
  <2>1. InOrder(r.body, left)
    <3>1. [r EXCEPT !.todo = left].body = r.body /\ [r EXCEPT !.todo = left].todo = left
      BY <1>1 DEF Request
    <3> QED
      BY <1>7, <3>1 DEF Underway
  <2>2. ~r.disturbed => \/ devices'[r.about] = r.before
                        \/ \E k \in 1..3 : devices'[r.about] = Patched(r.before, r.body, k)
    BY <1>5, <1>6, <2>1, WrittenIsPatched
  <2>3. ~q.disturbed => Told(r)'
    BY <1>4, <1>9, <2>2 DEF Told, SameAsked
  <2> QED
    BY <1>2, <1>4, <1>9, <2>3 DEF PatchHolds
<1> QED
  BY <1>4, <1>8, <1>9
\* A PATCH through each of its statements.
LEMMA PatchRuns ==
  ASSUME IInv, NEW s \in Slots, PatchHolds(req[s]), Handle(s)
  PROVE  PatchHolds(req[s])'
<1> SUFFICES ASSUME req'[s].kind = "patch" PROVE PatchHolds(req[s])'
  BY DEF PatchHolds
<1> DEFINE r == req[s]
<1>1. /\ req \in [Slots -> Request] /\ r \in Request /\ r.body \in Body
      /\ r.kind = "patch" /\ r.about \in Devs /\ SameAsked(r, req'[s])
  <2>1. req[s] \in Request /\ req'[s] # NoReq
    BY DEF IInv, TypeOK, NoReq
  <2>2. SameAsked(req[s], req'[s])
    BY <2>1, SameRequest
  <2> QED
    BY <2>1, <2>2 DEF SameAsked, PatchHolds, IInv, TypeOK, Request
<1>2. CASE StatementFails(s)
  <2>1. /\ r.todo # {} /\ req'[s] = Answer(r, "failed") /\ UNCHANGED devices
    BY <1>1, <1>2 DEF StatementFails, tables
  <2>2. r.answer = "none" /\ Underway(r) /\ (~r.disturbed => SoFar(r))
    BY <1>1, <2>1 DEF PatchHolds
  <2>3. /\ SameAsked(r, req'[s]) /\ req'[s].about = r.about
        /\ req'[s].todo = {} /\ req'[s].answer = "failed"
    BY <1>1, <2>1, AdvanceRuns
  <2>4. ~r.disturbed => \/ devices[r.about] = r.before
                        \/ \E k \in 1..3 : devices[r.about] = Patched(r.before, r.body, k)
    BY <1>1, <2>2, FailsInOrder
  <2>5. ~req'[s].disturbed => Told(r)'
    BY <2>1, <2>3, <2>4 DEF Told, SameAsked
  <2> QED
    BY <1>1, <2>3, <2>5 DEF PatchHolds
<1>3. CASE Leave(s)
  BY <1>1, <1>3 DEF Leave, NoReq
<1>4. ASSUME NEW step, Doing(s, step) PROVE step \in PatchSteps
  BY <1>1, <1>4 DEF Doing, PatchHolds, Underway
<1>5. CASE CheckSubLocation(s)
  <2>1. PICK found \in BOOLEAN : ReadBy(s, "check", found, r)
    BY <1>5 DEF CheckSubLocation, GetSubLocation
  <2> QED
    BY <1>1, <2>1, PatchChecks
<1>6. CASE ReadDevice(s)
  <2> DEFINE found == GetDevice(r.org, r.about)
  <2>1. found \in BOOLEAN
    BY DEF GetDevice
  <2>2. ASSUME ReadBy(s, "get", found, r) PROVE PatchHolds(req[s])'
    BY <1>1, <2>1, <2>2, PatchChecks
  <2>3. ASSUME ReadBy(s, "reget", found, r) PROVE PatchHolds(req[s])'
    BY <1>1, <2>3, PatchRereads
  <2> QED
    BY <1>6, <2>2, <2>3 DEF ReadDevice
<1>7. CASE CreatedDeviceGone(s)
  BY <1>1, <1>7 DEF CreatedDeviceGone
<1>8. ASSUME NEW f \in Fields, UpdateColumn(s, f) PROVE PatchHolds(req[s])'
  BY <1>1, <1>8, PatchWrites
<1> QED
  BY <1>2, <1>3, <1>4, <1>5, <1>6, <1>7, <1>8, StatementsDone DEF PatchSteps

\* The invariant of a PATCH through each step.
LEMMA PatchGoesThrough ==
  ASSUME IInv, [Next]_vars, NEW t \in Slots, PatchHolds(req[t])
  PROVE  PatchHolds(req[t])'
<1>1. ASSUME NEW kind, NEW o, NEW x, NEW body, NEW todo, kind # "patch",
             Arrives(t, kind, o, x, body, todo)
      PROVE  PatchHolds(req[t])'
  <2>1. req'[t].kind # "patch"
    BY <1>1, Arrived
  <2> QED
    BY <2>1 DEF PatchHolds
<1>2. ASSUME ListInternalOrganizations(t) PROVE PatchHolds(req[t])'
  BY <1>1, <1>2 DEF ListInternalOrganizations
<1>3. ASSUME NEW o \in Orgs,
             \/ \E d \in Devs : DeleteDevice(t, o, d)
             \/ \E body \in Bodies : CreateDevice(t, o, body)
             \/ CreateLocation(t, o)
             \/ \E l \in Locs : CreateSubLocation(t, o, l)
      PROVE  PatchHolds(req[t])'
  BY <1>1, <1>3 DEF DeleteDevice, CreateDevice, CreateLocation, CreateSubLocation
<1> QED
  BY <1>2, <1>3, EachRequest, PatchWaits, PatchRuns, PatchArrives DEF NewRequest

\* What a PATCH answers tells the truth about the device if nobody else wrote it:
\* everything is written after 200, nothing after 404, and after 500 the columns
\* before the failed statement, for any number of requests and failures.
THEOREM PatchTellsTheTruth == Spec => []PatchAnswers
<1> DEFINE PInv == \A t \in Slots : PatchHolds(req[t])
<1>1. Init => PInv
  <2> SUFFICES ASSUME Init, NEW t \in Slots PROVE PatchHolds(req[t])
    OBVIOUS
  <2>1. req[t].kind = "none"
    BY DEF Init, NoReq
  <2> QED
    BY <2>1 DEF PatchHolds
<1>2. IInv /\ PInv /\ [Next]_vars => PInv'
  <2> SUFFICES ASSUME IInv, PInv, [Next]_vars, NEW t \in Slots PROVE PatchHolds(req[t])'
    OBVIOUS
  <2> QED
    BY PatchGoesThrough
<1>3. PInv => PatchAnswers
  <2> SUFFICES ASSUME PInv, NEW t \in Slots, req[t].kind = "patch", ~req[t].disturbed
               PROVE  Told(req[t])
    BY DEF PatchAnswers, Told
  <2>1. req[t].answer # "none" => Told(req[t])
    BY DEF PatchHolds
  <2> QED
    BY <2>1 DEF Told
<1> QED
  BY <1>1, <1>2, <1>3, Inductive, PTL DEF Spec
=============================================================================
