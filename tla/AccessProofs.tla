----------------------------- MODULE AccessProofs -----------------------------
(* Theorems about tokens and requests, for any directory of users and any    *)
(* number of requests and connections at the same time.                      *)
EXTENDS Access, TLAPS

\* While a request is served, a right its token's row has is noted, and a right it
\* took over from the row was noted: lookupUser reads the row of the token's id.
NotesRights ==
  \A s \in Slots :
    LET r == req[s] IN
    /\ r.step # "idle" /\ HasRight(status, rights, r.token.uid, r.need) => r.held
    /\ r.step \in {"org", "act"} /\ Grants(r.p, r.need) => r.held
    /\ r.step = "act" => Grants(r.p, r.need)

IInv == TypeOK /\ NotesRights

\* The token requests start with is one that is minted.
LEMMA SomeTokenIsToken ==
  SomeToken \in Token /\ SomeToken.rights \in Rights /\ (CHOOSE n \in Needs : TRUE) \in Needs
<1>1. \E t \in Token : TRUE
  <2>1. PICK u \in Ids, r \in Rights : TRUE
    BY DirectoryAssumption, RightsAssumption
  <2>2. [uid |-> u, rights |-> r] \in Token
    BY <2>1 DEF Token
  <2> QED
    BY <2>2
<1>2. SomeToken \in Token
  BY <1>1 DEF SomeToken
<1>3. \E n \in Needs : TRUE
  BY RightsAssumption
<1> QED
  BY <1>2, <1>3 DEF Token

\* The types of requests and connections in TypeOK.
Request == [step : {"idle", "user", "org", "act"}, token : Token, need : Needs,
            p : Rights, held : BOOLEAN]
Connection == [step : {"none", "user", "org", "live"}, token : Token,
               deadline : {"none", "far", "near"}]

\* An empty slot has the type of a request.
LEMMA IdleIsRequest == Idle \in Request
BY SomeTokenIsToken DEF Idle, Request

\* So has a connection that is not made yet.
LEMMA UnconnectedIsConnection == Unconnected \in Connection
BY SomeTokenIsToken DEF Unconnected, Connection

\* The invariant holds when the server starts, with any admissible rows.
LEMMA InitHolds == Init => IInv
<1> SUFFICES ASSUME Init PROVE IInv
  OBVIOUS
<1>1. rights \in [Ids -> Rights]
  BY DEF Init
<1>2. status \in [Ids -> {"unused", "active", "disabled", "deleted"}]
  BY DEF Init
<1>3. \A u, v \in Ids : Stored(u) /\ Stored(v) /\ EmailOf[u] = EmailOf[v] => u = v
  BY DEF Init, Stored
<1>4. req \in [Slots -> Request]
  BY IdleIsRequest DEF Init
<1>5. conn \in [Conns -> Connection]
  BY UnconnectedIsConnection DEF Init
<1>6. suspended \subseteq Orgs /\ tokens \subseteq Token /\ faults \in 0..MaxFaults
  BY BoundsAssumption DEF Init
<1>7. NotesRights
  BY DEF Init, NotesRights, Idle
<1> QED
  BY <1>1, <1>2, <1>3, <1>4, <1>5, <1>6, <1>7 DEF IInv, TypeOK, Request, Connection

\* What a change of the rows does to the requests: it only sets the note.
LEMMA RowsChange ==
  ASSUME IInv, NEW st, NEW rt, RowsBecome(st, rt)
  PROVE  /\ req' \in [Slots -> Request]
         /\ status' = st /\ rights' = rt
         /\ \A s \in Slots :
              /\ req'[s].step = req[s].step /\ req'[s].token = req[s].token
              /\ req'[s].need = req[s].need /\ req'[s].p = req[s].p
              /\ req'[s].held <=>
                   /\ req[s].step # "idle"
                   /\ req[s].held \/ HasRight(st, rt, req[s].token.uid, req[s].need)
<1> DEFINE Noted(s) ==
  req[s].step # "idle" /\ (req[s].held \/ HasRight(st, rt, req[s].token.uid, req[s].need))
<1>1. req \in [Slots -> Request]
  BY DEF IInv, TypeOK, Request
<1>2. req' = [s \in Slots |-> [req[s] EXCEPT !.held = Noted(s)]]
  BY DEF RowsBecome
<1>3. \A s \in Slots : Noted(s) \in BOOLEAN
  OBVIOUS
<1> HIDE DEF Noted
<1>4. \A s \in Slots : [req[s] EXCEPT !.held = Noted(s)] \in Request
  BY <1>1, <1>3 DEF Request
<1>5. req' \in [Slots -> Request]
  BY <1>2, <1>4
<1>6. ASSUME NEW s \in Slots
      PROVE  /\ req'[s].step = req[s].step /\ req'[s].token = req[s].token
             /\ req'[s].need = req[s].need /\ req'[s].p = req[s].p
             /\ req'[s].held = Noted(s)
  BY <1>1, <1>2 DEF Request
<1> QED
  BY <1>3, <1>5, <1>6 DEF Noted, RowsBecome

\* ... so that the notes stay right.
LEMMA RowsKeepNotes ==
  ASSUME IInv, NEW st, NEW rt, RowsBecome(st, rt)
  PROVE  NotesRights'
<1> SUFFICES ASSUME NEW s \in Slots
             PROVE  LET r == req'[s] IN
                    /\ r.step # "idle" /\ HasRight(status', rights', r.token.uid, r.need) => r.held
                    /\ r.step \in {"org", "act"} /\ Grants(r.p, r.need) => r.held
                    /\ r.step = "act" => Grants(r.p, r.need)
  BY DEF NotesRights, HasRight, Grants
<1>1. /\ status' = st /\ rights' = rt
      /\ req'[s].step = req[s].step /\ req'[s].token = req[s].token
      /\ req'[s].need = req[s].need /\ req'[s].p = req[s].p
      /\ req'[s].held <=>
           /\ req[s].step # "idle"
           /\ req[s].held \/ HasRight(st, rt, req[s].token.uid, req[s].need)
  BY RowsChange
<1>2. /\ req[s].step \in {"org", "act"} /\ Grants(req[s].p, req[s].need) => req[s].held
      /\ req[s].step = "act" => Grants(req[s].p, req[s].need)
  BY DEF IInv, NotesRights
<1> QED
  BY <1>1, <1>2

\* The steps that change rows.
RowStep ==
  \/ \E u \in Ids : \E r \in Rights : Invite(u, r) \/ ChangeRights(u, r)
  \/ \E u \in Ids : Disable(u) \/ Enable(u) \/ Delete(u)

\* A change of the rows keeps it: who has a right now has noted it.
LEMMA RowStepKeeps == IInv /\ RowStep => IInv'
<1> SUFFICES ASSUME IInv, RowStep PROVE IInv'
  OBVIOUS
<1>1. PICK st, rt : RowsBecome(st, rt)
  BY DEF RowStep, Invite, ChangeRights, Disable, Enable, Delete
<1>2. req' \in [Slots -> Request] /\ NotesRights'
  BY <1>1, RowsChange, RowsKeepNotes
<1>3. UNCHANGED <<suspended, tokens, conn, faults>>
  BY DEF RowStep, Invite, ChangeRights, Disable, Enable, Delete
<1>4. ASSUME NEW u \in Ids, NEW r \in Rights, Invite(u, r) PROVE TypeOK'
  <2>1. status' = [status EXCEPT ![u] = "active"] /\ rights' = [rights EXCEPT ![u] = r]
    BY <1>4 DEF Invite, RowsBecome
  <2>2. status' \in [Ids -> {"unused", "active", "disabled", "deleted"}]
        /\ rights' \in [Ids -> Rights]
    BY <2>1 DEF IInv, TypeOK
  <2>3. \A v, w \in Ids : Stored(v)' /\ Stored(w)' /\ EmailOf[v] = EmailOf[w] => v = w
    BY <1>4, <2>1 DEF Invite, EmailFree, Stored, IInv, TypeOK
  <2> QED
    BY <1>2, <1>3, <2>2, <2>3 DEF IInv, TypeOK, Request
<1>5. ASSUME NEW u \in Ids, NEW r \in Rights, ChangeRights(u, r) PROVE TypeOK'
  <2>1. status' = status /\ rights' = [rights EXCEPT ![u] = r]
    BY <1>5 DEF ChangeRights, RowsBecome
  <2> QED
    BY <1>2, <1>3, <2>1 DEF IInv, TypeOK, Request, Stored
<1>6. ASSUME NEW u \in Ids, Disable(u) \/ Enable(u) \/ Delete(u) PROVE TypeOK'
  <2>1. /\ Stored(u) /\ (rights' = rights \/ rights' = [rights EXCEPT ![u] = SomeToken.rights])
        /\ \E x \in {"active", "disabled", "deleted"} : status' = [status EXCEPT ![u] = x]
    BY <1>6 DEF Disable, Enable, Delete, RowsBecome, Stored
  <2>2. status' \in [Ids -> {"unused", "active", "disabled", "deleted"}]
        /\ rights' \in [Ids -> Rights]
    BY <2>1, SomeTokenIsToken DEF IInv, TypeOK
  <2>3. \A v, w \in Ids : Stored(v)' /\ Stored(w)' /\ EmailOf[v] = EmailOf[w] => v = w
    BY <2>1 DEF Stored, IInv, TypeOK
  <2> QED
    BY <1>2, <1>3, <2>2, <2>3 DEF IInv, TypeOK, Request
<1> QED
  BY <1>2, <1>4, <1>5, <1>6 DEF IInv, RowStep

\* The steps of requests.
RequestStep(s) ==
  \/ \E t \in Token : \E n \in Needs : Arrive(s, t, n)
  \/ LookupUser(s) \/ ReadOrganization(s) \/ Answer(s)

\* A step of a request keeps it.
LEMMA RequestStepKeeps ==
  ASSUME IInv, NEW s \in Slots, RequestStep(s)
  PROVE  IInv'
<1> USE DEF IInv
<1>1. req \in [Slots -> Request]
  BY DEF TypeOK, Request
<1>2. UNCHANGED <<status, rights, suspended, tokens, conn, faults>>
  BY DEF RequestStep, Arrive, LookupUser, ReadOrganization, Answer
\* What has to be shown of the request.
<1> DEFINE Fine(r) ==
      /\ r.step # "idle" /\ HasRight(status, rights, r.token.uid, r.need) => r.held
      /\ r.step \in {"org", "act"} /\ Grants(r.p, r.need) => r.held
      /\ r.step = "act" => Grants(r.p, r.need)
<1>3. Fine(req[s])
  BY DEF NotesRights
<1>4. ASSUME NEW r \in Request, req' = [req EXCEPT ![s] = r], Fine(r) PROVE IInv'
  <2>1. TypeOK'
    BY <1>1, <1>2, <1>4 DEF TypeOK, Request, Stored
  <2>2. \A q \in Slots : Fine(req'[q])
    BY <1>1, <1>4 DEF NotesRights
  <2> QED
    BY <1>2, <2>1, <2>2 DEF NotesRights, HasRight
<1>5. ASSUME NEW t \in Token, NEW n \in Needs, Arrive(s, t, n) PROVE IInv'
  <2> DEFINE r == [step |-> "user", token |-> t, need |-> n, p |-> t.rights,
                   held |-> HasRight(status, rights, t.uid, n)]
  <2>1. HasRight(status, rights, t.uid, n) \in BOOLEAN
    BY DEF HasRight
  <2>2. r \in Request
    BY <2>1 DEF Request, Token
  <2>3. Fine(r) /\ req' = [req EXCEPT ![s] = r]
    BY <1>5 DEF Arrive
  <2> QED
    BY <1>4, <2>2, <2>3
<1>6. ASSUME LookupUser(s) PROVE IInv'
  <2>1. PICK u \in Found(req[s].token) :
          /\ status[u] = "active"
          /\ req' = [req EXCEPT ![s].step = "org", ![s].p = Overlay(s, u)]
    BY <1>6 DEF LookupUser
  <2>2. u \in Ids /\ u = req[s].token.uid
    BY <2>1 DEF Found
  <2> DEFINE r == [req[s] EXCEPT !.step = "org", !.p = rights[u]]
  <2>3. req' = [req EXCEPT ![s] = r]
    BY <1>1, <2>1 DEF Overlay, Request
  <2>4. r \in Request
    <3>1. req[s] \in Request /\ rights[u] \in Rights
      BY <1>1, <2>2 DEF TypeOK
    <3> QED
      BY <3>1 DEF Request
  <2>5. Grants(rights[u], req[s].need) => req[s].held
    BY <1>3, <1>6, <2>1, <2>2 DEF LookupUser, HasRight
  <2>6. Fine(r)
    <3>1. /\ r.step = "org" /\ r.p = rights[u] /\ r.token = req[s].token
          /\ r.need = req[s].need /\ r.held = req[s].held
      BY <1>1 DEF Request
    <3>2. HasRight(status, rights, req[s].token.uid, req[s].need) => req[s].held
      BY <1>3, <1>6 DEF LookupUser
    <3> HIDE DEF r
    <3> QED
      BY <2>5, <3>1, <3>2
  <2> QED
    BY <1>4, <2>3, <2>4, <2>6
<1>7. ASSUME ReadOrganization(s) PROVE IInv'
  <2> DEFINE r == [req[s] EXCEPT !.step = "act"]
  <2>1. r \in Request /\ req' = [req EXCEPT ![s] = r]
    BY <1>1, <1>7 DEF ReadOrganization, Request
  <2>2. Fine(r)
    BY <1>1, <1>3, <1>7 DEF ReadOrganization, Request
  <2> QED
    BY <1>4, <2>1, <2>2
<1>8. ASSUME Answer(s) PROVE IInv'
  <2>1. Idle \in Request /\ Fine(Idle) /\ req' = [req EXCEPT ![s] = Idle]
    BY <1>8, IdleIsRequest DEF Answer, Idle, Request
  <2> QED
    BY <1>4, <2>1
<1> QED
  BY <1>5, <1>6, <1>7, <1>8 DEF RequestStep

\* The steps that touch neither a row nor a request, and failures.
LEMMA OtherStepKeeps ==
  ASSUME IInv, UNCHANGED <<status, rights, req>>,
         suspended' \subseteq Orgs, tokens' \subseteq Token,
         conn' \in [Conns -> Connection], faults' \in 0..MaxFaults
  PROVE  IInv'
BY DEF IInv, TypeOK, NotesRights, HasRight, Stored, Connection

\* Every step keeps it.
LEMMA Inductive == Spec => []IInv
<1>1. IInv /\ [Next]_vars => IInv'
  <2> SUFFICES ASSUME IInv, [Next]_vars PROVE IInv'
    OBVIOUS
  <2> USE DEF IInv
  <2>1. /\ suspended \subseteq Orgs /\ tokens \subseteq Token
        /\ conn \in [Conns -> Connection] /\ faults \in 0..MaxFaults
    BY DEF TypeOK, Connection
  <2>2. CASE UNCHANGED vars
    BY <2>1, <2>2, OtherStepKeeps DEF vars
  <2>3. CASE RowStep
    BY <2>3, RowStepKeeps
  <2>4. ASSUME NEW s \in Slots, RequestStep(s) PROVE IInv'
    BY <2>4, RequestStepKeeps
  <2>5. ASSUME NEW u \in Ids, Login(u) PROVE IInv'
    <3>1. rights[u] \in Rights
      BY DEF TypeOK
    <3> QED
      BY <2>1, <2>5, <3>1, OtherStepKeeps DEF Login, Token
  <2>6. ASSUME NEW o \in Orgs, SuspendOrResume(o) PROVE IInv'
    BY <2>1, <2>6, OtherStepKeeps DEF SuspendOrResume
  <2>7. ASSUME NEW t \in Token, Expire(t) PROVE IInv'
    BY <2>1, <2>7, OtherStepKeeps DEF Expire
  <2>8. ASSUME NEW c \in Conns, NEW t \in Token, Connect(c, t) PROVE IInv'
    BY <2>1, <2>8, OtherStepKeeps DEF Connect, Connection
  <2>9. ASSUME NEW c \in Conns, CheckUser(c) \/ CheckOrganization(c) \/ TimePasses(c)
                               \/ Pong(c) \/ Disconnect(c)
        PROVE  IInv'
    <3>1. conn' \in [Conns -> Connection]
      BY <2>1, <2>9, UnconnectedIsConnection
      DEF CheckUser, CheckOrganization, LiveDeadline, TimePasses, Pong, Disconnect, Connection
    <3> QED
      BY <2>1, <2>9, <3>1, OtherStepKeeps
      DEF CheckUser, CheckOrganization, TimePasses, Pong, Disconnect
  <2>10. ASSUME StatementFails PROVE IInv'
    <3>1. faults' \in 0..MaxFaults
      BY <2>1, <2>10, BoundsAssumption DEF StatementFails
    <3>2. ASSUME NEW c \in Conns, conn' = [conn EXCEPT ![c] = Unconnected], UNCHANGED req
          PROVE  IInv'
      <4>1. conn' \in [Conns -> Connection]
        BY <2>1, <3>2, UnconnectedIsConnection DEF Connection
      <4> QED
        BY <2>1, <2>10, <3>1, <3>2, <4>1, OtherStepKeeps DEF StatementFails
    <3>3. ASSUME NEW s \in Slots, req' = [req EXCEPT ![s] = Idle], UNCHANGED conn
          PROVE  IInv'
      <4>1. TypeOK'
        BY <2>10, <3>1, <3>3, IdleIsRequest DEF StatementFails, TypeOK, Stored, Request
      <4>2. NotesRights'
        BY <2>10, <3>3 DEF StatementFails, NotesRights, TypeOK, HasRight, Idle
      <4> QED
        BY <4>1, <4>2
    <3> QED
      BY <2>10, <3>2, <3>3 DEF StatementFails
  <2> QED
    BY <2>2, <2>3, <2>4, <2>5, <2>6, <2>7, <2>8, <2>9, <2>10
    DEF Next, RowStep, RequestStep
<1> QED
  BY <1>1, InitHolds, PTL DEF Spec

\* Rows, tokens, requests and connections have their types, and an e-mail address
\* belongs to one stored row.
THEOREM AccessTypeCorrect == Spec => []TypeOK
<1>1. IInv => TypeOK
  BY DEF IInv
<1> QED
  BY <1>1, Inductive, PTL

\* Whatever rows change between the statements of a request, a handler acts only on
\* a right that the token's own row had while the request was served.
THEOREM HandlersActOnHeldRights == Spec => []ActsOnHeldRights
<1>1. IInv => ActsOnHeldRights
  BY DEF IInv, NotesRights, ActsOnHeldRights
<1> QED
  BY <1>1, Inductive, PTL
=============================================================================
