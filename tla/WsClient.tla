------------------------------ MODULE WsClient ------------------------------
(***************************************************************************)
(* The dashboard's live client, connectLive in src/web/src/ws.ts: one      *)
(* closure with a variable for its socket, one for its timer, and handlers *)
(* the browser runs one at a time.  A socket reports its end only some     *)
(* time after close() was called; until then the closure may have another. *)
(*                                                                         *)
(* The server closes every connection in the end: it never pings, so the   *)
(* read deadline of 60 s is never moved (src/internal/ws/hub.go); one that *)
(* sends no token is closed after 5 s.                                     *)
(*                                                                         *)
(* The server's end is LiveFeed; LiveFeedProofs extends both modules, so    *)
(* ClientSpec and ClientNext.                                              *)
(***************************************************************************)
EXTENDS Integers, FiniteSets

CONSTANTS
  MaxSockets,   \* sockets that exist at the same time: a bound of the model
  MaxAttempt,   \* from here on the delay is 15 s: 1000 * 2^4 > 15000
  MaxHides, MaxDrops   \* bounds of the model

ASSUME BoundsAssumption ==
  MaxSockets \in Nat \ {0} /\ {MaxAttempt, MaxHides, MaxDrops} \subseteq Nat

Sockets == 1..MaxSockets
NoSocket == 0

VARIABLES
  closed, paused,   \* variables of the closure
  ws,               \* its socket, or NoSocket (null)
  attempt,
  timer,            \* the timer it knows is running
  strays,           \* running timers it does not know any more
  shown,            \* last state given to onState
  sock,             \* sock[s]: what the browser and the server know of socket s
  token,            \* getToken() returns one
  hides, drops      \* how often the page was hidden, a connection was lost

clientVars == <<closed, paused, ws, attempt, timer, strays, shown, sock, token, hides, drops>>

\* "open": no token was sent; "sent": the answer is under way; "live": auth_ok
\* was handled; "closing", "failing": the close event (after an error event) is
\* still to come.
Up == {"connecting", "open", "sent", "live"}
States == {"none"} \cup Up \cup {"closing", "failing"}
Shown == {"connecting", "reconnecting", "live", "paused", "offline"}

ActiveSockets == {s \in Sockets : sock[s] \in Up}

----------------------------------------------------------------------------
\* close() of the socket in the variable; without one nothing happens.
CloseState(st) ==
  CASE st = "connecting" -> "failing" [] st \in Up -> "closing" [] OTHER -> st
CloseWs == IF ws = NoSocket THEN sock ELSE [sock EXCEPT ![ws] = CloseState(@)]

\* open(); the handler said st before.  A missing token ends the attempts.
Free == {s \in Sockets : sock[s] = "none"}
Open(st) ==
  \/ /\ token
     /\ \E s \in Free :
          /\ \A t \in Free : s <= t
          /\ ws' = s
          /\ sock' = [sock EXCEPT ![s] = "connecting"]
     /\ shown' = st
  \/ /\ ~token
     /\ shown' = "offline"
     /\ UNCHANGED <<ws, sock>>

ScheduleState == IF attempt = 0 THEN "connecting" ELSE "reconnecting"

\* schedule(): the variable takes the new timer, an older one runs on unknown.
Schedule ==
  /\ attempt' = IF attempt < MaxAttempt THEN attempt + 1 ELSE attempt
  /\ shown' = ScheduleState
  /\ timer' = TRUE
  /\ strays' = strays + (IF timer THEN 1 ELSE 0)

\* connectLive on a page that is visible or hidden.
ConnectLive ==
  /\ closed = FALSE
  /\ paused \in BOOLEAN
  /\ ws = IF paused THEN NoSocket ELSE 1
  /\ sock = [s \in Sockets |-> IF s = 1 /\ ~paused THEN "connecting" ELSE "none"]
  /\ attempt = 0
  /\ timer = FALSE /\ strays = 0
  /\ shown = "connecting"
  /\ token = TRUE
  /\ hides = 0 /\ drops = 0

----------------------------------------------------------------------------
(* Handlers.                                                               *)

\* The token is the one open() read, so there is one even after LoseToken; the
\* socket it goes to is the one in the variable.  Sending on one that is still
\* connecting throws, on one that is closing does nothing.  (A second token makes
\* the server close, which it may do anyway.)
OnOpen(s) ==
  /\ sock[s] = "connecting"
  /\ LET sk == [sock EXCEPT ![s] = "open"]
     IN sock' = IF ws # NoSocket /\ sk[ws] = "open" THEN [sk EXCEPT ![ws] = "sent"]
                ELSE sk
  /\ UNCHANGED <<closed, paused, ws, attempt, timer, strays, shown, token, hides, drops>>

\* onmessage, auth_ok; it is not asked whether this socket is still the current one.
AuthOk(s) ==
  /\ sock[s] = "sent"
  /\ sock' = [sock EXCEPT ![s] = "live"]
  /\ attempt' = 0
  /\ shown' = "live"
  /\ UNCHANGED <<closed, paused, ws, timer, strays, token, hides, drops>>

\* Mutants of MaySchedule: hidden pages reconnect, too; one retry only.
AlwaysSchedules == ~closed
SchedulesOnce == ~closed /\ ~paused /\ attempt = 0
MaySchedule == ~closed /\ ~paused

WsAfterClose == NoSocket

\* onerror (of a connection that failed), then onclose.  Both act on the variable,
\* whichever socket it holds.
OnClose(s) ==
  /\ sock[s] \in {"closing", "failing"}
  /\ sock' = [(IF sock[s] = "failing" THEN CloseWs ELSE sock) EXCEPT ![s] = "none"]
  /\ ws' = WsAfterClose
  /\ IF MaySchedule THEN Schedule ELSE UNCHANGED <<attempt, timer, strays, shown>>
  /\ UNCHANGED <<closed, paused, token, hides, drops>>

\* Mutant of AfterTimeout: setInterval instead of setTimeout.
AfterInterval == TRUE
AfterTimeout == FALSE

\* A timer fires: the one in the variable or one that was overwritten.  It ran for
\* a second at least, the events of a failed connection are queued at once.
TimerFires ==
  /\ \A s \in Sockets : sock[s] # "failing"
  /\ \/ timer /\ timer' = AfterTimeout /\ UNCHANGED strays
     \/ strays > 0 /\ strays' = strays - 1 /\ UNCHANGED timer
  /\ IF MaySchedule THEN Open(shown) ELSE UNCHANGED <<ws, sock, shown>>
  /\ UNCHANGED <<closed, paused, attempt, token, hides, drops>>

\* onVis; a stopped client does not listen any more.
Hide ==
  /\ ~closed /\ ~paused
  /\ hides < MaxHides
  /\ hides' = hides + 1
  /\ paused' = TRUE
  /\ timer' = FALSE
  /\ sock' = CloseWs
  /\ ws' = NoSocket
  /\ shown' = "paused"
  /\ UNCHANGED <<closed, attempt, strays, token, drops>>

Show ==
  /\ ~closed /\ paused
  /\ paused' = FALSE
  /\ attempt' = 0
  /\ Open("connecting")
  /\ UNCHANGED <<closed, timer, strays, token, hides, drops>>

\* stop(), when the dashboard is left.
Stop ==
  /\ ~closed
  /\ closed' = TRUE
  /\ timer' = FALSE
  /\ sock' = CloseWs
  /\ ws' = NoSocket
  /\ UNCHANGED <<paused, attempt, strays, shown, token, hides, drops>>

----------------------------------------------------------------------------
(* The world outside.                                                      *)

\* Deadlines of the server: no token within 5 s, 60 s since it was accepted.
ServerCloses(s) ==
  /\ sock[s] \in {"open", "live"}
  /\ sock' = [sock EXCEPT ![s] = "closing"]
  /\ UNCHANGED <<closed, paused, ws, attempt, timer, strays, shown, token, hides, drops>>

\* The connection is refused or lost, or the token rejected; the browser may report
\* an error.
LoseConnection(s) ==
  /\ sock[s] \in Up
  /\ drops < MaxDrops
  /\ drops' = drops + 1
  /\ \E st \in {"failing"} \cup (IF sock[s] = "connecting" THEN {} ELSE {"closing"}) :
       sock' = [sock EXCEPT ![s] = st]
  /\ UNCHANGED <<closed, paused, ws, attempt, timer, strays, shown, token, hides>>

\* Another tab signs out.
LoseToken ==
  /\ token
  /\ token' = FALSE
  /\ UNCHANGED <<closed, paused, ws, attempt, timer, strays, shown, sock, hides, drops>>

\* Nothing is left to do after the dashboard was left.
Left ==
  /\ closed /\ strays = 0 /\ \A s \in Sockets : sock[s] = "none"
  /\ UNCHANGED clientVars

ClientNext ==
  \/ \E s \in Sockets : OnOpen(s) \/ AuthOk(s) \/ OnClose(s) \/ ServerCloses(s) \/ LoseConnection(s)
  \/ TimerFires
  \/ Hide \/ Show \/ Stop
  \/ LoseToken
  \/ Left

ClientSpec == ConnectLive /\ [][ClientNext]_clientVars

\* Timers fire, connections are made or refused, answers and close events arrive,
\* deadlines of the server pass.  Strong fairness: the close event of a lost socket
\* does not come, each time anew, in the moment the current one is connecting.
ClientFairness ==
  /\ WF_clientVars(TimerFires)
  /\ \A s \in Sockets : SF_clientVars(OnOpen(s) /\ ws = s)
  /\ \A s \in Sockets : /\ WF_clientVars(OnOpen(s)) /\ WF_clientVars(AuthOk(s))
                        /\ WF_clientVars(OnClose(s)) /\ WF_clientVars(ServerCloses(s))

FairClientSpec == ClientSpec /\ ClientFairness

----------------------------------------------------------------------------
(* Properties.                                                             *)

Timers == strays + (IF timer THEN 1 ELSE 0)

\* A late close event makes the client lose the socket it opened meanwhile and
\* open another: each time the page was hidden can add one connection for good,
\* and nothing else can; there is one socket or one timer otherwise.
OneMorePerHide ==
  Cardinality({s \in Sockets : sock[s] # "none"}) + Timers <= 1 + hides

\* A visible dashboard with a token gets (back) to live, however many sockets it
\* lost sight of.
Reconnects ==
  ~paused /\ ~closed /\ token ~> shown = "live" \/ paused \/ closed \/ ~token

\* A page that stays hidden or was left ends up without any connection: those it
\* forgot to close the server closes, and none is opened.
QuietWhenAway == <>[](paused \/ closed) => <>[](ActiveSockets = {})

\* "pause when page hidden": no connection is kept open then.  The code violates it:
\* a connection that onclose lost sight of is not closed.
PausesWhenHidden == paused => ActiveSockets = {}
=============================================================================
