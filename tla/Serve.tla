-------------------------------- MODULE Serve --------------------------------
(***************************************************************************)
(* `yaya serve`: run_serve boots the registry, the loop, the persister and *)
(* the compaction manager and takes them down, while a browser is already  *)
(* (or still) connected and a turn may be running.  One session, one       *)
(* browser; registry.start and registry.stop are the places in which       *)
(* run_serve waits for plugins (Registry has what they do), the rest of    *)
(* its startup does not suspend.                                           *)
(***************************************************************************)
EXTENDS Integers, Sequences, FiniteSets, Functions

CONSTANTS
  MaxTyped,   \* bound: messages the user types
  MaxTools,   \* bound: tool calls of all turns
  None

(* What is assumed of the constants.                                       *)
Parameters == None \notin BOOLEAN /\ None \notin {0, 1}

VARIABLES
  at,        \* where run_serve is
  up,        \* what runs or is subscribed
  closed,    \* what is closed: "store", "bus"
  asked,     \* the shutdown event
  code,      \* what run_serve returns
  online,    \* the browser's socket is open
  sendQueue, \* WsClient.sendQueue
  typed,     \* messages so far
  chan,      \* events of the session on the bus, not yet delivered
  tool,      \* a tool runs in the session's worker: None, or whether the
             \* persister is among the handlers still to be called
  turn,      \* none, thinking, or calling a tool
  called,    \* tool calls so far
  tape,      \* entries written
  shown,     \* history: answers the browser was sent
  heard,     \* history: messages a turn was started for
  lost       \* history: messages nobody heard

runVars == <<at, up, closed, asked, code>>
browserVars == <<online, sendQueue, typed>>
sessionVars == <<chan, tool, turn, called>>
historyVars == <<shown, heard, lost>>
vars == <<runVars, browserVars, sessionVars, tape, historyVars>>

Event(kind, n) == [kind |-> kind, n |-> n]

Init ==
  /\ at = "boot" /\ up = {} /\ closed = {} /\ asked = FALSE /\ code = None
  /\ online = FALSE /\ sendQueue = <<>> /\ typed = 0
  /\ chan = <<>> /\ tool = None /\ turn = "none" /\ called = 0
  /\ tape = <<>> /\ shown = {} /\ heard = {} /\ lost = {}

-----------------------------------------------------------------------------
(* registry.start *)

(* the configuration cannot be opened: nothing has come up *)
BootFails ==
  /\ at = "boot"
  /\ at' = "bus.close" /\ code' = 1 /\ closed' = {"store"}
  /\ UNCHANGED <<up, asked, browserVars, sessionVars, tape, historyVars>>

(* install_dispatcher, then the plugins; from on_load on, the web adapter  *)
(* takes connections                                                       *)
LoadPlugins ==
  /\ at = "boot"
  /\ at' = "plugins" /\ up' = {"dispatcher", "plugins"}
  /\ UNCHANGED <<closed, asked, code, browserVars, sessionVars, tape, historyVars>>

(* _bootstrap_providers_namespace or the approval runtime raises: the flag *)
(* registry_started is not set, so that the plugins stay                   *)
StartRaises ==
  /\ at = "plugins"
  /\ at' = "bus.close" /\ code' = 1 /\ closed' = {"store"}
  /\ UNCHANGED <<up, asked, browserVars, sessionVars, tape, historyVars>>

(* kernel.ready is out; loop.start, install_session_persister and          *)
(* _maybe_install_compaction do not suspend                                *)
Wire(compaction) ==
  /\ at = "plugins"
  /\ at' = "live"
  /\ up' = up \cup {"loop", "persister"} \cup (IF compaction THEN {"compaction"} ELSE {})
  /\ UNCHANGED <<closed, asked, code, browserVars, sessionVars, tape, historyVars>>

(* SIGINT or SIGTERM: the handler is there before the startup *)
Signal ==
  /\ ~asked /\ at # "done"
  /\ asked' = TRUE
  /\ UNCHANGED <<at, up, closed, code, browserVars, sessionVars, tape, historyVars>>

(* the finally block, up to the first await that waits: loop.stop gathers  *)
(* the turn it has cancelled                                               *)
TearDown ==
  /\ at = "live" /\ asked
  /\ at' = "loop.stop" /\ closed' = {"store"}
  /\ up' = up \ {"compaction", "persister", "loop"}
  /\ UNCHANGED <<asked, code, browserVars, sessionVars, tape, historyVars>>

LoopStopped ==
  /\ at = "loop.stop"
  /\ at' = "registry.stop"
  /\ turn' = "none"
  /\ UNCHANGED <<up, closed, asked, code, browserVars, chan, tool, called, tape, historyVars>>

(* registry.stop: the web adapter closes its sockets; nobody takes the     *)
(* dispatcher down                                                         *)
RegistryStopped ==
  /\ at = "registry.stop"
  /\ at' = "bus.close" /\ up' = up \ {"plugins"} /\ code' = 0
  /\ online' = FALSE
  /\ UNCHANGED <<closed, asked, sendQueue, typed, sessionVars, tape, historyVars>>

(* the bus takes no more events *)
BusCloses ==
  /\ at = "bus.close" /\ "bus" \notin closed
  /\ closed' = closed \cup {"bus"}
  /\ UNCHANGED <<at, up, asked, code, browserVars, sessionVars, tape, historyVars>>

(* and its workers are through *)
Returns ==
  /\ at = "bus.close" /\ "bus" \in closed /\ chan = <<>> /\ tool = None
  /\ at' = "done"
  /\ UNCHANGED <<up, closed, asked, code, browserVars, sessionVars, tape, historyVars>>

-----------------------------------------------------------------------------
(* The browser.                                                            *)
Publish(events) == chan' = IF "bus" \in closed THEN chan ELSE chan \o events
Gone(events) == IF "bus" \in closed THEN {ev.n : ev \in Range(events)} ELSE {}

(* send: at once, or when the socket opens *)
Send ==
  LET message == Event("user", typed + 1) IN
  /\ typed < MaxTyped /\ typed' = typed + 1
  /\ IF online
     THEN /\ Publish(<<message>>) /\ lost' = lost \cup Gone(<<message>>)
          /\ UNCHANGED sendQueue
     ELSE /\ sendQueue' = Append(sendQueue, message)
          /\ UNCHANGED <<chan, lost>>
  /\ UNCHANGED <<runVars, online, tool, turn, called, tape, shown, heard>>

(* WsClient keeps trying, and flushes its queue when the socket opens *)
Connect ==
  /\ ~online /\ "plugins" \in up
  /\ at # "done"
  /\ online' = TRUE
  /\ Publish(sendQueue) /\ lost' = lost \cup Gone(sendQueue)
  /\ sendQueue' = <<>>
  /\ UNCHANGED <<runVars, typed, tool, turn, called, tape, shown, heard>>

-----------------------------------------------------------------------------
(* The session's worker: handlers in the order of their subscription, the  *)
(* plugins', the loop's, the persister's.                                  *)
Idle == tool = None /\ chan # <<>>
Pop == chan' = Tail(chan)
Taped(ev) == tape' = IF "persister" \in up THEN Append(tape, ev) ELSE tape

DeliverMessage ==
  LET ev == Head(chan) IN
  /\ Idle /\ ev.kind = "user"
  /\ Pop /\ Taped(ev)
  /\ IF "loop" \in up
     THEN turn' = "thinking" /\ heard' = heard \cup {ev.n} /\ UNCHANGED lost
     ELSE lost' = lost \cup {ev.n} /\ UNCHANGED <<turn, heard>>
  /\ UNCHANGED <<runVars, browserVars, tool, called, shown>>

(* the targets are those of now, the persister's turn comes when the tool  *)
(* has returned                                                            *)
Dispatch ==
  /\ Idle /\ Head(chan).kind = "request"
  /\ tool' = ("persister" \in up)
  /\ UNCHANGED <<runVars, browserVars, chan, turn, called, tape, historyVars>>

(* it answers, or the bus cancels it after its 30 s; a persister that has  *)
(* stopped must open the session anew, which the closed store refuses      *)
ToolEnds ==
  LET ev == Head(chan)
      answer == <<Event("result", ev.n)>> IN
  /\ tool # None
  /\ \/ chan' = IF "bus" \in closed THEN Tail(chan) ELSE Tail(chan) \o answer
     \/ Pop
  /\ tape' = IF tool /\ "store" \notin closed THEN Append(tape, ev) ELSE tape
  /\ tool' = None
  /\ UNCHANGED <<runVars, browserVars, turn, called, historyVars>>

DeliverResult ==
  LET ev == Head(chan) IN
  /\ Idle /\ ev.kind = "result"
  /\ Pop /\ Taped(ev)
  /\ turn' = IF "loop" \in up /\ turn = "calling" /\ ev.n = called THEN "thinking" ELSE turn
  /\ UNCHANGED <<runVars, browserVars, tool, called, historyVars>>

DeliverDone ==
  LET ev == Head(chan) IN
  /\ Idle /\ ev.kind = "done"
  /\ Pop /\ Taped(ev)
  /\ shown' = IF online THEN shown \cup {ev.n} ELSE shown
  /\ UNCHANGED <<runVars, browserVars, tool, turn, called, heard, lost>>

-----------------------------------------------------------------------------
(* The turn, outside the worker.  Its messages are numbered by the turn    *)
(* that is running, the last one heard.                                    *)
Current == CHOOSE n \in heard : \A m \in heard : m <= n

TurnCalls ==
  /\ turn = "thinking" /\ called < MaxTools
  /\ called' = called + 1
  /\ turn' = "calling"
  /\ Publish(<<Event("request", called')>>)
  /\ UNCHANGED <<runVars, browserVars, tool, tape, historyVars>>

TurnEnds ==
  /\ turn = "thinking"
  /\ turn' = "none"
  /\ Publish(<<Event("done", Current)>>)
  /\ UNCHANGED <<runVars, browserVars, tool, called, tape, historyVars>>

(* step_timeout *)
TurnTimesOut ==
  /\ turn = "calling"
  /\ turn' = "none"
  /\ UNCHANGED <<runVars, browserVars, chan, tool, called, tape, historyVars>>

Next ==
  \/ BootFails \/ LoadPlugins \/ StartRaises \/ (\E c \in BOOLEAN : Wire(c)) \/ Signal
  \/ TearDown \/ LoopStopped \/ RegistryStopped \/ BusCloses \/ Returns
  \/ Send \/ Connect
  \/ DeliverMessage \/ Dispatch \/ ToolEnds \/ DeliverResult \/ DeliverDone
  \/ TurnCalls \/ TurnEnds \/ TurnTimesOut

Spec == Init /\ [][Next]_vars

-----------------------------------------------------------------------------
(* Types of run_serve's locals and of the session (serve.py:338-445).      *)
SessionEvent == [kind : {"user", "request", "result", "done"}, n : Nat]
Types ==
  /\ up \subseteq {"dispatcher", "plugins", "loop", "persister", "compaction"}
  /\ closed \subseteq {"store", "bus"} /\ asked \in BOOLEAN /\ code \in {None, 0, 1}
  /\ online \in BOOLEAN /\ sendQueue \in Seq([kind : {"user"}, n : Nat]) /\ typed \in Nat
  /\ chan \in Seq(SessionEvent) /\ tool \in BOOLEAN \cup {None}
  /\ turn \in {"none", "thinking", "calling"} /\ called \in Nat
  /\ tape \in Seq(SessionEvent) /\ shown \subseteq Nat /\ heard \subseteq Nat
TypeOK == Types /\ lost \subseteq 1..typed

Entries(kind) == {ev.n : ev \in {e \in Range(tape) : e.kind = kind}}

(* What outlives run_serve: the dispatcher, which nobody takes down, and,  *)
(* when registry.start raised, the plugins.  No turn, and no queued event. *)
StopLeavesNothing ==
  at = "done" =>
    /\ up = {"dispatcher"} \/ (code = 1 /\ up \subseteq {"dispatcher", "plugins"})
    /\ turn = "none" /\ chan = <<>> /\ closed = {"store", "bus"}

(* A message is heard by the loop and written on the tape, or neither: a   *)
(* session never has a turn its tape does not know.  Only before "live"    *)
(* and after the signal is a message lost.  An answer the browser has seen *)
(* is on the tape, and so is the request of a result, unless the shutdown  *)
(* was in between.                                                         *)
TapeKnowsTheTurns ==
  /\ heard = Entries("user")
  /\ ~asked => shown \subseteq Entries("done") /\ Entries("result") \subseteq Entries("request")

(* However often the browser comes and goes while the server boots or goes *)
(* down, a message the user typed is in one place: in the browser's queue, *)
(* on the bus, heard by one turn, or lost.                                 *)
Messages(s) == {ev.n : ev \in {e \in Range(s) : e.kind = "user"}}
Once(s) ==
  \A i, j \in DOMAIN s : s[i].kind = "user" /\ s[j].kind = "user" /\ s[i].n = s[j].n => i = j
InOnePlace ==
  /\ 1..typed = Messages(sendQueue) \cup Messages(chan) \cup heard \cup lost
  /\ Once(sendQueue) /\ Once(chan) /\ Messages(sendQueue) \cap Messages(chan) = {}
  /\ (Messages(sendQueue) \cup Messages(chan)) \cap (heard \cup lost) = {}
  /\ heard \cap lost = {}

Served == StopLeavesNothing /\ TapeKnowsTheTurns /\ InOnePlace

(* What keeps it so: what runs, is open and is returned follows from where *)
(* run_serve is; the turn has a message and ends with the loop; and until  *)
(* the signal nothing but messages is queued outside "live", and a result  *)
(* only behind its request.                                                *)
PlaceTells ==
  /\ at \in {"boot", "plugins", "live", "loop.stop", "registry.stop", "bus.close", "done"}
  /\ at = "boot" => up = {} /\ closed = {}
  /\ at = "plugins" => up = {"dispatcher", "plugins"} /\ closed = {}
  /\ at = "live" => {"dispatcher", "plugins", "loop", "persister"} \subseteq up /\ closed = {}
  /\ at \in {"loop.stop", "registry.stop"} =>
       up = {"dispatcher", "plugins"} /\ closed = {"store"} /\ asked
  /\ at \in {"bus.close", "done"} =>
       /\ "store" \in closed
       /\ \/ up = {"dispatcher"} /\ asked
          \/ code = 1 /\ up \subseteq {"dispatcher", "plugins"}
  /\ at = "done" => "bus" \in closed /\ chan = <<>> /\ tool = None
TurnInPlace ==
  /\ turn # "none" => at \in {"live", "loop.stop"} /\ heard # {}
  /\ heard # {} => \E n \in heard : \A m \in heard : m <= n
  /\ tool # None => chan # <<>> /\ Head(chan).kind = "request"
UntilAsked ==
  ~asked =>
    /\ tool # None => tool = TRUE /\ at = "live"
    /\ turn # "none" => at = "live"
    /\ \A ev \in Range(chan) : ev.kind # "user" => at = "live"
    /\ \A ev \in Range(chan) : ev.kind = "result" => ev.n \in Entries("request")
ServeInv ==
  Parameters /\ Types /\ PlaceTells /\ TurnInPlace /\ UntilAsked /\ TapeKnowsTheTurns
=============================================================================
