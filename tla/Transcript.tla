----------------------------- MODULE Transcript -----------------------------
(***************************************************************************)
(* One conversation told four times: to the tab that watches it            *)
(* (chat-shell.ts), to the tape (session_persister.py), to a tab that      *)
(* reloads it from the tape (api.py, hydrateFrames), and to the model      *)
(* (loop.py, tape_context.py).  A turn is its number, a message is who     *)
(* spoke in which turn, a tool call's id is its position in the turn, and  *)
(* a result is how it shows: a value, the brief of an envelope, an error.  *)
(* The tab does not lose its socket and is not reloaded between the start  *)
(* and the request of a call.                                              *)
(***************************************************************************)
EXTENDS Integers, Sequences, FiniteSets, SequencesExt

CONSTANTS
  MaxTurns,   \* bound: messages of the user
  MaxCalls,   \* bound: tool calls of a turn
  MaxExtras,  \* bound: deltas, interrupts, foreign errors, compactions, reloads
  None

Calls == 1..MaxCalls
Shows == {"value", "brief", "error"}

VARIABLES
  turns,    \* messages sent
  turn,     \* the kernel's turn: None, deciding, starting or asking
  calls,    \* tool calls it has made
  stopping, \* an interrupt is on its way
  running,  \* calls whose tool has not answered: turn, id
  extras,
  tape,
  live,     \* what the tab holds
  odd,      \* history: ids the tab and the tape were told of in another order
  late      \* history: a tool answered a call nobody waited for any more

turnVars == <<turns, turn, calls, stopping>>
vars == <<turnVars, running, extras, tape, live, odd, late>>

-----------------------------------------------------------------------------
(* The tab.                                                                *)
Blank == [messages |-> <<>>, streaming |-> <<>>, inFlight |-> FALSE, cards |-> [id \in Calls |-> None]]

Said(tab, who, n) == [tab EXCEPT !.messages = Append(@, [who |-> who, turn |-> n])]
Idle(tab) == [tab EXCEPT !.streaming = <<>>, !.inFlight = FALSE]
FinishAssistant(tab, n) == Idle(Said(tab, "assistant", n))
Card(tab, id, how) == [tab EXCEPT !.cards[id] = how]

(* commitStreamingAsInterrupted: what was streamed stays, with a mark *)
Interrupt(tab) ==
  Idle(IF tab.streaming = <<>> THEN tab ELSE Said(tab, "interrupted", tab.streaming))

(* The tape, and the two ways back from it: frames for a tab,              *)
(* _frames_from_entries and hydrateFrames ...                              *)
Entry(kind, n, id, shows) == [kind |-> kind, turn |-> n, id |-> id, shows |-> shows]
Compacted == Entry("anchor", None, None, None)

Frames(entries) ==
  FoldLeft(LAMBDA frames, e : IF e.kind = "anchor" THEN <<>> ELSE Append(frames, e), <<>>, entries)

Replay(tab, frame) ==
  CASE frame.kind = "user" -> Said(tab, "user", frame.turn)
    [] frame.kind = "assistant" -> FinishAssistant(tab, frame.turn)
    [] frame.kind = "call" -> Card(tab, frame.id, "running")
    [] frame.kind = "result" -> Card(tab, frame.id, frame.shows)

Hydrated(entries) == Idle(FoldLeft(Replay, Blank, Frames(entries)))

(* ... and messages for the model: project_entries_to_messages, which      *)
(* keeps what was said, and select_messages, which keeps the calls as well *)
(* and pairs a result with the calls in front of it                        *)
Message(role, n, id, of) == [role |-> role, turn |-> n, id |-> id, of |-> of]
Summary == <<Message("system", None, None, None)>>
Speech == {"user", "assistant"}

Projected(entries) ==
  FoldLeft(LAMBDA ms, e :
             IF e.kind = "anchor" THEN Summary
             ELSE IF e.kind \in Speech THEN Append(ms, Message(e.kind, e.turn, None, None)) ELSE ms,
           <<>>, entries)

SelectOne(acc, e) ==
  LET plus(m) == Append(acc.messages, m) IN
  CASE e.kind = "anchor" -> [messages |-> Summary, pending |-> None]
    [] e.kind \in Speech -> [acc EXCEPT !.messages = plus(Message(e.kind, e.turn, None, None))]
    [] e.kind = "call" -> [messages |-> plus(Message("calls", e.turn, e.id, None)), pending |-> <<e.turn, e.id>>]
    [] e.kind = "result" -> [messages |-> plus(Message("tool", e.turn, e.id, acc.pending)), pending |-> None]

Selected(entries) == FoldLeft(SelectOne, [messages |-> <<>>, pending |-> None], entries).messages

(* _write_tool_result copies "ok", "value" and "error", no envelope *)
Taped(shows) == IF shows = "brief" THEN "nothing" ELSE shows

-----------------------------------------------------------------------------
Init ==
  /\ turns = 0 /\ turn = None /\ calls = 0 /\ stopping = FALSE /\ running = {} /\ extras = 0
  /\ tape = <<>> /\ live = Blank /\ odd = {} /\ late = FALSE

Record(entry) == tape' = Append(tape, entry)
Extra == extras < MaxExtras /\ extras' = extras + 1

(* the kernel cancels the turn that still runs behind the tab's back *)
SendMessage ==
  /\ ~live.inFlight /\ turns < MaxTurns
  /\ turns' = turns + 1 /\ turn' = "deciding" /\ calls' = 0 /\ stopping' = FALSE
  /\ live' = [Said(live, "user", turns') EXCEPT !.inFlight = TRUE]
  /\ Record(Entry("user", turns', None, None))
  /\ UNCHANGED <<running, extras, odd, late>>

Delta ==
  /\ turn = "deciding" /\ Extra
  /\ live' = [live EXCEPT !.streaming = Append(@, turns)]
  /\ UNCHANGED <<turnVars, running, tape, odd, late>>

(* _call_tool: tool.call.start, whose delivery the turn awaits, then the request *)
StartCall ==
  /\ turn = "deciding" /\ calls < MaxCalls
  /\ turn' = "starting" /\ calls' = calls + 1
  /\ live' = Card(live, calls', "running")
  /\ odd' = odd \cup {calls'}
  /\ UNCHANGED <<turns, stopping, running, extras, tape, late>>

RequestCall ==
  /\ turn = "starting"
  /\ turn' = "asking"
  /\ Record(Entry("call", turns, calls, None)) /\ odd' = (IF live.cards[calls] = "running" THEN odd \ {calls} ELSE odd)
  /\ running' = running \cup {<<turns, calls>>}
  /\ UNCHANGED <<turns, calls, stopping, extras, live, late>>

Awaited(c) == turn = "asking" /\ c = <<turns, calls>>

ToolResult(c, shows) ==
  /\ c \in running
  /\ running' = running \ {c}
  /\ live' = Card(live, c[2], shows)
  /\ Record(Entry("result", c[1], c[2], Taped(shows)))
  /\ turn' = IF Awaited(c) THEN "deciding" ELSE turn
  /\ late' = (late \/ ~Awaited(c))
  /\ odd' = (IF turn = "starting" THEN odd ELSE odd \ {c[2]})
  /\ UNCHANGED <<turns, calls, stopping, extras>>

(* tool.error: the adapter does not forward it, no projection knows it *)
ToolError(c) ==
  /\ c \in running
  /\ running' = running \ {c}
  /\ UNCHANGED <<turnVars, extras, tape, live, odd, late>>

Done ==
  /\ turn = "deciding"
  /\ turn' = None
  /\ live' = FinishAssistant(live, turns)
  /\ Record(Entry("assistant", turns, None, None))
  /\ UNCHANGED <<turns, calls, stopping, running, extras, odd, late>>

(* kernel.error ends the turn; plugin.error may be anybody's *)
TurnFails ==
  /\ turn # None
  /\ turn' = None
  /\ live' = Interrupt(live)
  /\ UNCHANGED <<turns, calls, stopping, running, extras, tape, odd, late>>

PluginError ==
  /\ Extra
  /\ live' = Interrupt(live)
  /\ UNCHANGED <<turnVars, running, tape, odd, late>>

(* the tab does not wait for the kernel to cancel *)
ClickStop ==
  /\ Extra
  /\ live' = Idle(live) /\ stopping' = TRUE
  /\ UNCHANGED <<turns, turn, calls, running, tape, odd, late>>

Stopped ==
  /\ stopping
  /\ stopping' = FALSE /\ turn' = None
  /\ UNCHANGED <<turns, calls, running, extras, tape, live, odd, late>>

Compact ==
  /\ Extra /\ tape # <<>>
  /\ Record(Compacted)
  /\ UNCHANGED <<turnVars, running, live, odd, late>>

Reload ==
  /\ Extra /\ turn # "starting"
  /\ live' = Hydrated(tape) /\ odd' = {}
  /\ UNCHANGED <<turnVars, running, tape, late>>

Next ==
  \/ SendMessage \/ Delta \/ StartCall \/ RequestCall \/ Done \/ TurnFails
  \/ PluginError \/ ClickStop \/ Stopped \/ Compact \/ Reload
  \/ \E c \in running : ToolError(c) \/ \E shows \in Shows : ToolResult(c, shows)

Spec == Init /\ [][Next]_vars

-----------------------------------------------------------------------------
Anchored == \E i \in DOMAIN tape : tape[i].kind = "anchor"

(* A reload shows the messages the tab showed, without what was marked as  *)
(* interrupted and without what a compaction replaced, and its tool cards  *)
(* as they stood, except for briefs, and for calls that were announced and *)
(* never made, or answered late between the two.                           *)
ReloadShowsTheSame ==
  LET h == Hydrated(tape)
      spoken == SelectSeq(live.messages, LAMBDA m : m.who # "interrupted") IN
  /\ IF Anchored THEN IsSuffix(h.messages, spoken) ELSE h.messages = spoken
  /\ \A id \in Calls \ odd :
       LET same == h.cards[id] \in {live.cards[id], Taped(live.cards[id])} IN
       IF Anchored THEN h.cards[id] # None => same ELSE same

(* The two histories for the model agree on what was said.                 *)
HistoriesAgree ==
  Projected(tape) = SelectSeq(Selected(tape), LAMBDA m : m.role \notin {"calls", "tool"})

(* As long as no tool answers late, a result that select_messages pairs    *)
(* with a call is that call's.                                             *)
OwnResult ==
  ~late => \A m \in ToSet(Selected(tape)) : m.role = "tool" => m.of \in {None, <<m.turn, m.id>>}

=============================================================================
