----------------------------- MODULE AgentLoop -----------------------------
(***************************************************************************)
(* The kernel's agent loop (src/yaya/kernel/loop.py) on one session.       *)
(*                                                                         *)
(* A user message spawns a turn task, which asks the strategy what to do   *)
(* and then the memory, the LLM or a tool, until the strategy says done.   *)
(* Every request is an event; the tracker correlates the response with it  *)
(* by request id.  A new message or an interrupt cancels the running turn; *)
(* a request that stays unanswered times out.                              *)
(*                                                                         *)
(* `chan` is the session's queue in the event bus (module EventBus): one   *)
(* event at a time goes to its handlers, and publish returns to a turn     *)
(* when its event has been handled.  Strategy, memory, LLM and tools are   *)
(* plugins: they answer, stay silent, refuse or answer late.               *)
(***************************************************************************)
EXTENDS Integers, Sequences, FiniteSets

CONSTANTS
  MaxTurns,       \* bound: user messages
  MaxIterations,  \* LoopConfig.max_iterations
  MaxExtra,       \* bound: interrupts, deltas, late answers, together
  None

ASSUME BoundAssumption ==
  /\ MaxTurns \in Nat /\ MaxIterations \in Nat \ {0}
  /\ MaxExtra \in Nat

Turns == 1..MaxTurns
MaxRequests == 2 * MaxIterations
Request == Turns \X (1..MaxRequests)

Asks == {"decide", "memory", "llm", "tool"}
(* The answers a plugin can give: for a decision its `next` field, with    *)
(* "odd" for a value the loop does not know; "failed" is llm.call.error.   *)
Answers(ask) ==
  CASE ask = "decide" -> {"memory", "llm", "tool", "done", "odd"}
    [] ask = "llm" -> {"ok", "failed"}
    [] OTHER -> {"ok"}

(* An event of the session: kind, turn, number of the request, content.    *)
Ev(k, t, n, a) == [k |-> k, t |-> t, n |-> n, a |-> a]

VARIABLES
  turn,       \* the turn tasks and their _TurnState
  current,    \* _turns[session]: the registered task
  pending,    \* the request ids _RequestTracker holds
  started,    \* _started
  chan,       \* the session's queued events
  busy,       \* the request event whose plugin handler runs
  users,      \* user messages sent so far
  extra,      \* interrupts, deltas and late answers so far
  ended       \* history: terminal events each turn published

vars == <<turn, current, pending, started, chan, busy, users, extra, ended>>
sessionVars == <<busy, users, extra>>

PCs == {"off", "load", "req", "wait", "stamp", "start", "done", "write", "error", "over"}

Reply == [n : 1..MaxRequests, a : UNION {Answers(x) : x \in Asks}]

Turn == [pc : PCs, step : 0..MaxIterations, n : 0..MaxRequests, ask : Asks,
         resp : {None} \cup Reply, cancel : BOOLEAN, anchored : BOOLEAN]

ASSUME NoneAssumption == None \notin Turns \cup Reply

NewTurn == [pc |-> "off", step |-> 0, n |-> 0, ask |-> "decide", resp |-> None,
            cancel |-> FALSE, anchored |-> FALSE]

Init ==
  /\ turn = [t \in Turns |-> NewTurn]
  /\ current = None
  /\ pending = {}
  /\ started = TRUE
  /\ chan = <<>>
  /\ busy = None
  /\ users = 0 /\ extra = 0
  /\ ended = [t \in Turns |-> 0]

Live(t) == turn[t].pc \notin {"off", "over"}

-----------------------------------------------------------------------------
(* The turn task.  It only moves while nobody has cancelled it.            *)
Runs(t) == Live(t) /\ ~turn[t].cancel

(* The event this task published last is through all its handlers.         *)
Published(t) ==
  /\ ~(busy # None /\ busy.t = t)
  /\ \A i \in DOMAIN chan : ~(chan[i].k = turn[t].pc /\ chan[i].t = t)

(* Publish an event of the turn and await its delivery.                    *)
Publish(t, k) ==
  /\ turn' = [turn EXCEPT ![t].pc = k]
  /\ chan' = Append(chan, Ev(k, t, turn[t].n, None))
  /\ ended' = IF k \in {"done", "error"} THEN [ended EXCEPT ![t] = @ + 1] ELSE ended

(* _request: track the id first, then publish.                             *)
Ask(t, st, what) ==
  /\ turn' = [turn EXCEPT ![t] = [st EXCEPT !.pc = "req", !.n = @ + 1, !.ask = what,
                                            !.resp = None]]
  /\ pending' = pending \cup {<<t, turn[t].n + 1>>}
  /\ chan' = Append(chan, Ev("req", t, turn[t].n + 1, what))
  /\ UNCHANGED ended

(* The head of the loop: the next decision, or the iteration guard.        *)
OneIterationMore(t, st) ==
  IF st.step <= MaxIterations
  THEN Ask(t, [st EXCEPT !.step = @ + 1], "decide")
  ELSE Publish(t, "error") /\ UNCHANGED pending

NextIteration(t, st) ==
  IF st.step < MaxIterations
  THEN Ask(t, [st EXCEPT !.step = @ + 1], "decide")
  ELSE Publish(t, "error") /\ UNCHANGED pending

(* The task ends and its _TurnState with it; the done callback unregisters *)
(* it if it is still the one.                                              *)
Over(t) ==
  /\ turn' = [turn EXCEPT ![t] = [NewTurn EXCEPT !.pc = "over", !.n = turn[t].n,
                                                !.cancel = turn[t].cancel]]
  /\ current' = IF current = t THEN None ELSE current

(* _run_turn up to its first decision: the history is loaded.              *)
HistoryLoaded(t) ==
  /\ Runs(t) /\ turn[t].pc = "load"
  /\ NextIteration(t, turn[t])
  /\ UNCHANGED <<current, started, sessionVars>>

(* _request: publish returned, now the future is awaited.                  *)
RequestPublished(t) ==
  /\ Runs(t) /\ turn[t].pc = "req" /\ Published(t)
  /\ turn' = [turn EXCEPT ![t].pc = "wait"]
  /\ UNCHANGED <<current, pending, started, chan, sessionVars, ended>>

(* _apply_decision, and what follows the answer of memory, LLM and tool.   *)
Apply(t) ==
  /\ Runs(t) /\ turn[t].pc = "wait" /\ turn[t].resp # None
  /\ LET a == turn[t].resp.a
         Go(what) == Ask(t, turn[t], what)
         Say(k) == Publish(t, k) /\ UNCHANGED pending
     IN  \/ turn[t].ask = "decide" /\ a \in {"memory", "llm"} /\ Go(a)
         \/ turn[t].ask = "decide" /\ a = "tool" /\ Say("start")
         \/ turn[t].ask = "decide" /\ a = "done" /\ Say("done")
         \/ turn[t].ask = "decide" /\ a = "odd" /\ Say("error")
         \/ turn[t].ask = "llm" /\ a = "failed" /\ Say("error")
         \/ /\ turn[t].ask = "llm" /\ a = "ok" /\ ~turn[t].anchored
            /\ turn' = [turn EXCEPT ![t].pc = "stamp"]
            /\ UNCHANGED <<pending, chan, ended>>
         \/ turn[t].ask = "llm" /\ a = "ok" /\ turn[t].anchored /\ NextIteration(t, turn[t])
         \/ turn[t].ask \in {"memory", "tool"} /\ NextIteration(t, turn[t])
  /\ UNCHANGED <<current, started, sessionVars>>

(* _stamp_turn_provider returned: the anchor is on the tape, once a turn.  *)
ProviderStamped(t) ==
  /\ Runs(t) /\ turn[t].pc = "stamp"
  /\ NextIteration(t, [turn[t] EXCEPT !.anchored = TRUE])
  /\ UNCHANGED <<current, started, sessionVars>>

(* _call_tool: tool.call.start is out, now the request.                    *)
ToolStartPublished(t) ==
  /\ Runs(t) /\ turn[t].pc = "start" /\ Published(t)
  /\ Ask(t, turn[t], "tool")
  /\ UNCHANGED <<current, started, sessionVars>>

(* assistant.message.done is out: memory.write if the decision wants it.   *)
DoneThenGoOn(t) ==
  /\ Runs(t) /\ turn[t].pc = "done" /\ Published(t)
  /\ NextIteration(t, turn[t])
  /\ UNCHANGED <<current, started, sessionVars>>

DonePublished(t) ==
  /\ Runs(t) /\ turn[t].pc = "done" /\ Published(t)
  /\ \/ Publish(t, "write") /\ UNCHANGED current
     \/ Over(t) /\ UNCHANGED <<chan, ended>>
  /\ UNCHANGED <<pending, started, sessionVars>>

LastPublished(t) ==
  /\ Runs(t) /\ turn[t].pc \in {"write", "error"} /\ Published(t)
  /\ Over(t)
  /\ UNCHANGED <<pending, started, chan, sessionVars, ended>>

(* wait_for gives up (also when the answer came a moment ago): the request *)
(* is discarded and the turn ends with kernel.error.                       *)
NoTimeout(t) == FALSE /\ UNCHANGED vars

Timeout(t) ==
  /\ Runs(t) /\ turn[t].pc = "wait"
  /\ pending' = pending \ {<<t, turn[t].n>>}
  /\ Publish(t, "error")
  /\ UNCHANGED <<current, started, sessionVars>>

(* A cancelled task unwinds at its await: _request discards, nothing is    *)
(* published.                                                              *)
Unwind(t) ==
  /\ Live(t) /\ turn[t].cancel
  /\ pending' = pending \ {<<t, turn[t].n>>}
  /\ Over(t)
  /\ UNCHANGED <<started, chan, sessionVars, ended>>

TurnStep(t) ==
  \/ HistoryLoaded(t) \/ RequestPublished(t) \/ Apply(t) \/ ProviderStamped(t)
  \/ ToolStartPublished(t) \/ DonePublished(t) \/ LastPublished(t) \/ Unwind(t)

-----------------------------------------------------------------------------
(* The session's queue: the next event goes to its handlers.               *)
Deliver(k) == busy = None /\ chan # <<>> /\ Head(chan).k = k

CancelCurrent ==
  LET live == current # None /\ Live(current)
  IN  turn' = IF live THEN [turn EXCEPT ![current].cancel = TRUE] ELSE turn

(* _on_user_message: cancel the running turn and spawn the new one.        *)
UserMessageAlongside ==
  /\ Deliver("user")
  /\ chan' = Tail(chan)
  /\ current' = IF started THEN Head(chan).t ELSE current
  /\ turn' = IF started THEN [turn EXCEPT ![Head(chan).t].pc = "load"] ELSE turn
  /\ UNCHANGED <<pending, started, busy, users, extra, ended>>

OnUserMessage ==
  /\ Deliver("user")
  /\ chan' = Tail(chan)
  /\ LET t == Head(chan).t
         live == current # None /\ Live(current)
     IN  IF ~started THEN UNCHANGED <<turn, current>>
         ELSE /\ current' = t
              /\ turn' = [x \in Turns |->
                            IF x = t THEN [turn[x] EXCEPT !.pc = "load"]
                            ELSE [turn[x] EXCEPT !.cancel = @ \/ (live /\ x = current)]]
  /\ UNCHANGED <<pending, started, busy, users, extra, ended>>

(* _on_interrupt: cancel the running turn, if any.                         *)
OnInterrupt ==
  /\ Deliver("interrupt")
  /\ chan' = Tail(chan)
  /\ IF started THEN CancelCurrent ELSE UNCHANGED turn
  /\ UNCHANGED <<current, pending, started, busy, users, extra, ended>>

(* _on_response and resolve: the id is looked up, the future is set; an    *)
(* untracked id is ignored.                                                *)
ResponseToTheTurn ==
  /\ Deliver("resp")
  /\ chan' = Tail(chan)
  /\ LET e == Head(chan)
         r == <<e.t, turn[e.t].n>>
     IN  IF started /\ r \in pending
         THEN /\ pending' = pending \ {r}
              /\ turn' = [turn EXCEPT ![e.t].resp = [n |-> e.n, a |-> e.a]]
         ELSE UNCHANGED <<pending, turn>>
  /\ UNCHANGED <<current, started, sessionVars, ended>>

OnResponse ==
  /\ Deliver("resp")
  /\ chan' = Tail(chan)
  /\ LET e == Head(chan)
     IN  IF started /\ <<e.t, e.n>> \in pending
         THEN /\ pending' = pending \ {<<e.t, e.n>>}
              /\ turn' = [turn EXCEPT ![e.t].resp = [n |-> e.n, a |-> e.a]]
         ELSE UNCHANGED <<pending, turn>>
  /\ UNCHANGED <<current, started, sessionVars, ended>>

(* _on_llm_delta: forwarded to the session while its request is tracked.   *)
OnDelta ==
  /\ Deliver("delta")
  /\ LET e == Head(chan)
     IN  chan' = IF started /\ <<e.t, e.n>> \in pending
                 THEN Append(Tail(chan), Ev("text", e.t, e.n, None))
                 ELSE Tail(chan)
  /\ UNCHANGED <<turn, current, pending, started, sessionVars, ended>>

(* tool.error: the loop has no subscription for it.                        *)
OnToolError ==
  /\ Deliver("toolerror")
  /\ chan' = Tail(chan)
  /\ UNCHANGED <<turn, current, pending, started, busy, users, extra, ended>>

(* Events only adapters and observers subscribe to.                        *)
OnOther ==
  /\ \E k \in {"start", "done", "write", "error", "text"} : Deliver(k)
  /\ chan' = Tail(chan)
  /\ UNCHANGED <<turn, current, pending, started, sessionVars, ended>>

(* A request reaches its plugin, whose handler runs in the worker.         *)
OnRequest ==
  /\ Deliver("req")
  /\ busy' = Head(chan)
  /\ chan' = Tail(chan)
  /\ UNCHANGED <<turn, current, pending, started, users, extra, ended>>

DeliverNext ==
  \/ OnUserMessage \/ OnInterrupt \/ OnResponse \/ OnDelta \/ OnToolError \/ OnOther \/ OnRequest

-----------------------------------------------------------------------------
(* The plugins.  A handler answers, or ends without an answer: it raised,  *)
(* timed out, answers later, or no plugin subscribes.                      *)
HandlerAnswers(a) ==
  /\ busy # None /\ a \in Answers(busy.a)
  /\ chan' = Append(chan, Ev("resp", busy.t, busy.n, a))
  /\ busy' = None
  /\ UNCHANGED <<turn, current, pending, started, users, extra, ended>>

HandlerSilent ==
  /\ busy # None
  /\ busy' = None
  /\ UNCHANGED <<turn, current, pending, started, chan, users, extra, ended>>

(* The tool dispatcher refuses: unknown tool, bad arguments, no approval.  *)
ToolRefuses ==
  /\ busy # None /\ busy.a = "tool"
  /\ chan' = Append(chan, Ev("toolerror", busy.t, busy.n, None))
  /\ busy' = None
  /\ UNCHANGED <<turn, current, pending, started, users, extra, ended>>

(* A streaming LLM emits a delta.                                          *)
LlmStreams ==
  /\ busy # None /\ busy.a = "llm" /\ extra < MaxExtra
  /\ chan' = Append(chan, Ev("delta", busy.t, busy.n, None))
  /\ extra' = extra + 1
  /\ UNCHANGED <<turn, current, pending, started, busy, users, ended>>

(* A plugin's own task answers, or streams, after its handler returned.    *)
(* What an answer that nobody tracks any more says does not matter.        *)
LateAnswers(t, n) == IF <<t, n>> \in pending THEN Answers(turn[t].ask) ELSE {"ok"}

LateEvent(t, k) ==
  /\ extra < MaxExtra
  /\ \E n \in 1..turn[t].n :
       /\ \A i \in DOMAIN chan : ~(chan[i].k = "req" /\ chan[i].t = t /\ chan[i].n = n)
       /\ \E a \in IF k = "resp" THEN LateAnswers(t, n) ELSE {None} :
            chan' = Append(chan, Ev(k, t, n, a))
  /\ extra' = extra + 1
  /\ UNCHANGED <<turn, current, pending, started, busy, users, ended>>

HandlerEnds ==
  \/ HandlerSilent \/ ToolRefuses
  \/ \E a \in UNION {Answers(x) : x \in Asks} : HandlerAnswers(a)

(* The adapter.                                                            *)
SendMessage ==
  /\ users < MaxTurns
  /\ users' = users + 1
  /\ chan' = Append(chan, Ev("user", users + 1, 0, None))
  /\ UNCHANGED <<turn, current, pending, started, busy, extra, ended>>

SendInterrupt ==
  /\ extra < MaxExtra
  /\ extra' = extra + 1
  /\ chan' = Append(chan, Ev("interrupt", 0, 0, None))
  /\ UNCHANGED <<turn, current, pending, started, busy, users, ended>>

(* stop: unsubscribe, cancel the registered turn and await it; then        *)
(* whatever the tracker holds is cancelled.                                *)
Stop ==
  /\ started
  /\ started' = FALSE
  /\ CancelCurrent
  /\ current' = None
  /\ UNCHANGED <<pending, chan, sessionVars, ended>>

StopReturns ==
  /\ ~started
  /\ \A t \in Turns : ~Live(t)
  /\ pending' = {}
  /\ UNCHANGED <<turn, current, started, chan, sessionVars, ended>>

Next ==
  \/ \E t \in Turns : TurnStep(t) \/ Timeout(t)
  \/ \E t \in Turns, k \in {"resp", "delta"} : LateEvent(t, k)
  \/ DeliverNext \/ HandlerEnds \/ LlmStreams
  \/ SendMessage \/ SendInterrupt \/ Stop \/ StopReturns

(* The bus delivers and its handler timeout ends every handler; ready      *)
(* tasks run; wait_for fires.                                              *)
Fairness ==
  /\ WF_vars(DeliverNext) /\ WF_vars(HandlerEnds)
  /\ \A t \in Turns : WF_vars(TurnStep(t)) /\ WF_vars(Timeout(t))

Spec == Init /\ [][Next]_vars
FairSpec == Spec /\ Fairness

-----------------------------------------------------------------------------
Event == [k : {"user", "interrupt", "req", "resp", "delta", "text", "toolerror",
               "start", "done", "write", "error"},
          t : 0..MaxTurns, n : 0..MaxRequests,
          a : {None} \cup Asks \cup UNION {Answers(x) : x \in Asks}]

(* Types of the loop's tables (loop.py:315-457).                           *)
TypeOK ==
  /\ turn \in [Turns -> Turn]
  /\ current \in Turns \cup {None}
  /\ pending \subseteq Request
  /\ started \in BOOLEAN
  /\ chan \in Seq(Event)
  /\ busy \in Event \cup {None}
  /\ users \in 0..MaxTurns /\ extra \in 0..MaxExtra
  /\ ended \in [Turns -> Nat]

(* A session never has two turns that both still act on it: every other    *)
(* live turn is already cancelled (loop.py:501-534).                       *)
OneActiveTurn == \A t \in Turns : Runs(t) => current = t

(* The tracker holds exactly what is awaited: no entry outlives its await  *)
(* (late answers, timeouts, cancellation), a turn without an answer can    *)
(* still be answered, and the answer it goes on with was given to the      *)
(* request it awaits, not to an earlier one (loop.py:337-392, 870-891).    *)
TrackedIsAwaited ==
  /\ \A r \in pending : turn[r[1]].pc \in {"req", "wait"} /\ turn[r[1]].n = r[2]
  /\ \A t \in Turns : (turn[t].pc \in {"req", "wait"} /\ turn[t].resp = None)
       => <<t, turn[t].n>> \in pending
AnswersItsRequest ==
  \A t \in Turns : (turn[t].pc \in {"req", "wait"} /\ turn[t].resp # None)
    => turn[t].resp.n = turn[t].n
OwnAnswer == TrackedIsAwaited /\ AnswersItsRequest

(* A turn that was not cancelled ends with exactly one of                  *)
(* assistant.message.done and kernel.error, a cancelled one with at most   *)
(* one, and no streamed text is forwarded behind it (loop.py:628-655,      *)
(* 540-575 against 352-383).                                               *)
OneTerminalEvent ==
  \A t \in Turns : /\ ended[t] <= 1
                   /\ turn[t].pc = "over" /\ ~turn[t].cancel => ended[t] = 1
TextBeforeTerminal ==
  \A i, j \in DOMAIN chan :
    (chan[i].k \in {"done", "error"} /\ chan[j].k = "text" /\ chan[i].t = chan[j].t) => j < i
TurnEndsOnce == OneTerminalEvent /\ TextBeforeTerminal

(* Every turn comes to its end: the iteration guard, the step timeout and  *)
(* the unwinding leave no way to hang (loop.py:628-655, 870-891).          *)
TurnTerminates == \A t \in Turns : Live(t) ~> (turn[t].pc = "over")

(* tool.py:610-612: a refused call ends "so the caller's future resolves": *)
(* when its tool.error has been delivered, nobody awaits it.               *)
ToolErrorResolves ==
  [][(Deliver("toolerror") /\ chan' = Tail(chan))
       => <<Head(chan).t, Head(chan).n>> \notin pending']_vars
=============================================================================
