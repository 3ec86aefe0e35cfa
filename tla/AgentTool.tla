------------------------------ MODULE AgentTool ------------------------------
(***************************************************************************)
(* The agent_tool plugin: AgentTool.run forks the session the plugin was   *)
(* loaded with, listens to the child session on the bus, sends it the goal *)
(* and waits for its assistant.message.done, within a budget and until it  *)
(* is cancelled (by the bus's handler timeout, or by the end of the turn). *)
(* The events of one child session are delivered one at a time, in order.  *)
(***************************************************************************)
EXTENDS Integers, Sequences, FiniteSets, Functions

CONSTANTS
  Spawns,      \* calls of the tool
  Tools,       \* tools a child may call
  Allowed,     \* the allowlist of every call
  MaxToolCalls,\* bound: tool calls of a child
  None

(* What is assumed of the constants.                                       *)
Parameters ==
  /\ MaxToolCalls \in Nat
  /\ {None, "internal", "timeout", "cancelled"} \cap Spawns = {}
  /\ None \notin {"internal", "timeout", "cancelled"}

VARIABLES
  registered,  \* AgentTool is in the kernel's table
  bound,       \* _Runtime holds a bus and a session
  inWorker,    \* run() is called by the dispatcher, inside a bus worker: its
               \* publishes do not wait, so it is only ever cancelled waiting
  run,         \* where a call of the tool is
  result,      \* what it returned
  subs,        \* listeners on the bus: <<call, kind>>
  completion,  \* its future: None, or whose final text it holds
  hits,        \* forbidden_hits, a call's name by its number in "called"
  told,        \* its events on the bridge session
  child,       \* turn of the child session: idle, running, over
  chan,        \* events published on the child session, not yet delivered
  called,      \* history: tools the child has called
  early        \* history: calls cancelled while they announced themselves

pluginVars == <<registered, bound, inWorker>>
childVars == <<child, chan, called>>
listenVars == <<subs, completion, hits>>
vars == <<pluginVars, run, result, listenVars, told, childVars, early>>

Init ==
  /\ registered = TRUE /\ bound \in BOOLEAN   \* yaya serve loads it without a session
  /\ inWorker \in BOOLEAN
  /\ run = [c \in Spawns |-> "idle"] /\ result = [c \in Spawns |-> None]
  /\ subs = {} /\ completion = [c \in Spawns |-> None]
  /\ hits = [c \in Spawns |-> <<>>] /\ told = [c \in Spawns |-> <<>>]
  /\ child = [c \in Spawns |-> "idle"] /\ chan = [c \in Spawns |-> <<>>]
  /\ called = [c \in Spawns |-> <<>>]
  /\ early = {}

Tell(c, kind) == told' = [told EXCEPT ![c] = Append(@, kind)]
Event(kind, call) == [kind |-> kind, call |-> call]

-----------------------------------------------------------------------------
(* the dispatcher finds the tool and asks for its approval *)
Lookup(c) ==
  /\ run[c] = "idle" /\ registered
  /\ run' = [run EXCEPT ![c] = "approval"]
  /\ UNCHANGED <<pluginVars, result, listenVars, told, childVars, early>>

(* _resolve_runtime *)
RunUnbound(c) ==
  /\ run[c] = "approval" /\ ~bound
  /\ run' = [run EXCEPT ![c] = "returned"]
  /\ result' = [result EXCEPT ![c] = "internal"]
  /\ UNCHANGED <<pluginVars, listenVars, told, childVars, early>>

Listeners(c) == {<<c, "done">>, <<c, "request">>}

RunUnheard(c) ==
  /\ run[c] = "approval" /\ bound
  /\ run' = [run EXCEPT ![c] = "announcing"]
  /\ subs' = subs \cup {<<c, "done">>}
  /\ Tell(c, "started")
  /\ UNCHANGED <<pluginVars, result, completion, hits, childVars, early>>

(* fork, _subscribe_child, then subagent.started is published: run awaits *)
Run(c) ==
  /\ run[c] = "approval" /\ bound
  /\ run' = [run EXCEPT ![c] = "announcing"]
  /\ subs' = subs \cup Listeners(c)
  /\ Tell(c, "started")
  /\ UNCHANGED <<pluginVars, result, completion, hits, childVars, early>>

SendGoal(c) ==
  /\ run[c] = "announcing"
  /\ run' = [run EXCEPT ![c] = "waiting"]
  /\ chan' = [chan EXCEPT ![c] = Append(@, Event("user.message.received", 0))]
  /\ UNCHANGED <<pluginVars, result, listenVars, told, child, called, early>>

Completed(c) ==
  /\ run[c] = "waiting" /\ completion[c] # None
  /\ run' = [run EXCEPT ![c] = "completing"]
  /\ Tell(c, "completed")
  /\ UNCHANGED <<pluginVars, result, listenVars, childVars, early>>

Narrowed(c) ==
  /\ run[c] = "completing" /\ hits[c] # <<>>
  /\ run' = [run EXCEPT ![c] = "narrowing"]
  /\ Tell(c, hits[c])
  /\ UNCHANGED <<pluginVars, result, listenVars, childVars, early>>

Leaves(c, what) ==
  /\ run' = [run EXCEPT ![c] = "returned"]
  /\ result' = [result EXCEPT ![c] = what]
  /\ subs' = subs \ Listeners(c)

Returns(c) ==
  /\ \/ run[c] = "completing" /\ hits[c] = <<>>
     \/ run[c] = "narrowing"
  /\ Leaves(c, completion[c])
  /\ UNCHANGED <<pluginVars, completion, hits, told, childVars, early>>

(* max_wall_seconds: nobody interrupts the child's turn *)
TimesOut(c) ==
  /\ run[c] = "waiting" /\ completion[c] = None
  /\ run' = [run EXCEPT ![c] = "timing out"]
  /\ Tell(c, "failed")
  /\ UNCHANGED <<pluginVars, result, listenVars, childVars, early>>

TimedOut(c) ==
  /\ run[c] = "timing out"
  /\ Leaves(c, "timeout")
  /\ UNCHANGED <<pluginVars, completion, hits, told, childVars, early>>

Suspended(c) ==
  \/ run[c] = "waiting"
  \/ ~inWorker /\ run[c] \in {"completing", "narrowing", "timing out"}

(* inside the try: subagent.failed, then the listeners go *)
Cancelled(c) ==
  /\ Suspended(c)
  /\ Tell(c, "failed")
  /\ Leaves(c, "cancelled")
  /\ UNCHANGED <<pluginVars, completion, hits, childVars, early>>

(* in front of it: the subscriptions stay, nobody is told *)
CancelledEarly(c) ==
  /\ run[c] = "announcing" /\ ~inWorker
  /\ run' = [run EXCEPT ![c] = "returned"]
  /\ result' = [result EXCEPT ![c] = "cancelled"]
  /\ early' = early \cup {c}
  /\ UNCHANGED <<pluginVars, listenVars, told, childVars>>

-----------------------------------------------------------------------------
(* The child's turn, at the kernel's loop and dispatcher.                  *)
ChildCalls(c) ==
  /\ child[c] = "running" /\ Len(called[c]) < MaxToolCalls
  /\ \E t \in Tools :
       /\ called' = [called EXCEPT ![c] = Append(@, t)]
       /\ chan' = [chan EXCEPT ![c] = Append(@, Event("tool.call.request", Len(called[c]) + 1))]
  /\ UNCHANGED <<pluginVars, run, result, listenVars, told, child, early>>

(* a turn that fails publishes no assistant.message.done *)
ChildEnds(c) ==
  /\ child[c] = "running"
  /\ child' = [child EXCEPT ![c] = "over"]
  /\ \/ chan' = [chan EXCEPT ![c] = Append(@, Event("assistant.message.done", 0))]
     \/ UNCHANGED chan
  /\ UNCHANGED <<pluginVars, run, result, listenVars, told, called, early>>

(* _on_done and _on_request hear every session and keep to their own *)
Deliver(c) ==
  LET ev == Head(chan[c]) IN
  /\ chan[c] # <<>>
  /\ chan' = [chan EXCEPT ![c] = Tail(@)]
  /\ child' = IF ev.kind = "user.message.received" THEN [child EXCEPT ![c] = "running"] ELSE child
  /\ completion' = IF ev.kind = "assistant.message.done" /\ <<c, "done">> \in subs
                   THEN [completion EXCEPT ![c] = c] ELSE completion
  /\ hits' = IF ev.kind = "tool.call.request" /\ <<c, "request">> \in subs
                /\ called[c][ev.call] \notin Allowed
             THEN [hits EXCEPT ![c] = Append(@, ev.call)] ELSE hits
  /\ UNCHANGED <<pluginVars, run, result, subs, told, called, early>>

(* on_unload; calls that wait for their approval still have the tool *)
Unload ==
  /\ registered
  /\ registered' = FALSE /\ bound' = FALSE /\ UNCHANGED inWorker
  /\ UNCHANGED <<run, result, listenVars, told, childVars, early>>

Next ==
  \/ Unload
  \/ \E c \in Spawns :
       \/ Lookup(c) \/ RunUnbound(c) \/ Run(c) \/ SendGoal(c) \/ Completed(c) \/ Narrowed(c)
       \/ Returns(c) \/ TimesOut(c) \/ TimedOut(c) \/ Cancelled(c) \/ CancelledEarly(c)
       \/ ChildCalls(c) \/ ChildEnds(c) \/ Deliver(c)

Spec == Init /\ [][Next]_vars

-----------------------------------------------------------------------------
(* Types of the tool's state and of what it listens to                     *)
(* (agent_tool/plugin.py:128-224).                                         *)
ChildEvent == [kind : {"user.message.received", "tool.call.request", "assistant.message.done"},
               call : Nat]
TypeOK ==
  /\ registered \in BOOLEAN /\ bound \in BOOLEAN /\ inWorker \in BOOLEAN
  /\ run \in [Spawns -> {"idle", "approval", "announcing", "waiting", "completing", "narrowing",
                         "timing out", "returned"}]
  /\ result \in [Spawns -> Spawns \cup {None, "internal", "timeout", "cancelled"}]
  /\ \A c \in Spawns : result[c] # None <=> run[c] = "returned"
  /\ subs \subseteq Spawns \X {"done", "request"}
  /\ completion \in [Spawns -> Spawns \cup {None}]
  /\ hits \in [Spawns -> Seq(Nat)]
  /\ DOMAIN told = Spawns /\ early \subseteq Spawns
  /\ child \in [Spawns -> {"idle", "running", "over"}]
  /\ chan \in [Spawns -> Seq(ChildEvent)]
  /\ called \in [Spawns -> Seq(Tools)]

(* The forbidden calls of a child, and whether a report names them all,    *)
(* each once and in their order.                                           *)
Forbidden(c) == {n \in DOMAIN called[c] : called[c][n] \notin Allowed}
Reports(report, c) ==
  /\ Range(report) = Forbidden(c)
  /\ \A i, j \in DOMAIN report : i < j => report[i] < report[j]

(* A call that returns a text returns its own child's, and has told the    *)
(* operators of the completion and of every forbidden tool the child had   *)
(* called, and of no failure; one that ran out of time told of nothing     *)
(* else than that.                                                         *)
ChildAccounted ==
  \A c \in Spawns : run[c] = "returned" =>
    /\ result[c] \in Spawns =>
         /\ result[c] = c
         /\ \/ told[c] = <<"started", "completed">> /\ Forbidden(c) = {}
            \/ \E report \in {hits[c]} : /\ told[c] = <<"started", "completed", report>>
                                         /\ report # <<>> /\ Reports(report, c)
    /\ result[c] = "timeout" => told[c] = <<"started", "failed">>

(* "a cancelled parent turn does not leak handlers onto the bus", except   *)
(* that of a caller outside the bus who cancels before the try; and no     *)
(* child runs that was not announced.                                      *)
ListenersGo ==
  /\ \A c \in Spawns : run[c] = "returned" /\ c \notin early => Listeners(c) \cap subs = {}
  /\ \A c \in Spawns : child[c] # "idle" \/ chan[c] # <<>> => Head(told[c]) = "started"

(* What keeps it so.  A call has told what its place says, listens from    *)
(* its announcement to its end, and its child is idle until the goal.      *)
Live == {"announcing", "waiting", "completing", "narrowing", "timing out"}
PlaceTells(c) ==
  /\ run[c] \in {"idle", "approval"} => told[c] = <<>> /\ subs \cap Listeners(c) = {}
  /\ run[c] \in {"idle", "approval", "announcing"} => child[c] = "idle" /\ chan[c] = <<>>
  /\ run[c] \in {"announcing", "waiting"} => told[c] = <<"started">>
  /\ run[c] = "completing" => told[c] = <<"started", "completed">> /\ completion[c] = c
  /\ run[c] = "narrowing" => /\ told[c] = <<"started", "completed", hits[c]>>
                             /\ hits[c] # <<>> /\ completion[c] = c
  /\ run[c] = "timing out" => told[c] = <<"started", "failed">>
  /\ run[c] \in Live => Listeners(c) \subseteq subs
  /\ run[c] = "returned" /\ c \notin early => subs \cap Listeners(c) = {}
  /\ result[c] \in Spawns =>
       /\ result[c] = c /\ completion[c] = c
       /\ \/ told[c] = <<"started", "completed">> /\ hits[c] = <<>>
          \/ told[c] = <<"started", "completed", hits[c]>> /\ hits[c] # <<>>
  /\ result[c] = "timeout" => told[c] = <<"started", "failed">>

(* The events of the child stand in its turn's order: the goal, then the   *)
(* calls by their numbers, then its answer, after which there is nothing.  *)
Asks(c, i) == chan[c][i].kind = "tool.call.request"
ChildInOrder(c) ==
  /\ child[c] = "idle" =>
       /\ called[c] = <<>>
       /\ chan[c] = <<>> \/ chan[c] = <<Event("user.message.received", 0)>>
  /\ child[c] # "idle" => \A i \in DOMAIN chan[c] : chan[c][i].kind # "user.message.received"
  /\ \A i \in DOMAIN chan[c] :
       /\ chan[c][i].kind = "assistant.message.done" => i = Len(chan[c]) /\ child[c] = "over"
       /\ Asks(c, i) => chan[c][i].call \in DOMAIN called[c]
  /\ \A i, j \in DOMAIN chan[c] :
       i < j /\ Asks(c, i) /\ Asks(c, j) => chan[c][i].call < chan[c][j].call
  /\ completion[c] # None => completion[c] = c /\ chan[c] = <<>> /\ child[c] = "over"

(* A forbidden call that has been delivered is in hits, in order, and one  *)
(* that is not in hits is still to be delivered while the call listens.    *)
HitsInOrder(c) ==
  /\ \A i \in DOMAIN hits[c] : hits[c][i] \in Forbidden(c)
  /\ \A i, j \in DOMAIN hits[c] : i < j => hits[c][i] < hits[c][j]
  /\ \A i \in DOMAIN hits[c], j \in DOMAIN chan[c] : Asks(c, j) => hits[c][i] < chan[c][j].call
  /\ run[c] \in Live \/ result[c] = c =>
       \A n \in Forbidden(c) : \/ \E i \in DOMAIN hits[c] : hits[c][i] = n
                               \/ \E j \in DOMAIN chan[c] : Asks(c, j) /\ chan[c][j].call = n

Announced(c) == (child[c] # "idle" \/ chan[c] # <<>>) => Head(told[c]) = "started"
CallInv(c) == PlaceTells(c) /\ ChildInOrder(c) /\ HitsInOrder(c) /\ Announced(c)
AgentInv == Parameters /\ TypeOK /\ \A c \in Spawns : CallInv(c)

=============================================================================
