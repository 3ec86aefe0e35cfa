------------------------------ MODULE BashTool ------------------------------
(***************************************************************************)
(* The tool_bash plugin: one child process for each tool.call.request, its *)
(* output collected under the tool's own time limit, one tool.call.result. *)
(* The handler runs inside the limit the bus sets every handler.  Both     *)
(* limits count from where their timer starts, and of two timers that are  *)
(* due the older one goes first.                                           *)
(***************************************************************************)
EXTENDS Integers, FiniteSets

CONSTANTS
  Spawns,          \* requests, one per session
  HandlerTimeout,  \* the bus's limit, in ticks
  None

(* What is assumed of the constants.                                       *)
Parameters ==
  /\ HandlerTimeout \in Nat
  /\ None \notin {"refused", "ok", "timeout", "running", "exited"}

VARIABLES
  timeout_s,  \* the tool's limit: as shipped it equals the bus's
  listed,     \* the plugin is loaded and its spec registered
  handler,    \* where a request's on_event is
  started,    \* age of on_event, of wait_for(communicate)
  collecting,
  proc,       \* its child: None, running, exited
  held,       \* somebody holds the child's output open
  answer      \* its tool.call.result

procVars == <<proc, held>>
timers == <<started, collecting>>
vars == <<timeout_s, listed, handler, timers, procVars, answer>>

Init ==
  /\ timeout_s \in {1, HandlerTimeout} /\ listed = TRUE
  /\ handler = [c \in Spawns |-> "idle"] /\ answer = [c \in Spawns |-> None]
  /\ started = [c \in Spawns |-> 0] /\ collecting = [c \in Spawns |-> 0]
  /\ proc = [c \in Spawns |-> None] /\ held = {}

Goes(c, to) == handler' = [handler EXCEPT ![c] = to]
Answers(c, what) == answer' = [answer EXCEPT ![c] = what] /\ Goes(c, "returned")
Runs(c) == handler[c] \in {"spawning", "collecting", "killing"}
BusDue(c) == started[c] = HandlerTimeout
ToolDue(c) == handler[c] = "collecting" /\ collecting[c] = timeout_s

-----------------------------------------------------------------------------
BadCommand(c) ==
  /\ handler[c] = "idle" /\ listed
  /\ Answers(c, "refused")
  /\ UNCHANGED <<timeout_s, listed, timers, procVars>>

OnEvent(c) ==
  /\ handler[c] = "idle" /\ listed
  /\ Goes(c, "spawning")
  /\ UNCHANGED <<timeout_s, listed, timers, procVars, answer>>

(* no such program: the exception leaves on_event *)
SpawnFails(c) ==
  /\ handler[c] = "spawning"
  /\ Goes(c, "raised")
  /\ UNCHANGED <<timeout_s, listed, timers, procVars, answer>>

Run(c) ==
  /\ handler[c] = "spawning"
  /\ Goes(c, "collecting")
  /\ proc' = [proc EXCEPT ![c] = "running"] /\ held' = held \cup {c}
  /\ UNCHANGED <<timeout_s, listed, timers, answer>>

Collected(c) == proc[c] = "exited" /\ c \notin held

Communicated(c) ==
  /\ handler[c] = "collecting" /\ Collected(c)
  /\ Answers(c, "ok")
  /\ UNCHANGED <<timeout_s, listed, timers, procVars>>

(* proc.kill(): a child that has just been collected is no longer there,   *)
(* and ProcessLookupError leaves on_event                                  *)
TimesOut(c) ==
  /\ ToolDue(c) /\ ~BusDue(c)
  /\ \/ Goes(c, "killing")
     \/ Collected(c) /\ Goes(c, "raised")
  /\ UNCHANGED <<timeout_s, listed, timers, procVars, answer>>

Killed(c) ==
  /\ handler[c] = "killing" /\ proc[c] = "exited"
  /\ Answers(c, "timeout")
  /\ UNCHANGED <<timeout_s, listed, timers, procVars>>

(* only a spawn takes its child with it when it is cancelled *)
BusCancels(c) ==
  /\ Runs(c) /\ BusDue(c)
  /\ Goes(c, IF handler[c] = "killing" THEN "killed" ELSE "cancelled")
  /\ UNCHANGED <<timeout_s, listed, timers, procVars, answer>>

Tick(c) ==
  /\ Runs(c) /\ ~BusDue(c) /\ ~ToolDue(c)
  /\ started' = [started EXCEPT ![c] = @ + 1]
  /\ collecting' = [collecting EXCEPT ![c] = IF handler[c] = "collecting" THEN @ + 1 ELSE @]
  /\ UNCHANGED <<timeout_s, listed, handler, procVars, answer>>

(* a child may leave children of its own behind, with its output *)
ChildExits(c) ==
  /\ proc[c] = "running"
  /\ proc' = [proc EXCEPT ![c] = "exited"]
  /\ held' \in {held, held \ {c}}
  /\ UNCHANGED <<timeout_s, listed, handler, timers, answer>>

OutputCloses(c) ==
  /\ proc[c] = "exited" /\ c \in held
  /\ held' = held \ {c}
  /\ UNCHANGED <<timeout_s, listed, handler, timers, proc, answer>>

Unload ==
  /\ listed
  /\ listed' = FALSE
  /\ UNCHANGED <<timeout_s, handler, timers, procVars, answer>>

Next ==
  \/ Unload
  \/ \E c \in Spawns :
       \/ BadCommand(c) \/ OnEvent(c) \/ SpawnFails(c) \/ Run(c) \/ Communicated(c) \/ TimesOut(c)
       \/ Killed(c) \/ BusCancels(c) \/ Tick(c) \/ ChildExits(c) \/ OutputCloses(c)

Spec == Init /\ [][Next]_vars

-----------------------------------------------------------------------------
(* Types of the handler's locals (tool_bash/plugin.py:100-196).            *)
TypeOK ==
  /\ timeout_s \in Nat /\ listed \in BOOLEAN
  /\ handler \in [Spawns -> {"idle", "spawning", "collecting", "killing", "returned", "raised",
                             "killed", "cancelled"}]
  /\ started \in [Spawns -> Nat] /\ collecting \in [Spawns -> Nat]
  /\ proc \in [Spawns -> {None, "running", "exited"}] /\ held \subseteq Spawns
  /\ answer \in [Spawns -> {None, "refused", "ok", "timeout"}]

(* A handler that has left leaves its child running, unkilled, only when   *)
(* the bus cancelled it; "timeout" says that the child is gone, and as     *)
(* shipped, with both limits equal, nobody is ever told so.                *)
ChildReaped ==
  \A c \in Spawns :
    /\ handler[c] \in {"returned", "raised"} => proc[c] # "running"
    /\ answer[c] = "ok" => Collected(c)
    /\ answer[c] = "timeout" => timeout_s < HandlerTimeout
    /\ answer[c] # None <=> handler[c] = "returned"

(* What keeps it so: the tool's timer is no older than the bus's, and only *)
(* a handler that has spawned has a child.                                 *)
Timed ==
  \A c \in Spawns :
    /\ collecting[c] <= started[c] /\ started[c] <= HandlerTimeout
    /\ handler[c] = "killing" => timeout_s < HandlerTimeout
Unborn == \A c \in Spawns : handler[c] \in {"idle", "spawning"} => proc[c] = None
BashInv == Parameters /\ TypeOK /\ Timed /\ Unborn /\ ChildReaped
=============================================================================
