------------------------------ MODULE Registry ------------------------------
(***************************************************************************)
(* The plugin registry (src/yaya/kernel/registry.py): discovery and load,  *)
(* failure accounting, install and remove, orderly stop.                   *)
(*                                                                         *)
(* Every method is a coroutine without a lock: it may be interleaved with  *)
(* the others wherever it awaits (pip, on_load, on_unload, a publish).     *)
(* start() is one task, each install or remove of the web adapter another, *)
(* every unload that the failure threshold triggers another, stop() the    *)
(* last.  Handlers run in the workers of the event bus; their failures     *)
(* come back as plugin.error events on the kernel session (EventBus).      *)
(*                                                                         *)
(* A record is one load of a plugin: the status, the failure counter and   *)
(* the subscriptions it got.                                               *)
(***************************************************************************)
EXTENDS Integers, Sequences, SequencesExt

CONSTANTS
  Plugins,          \* plugin names; one entry point each
  Shipped,          \* those installed when the kernel starts
  Requests,         \* install and remove requests
  Records,          \* bound: loads
  Threshold,        \* failure_threshold, positive
  MaxFailures,      \* bound: handler failures
  Concurrent,       \* TRUE: requests, start and stop may overlap
  Start,            \* the task of start()
  None

(* What is assumed of the constants.                                       *)
Parameters ==
  /\ Shipped \subseteq Plugins /\ Start \notin Requests
  /\ Threshold \in Nat \ {0} /\ MaxFailures \in Nat
  /\ None \notin Plugins \cup Records

Tasks == Requests \cup {Start}

VARIABLES
  installed,  \* plugins with an entry point in the environment
  rec,        \* the records
  records,    \* _records
  order,      \* _load_order
  task,       \* start(), install() and remove() in progress
  unload,     \* _unload_tasks, by record
  stop,       \* stop(): its position
  stopTodo,   \* stop(): what it still has to visit
  errors,     \* plugin.error events queued on the kernel session
  flight,     \* records whose handler an event is being delivered to
  failures    \* handler failures so far

vars == <<installed, rec, records, order, task, unload, stop, stopTodo, errors, flight,
          failures>>
handlerVars == <<flight, failures>>
stopVars == <<stop, stopTodo>>
tableVars == <<rec, records, order>>

Init ==
  /\ installed = Shipped
  /\ rec = [r \in Records |-> [plugin |-> None, status |-> "free", count |-> 0,
                               subscribed |-> FALSE, unloads |-> 0]]
  /\ records = [p \in Plugins |-> None]
  /\ order = <<>>
  /\ task = [t \in Tasks |-> [pc |-> IF t = Start THEN "discover" ELSE "new", p |-> None,
                              r |-> None, todo |-> IF t = Start THEN Shipped ELSE {}]]
  /\ unload = [r \in Records |-> "none"]
  /\ stop = "no" /\ stopTodo = <<>>
  /\ errors = [p \in Plugins |-> 0]
  /\ flight = {}
  /\ failures = 0

Over(t) == task[t].pc \in {"new", "over"}
Registered(p) == records[p] # None
Loaded(r) == r # None /\ rec[r].status = "loaded"

-----------------------------------------------------------------------------
(* _discover_and_load, one entry point at a time.                          *)

(* A name that has a record is skipped; an entry point that is broken or   *)
(* no plugin is reported and skipped.                                      *)
SkipEntryPoint(t, p) ==
  /\ task[t].pc = "discover" /\ p \in task[t].todo
  /\ \/ Registered(p) /\ UNCHANGED errors
     \/ /\ ~Registered(p) /\ failures < MaxFailures
        /\ errors' = [errors EXCEPT ![p] = @ + 1]
  /\ failures' = IF Registered(p) THEN failures ELSE failures + 1
  /\ task' = [task EXCEPT ![t].todo = @ \ {p}]
  /\ UNCHANGED <<installed, tableVars, unload, stopVars, flight>>

(* Otherwise on_load is called, and awaited.                               *)
CallOnLoad(t, p) ==
  /\ task[t].pc = "discover" /\ p \in task[t].todo /\ ~Registered(p)
  /\ \E r \in Records :
       /\ rec[r].status = "free"
       /\ rec' = [rec EXCEPT ![r].plugin = p, ![r].status = "loading"]
       /\ task' = [task EXCEPT ![t].pc = "on_load", ![t].p = p, ![t].r = r]
  /\ UNCHANGED <<installed, records, order, unload, stopVars, errors, handlerVars>>

Register(t, status) ==
  LET p == task[t].p  r == task[t].r
  IN  /\ rec' = [rec EXCEPT ![r].status = status, ![r].subscribed = (status = "loaded")]
      /\ records' = [records EXCEPT ![p] = r]
      /\ order' = Append(order, p)
      /\ task' = [task EXCEPT ![t].pc = "publish", ![t].todo = @ \ {p}]

(* on_load returned: subscribe, register, publish plugin.loaded.           *)
OnLoadReturns(t) ==
  /\ task[t].pc = "on_load"
  /\ Register(t, "loaded")
  /\ UNCHANGED <<installed, unload, stopVars, errors, handlerVars>>

(* on_load raised: a failed record, and plugin.error.                      *)
OnLoadFails(t) ==
  /\ task[t].pc = "on_load" /\ failures < MaxFailures
  /\ Register(t, "failed")
  /\ errors' = [errors EXCEPT ![task[t].p] = @ + 1]
  /\ failures' = failures + 1
  /\ UNCHANGED <<installed, unload, stopVars, flight>>

LoadPublished(t) ==
  /\ task[t].pc = "publish"
  /\ task' = [task EXCEPT ![t].pc = "discover"]
  /\ UNCHANGED <<installed, tableVars, unload, stopVars, errors, handlerVars>>

DiscoveryEnds(t) ==
  /\ task[t].pc = "discover" /\ task[t].todo = {}
  /\ task' = [task EXCEPT ![t].pc = "over"]
  /\ UNCHANGED <<installed, tableVars, unload, stopVars, errors, handlerVars>>

-----------------------------------------------------------------------------
(* install and remove.                                                     *)

Alone == \A t \in Tasks : Over(t)

(* A request calls pip; remove has looked the record up before.            *)
Request(t, p, pc) ==
  /\ task[t].pc = "new" /\ stop = "no"
  /\ Concurrent \/ (Alone /\ task[Start].pc = "over")
  /\ task' = [task EXCEPT ![t].pc = pc, ![t].p = p,
                          ![t].r = IF pc = "remove" THEN records[p] ELSE None]
  /\ UNCHANGED <<installed, tableVars, unload, stopVars, errors, handlerVars>>

PipInstalled(t) ==
  /\ task[t].pc = "install"
  /\ installed' = installed \cup {task[t].p}
  /\ task' = [task EXCEPT ![t].pc = "discover", ![t].todo = installed']
  /\ UNCHANGED <<tableVars, unload, stopVars, errors, handlerVars>>

PipFails(t) ==
  /\ task[t].pc \in {"install", "remove"}
  /\ task' = [task EXCEPT ![t].pc = "over"]
  /\ UNCHANGED <<installed, tableVars, unload, stopVars, errors, handlerVars>>

(* _unload_record up to its first await: unsubscribe and call on_unload.   *)
Unloading(r) == [rec EXCEPT ![r].subscribed = FALSE, ![r].unloads = @ + 1]

(* The name is forgotten, and discovery runs over what is left.            *)
Forget(t) ==
  LET p == task[t].p
  IN  /\ records' = [records EXCEPT ![p] = None]
      /\ order' = IF Contains(order, p) THEN RemoveFirst(order, p) ELSE order
      /\ task' = [task EXCEPT ![t].pc = "discover", ![t].todo = installed']

(* pip is done: unload the record looked up before, if it is still loaded. *)
ForgetLoaded(t) ==
  /\ task[t].pc = "remove"
  /\ installed' = installed \ {task[t].p}
  /\ Forget(t) /\ UNCHANGED rec
  /\ UNCHANGED <<unload, stopVars, errors, handlerVars>>

PipUninstalled(t) ==
  /\ task[t].pc = "remove"
  /\ installed' = installed \ {task[t].p}
  /\ IF Loaded(task[t].r)
     THEN /\ rec' = Unloading(task[t].r)
          /\ task' = [task EXCEPT ![t].pc = "on_unload"]
          /\ UNCHANGED <<records, order>>
     ELSE Forget(t) /\ UNCHANGED rec
  /\ UNCHANGED <<unload, stopVars, errors, handlerVars>>

(* on_unload returned or raised; plugin.removed is published.              *)
RemoveUnloaded(t) ==
  /\ task[t].pc = "on_unload"
  /\ rec' = [rec EXCEPT ![task[t].r].status = "unloaded"]
  /\ task' = [task EXCEPT ![t].pc = "removed"]
  /\ UNCHANGED <<installed, records, order, unload, stopVars, errors, handlerVars>>

RemovedPublished(t) ==
  /\ task[t].pc = "removed"
  /\ UNCHANGED installed /\ Forget(t)
  /\ UNCHANGED <<rec, unload, stopVars, errors, handlerVars>>

-----------------------------------------------------------------------------
(* Handlers and failure accounting.                                        *)

(* An event is on its way to a subscribed handler.  The bus has the list   *)
(* of subscribers already: unsubscribing does not call it back.            *)
Deliver(r) ==
  /\ rec[r].subscribed /\ r \notin flight
  /\ flight' = flight \cup {r}
  /\ UNCHANGED <<installed, tableVars, task, unload, stopVars, errors, failures>>

(* on_event succeeded: the counter of the record now registered under the  *)
(* plugin's name is reset.                                                 *)
HandlerReturns(r) ==
  /\ r \in flight
  /\ flight' = flight \ {r}
  /\ LET now == records[rec[r].plugin]
     IN  rec' = IF Loaded(now) THEN [rec EXCEPT ![now].count = 0] ELSE rec
  /\ UNCHANGED <<installed, records, order, task, unload, stopVars, errors, failures>>

(* on_event raised or timed out: plugin.error, attributed by name.         *)
HandlerFails(r) ==
  /\ r \in flight /\ failures < MaxFailures
  /\ flight' = flight \ {r}
  /\ failures' = failures + 1
  /\ errors' = [errors EXCEPT ![rec[r].plugin] = @ + 1]
  /\ UNCHANGED <<installed, tableVars, task, unload, stopVars>>

(* _on_plugin_error: count, and at the threshold claim the unload.  stop() *)
(* has unsubscribed it.                                                    *)
CountWithoutClaim(p) ==
  /\ errors[p] > 0
  /\ errors' = [errors EXCEPT ![p] = @ - 1]
  /\ LET r == records[p]
     IN  IF stop # "no" \/ ~Loaded(r) THEN UNCHANGED <<rec, unload>>
         ELSE /\ rec' = [rec EXCEPT ![r].count = @ + 1]
              /\ unload' = IF rec[r].count + 1 < Threshold THEN unload
                           ELSE [unload EXCEPT ![r] = "spawned"]
  /\ UNCHANGED <<installed, records, order, task, stopVars, handlerVars>>

CountNoLimit(p) ==
  /\ errors[p] > 0
  /\ errors' = [errors EXCEPT ![p] = @ - 1]
  /\ LET r == records[p]
     IN  rec' = IF stop # "no" \/ r = None THEN rec ELSE [rec EXCEPT ![r].count = @ + 1]
  /\ UNCHANGED <<installed, records, order, task, unload, stopVars, handlerVars>>

ClaimOnly(p) ==
  /\ errors[p] > 0
  /\ errors' = [errors EXCEPT ![p] = @ - 1]
  /\ LET r == records[p]
     IN  rec' = IF stop # "no" \/ ~Loaded(r) THEN rec
                ELSE [rec EXCEPT ![r].count = @ + 1,
                        ![r].status = IF rec[r].count + 1 < Threshold THEN @ ELSE "unloading"]
  /\ UNCHANGED <<installed, records, order, task, unload, stopVars, handlerVars>>

OnPluginError(p) ==
  /\ errors[p] > 0
  /\ errors' = [errors EXCEPT ![p] = @ - 1]
  /\ LET r == records[p]
     IN  IF stop # "no" \/ ~Loaded(r) THEN UNCHANGED <<rec, unload>>
         ELSE IF rec[r].count + 1 < Threshold
         THEN rec' = [rec EXCEPT ![r].count = @ + 1] /\ UNCHANGED unload
         ELSE /\ rec' = [rec EXCEPT ![r].count = @ + 1, ![r].status = "unloading"]
              /\ unload' = [unload EXCEPT ![r] = "spawned"]
  /\ UNCHANGED <<installed, records, order, task, stopVars, handlerVars>>

(* The unload task: on_unload, status failed, plugin.removed.              *)
UnloadStarts(r) ==
  /\ unload[r] = "spawned"
  /\ unload' = [unload EXCEPT ![r] = "on_unload"]
  /\ rec' = Unloading(r)
  /\ UNCHANGED <<installed, records, order, task, stopVars, errors, handlerVars>>

UnloadReturns(r) ==
  /\ unload[r] = "on_unload"
  /\ unload' = [unload EXCEPT ![r] = "publish"]
  /\ rec' = [rec EXCEPT ![r].status = "failed"]
  /\ UNCHANGED <<installed, records, order, task, stopVars, errors, handlerVars>>

UnloadPublished(r) ==
  /\ unload[r] = "publish"
  /\ unload' = [unload EXCEPT ![r] = "done"]
  /\ UNCHANGED <<installed, tableVars, task, stopVars, errors, handlerVars>>

-----------------------------------------------------------------------------
(* stop(), once start() has returned: unsubscribe the accounting, wait for *)
(* the unload tasks, unload what is loaded, last loaded first.             *)
StopBegins ==
  /\ stop = "no" /\ task[Start].pc = "over"
  /\ Concurrent \/ Alone
  /\ stop' = "gather"
  /\ UNCHANGED <<installed, tableVars, task, unload, stopTodo, errors, handlerVars>>

StopForward ==
  /\ stop = "gather"
  /\ \A r \in Records : unload[r] \in {"none", "done"}
  /\ stop' = "visit"
  /\ stopTodo' = order
  /\ UNCHANGED <<installed, tableVars, task, unload, errors, handlerVars>>
StopNoGather ==
  /\ stop = "gather"
  /\ stop' = "visit"
  /\ stopTodo' = Reverse(order)
  /\ UNCHANGED <<installed, tableVars, task, unload, errors, handlerVars>>

StopGathered ==
  /\ stop = "gather"
  /\ \A r \in Records : unload[r] \in {"none", "done"}
  /\ stop' = "visit"
  /\ stopTodo' = Reverse(order)
  /\ UNCHANGED <<installed, tableVars, task, unload, errors, handlerVars>>

StopVisits ==
  /\ stop = "visit" /\ stopTodo # <<>>
  /\ LET r == records[Head(stopTodo)]
     IN  IF Loaded(r)
         THEN /\ rec' = Unloading(r) /\ stop' = "on_unload"
              /\ UNCHANGED stopTodo
         ELSE /\ stopTodo' = Tail(stopTodo)
              /\ UNCHANGED <<rec, stop>>
  /\ UNCHANGED <<installed, records, order, task, unload, errors, handlerVars>>

StopUnloaded ==
  /\ stop = "on_unload"
  /\ stop' = "visit" /\ stopTodo' = Tail(stopTodo)
  /\ LET r == records[Head(stopTodo)]
     IN  rec' = IF r = None THEN rec ELSE [rec EXCEPT ![r].status = "unloaded"]
  /\ UNCHANGED <<installed, records, order, task, unload, errors, handlerVars>>

StopReturns ==
  /\ stop = "visit" /\ stopTodo = <<>>
  /\ stop' = "stopped"
  /\ UNCHANGED <<installed, tableVars, task, unload, stopTodo, errors, handlerVars>>

TaskStep(t) ==
  \/ \E p \in Plugins : SkipEntryPoint(t, p) \/ CallOnLoad(t, p)
  \/ OnLoadReturns(t) \/ OnLoadFails(t) \/ LoadPublished(t) \/ DiscoveryEnds(t)
  \/ PipInstalled(t) \/ PipFails(t) \/ PipUninstalled(t)
  \/ RemoveUnloaded(t) \/ RemovedPublished(t)

UnloadStep(r) == UnloadStarts(r) \/ UnloadReturns(r) \/ UnloadPublished(r)
StopStep == StopGathered \/ StopVisits \/ StopUnloaded \/ StopReturns
HandlerEnds(r) == HandlerReturns(r) \/ HandlerFails(r)

Next ==
  \/ \E t \in Tasks : TaskStep(t)
  \/ \E t \in Requests, p \in Plugins, pc \in {"install", "remove"} : Request(t, p, pc)
  \/ \E r \in Records : Deliver(r) \/ HandlerEnds(r) \/ UnloadStep(r)
  \/ \E p \in Plugins : OnPluginError(p)
  \/ StopBegins \/ StopStep

(* Tasks go on when what they await returns (on_load, on_unload and pip    *)
(* do), the bus times handlers out and delivers plugin.error.              *)
Fairness ==
  /\ \A t \in Tasks : WF_vars(TaskStep(t))
  /\ \A r \in Records : WF_vars(UnloadStep(r)) /\ WF_vars(HandlerEnds(r))
  /\ \A p \in Plugins : WF_vars(OnPluginError(p))
  /\ WF_vars(StopStep)

Spec == Init /\ [][Next]_vars
FairSpec == Spec /\ Fairness

-----------------------------------------------------------------------------
Status == {"free", "loading", "loaded", "unloading", "failed", "unloaded"}

(* Types of the registry's tables (registry.py:132-148, 215-252).          *)
Record == [plugin : Plugins \cup {None}, status : Status, count : 0..Threshold,
           subscribed : BOOLEAN, unloads : Nat]
Task == [pc : {"new", "install", "remove", "discover", "on_load", "publish", "on_unload",
               "removed", "over"},
         p : Plugins \cup {None}, r : Records \cup {None}, todo : SUBSET Plugins]
TypeOK ==
  /\ installed \subseteq Plugins
  /\ rec \in [Records -> Record]
  /\ records \in [Plugins -> Records \cup {None}]
  /\ order \in Seq(Plugins)
  /\ task \in [Tasks -> Task]
  /\ unload \in [Records -> {"none", "spawned", "on_unload", "publish", "done"}]
  /\ stop \in {"no", "gather", "visit", "on_unload", "stopped"}
  /\ stopTodo \in Seq(Plugins)
  /\ errors \in [Plugins -> Nat] /\ failures \in 0..MaxFailures
  /\ flight \subseteq Records

(* No load keeps its subscriptions when the registry has forgotten it: it  *)
(* is registered under its name, or its unload is claimed; and snapshot()  *)
(* has one row for each registered plugin (registry.py:376-396, 503-523,   *)
(* 661-725).                                                               *)
NoOrphans ==
  \A r \in Records : rec[r].subscribed =>
    records[rec[r].plugin] = r \/ unload[r] = "spawned"
OneRowEach ==
  /\ IsInjective(order)
  /\ ToSet(order) = {p \in Plugins : Registered(p)}
Accounted == NoOrphans /\ OneRowEach

(* A terminal status is terminal, and unloading ends in failed             *)
(* (registry.py:104-129).                                                  *)
StatusLadder ==
  [][\A r \in Records :
       LET was == rec[r].status  is == rec'[r].status
       IN  is # was => <<was, is>> \in {<<"free", "loading">>, <<"loading", "loaded">>,
                                        <<"loading", "failed">>, <<"loaded", "unloading">>,
                                        <<"loaded", "unloaded">>, <<"unloading", "failed">>}]_vars

(* When stop() has returned, nothing is subscribed and every plugin that   *)
(* was loaded has had its on_unload (registry.py:340-348).                 *)
StopLeavesNothing ==
  stop = "stopped" => \A r \in Records :
    /\ ~rec[r].subscribed
    /\ rec[r].status \in {"free", "failed", "unloaded"}

(* on_unload runs at most once for a load, however threshold, stop and     *)
(* rival errors interleave, and a plugin outlives, while stop() goes on,   *)
(* all that were loaded after it (registry.py:807-816, 340-348).           *)
UnloadOnce == \A r \in Records : rec[r].unloads <= 1
ReverseOrder ==
  stop = "on_unload" => \A i, j \in DOMAIN order :
    (i < j /\ records[order[j]] # None /\ Loaded(records[order[j]]))
      => rec[records[order[i]]].unloads = 0 \/ unload[records[order[i]]] = "done"
OrderlyUnload == UnloadOnce /\ ReverseOrder

(* A claimed unload is carried out, and stop() returns                     *)
(* (registry.py:322-372, 816-876).                                         *)
UnloadCompletes ==
  \A r \in Records : (rec[r].status = "unloading") ~> (rec[r].status = "failed" /\ ~rec[r].subscribed)
StopEnds == (stop = "gather") ~> (stop = "stopped")
Ends == UnloadCompletes /\ StopEnds
=============================================================================
