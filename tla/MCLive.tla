------------------------------- MODULE MCLive -------------------------------
(* What must happen eventually, of two modules that share no state: a       *)
(* behaviour is one of the event bus or one of the plugin registry, and the *)
(* other stays as it was at the start.                                      *)
EXTENDS MCEventBus

CONSTANTS Plugins, Shipped, Requests, Records, Threshold, MaxFailures, Concurrent, Start, None

VARIABLES part, installed, rec, records, order, task, unload, stop, stopTodo, errors, flight,
          failures

Reg == INSTANCE RegistryProofs

ASSUME RegistryParameters == Reg!Parameters

registryVars ==
  <<installed, rec, records, order, task, unload, stop, stopTodo, errors, flight, failures>>

(* One plugin handler, one observer of plugin.error.                        *)
LiveSubs == {a, o}
LiveSubKind == a :> k1 @@ o :> plugin_error

PartInit == part \in {"bus", "registry"} /\ Init /\ Reg!Init

PartNext ==
  /\ UNCHANGED part
  /\ \/ part = "bus" /\ Next /\ UNCHANGED registryVars
     \/ part = "registry" /\ Reg!Next /\ UNCHANGED vars

(* The fairness of EventBus, while the bus runs, and of Registry.           *)
BusFairness ==
  /\ \A q \in Queues : /\ WF_vars(part = "bus" /\ WorkerGet(q))
                       /\ WF_vars(part = "bus" /\ HandlerEnds(q))
  /\ \A c \in Closers : WF_vars(part = "bus" /\ CloseReturns(c))

RegistryFairness ==
  /\ \A t \in Reg!Tasks : WF_registryVars(part = "registry" /\ Reg!TaskStep(t))
  /\ \A r \in Records : /\ WF_registryVars(part = "registry" /\ Reg!UnloadStep(r))
                        /\ WF_registryVars(part = "registry" /\ Reg!HandlerEnds(r))
  /\ \A x \in Plugins : WF_registryVars(part = "registry" /\ Reg!OnPluginError(x))
  /\ WF_registryVars(part = "registry" /\ Reg!StopStep)

PartSpec ==
  /\ PartInit /\ [][PartNext]_<<part, vars, registryVars>>
  /\ BusFairness /\ RegistryFairness

-----------------------------------------------------------------------------
(* on_unload runs once for a load, and stop() unloads last loaded first     *)
(* (registry.py:340-348, 807-816).                                          *)
OrderlyUnload == Reg!OrderlyUnload

(* A terminal status is terminal, and unloading ends in failed              *)
(* (registry.py:104-129).                                                   *)
StatusLadder == Reg!StatusLadder

(* A claimed unload is carried out, and stop() returns                      *)
(* (registry.py:322-372, 816-876).                                          *)
Ends == Reg!Ends
=============================================================================
