---------------------------- MODULE MCServices ----------------------------
(* One run of eight modules: a behaviour is one of the plugin registry, of *)
(* the configuration and its writers, of the MCP bridge (one server with    *)
(* retries and two calls, or two servers), of the agent tool, of the bash   *)
(* tool, of a ReAct turn, of `yaya serve` or of a browser tab; "part" says  *)
(* which.  The modules share no state and take turns with the variables.    *)
EXTENDS Integers, TLC

CONSTANTS Instances, Bundled, Requests, MaxRequests, MaxDowns, Names, Calls, Spawns, Tools, Allowed,
          MaxToolCalls, Plugins, Shipped, Records, Threshold, MaxFailures,
          Concurrent, Start, MaxIterations, MaxTyped, MaxTools, Sessions,
          MaxEvents, MaxClicks, MaxSockets, HandlerTimeout, None

VARIABLES part, v1, v2, v3, v4, v5, v6, v7, v8, v9, v10, v11, v12, v13, v14,
                v15, v16, v17, v18, v19

vars == <<part, v1, v2, v3, v4, v5, v6, v7, v8, v9, v10, v11, v12, v13, v14,
                v15, v16, v17, v18, v19>>

Reg == INSTANCE RegistryProofs WITH
  installed <- v1, rec <- v2, records <- v3, order <- v4, task <- v5,
  unload <- v6, stop <- v7, stopTodo <- v8, errors <- v9, flight <- v10,
  failures <- v11

Config == INSTANCE ConfigProofs WITH
  db <- v1, cache <- v2, queue <- v3, ran <- v4, updates <- v5,
  task <- v6, phase <- v7, clients <- v8, requests <- v9, downs <- v10,
  apart <- v11

Bridge == INSTANCE BridgeProofs WITH
  Servers <- <<"a">>, Attempts <- 2, config <- v1, phase <- v2,
  stage <- v3, attempt <- v4, records <- v5, leaving <- v6, tools <- v7,
  told <- v8, running <- v9, reading <- v10, closed <- v11, nextId <- v12,
  pending <- v13, lock <- v14, asked <- v15, out <- v16, call <- v17,
  late <- v18, stuck <- v19

Bridges == INSTANCE BridgeProofs WITH
  Servers <- <<"a", "b">>, Calls <- {"c1"}, Attempts <- 1, config <- v1,
  phase <- v2, stage <- v3, attempt <- v4, records <- v5, leaving <- v6,
  tools <- v7, told <- v8, running <- v9, reading <- v10, closed <- v11,
  nextId <- v12, pending <- v13, lock <- v14, asked <- v15, out <- v16,
  call <- v17, late <- v18, stuck <- v19

Agent == INSTANCE AgentTool WITH
  registered <- v1, bound <- v2, inWorker <- v3, run <- v4, result <- v5,
  subs <- v6, completion <- v7, hits <- v8, told <- v9, child <- v10,
  chan <- v11, called <- v12, early <- v13

Bash == INSTANCE BashTool WITH
  timeout_s <- v1, listed <- v2, handler <- v3, started <- v4,
  collecting <- v5, proc <- v6, held <- v7, answer <- v8

React == INSTANCE ReactTurn WITH
  Providers <- <<"a", "b">>, instances <- v1, active <- v2, step <- v3,
  messages <- v4, lastText <- v5, says <- v6, calls <- v7, anchor <- v8,
  servedBy <- v9, outcome <- v10

Server == INSTANCE Serve WITH
  at <- v1, up <- v2, closed <- v3, asked <- v4, code <- v5, online <- v6,
  sendQueue <- v7, typed <- v8, chan <- v9, tool <- v10, turn <- v11,
  called <- v12, tape <- v13, shown <- v14, heard <- v15, lost <- v16

Chat == INSTANCE WebChat WITH
  said <- v1, opened <- v2, clients <- v3, gen <- v4, loads <- v5,
  banner <- v6, current <- v7, shown <- v8, url <- v9, ws <- v10,
  conn <- v11, wanted <- v12, mixed <- v13, strays <- v14, events <- v15

Symmetry == Permutations(Requests) \cup Permutations(Records)

(* What the proofs about the components ask of the constants.               *)
ASSUME RegistryParameters == Reg!Parameters
ASSUME ConfigParameters == Config!Parameters
ASSUME BridgeParameters == Bridge!Parameters /\ Bridges!Parameters
ASSUME AgentParameters == Agent!Parameters
ASSUME BashParameters == Bash!Parameters
ASSUME ReactParameters == React!Parameters
ASSUME ServerParameters == Server!Parameters
ASSUME ChatParameters == Chat!Parameters

Init ==
  \/ /\ part = "registry" /\ Reg!Init
     /\ v12 = None /\ v13 = None /\ v14 = None /\ v15 = None /\ v16 = None /\ v17 = None /\ v18 = None /\ v19 = None
  \/ /\ part = "config" /\ Config!Init
     /\ v12 = None /\ v13 = None /\ v14 = None /\ v15 = None /\ v16 = None /\ v17 = None /\ v18 = None /\ v19 = None
  \/ /\ part = "bridge" /\ Bridge!Init
  \/ /\ part = "bridges" /\ Bridges!Init
  \/ /\ part = "agent" /\ Agent!Init
     /\ v14 = None /\ v15 = None /\ v16 = None /\ v17 = None /\ v18 = None /\ v19 = None
  \/ /\ part = "bash" /\ Bash!Init
     /\ v9 = None /\ v10 = None /\ v11 = None /\ v12 = None /\ v13 = None /\ v14 = None /\ v15 = None /\ v16 = None /\ v17 = None /\ v18 = None /\ v19 = None
  \/ /\ part = "react" /\ React!Init
     /\ v11 = None /\ v12 = None /\ v13 = None /\ v14 = None /\ v15 = None /\ v16 = None /\ v17 = None /\ v18 = None /\ v19 = None
  \/ /\ part = "server" /\ Server!Init
     /\ v17 = None /\ v18 = None /\ v19 = None
  \/ /\ part = "chat" /\ Chat!Init
     /\ v16 = None /\ v17 = None /\ v18 = None /\ v19 = None

Next ==
  /\ UNCHANGED part
  /\ \/ part = "registry" /\ Reg!Next /\ UNCHANGED <<v12, v13, v14, v15, v16, v17, v18, v19>>
     \/ part = "config" /\ Config!Next /\ UNCHANGED <<v12, v13, v14, v15, v16, v17, v18, v19>>
     \/ part = "bridge" /\ Bridge!Next
     \/ part = "bridges" /\ Bridges!Next
     \/ part = "agent" /\ Agent!Next /\ UNCHANGED <<v14, v15, v16, v17, v18, v19>>
     \/ part = "bash" /\ Bash!Next /\ UNCHANGED <<v9, v10, v11, v12, v13, v14, v15, v16, v17, v18, v19>>
     \/ part = "react" /\ React!Next /\ UNCHANGED <<v11, v12, v13, v14, v15, v16, v17, v18, v19>>
     \/ part = "server" /\ Server!Next /\ UNCHANGED <<v17, v18, v19>>
     \/ part = "chat" /\ Chat!Next /\ UNCHANGED <<v16, v17, v18, v19>>

Spec == Init /\ [][Next]_vars

-----------------------------------------------------------------------------
(* Types; a request waits for exactly one write or event of its own, only   *)
(* typed messages are lost, and no session says more than all of them.      *)
TypeOK ==
  /\ part = "registry" => Reg!TypeOK
  /\ part = "config" => Config!TypeOK
  /\ part = "bridge" => Bridge!TypeOK
  /\ part = "bridges" => Bridges!TypeOK
  /\ part = "agent" => Agent!TypeOK
  /\ part = "bash" => Bash!TypeOK
  /\ part = "react" => React!TypeOK
  /\ part = "server" => Server!TypeOK
  /\ part = "chat" => Chat!TypeOK

(* No load keeps its subscriptions when the registry has forgotten it, and  *)
(* snapshot() has one row for each registered plugin (registry.py:376-396,  *)
(* 503-523, 661-725).                                                       *)
Accounted == part = "registry" => Reg!Accounted

(* When stop() has returned, nothing is subscribed and every plugin that    *)
(* was loaded has had its on_unload (registry.py:340-348); when run_serve   *)
(* has, no turn and no event is left; every message typed is in one place,  *)
(* and the tape knows those that were heard (serve.py:338-445).             *)
StopLeavesNothing ==
  /\ part = "registry" => Reg!StopLeavesNothing
  /\ part = "server" => Server!Served

(* A key at rest has one value in cache and database, unless it was unset   *)
(* while the first write of it was on its way (config_store.py:321-374).    *)
CacheTellsDb == part = "config" => Config!CacheTellsDb

(* Clients are those the instances' rows call for, once told; a boot that   *)
(* gets through has seeded the whole bundled instance                       *)
(* (llm_openai/plugin.py:286-341, registry.py:556-618).                     *)
ClientsFollow == part = "config" => Config!ClientsFollow /\ Config!SeedsWhole

(* A call over the pipe returns its own answer or none, and waits for       *)
(* nobody who has left; no tool without an open client, no process without  *)
(* a server, and no configured server unannounced (client.py:312-417,       *)
(* mcp_bridge/plugin.py:107-320).                                           *)
BridgeAccounted ==
  /\ part = "bridge" => Bridge!OwnAnswer /\ Bridge!NobodyHangs /\ Bridge!NothingLeft /\ Bridge!NoneSilent
  /\ part = "bridges" => Bridges!OwnAnswer /\ Bridges!NobodyHangs /\ Bridges!NothingLeft /\ Bridges!NoneSilent

(* A sub-agent's result, what operators were told of it and what it leaves  *)
(* on the bus (agent_tool/plugin.py:128-352); a child process outlives its  *)
(* request only when the bus cancelled it (tool_bash/plugin.py:148-196).    *)
ChildAccounted ==
  /\ part = "agent" => Agent!ChildAccounted /\ Agent!ListenersGo
  /\ part = "bash" => Bash!ChildReaped

(* Tools run what the model wrote, one nudge is given before the turn gives *)
(* up, and the anchor names the turn's first provider                       *)
(* (strategy_react/plugin.py:189-276, loop.py:657-750).                     *)
TurnAccounted == part = "react" => React!TurnAccounted

(* A tab shows the session clicked last, its events once and in order, and  *)
(* sends what is typed to it (chat-shell.ts:384-490, web/plugin.py:466-599).*)
ShowsWhatWasAsked == part = "chat" => Chat!ShowsWhatWasAsked
=============================================================================
