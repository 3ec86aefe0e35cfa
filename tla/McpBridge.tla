------------------------------ MODULE McpBridge ------------------------------
(***************************************************************************)
(* The mcp_bridge plugin: on_load boots the configured MCP servers one     *)
(* after the other, each a child process behind an MCPClient, with retries;*)
(* their tools go into the kernel's table and are called concurrently over *)
(* one pipe, with ids, a write lock and a reader task; children answer     *)
(* late, in any order or never, and die; on_unload takes everything down.  *)
(***************************************************************************)
EXTENDS Integers, Sequences, FiniteSets, Functions

CONSTANTS
  Servers,   \* the configured servers, in the order of the file
  Names,     \* qualified names of tools
  Calls,     \* tool calls
  Attempts,  \* len(retry_delays_s)
  None

Booted == Range(Servers)
Callers == Calls \cup Booted      \* a boot asks its own two requests
Clients == Booted \X (1..Attempts)

VARIABLES
  config,     \* what parse_mcp_config makes of each entry: good, off or bad;
              \* unseen: it is handed a ConfigView and takes only a dict
  phase,      \* loading, loaded, unloading, unloaded
  stage,      \* how far the boot of a server is
  attempt,    \* its attempts
  records,    \* _servers, oldest first: each ready server, the name it registered
  leaving,    \* the records on_unload has left
  tools,      \* the kernel's table: the client a name belongs to
  told,       \* servers of which x.mcp.server.ready or error was emitted
  running,    \* child processes
  reading,    \* clients whose read loop runs
  closed,     \* clients whose _closed is set
  nextId, pending, lock,  \* per client: _id_counter, _pending, _write_lock
  asked,      \* lines a child has not answered
  out,        \* lines in a child's stdout
  call,       \* per caller: where it is, its client, its id, its future
  late, stuck \* history: asked without a reader; timed out while writing

pluginVars == <<phase, stage, attempt, records, leaving, tools, told>>
clientVars == <<nextId, pending, lock, asked, out>>
processVars == <<running, reading, closed>>
historyVars == <<late, stuck>>
vars == <<config, pluginVars, clientVars, processVars, call, historyVars>>

Idle == [at |-> "idle", client |-> None, id |-> 0, future |-> None]
Busy == {"lock", "drain", "wait"}
Client(s) == <<s, attempt[s]>>
Finished == {"ready", "gaveup", "off"}

Init ==
  /\ config \in [Booted -> {"good", "off", "bad"}] \cup {[s \in Booted |-> "unseen"]}
  /\ phase = "loading"
  /\ stage = [s \in Booted |-> IF config[s] = "good" THEN "todo" ELSE "off"]
  /\ attempt = [s \in Booted |-> 0]
  /\ records = <<>> /\ leaving = <<>>
  /\ tools = [t \in Names |-> None]
  /\ told = {s \in Booted : config[s] = "bad"}
  /\ running = {} /\ reading = {} /\ closed = {}
  /\ nextId = [k \in Clients |-> 1] /\ pending = [k \in Clients |-> {}]
  /\ lock = [k \in Clients |-> None]
  /\ asked = [k \in Clients |-> {}] /\ out = [k \in Clients |-> <<>>]
  /\ call = [c \in Callers |-> Idle]
  /\ late = {} /\ stuck = {}

-----------------------------------------------------------------------------
(* A future that is done keeps its value; nobody waits for those of callers *)
(* that have left.                                                          *)
Waits(c, k, n) == call[c].at \in Busy /\ call[c].client = k /\ call[c].id = n
Fail(k) ==
  [c \in Callers |->
    IF \E p \in pending[k] : p.who = c /\ Waits(c, k, p.id) /\ call[c].future = None
    THEN [call[c] EXCEPT !.future = "crashed"] ELSE call[c]]

(* _request; readers are the clients whose read loop runs *)
Request(c, k, readers) ==
  /\ nextId' = [nextId EXCEPT ![k] = @ + 1]
  /\ pending' = [pending EXCEPT ![k] = @ \cup {[id |-> nextId[k], who |-> c]}]
  /\ call' = [call EXCEPT ![c] = [at |-> "lock", client |-> k, id |-> nextId[k], future |-> None]]
  /\ late' = IF k \in readers THEN late ELSE late \cup {c}

(* the dispatcher has looked the tool up; its approval may take a while *)
Lookup(c) ==
  /\ c \in Calls /\ call[c] = Idle
  /\ \E t \in Names :
       /\ tools[t] # None
       /\ call' = [call EXCEPT ![c] = [Idle EXCEPT !.at = "found", !.client = tools[t]]]
  /\ UNCHANGED <<config, pluginVars, clientVars, processVars, historyVars>>

Run(c) ==
  LET k == call[c].client IN
  /\ call[c].at = "found"
  /\ \/ /\ k \notin closed /\ Request(c, k, reading)
        /\ UNCHANGED <<lock, asked, out>>
     \/ /\ k \in closed
        /\ call' = [call EXCEPT ![c].at = "done", ![c].future = "crashed"]
        /\ UNCHANGED <<clientVars, late>>
  /\ UNCHANGED <<config, pluginVars, processVars, stuck>>

(* _write_line: the lock, the write, the drain *)
WriteLine(c) ==
  LET k == call[c].client IN
  /\ call[c].at = "lock" /\ lock[k] = None /\ k \in running
  /\ lock' = [lock EXCEPT ![k] = c]
  /\ asked' = IF k \in reading THEN [asked EXCEPT ![k] = @ \cup {[id |-> call[c].id, who |-> c]}] ELSE asked
  /\ call' = [call EXCEPT ![c].at = "drain"]
  /\ UNCHANGED <<config, pluginVars, nextId, pending, out, processVars, historyVars>>

Released(c) == [k \in Clients |-> IF lock[k] = c THEN None ELSE lock[k]]

Drained(c) ==
  /\ call[c].at = "drain"
  /\ call' = [call EXCEPT ![c].at = "wait"]
  /\ lock' = Released(c)
  /\ UNCHANGED <<config, pluginVars, nextId, pending, asked, out, processVars, historyVars>>

Popped(c) == [pending EXCEPT ![call[c].client] = @ \ {[id |-> call[c].id, who |-> c]}]

BrokenPipe(c) ==
  /\ \/ call[c].at = "lock" /\ lock[call[c].client] = None
     \/ call[c].at = "drain"
  /\ call[c].client \notin running
  /\ pending' = Popped(c) /\ lock' = Released(c)
  /\ call' = [call EXCEPT ![c].at = "done", ![c].future = "crashed"]
  /\ UNCHANGED <<config, pluginVars, nextId, asked, out, processVars, historyVars>>

(* the future is done *)
Answered(c) ==
  /\ call[c].at = "wait" /\ call[c].future # None
  /\ pending' = Popped(c)
  /\ call' = [call EXCEPT ![c].at = "done"]
  /\ UNCHANGED <<config, pluginVars, nextId, lock, asked, out, processVars, historyVars>>

(* wait_for cancels _request: its finally pops the entry of a caller that  *)
(* awaits its future, and only of such a one                               *)
TimesOut(c) ==
  /\ call[c].at \in Busy /\ call[c].future = None
  /\ \/ call[c].at = "wait" /\ pending' = Popped(c) /\ UNCHANGED stuck
     \/ call[c].at # "wait" /\ stuck' = stuck \cup {c} /\ UNCHANGED pending
  /\ lock' = Released(c)
  /\ call' = [call EXCEPT ![c].at = "done", ![c].future = "timeout"]
  /\ UNCHANGED <<config, pluginVars, nextId, asked, out, processVars, late>>

-----------------------------------------------------------------------------
(* The child answers what it likes, when it likes.                         *)
ChildAnswers(k) ==
  /\ k \in running \cap reading
  /\ \E a \in asked[k], ok \in BOOLEAN :
       /\ asked' = [asked EXCEPT ![k] = @ \ {a}]
       /\ out' = [out EXCEPT ![k] = Append(@, [id |-> a.id, who |-> a.who, ok |-> ok])]
  /\ UNCHANGED <<config, pluginVars, nextId, pending, lock, processVars, call, historyVars>>

ChildDies(k) ==
  /\ k \in running
  /\ running' = running \ {k}
  /\ asked' = [asked EXCEPT ![k] = {}]
  /\ UNCHANGED <<config, pluginVars, nextId, pending, lock, out, reading, closed, call, historyVars>>

(* _dispatch_message *)
ReadsLine(k) ==
  LET line == Head(out[k]) IN
  /\ k \in reading /\ out[k] # <<>>
  /\ out' = [out EXCEPT ![k] = Tail(@)]
  /\ call' = [c \in Callers |->
       IF [id |-> line.id, who |-> c] \in pending[k] /\ Waits(c, k, line.id) /\ call[c].future = None
       THEN [call[c] EXCEPT !.future = IF line.ok THEN line.who ELSE "refused"] ELSE call[c]]
  /\ UNCHANGED <<config, pluginVars, nextId, pending, lock, asked, processVars, historyVars>>

(* the child is gone, or its line is longer than the reader's limit *)
ReaderEnds(k) ==
  /\ k \in reading /\ (k \notin running \/ out[k] # <<>>)
  /\ reading' = reading \ {k}
  /\ call' = Fail(k) /\ pending' = [pending EXCEPT ![k] = {}]
  /\ asked' = [asked EXCEPT ![k] = {}] /\ out' = [out EXCEPT ![k] = <<>>]
  /\ UNCHANGED <<config, pluginVars, nextId, lock, running, closed, historyVars>>

-----------------------------------------------------------------------------
(* close(): the futures fail at once, the child is waited for or killed.   *)
CloseBegins(k) ==
  /\ closed' = closed \cup {k}
  /\ call' = Fail(k) /\ pending' = [pending EXCEPT ![k] = {}]
CloseEnds(k) ==
  /\ running' = running \ {k} /\ reading' = reading \ {k}
  /\ asked' = [asked EXCEPT ![k] = {}] /\ out' = [out EXCEPT ![k] = <<>>]

(* _boot_server *)
Turn(s) ==
  \A n \in DOMAIN Servers :
    (\A m \in 1..n : Servers[m] # s) => stage[Servers[n]] \in Finished

Spawn(s) ==
  LET k == <<s, attempt[s] + 1>> IN
  /\ phase = "loading" /\ Turn(s)
  /\ stage[s] = "todo" /\ attempt[s] < Attempts
  /\ attempt' = [attempt EXCEPT ![s] = @ + 1]
  /\ stage' = [stage EXCEPT ![s] = "initialize"]
  /\ running' = running \cup {k} /\ reading' = reading \cup {k}
  /\ Request(s, k, reading')
  /\ UNCHANGED <<config, phase, records, leaving, tools, told, lock, asked, out, closed, stuck>>

SpawnFails(s) ==
  /\ phase = "loading" /\ Turn(s)
  /\ stage[s] = "todo" /\ attempt[s] < Attempts
  /\ attempt' = [attempt EXCEPT ![s] = @ + 1]
  /\ closed' = closed \cup {<<s, attempt[s] + 1>>}
  /\ UNCHANGED <<config, phase, stage, records, leaving, tools, told, clientVars, running, reading,
                 call, historyVars>>

Succeeded(s) == call[s].at = "done" /\ call[s].future \in Callers

ListTools(s) ==
  /\ stage[s] = "initialize" /\ Succeeded(s) /\ Client(s) \notin closed
  /\ stage' = [stage EXCEPT ![s] = "tools/list"]
  /\ Request(s, Client(s), reading)
  /\ UNCHANGED <<config, phase, attempt, records, leaving, tools, told, lock, asked, out,
                 processVars, stuck>>

(* _register_server: a name that is taken is skipped *)
Record(s, names) == [server |-> s, names |-> names]

RegisterServer(s) ==
  /\ stage[s] = "tools/list" /\ Succeeded(s)
  /\ stage' = [stage EXCEPT ![s] = "ready"]
  /\ \E t \in Names :
       /\ tools' = IF tools[t] = None THEN [tools EXCEPT ![t] = Client(s)] ELSE tools
       /\ records' = Append(records, Record(s, IF tools[t] = None THEN {t} ELSE {}))
  /\ told' = told \cup {s}
  /\ UNCHANGED <<config, phase, attempt, leaving, clientVars, processVars, call, historyVars>>

Failed(s) == call[s].at = "done" /\ call[s].future \notin Callers

BootFails(s) ==
  /\ stage[s] \in {"initialize", "tools/list"} /\ Failed(s)
  /\ stage' = [stage EXCEPT ![s] = "closing"]
  /\ CloseBegins(Client(s))
  /\ UNCHANGED <<config, phase, attempt, records, leaving, tools, told, nextId, lock, asked, out,
                 running, reading, historyVars>>

(* then the backoff and the next attempt *)
Retry(s) ==
  /\ stage[s] = "closing"
  /\ stage' = [stage EXCEPT ![s] = "todo"]
  /\ CloseEnds(Client(s))
  /\ UNCHANGED <<config, phase, attempt, records, leaving, tools, told, nextId, pending, lock, closed,
                 call, historyVars>>

GiveUp(s) ==
  /\ phase = "loading" /\ Turn(s)
  /\ stage[s] = "todo" /\ attempt[s] = Attempts
  /\ stage' = [stage EXCEPT ![s] = "gaveup"]
  /\ told' = told \cup {s}
  /\ UNCHANGED <<config, phase, attempt, records, leaving, tools, clientVars, processVars, call,
                 historyVars>>

Loaded ==
  /\ phase = "loading" /\ \A s \in Booted : stage[s] \in Finished
  /\ phase' = "loaded"
  /\ UNCHANGED <<config, stage, attempt, records, leaving, tools, told, clientVars, processVars,
                 call, historyVars>>

-----------------------------------------------------------------------------
(* on_unload *)
Unload ==
  /\ phase = "loaded"
  /\ phase' = "unloading"
  /\ leaving' = records /\ records' = <<>>
  /\ UNCHANGED <<config, stage, attempt, tools, told, clientVars, processVars, call,
                 historyVars>>

Unregistered == [t \in Names |-> IF t \in Head(leaving).names THEN None ELSE tools[t]]

CloseThenUnregister ==
  LET s == Head(leaving).server IN
  /\ phase = "unloading" /\ leaving # <<>> /\ Client(s) \notin closed
  /\ CloseBegins(Client(s))
  /\ UNCHANGED <<config, pluginVars, nextId, lock, asked, out, running, reading, historyVars>>

UnloadServer ==
  LET s == Head(leaving).server IN
  /\ phase = "unloading" /\ leaving # <<>> /\ Client(s) \notin closed
  /\ tools' = Unregistered
  /\ CloseBegins(Client(s))
  /\ UNCHANGED <<config, phase, stage, attempt, records, leaving, told, nextId, lock, asked, out,
                 running, reading, historyVars>>

ServerUnloaded ==
  LET s == Head(leaving).server IN
  /\ phase = "unloading" /\ leaving # <<>> /\ Client(s) \in closed
  /\ leaving' = Tail(leaving)
  /\ tools' = Unregistered
  /\ CloseEnds(Client(s))
  /\ UNCHANGED <<config, phase, stage, attempt, records, told, nextId, pending, lock, closed, call,
                 historyVars>>

Unloaded ==
  /\ phase = "unloading" /\ leaving = <<>>
  /\ phase' = "unloaded"
  /\ UNCHANGED <<config, stage, attempt, records, leaving, tools, told, clientVars, processVars,
                 call, historyVars>>

Next ==
  \/ \E c \in Calls : Lookup(c) \/ Run(c)
  \/ \E c \in Callers :
       WriteLine(c) \/ Drained(c) \/ BrokenPipe(c) \/ Answered(c) \/ TimesOut(c)
  \/ \E k \in Clients : ChildAnswers(k) \/ ChildDies(k) \/ ReadsLine(k) \/ ReaderEnds(k)
  \/ \E s \in Booted :
       Spawn(s) \/ SpawnFails(s) \/ ListTools(s) \/ RegisterServer(s) \/ BootFails(s)
       \/ Retry(s) \/ GiveUp(s)
  \/ Loaded \/ Unload \/ UnloadServer \/ ServerUnloaded \/ Unloaded

Spec == Init /\ [][Next]_vars

-----------------------------------------------------------------------------
TypeOK ==
  /\ phase \in {"loading", "loaded", "unloading", "unloaded"}
  /\ running \cup reading \cup closed \subseteq Clients
  /\ \A t \in Names : tools[t] \in Clients \cup {None}
  /\ \A c \in Callers : call[c].at \in Busy \cup {"idle", "found", "done"}

(* A call returns the answer to its own request, or says it has none,      *)
(* although answers come late, in any order, and to calls that gave up.    *)
OwnAnswer ==
  \A c \in Callers : call[c].at = "done" => call[c].future \in {c, "refused", "crashed", "timeout"}

(* "On EOF we fail every remaining pending future so no caller hangs":     *)
(* whoever waits has a reader or a value, unless it asked after the reader *)
(* had ended; and _pending holds nothing but requests somebody waits for,  *)
(* and those that timed out before they were written.                      *)
NobodyHangs ==
  /\ \A c \in Callers :
       call[c].at \in Busy /\ call[c].future = None =>
         c \in late \/ (call[c].client \in reading /\ call[c].client \notin closed)
  /\ \A k \in Clients : \A p \in pending[k] : p.who \in stuck \/ Waits(p.who, k, p.id)

(* A tool in the table has a client that is open, and belongs to a record  *)
(* on_unload will find; no process is left by a failed attempt, by a       *)
(* server that was given up or by an unloaded plugin.                      *)
NothingLeft ==
  /\ \A t \in Names : tools[t] # None =>
       /\ tools[t] \notin closed /\ tools[t][2] = attempt[tools[t][1]]
       /\ \E r \in Range(records) \cup Range(leaving) : r.server = tools[t][1] /\ t \in r.names
  /\ \A k \in running : k[2] = attempt[k[1]] /\ stage[k[1]] \notin {"todo", "gaveup", "off"}
  /\ phase = "unloaded" => running = {} /\ \A t \in Names : tools[t] = None

(* "Broken config is surfaced, never silent": once loaded, every server    *)
(* the parser saw and that is not switched off has been announced, as ready*)
(* or as an error.                                                         *)
NoneSilent ==
  phase # "loading" => \A s \in Booted : config[s] \in {"off", "unseen"} \/ s \in told

-----------------------------------------------------------------------------
(* What the proofs need of the constants: nothing a future holds is taken   *)
(* for an answer, and a boot is not a tool call.                            *)
Verdicts == {None, "refused", "crashed", "timeout"}
Parameters ==
  /\ Attempts \in Nat
  /\ Verdicts \cap Callers = {} /\ None \notin {"refused", "crashed", "timeout"} \cup Clients
  /\ Calls \cap Booted = {}

Entry == [id : Nat, who : Callers]
Line == [id : Nat, who : Callers, ok : BOOLEAN]
ServerRecords == [server : Booted, names : SUBSET Names]
Call == [at : Busy \cup {"idle", "found", "done"}, client : Clients \cup {None}, id : Nat,
         future : Callers \cup Verdicts]
Booting == {"initialize", "tools/list"}

Types ==
  /\ config \in [Booted -> {"good", "off", "bad", "unseen"}]
  /\ phase \in {"loading", "loaded", "unloading", "unloaded"}
  /\ stage \in [Booted -> Booting \cup Finished \cup {"todo", "closing"}]
  /\ attempt \in [Booted -> 0..Attempts]
  /\ records \in Seq(ServerRecords) /\ leaving \in Seq(ServerRecords)
  /\ tools \in [Names -> Clients \cup {None}] /\ told \in SUBSET Booted
  /\ running \in SUBSET Clients /\ reading \in SUBSET Clients /\ closed \in SUBSET Clients
  /\ nextId \in [Clients -> Nat] /\ lock \in [Clients -> Callers \cup {None}]
  /\ pending \in [Clients -> SUBSET Entry] /\ asked \in [Clients -> SUBSET Entry]
  /\ out \in [Clients -> Seq(Line)]
  /\ call \in [Callers -> Call]
  /\ late \in SUBSET Callers /\ stuck \in SUBSET Callers

(* Where a caller is.                                                       *)
CallInv ==
  \A c \in Callers :
    /\ call[c].at # "idle" => /\ call[c].client \in Clients
                              /\ call[c].client[2] <= attempt[call[c].client[1]]
    /\ call[c].future \in {c} \cup Verdicts
    /\ call[c].at = "done" => call[c].future # None
    /\ c \in Booted /\ call[c].at \in Busy => stage[c] \in Booting

(* An id of a client belongs to one caller, wherever it still turns up: in  *)
(* _pending, at the child, in its answers, at the caller.                   *)
Uses(k) ==
  pending[k] \cup asked[k]
    \cup {[id |-> l.id, who |-> l.who] : l \in Range(out[k])}
    \cup {[id |-> call[c].id, who |-> c] :
            c \in {d \in Callers : call[d].at \in Busy /\ call[d].client = k}}
OwnIds ==
  \A k \in Clients : \A e, f \in Uses(k) : e.id < nextId[k] /\ (e.id = f.id => e.who = f.who)

(* Whoever waits without a value can still be given one.                    *)
Expected ==
  \A c \in Callers :
    call[c].at \in Busy /\ call[c].future = None =>
      [id |-> call[c].id, who |-> c] \in pending[call[c].client]

(* What a server's stage says of its client, and of the plugin's.           *)
StageInv ==
  \A s \in Booted :
    /\ stage[s] \in Booting \cup {"closing", "ready"} => attempt[s] >= 1
    /\ stage[s] \in Booting => Client(s) \notin closed
    /\ stage[s] = "closing" => Client(s) \in closed
    /\ stage[s] \in {"ready", "gaveup"} \/ config[s] = "bad" => s \in told
    /\ stage[s] = "off" => config[s] # "good"
    /\ phase # "loading" => stage[s] \in Finished

(* The records, and what they stand for.                                    *)
OneEach(rs) == \A i, j \in DOMAIN rs : rs[i].server = rs[j].server => i = j
Kept(s) == \E r \in Range(records) \cup Range(leaving) : r.server = s
RecordInv ==
  /\ \A k \in closed \cup running \cup reading : k[2] <= attempt[k[1]]
  /\ \A s \in Booted : Kept(s) => stage[s] = "ready"
  /\ OneEach(records) /\ OneEach(leaving)
  /\ phase \notin {"loading", "loaded"} => records = <<>>
  /\ phase # "unloading" => leaving = <<>>
  /\ \A k \in running : stage[k[1]] = "ready" => Kept(k[1])

BridgeInv ==
  Parameters /\ Types /\ CallInv /\ OwnIds /\ Expected /\ StageInv /\ RecordInv
  /\ NobodyHangs /\ NothingLeft
=============================================================================
