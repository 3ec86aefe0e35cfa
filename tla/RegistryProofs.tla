--------------------------- MODULE RegistryProofs ---------------------------
(***************************************************************************)
(* Proofs about the plugin registry.  What it keeps of a load holds as     *)
(* long as start, install, remove and stop follow one another (Serial);    *)
(* when install and remove overlap it does not, see the README.  That      *)
(* on_unload runs once and the status ladder is kept is proved without     *)
(* requests: remove leaves the status alone while on_unload runs.          *)
(***************************************************************************)
EXTENDS Registry, TLAPS

Serial == Requests = {} \/ ~Concurrent

(* The tasks that are under way: one at a time, none while stop() runs.    *)
Busy(t) == ~Over(t)
OneAtATime ==
  /\ \A t, u \in Tasks : Busy(t) /\ Busy(u) => t = u
  /\ task[Start].pc # "new"
  /\ (\E t \in Requests : Busy(t)) => task[Start].pc = "over"
  /\ stop # "no" => \A t \in Tasks : ~Busy(t)

(* What a task that is under way says of the record it works on.           *)
TaskInv ==
  \A t \in Tasks : Busy(t) =>
    LET p == task[t].p  r == task[t].r
    IN  /\ task[t].pc = "on_load" =>
             /\ r \in Records /\ p \in Plugins /\ records[p] = None
             /\ rec[r].status = "loading" /\ rec[r].plugin = p
        /\ task[t].pc \in {"install", "remove", "on_unload", "removed"} => p \in Plugins
        /\ task[t].pc \in {"remove", "on_unload", "removed"} => records[p] = r
        /\ task[t].pc \in {"on_unload", "removed"} => r \in Records /\ ~rec[r].subscribed
        /\ task[t].pc = "removed" => rec[r].status # "loaded"

(* What the status of a record says: before it is registered nobody knows  *)
(* it, a loaded one is registered, an unloading one has its task.          *)
Sound(r) ==
  /\ rec[r].status # "free" => rec[r].plugin \in Plugins
  /\ rec[r].status \in {"free", "loading"} => r \notin flight /\ ~rec[r].subscribed
  /\ rec[r].status = "loaded" => records[rec[r].plugin] = r
  /\ rec[r].status \in {"free", "loading", "loaded"} =>
       unload[r] = "none" /\ rec[r].count < Threshold
  /\ rec[r].subscribed => \/ rec[r].status = "loaded"
                          \/ rec[r].status = "unloading" /\ unload[r] = "spawned"
  /\ rec[r].status = "unloading" => unload[r] \in {"spawned", "on_unload"}
StatusInv == \A r \in Records : Sound(r)

(* A record that is loading is one task's; a registered one carries its    *)
(* plugin's name.                                                          *)
LoadingInv ==
  \A r \in Records : rec[r].status = "loading" =>
    \E t \in Tasks : task[t].pc = "on_load" /\ task[t].r = r
RecordsInv ==
  \A p \in Plugins : Registered(p) =>
    rec[records[p]].plugin = p /\ rec[records[p]].status \notin {"free", "loading"}

(* stop(): what is still loaded is still to be visited, and the plugin     *)
(* being unloaded has lost its subscriptions.                              *)
StopInv ==
  /\ stop \in {"visit", "on_unload", "stopped"} =>
       /\ \A r \in Records : unload[r] \in {"none", "done"}
       /\ \A r \in Records : Loaded(r) => Contains(stopTodo, rec[r].plugin)
  /\ stop = "on_unload" => stopTodo # <<>> /\ Registered(Head(stopTodo))
                           /\ ~rec[records[Head(stopTodo)]].subscribed
  /\ stop = "stopped" => stopTodo = <<>>

RegInv == /\ Parameters /\ Serial /\ TypeOK /\ OneAtATime /\ TaskInv /\ StatusInv
          /\ LoadingInv /\ RecordsInv /\ OneRowEach /\ StopInv

-----------------------------------------------------------------------------
(* A task that goes on is the only one, and stop() has not begun.          *)
LEMMA TaskAlone ==
  ASSUME RegInv, NEW t \in Tasks, UNCHANGED stop,
         \/ Busy(t)
         \/ t \in Requests /\ stop = "no" /\ task[Start].pc = "over" /\ \A u \in Tasks : ~Busy(u),
         \A u \in Tasks \ {t} : task'[u] = task[u], task'[t].pc # "new"
  PROVE  /\ OneAtATime' /\ StopInv' /\ stop = "no"
         /\ \A u \in Tasks \ {t} : ~Busy(u) /\ ~Busy(u)'
<1>1. stop = "no"
  BY DEF RegInv, OneAtATime
<1>2. \A u \in Tasks \ {t} : ~Busy(u) /\ ~Busy(u)'
  BY DEF RegInv, OneAtATime, Busy, Over
<1>3. OneAtATime'
  <2>1. \A u, x \in Tasks : Busy(u)' /\ Busy(x)' => u = x
    BY <1>2
  <2>2. task'[Start].pc # "new"
    BY DEF RegInv, OneAtATime, Tasks
  <2>3. (\E u \in Requests : Busy(u)') => task'[Start].pc = "over"
    <3>1. CASE t = Start
      BY <1>2, <3>1 DEF RegInv, Parameters, Tasks
    <3>2. CASE t # Start
      <4>1. t \in Requests /\ task[Start].pc = "over" /\ Start \in Tasks
        BY <3>2 DEF RegInv, OneAtATime, Tasks
      <4> QED  BY <3>2, <4>1
    <3> QED  BY <3>1, <3>2
  <2> QED  BY <1>1, <2>1, <2>2, <2>3 DEF OneAtATime
<1> QED  BY <1>1, <1>2, <1>3 DEF StopInv

(* A step of a task that leaves the records alone.                         *)
LEMMA TaskMoves ==
  ASSUME RegInv, NEW t \in Tasks, task[t].pc # "on_load",
         UNCHANGED <<tableVars, unload, stopVars, flight>>,
         \/ Busy(t)
         \/ t \in Requests /\ stop = "no" /\ task[Start].pc = "over" /\ \A u \in Tasks : ~Busy(u),
         \A u \in Tasks \ {t} : task'[u] = task[u], task' \in [Tasks -> Task],
         task'[t].pc \in {"discover", "over", "install", "remove"},
         task'[t].pc \in {"install", "remove"} => task'[t].p \in Plugins,
         task'[t].pc = "remove" => records[task'[t].p] = task'[t].r,
         installed' \subseteq Plugins, errors' \in [Plugins -> Nat], failures' \in 0..MaxFailures
  PROVE  RegInv'
<1>0. UNCHANGED <<rec, records, order, unload, stop, stopTodo, flight>>
  BY DEF tableVars, stopVars
<1>1. OneAtATime' /\ StopInv' /\ \A u \in Tasks \ {t} : ~Busy(u) /\ ~Busy(u)'
  BY <1>0, TaskAlone
<1>2. TypeOK'
  BY <1>0 DEF RegInv, TypeOK
<1>3. TaskInv'
  BY <1>0, <1>1 DEF RegInv, TaskInv
<1>4. LoadingInv'
  BY <1>0 DEF RegInv, LoadingInv
<1>5. StatusInv' /\ RecordsInv' /\ OneRowEach'
  BY <1>0 DEF RegInv, StatusInv, Sound, RecordsInv, OneRowEach, Registered
<1> QED  BY <1>1, <1>2, <1>3, <1>4, <1>5 DEF RegInv, Parameters, Serial

(* Discovery, pip and a new request do no more than that.                  *)
LEMMA TaskMovesKeep ==
  ASSUME RegInv,
         \/ \E t \in Tasks : \/ \E p \in Plugins : SkipEntryPoint(t, p)
                             \/ LoadPublished(t) \/ DiscoveryEnds(t)
                             \/ PipInstalled(t) \/ PipFails(t)
         \/ \E t \in Requests, p \in Plugins, pc \in {"install", "remove"} : Request(t, p, pc)
  PROVE  RegInv'
<1>0. /\ task \in [Tasks -> Task] /\ errors \in [Plugins -> Nat]
      /\ failures \in 0..MaxFailures /\ MaxFailures \in Nat /\ installed \subseteq Plugins
  BY DEF RegInv, TypeOK, Parameters
<1>1. ASSUME NEW t \in Tasks, NEW p \in Plugins, SkipEntryPoint(t, p)
      PROVE  RegInv'
  <2>1. /\ task[t].pc = "discover" /\ task' = [task EXCEPT ![t].todo = @ \ {p}]
        /\ UNCHANGED <<installed, tableVars, unload, stopVars, flight>>
    BY <1>1 DEF SkipEntryPoint
  <2>2. errors' \in [Plugins -> Nat] /\ failures' \in 0..MaxFailures
    BY <1>0, <1>1 DEF SkipEntryPoint
  <2>3. /\ \A u \in Tasks \ {t} : task'[u] = task[u]
        /\ task' \in [Tasks -> Task] /\ task'[t].pc = "discover" /\ Busy(t)
    BY <1>0, <2>1 DEF Task, Busy, Over
  <2> QED  BY <1>0, <2>1, <2>2, <2>3, TaskMoves
<1>2. ASSUME NEW t \in Tasks, LoadPublished(t) \/ DiscoveryEnds(t) \/ PipFails(t)
      PROVE  RegInv'
  <2>1. PICK pc \in {"discover", "over"} :
          /\ task[t].pc \in {"publish", "discover", "install", "remove"}
          /\ task' = [task EXCEPT ![t].pc = pc]
          /\ UNCHANGED <<installed, tableVars, unload, stopVars, errors, handlerVars>>
    BY <1>2 DEF LoadPublished, DiscoveryEnds, PipFails
  <2>2. /\ \A u \in Tasks \ {t} : task'[u] = task[u]
        /\ task' \in [Tasks -> Task] /\ task'[t].pc = pc /\ Busy(t)
    BY <1>0, <2>1 DEF Task, Busy, Over
  <2> QED  BY <1>0, <2>1, <2>2, TaskMoves DEF handlerVars
<1>3. ASSUME NEW t \in Tasks, PipInstalled(t)
      PROVE  RegInv'
  <2>1. /\ task[t].pc = "install" /\ installed' = installed \cup {task[t].p}
        /\ task' = [task EXCEPT ![t].pc = "discover", ![t].todo = installed']
        /\ UNCHANGED <<tableVars, unload, stopVars, errors, handlerVars>>
    BY <1>3 DEF PipInstalled
  <2>2. Busy(t)  BY <2>1 DEF Busy, Over
  <2>3. installed' \subseteq Plugins
    BY <1>0, <2>1, <2>2 DEF RegInv, TaskInv
  <2>4. /\ \A u \in Tasks \ {t} : task'[u] = task[u]
        /\ task' \in [Tasks -> Task] /\ task'[t].pc = "discover"
    <3>1. task' = [task EXCEPT ![t] = [task[t] EXCEPT !.pc = "discover", !.todo = installed']]
      BY <1>0, <2>1
    <3>2. [task[t] EXCEPT !.pc = "discover", !.todo = installed'] \in Task
      BY <1>0, <2>3 DEF Task
    <3> QED  BY <1>0, <3>1, <3>2 DEF Task
  <2> QED  BY <1>0, <2>1, <2>2, <2>3, <2>4, TaskMoves DEF handlerVars
<1>4. ASSUME NEW t \in Requests, NEW p \in Plugins, NEW pc \in {"install", "remove"},
             Request(t, p, pc)
      PROVE  RegInv'
  <2> DEFINE r == IF pc = "remove" THEN records[p] ELSE None
  <2>1. /\ task[t].pc = "new" /\ stop = "no" /\ task[Start].pc = "over"
        /\ \A u \in Tasks : ~Busy(u)
        /\ task' = [task EXCEPT ![t].pc = pc, ![t].p = p, ![t].r = r]
        /\ UNCHANGED <<installed, tableVars, unload, stopVars, errors, handlerVars>>
    BY <1>4 DEF Request, RegInv, Serial, Alone, Busy
  <2>2. t \in Tasks /\ r \in Records \cup {None}
    BY DEF RegInv, TypeOK, Tasks
  <2> HIDE DEF r
  <2>3. /\ \A u \in Tasks \ {t} : task'[u] = task[u]
        /\ task' \in [Tasks -> Task] /\ task'[t].pc = pc /\ task'[t].p = p /\ task'[t].r = r
    <3> DEFINE new == [task[t] EXCEPT !.pc = pc, !.p = p, !.r = r]
    <3>1. task' = [task EXCEPT ![t] = new]
      BY <1>0, <2>1, <2>2
    <3>2. new \in Task /\ new.pc = pc /\ new.p = p /\ new.r = r
      BY <1>0, <2>2 DEF Task
    <3> HIDE DEF new
    <3> QED  BY <1>0, <2>2, <3>1, <3>2
  <2>4. pc = "remove" => records[p] = r
    BY DEF r
  <2> QED  BY <1>0, <2>1, <2>2, <2>3, <2>4, TaskMoves DEF handlerVars
<1> QED  BY <1>1, <1>2, <1>3, <1>4

(* A change to one registered record that gives it no new life.            *)
LEMMA RecordMoves ==
  ASSUME RegInv, NEW r \in Records, rec[r].status \notin {"free", "loading"},
         UNCHANGED <<installed, records, order, task>>,
         rec' \in [Records -> Record],
         unload' \in [Records -> {"none", "spawned", "on_unload", "publish", "done"}],
         \A x \in Records \ {r} : rec'[x] = rec[x] /\ unload'[x] = unload[x],
         rec'[r].plugin = rec[r].plugin, rec'[r].status \notin {"free", "loading"},
         rec'[r].status = "loaded" =>
           rec[r].status = "loaded" /\ unload'[r] = "none" /\ rec'[r].count < Threshold,
         rec'[r].subscribed =>
           /\ rec[r].subscribed
           /\ \/ rec'[r].status = "loaded"
              \/ rec'[r].status = "unloading" /\ unload'[r] = "spawned",
         rec'[r].status = "unloading" => unload'[r] \in {"spawned", "on_unload"},
         flight' \subseteq flight, errors' \in [Plugins -> Nat], failures' \in 0..MaxFailures,
         stop' \in {"no", "gather", "visit", "on_unload", "stopped"}, stopTodo' \in Seq(Plugins),
         stop = "no" => stop' = "no", StopInv'
  PROVE  RegInv'
<1>1. TypeOK'
  BY DEF RegInv, TypeOK
<1>2. OneAtATime'
  BY DEF RegInv, OneAtATime, Busy, Over
<1>3. TaskInv'
  BY DEF RegInv, TaskInv, Busy, Over
<1>4. StatusInv'
  <2>1. Sound(r)  BY DEF RegInv, StatusInv
  <2>2. Sound(r)'
    BY <2>1 DEF Sound
  <2>3. \A x \in Records \ {r} : Sound(x)'
    BY DEF RegInv, StatusInv, Sound
  <2> QED  BY <2>2, <2>3 DEF StatusInv
<1>5. LoadingInv'
  BY DEF RegInv, LoadingInv
<1>6. RecordsInv' /\ OneRowEach'
  <2>1. OneRowEach'
    BY DEF RegInv, OneRowEach, Registered
  <2>2. ASSUME NEW p \in Plugins, Registered(p)'
        PROVE  rec'[records'[p]].plugin = p /\ rec'[records'[p]].status \notin {"free", "loading"}
    <3>1. records' = records /\ Registered(p) /\ records[p] \in Records
      BY <2>2 DEF RegInv, TypeOK, Registered
    <3>2. rec[records[p]].plugin = p /\ rec[records[p]].status \notin {"free", "loading"}
      BY <3>1 DEF RegInv, RecordsInv
    <3> QED  BY <3>1, <3>2
  <2> QED  BY <2>1, <2>2 DEF RecordsInv
<1> QED  BY <1>1, <1>2, <1>3, <1>4, <1>5, <1>6 DEF RegInv, Parameters, Serial

(* The same while stop() stays where it is.                                *)
LEMMA RecordMovesOn ==
  ASSUME RegInv, NEW r \in Records, rec[r].status \notin {"free", "loading"},
         UNCHANGED <<installed, records, order, task, stop, stopTodo>>,
         rec' \in [Records -> Record],
         unload' \in [Records -> {"none", "spawned", "on_unload", "publish", "done"}],
         \A x \in Records \ {r} : rec'[x] = rec[x] /\ unload'[x] = unload[x],
         rec'[r].plugin = rec[r].plugin, rec'[r].status \notin {"free", "loading"},
         rec'[r].status = "loaded" =>
           rec[r].status = "loaded" /\ unload'[r] = "none" /\ rec'[r].count < Threshold,
         rec'[r].subscribed =>
           /\ rec[r].subscribed
           /\ \/ rec'[r].status = "loaded"
              \/ rec'[r].status = "unloading" /\ unload'[r] = "spawned",
         rec'[r].status = "unloading" => unload'[r] \in {"spawned", "on_unload"},
         flight' \subseteq flight, errors' \in [Plugins -> Nat], failures' \in 0..MaxFailures,
         unload'[r] = unload[r] \/ stop \in {"no", "gather"}
           \/ unload[r] \notin {"none", "done"}
  PROVE  RegInv'
<1>1. StopInv'
  <2>1. stop \in {"visit", "on_unload", "stopped"} =>
          /\ \A x \in Records : unload'[x] \in {"none", "done"}
          /\ \A x \in Records : Loaded(x)' => Loaded(x) /\ rec'[x].plugin = rec[x].plugin
    BY DEF RegInv, StopInv, Loaded
  <2>2. stop = "on_unload" => ~rec'[records[Head(stopTodo)]].subscribed
    <3> SUFFICES ASSUME stop = "on_unload"
                 PROVE  ~rec'[records[Head(stopTodo)]].subscribed
      OBVIOUS
    <3>1. stopTodo # <<>> /\ stopTodo \in Seq(Plugins) /\ Registered(Head(stopTodo))
          /\ ~rec[records[Head(stopTodo)]].subscribed
      BY DEF RegInv, TypeOK, StopInv
    <3>2. Head(stopTodo) \in Plugins  BY <3>1
    <3>3. records[Head(stopTodo)] \in Records
      BY <3>1, <3>2 DEF RegInv, TypeOK, Registered
    <3> QED  BY <3>1, <3>3
  <2> QED  BY <2>1, <2>2 DEF RegInv, StopInv, Registered
<1>2. stop' \in {"no", "gather", "visit", "on_unload", "stopped"} /\ stopTodo' \in Seq(Plugins)
  BY DEF RegInv, TypeOK
<1> QED  BY <1>1, <1>2, RecordMoves

(* A registered record is past its loading.                                *)
LEMMA IsRegistered ==
  ASSUME RegInv, NEW p \in Plugins, records[p] # None
  PROVE  /\ records[p] \in Records /\ rec[records[p]].plugin = p
         /\ rec[records[p]].status \notin {"free", "loading"}
  BY DEF RegInv, TypeOK, RecordsInv, Registered

(* Deliveries, handler outcomes and the failure accounting.                *)
LEMMA HandlersKeep ==
  ASSUME RegInv,
         \/ \E r \in Records : Deliver(r) \/ HandlerEnds(r)
         \/ \E p \in Plugins : OnPluginError(p)
  PROVE  RegInv'
<1>0. /\ rec \in [Records -> Record] /\ errors \in [Plugins -> Nat] /\ flight \subseteq Records
      /\ failures \in 0..MaxFailures /\ MaxFailures \in Nat /\ Threshold \in Nat \ {0}
      /\ records \in [Plugins -> Records \cup {None}] /\ None \notin Records
      /\ unload \in [Records -> {"none", "spawned", "on_unload", "publish", "done"}]
  BY DEF RegInv, TypeOK, Parameters
<1>a. ASSUME UNCHANGED <<installed, tableVars, task, unload, stopVars>>,
             errors' \in [Plugins -> Nat], failures' \in 0..MaxFailures,
             flight' \subseteq Records, \A r \in flight' \ flight : rec[r].subscribed
      PROVE  RegInv'
  <2>0. UNCHANGED <<installed, rec, records, order, task, unload, stop, stopTodo>>
    BY <1>a DEF tableVars, stopVars
  <2>1. TypeOK' /\ OneAtATime' /\ TaskInv' /\ LoadingInv' /\ RecordsInv' /\ OneRowEach' /\ StopInv'
    BY <1>a, <2>0 DEF RegInv, TypeOK, OneAtATime, TaskInv, LoadingInv, RecordsInv, OneRowEach,
       StopInv, Busy, Over, Registered, Loaded
  <2>2. StatusInv'
    BY <1>a, <2>0 DEF RegInv, StatusInv, Sound
  <2> QED  BY <2>1, <2>2 DEF RegInv, Parameters, Serial
<1>1. ASSUME NEW r \in Records, Deliver(r)
      PROVE  RegInv'
  BY <1>0, <1>1, <1>a DEF Deliver
<1>2. ASSUME NEW r \in Records, HandlerFails(r)
      PROVE  RegInv'
  <2>1. errors' \in [Plugins -> Nat] /\ failures' \in 0..MaxFailures
    <3>1. rec[r].plugin \in Plugins
      BY <1>2 DEF HandlerFails, RegInv, StatusInv, Sound
    <3>2. errors[rec[r].plugin] + 1 \in Nat /\ failures + 1 \in 0..MaxFailures
      BY <1>0, <1>2, <3>1 DEF HandlerFails
    <3> QED  BY <1>0, <1>2, <3>1, <3>2 DEF HandlerFails
  <2> QED  BY <1>0, <1>2, <1>a, <2>1 DEF HandlerFails
<1>3. ASSUME NEW r \in Records, HandlerReturns(r)
      PROVE  RegInv'
  <2> DEFINE now == records[rec[r].plugin]
  <2>1. /\ r \in flight /\ flight' = flight \ {r}
        /\ rec' = IF Loaded(now) THEN [rec EXCEPT ![now].count = 0] ELSE rec
        /\ UNCHANGED <<installed, records, order, task, unload, stop, stopTodo, errors, failures>>
    BY <1>3 DEF HandlerReturns, stopVars
  <2>2. CASE ~Loaded(now)
    BY <1>0, <1>a, <2>1, <2>2 DEF tableVars, stopVars
  <2>3. CASE Loaded(now)
    <3>1. rec[r].plugin \in Plugins
      BY <2>1 DEF RegInv, StatusInv, Sound
    <3>2. now \in Records /\ rec[now].status = "loaded"
      BY <1>0, <2>3, <3>1 DEF Loaded
    <3> DEFINE new == [rec[now] EXCEPT !.count = 0]
    <3>3. rec' = [rec EXCEPT ![now] = new]
      BY <1>0, <2>1, <2>3, <3>2
    <3>4. /\ new \in Record /\ new.plugin = rec[now].plugin /\ new.status = "loaded"
          /\ new.subscribed = rec[now].subscribed /\ new.count = 0
      BY <1>0, <3>2 DEF Record
    <3>5. Sound(now)
      BY <3>2 DEF RegInv, StatusInv
    <3> HIDE DEF new, now
    <3>6. /\ rec' \in [Records -> Record] /\ rec'[now] = new
          /\ \A x \in Records \ {now} : rec'[x] = rec[x] /\ unload'[x] = unload[x]
      BY <1>0, <2>1, <3>2, <3>3, <3>4
    <3>7. unload'[now] = "none" /\ 0 < Threshold /\ unload' = unload
      BY <1>0, <2>1, <3>2, <3>5 DEF Sound
    <3>8. flight' \subseteq flight /\ errors' = errors /\ failures' = failures
      BY <2>1
    <3> QED  BY <1>0, <2>1, <3>2, <3>4, <3>6, <3>7, <3>8, RecordMovesOn
  <2> QED  BY <2>2, <2>3
<1>4. ASSUME NEW p \in Plugins, OnPluginError(p)
      PROVE  RegInv'
  <2> DEFINE r == records[p]
  <2>1. errors' \in [Plugins -> Nat] /\ UNCHANGED <<installed, records, order, task, stopVars, handlerVars>>
    BY <1>0, <1>4 DEF OnPluginError
  <2>2. CASE stop # "no" \/ ~Loaded(r)
    <3>1. UNCHANGED <<rec, unload>>  BY <1>4, <2>2 DEF OnPluginError
    <3> QED  BY <1>0, <1>a, <2>1, <3>1 DEF tableVars, handlerVars
  <2>3. CASE stop = "no" /\ Loaded(r)
    <3>1. r \in Records /\ rec[r].status = "loaded" /\ Sound(r) /\ rec[r] \in Record
      BY <1>0, <2>3 DEF Loaded, RegInv, StatusInv
    <3>2. rec[r].count \in Nat /\ rec[r].count + 1 \in 0..Threshold /\ unload[r] = "none"
      BY <1>0, <3>1 DEF Sound, Record
    <3>3. CASE rec[r].count + 1 < Threshold
      <4> DEFINE new == [rec[r] EXCEPT !.count = @ + 1]
      <4>1. rec' = [rec EXCEPT ![r] = new] /\ unload' = unload
        BY <1>0, <1>4, <2>3, <3>1, <3>3 DEF OnPluginError
      <4>2. /\ new \in Record /\ new.plugin = rec[r].plugin /\ new.status = "loaded"
            /\ new.subscribed = rec[r].subscribed /\ new.count < Threshold
        BY <3>1, <3>2, <3>3 DEF Record
      <4> HIDE DEF new, r
      <4>3. /\ rec' \in [Records -> Record] /\ rec'[r] = new
            /\ \A x \in Records \ {r} : rec'[x] = rec[x] /\ unload'[x] = unload[x]
        BY <1>0, <3>1, <4>1, <4>2
      <4> QED
        BY <1>0, <2>1, <3>1, <3>2, <4>1, <4>2, <4>3, RecordMovesOn DEF stopVars, handlerVars
    <3>4. CASE ~(rec[r].count + 1 < Threshold)
      <4> DEFINE new == [rec[r] EXCEPT !.count = @ + 1, !.status = "unloading"]
      <4>1. rec' = [rec EXCEPT ![r] = new] /\ unload' = [unload EXCEPT ![r] = "spawned"]
        BY <1>0, <1>4, <2>3, <3>1, <3>4 DEF OnPluginError
      <4>2. /\ new \in Record /\ new.plugin = rec[r].plugin /\ new.status = "unloading"
            /\ new.subscribed = rec[r].subscribed
        BY <3>1, <3>2 DEF Record, Status
      <4> HIDE DEF new, r
      <4>3. /\ rec' \in [Records -> Record] /\ rec'[r] = new /\ unload'[r] = "spawned"
            /\ \A x \in Records \ {r} : rec'[x] = rec[x] /\ unload'[x] = unload[x]
            /\ unload' \in [Records -> {"none", "spawned", "on_unload", "publish", "done"}]
        BY <1>0, <3>1, <4>1, <4>2
      <4> QED
        BY <1>0, <2>1, <2>3, <3>1, <4>2, <4>3, RecordMovesOn DEF stopVars, handlerVars
    <3> QED  BY <3>3, <3>4
  <2> QED  BY <2>2, <2>3
<1> QED  BY <1>1, <1>2, <1>3, <1>4 DEF HandlerEnds

(* The unload task that the threshold spawned.                             *)
LEMMA UnloadKeeps ==
  ASSUME RegInv, NEW r \in Records, UnloadStep(r)
  PROVE  RegInv'
<1>0. /\ rec \in [Records -> Record] /\ errors \in [Plugins -> Nat] /\ failures \in 0..MaxFailures
      /\ unload \in [Records -> {"none", "spawned", "on_unload", "publish", "done"}]
      /\ rec[r] \in Record /\ rec[r].unloads \in Nat
  BY DEF RegInv, TypeOK, Record
<1>1. Sound(r)  BY DEF RegInv, StatusInv
<1>2. ASSUME NEW new \in Record, NEW u \in {"on_unload", "publish", "done"},
             unload[r] \in {"spawned", "on_unload", "publish"},
             rec' = [rec EXCEPT ![r] = new], unload' = [unload EXCEPT ![r] = u],
             new.plugin = rec[r].plugin, new.status \in {rec[r].status, "failed"},
             ~new.subscribed, u # "on_unload" => new.status # "unloading",
             UNCHANGED <<installed, records, order, task, stopVars, errors, handlerVars>>
      PROVE  RegInv'
  <2>1. rec[r].status \notin {"free", "loading", "loaded"}
    BY <1>1, <1>2 DEF Sound
  <2>2. /\ rec' \in [Records -> Record] /\ rec'[r] = new
        /\ unload' \in [Records -> {"none", "spawned", "on_unload", "publish", "done"}]
        /\ unload'[r] = u
        /\ \A x \in Records \ {r} : rec'[x] = rec[x] /\ unload'[x] = unload[x]
    BY <1>0, <1>2
  <2> QED
    BY <1>0, <1>2, <2>1, <2>2, RecordMovesOn DEF stopVars, handlerVars
<1>3. CASE UnloadStarts(r)
  <2> DEFINE new == [rec[r] EXCEPT !.subscribed = FALSE, !.unloads = @ + 1]
  <2>1. rec' = [rec EXCEPT ![r] = new]
    BY <1>0, <1>3 DEF UnloadStarts, Unloading
  <2>2. /\ new \in Record /\ new.plugin = rec[r].plugin /\ new.status = rec[r].status
        /\ new.subscribed = FALSE
    <3>1. rec[r].unloads + 1 \in Nat  BY <1>0
    <3> QED  BY <1>0, <3>1 DEF Record
  <2> HIDE DEF new
  <2> QED  BY <1>2, <1>3, <2>1, <2>2 DEF UnloadStarts
<1>4. CASE UnloadReturns(r)
  <2> DEFINE new == [rec[r] EXCEPT !.status = "failed"]
  <2>1. rec' = [rec EXCEPT ![r] = new]
    BY <1>0, <1>4 DEF UnloadReturns
  <2>2. /\ new \in Record /\ new.plugin = rec[r].plugin /\ new.status = "failed"
        /\ new.subscribed = rec[r].subscribed
    BY <1>0 DEF Record, Status
  <2>3. ~rec[r].subscribed
    BY <1>1, <1>4 DEF Sound, UnloadReturns
  <2> HIDE DEF new
  <2> QED  BY <1>2, <1>4, <2>1, <2>2, <2>3 DEF UnloadReturns
<1>5. CASE UnloadPublished(r)
  <2>1. rec' = [rec EXCEPT ![r] = rec[r]]
    BY <1>0, <1>5 DEF UnloadPublished, tableVars
  <2>2. ~rec[r].subscribed /\ rec[r].status # "unloading"
    BY <1>1, <1>5 DEF Sound, UnloadPublished
  <2> QED  BY <1>0, <1>2, <1>5, <2>1, <2>2 DEF UnloadPublished, tableVars
<1> QED  BY <1>3, <1>4, <1>5 DEF UnloadStep

(* What visiting leaves of the list stop() goes through.                   *)
LEMMA Visited ==
  ASSUME NEW S, NEW s \in Seq(S), s # <<>>
  PROVE  /\ Head(s) \in S /\ Tail(s) \in Seq(S)
         /\ \A x : Contains(s, x) /\ x # Head(s) => Contains(Tail(s), x)
<1>1. Head(s) \in S /\ Tail(s) \in Seq(S)  OBVIOUS
<1>2. ASSUME NEW x, Contains(s, x), x # Head(s)  PROVE Contains(Tail(s), x)
  <2>1. PICK i \in 1..Len(s) : s[i] = x  BY <1>2 DEF Contains
  <2>2. i # 1  BY <1>2, <2>1
  <2>3. i - 1 \in 1..Len(Tail(s)) /\ Tail(s)[i - 1] = x  BY <2>1, <2>2
  <2> QED  BY <2>3 DEF Contains
<1> QED  BY <1>1, <1>2

(* Reversing a sequence keeps its elements.                                *)
LEMMA Reversed ==
  ASSUME NEW S, NEW s \in Seq(S)
  PROVE  /\ Reverse(s) \in Seq(S) /\ Len(Reverse(s)) = Len(s)
         /\ \A k \in 1..Len(s) : Reverse(s)[k] = s[Len(s) + 1 - k]
         /\ \A x : x \in ToSet(s) => Contains(Reverse(s), x)
<1>0. Len(s) \in Nat  OBVIOUS
<1>1. Reverse(s) \in Seq(S) /\ Len(Reverse(s)) = Len(s)
  BY <1>0 DEF Reverse
<1>2. \A k \in 1..Len(s) : Reverse(s)[k] = s[Len(s) + 1 - k]
  BY <1>0 DEF Reverse
<1>3. ASSUME NEW x \in ToSet(s)  PROVE Contains(Reverse(s), x)
  <2>1. PICK i \in 1..Len(s) : s[i] = x  BY DEF ToSet
  <2>2. Len(s) + 1 - i \in 1..Len(s)  BY <1>0, <2>1
  <2>3. Reverse(s)[Len(s) + 1 - i] = x
    BY <1>0, <1>2, <2>1, <2>2
  <2> QED  BY <1>1, <2>2, <2>3 DEF Contains
<1> QED  BY <1>1, <1>2, <1>3

(* stop().                                                                 *)
LEMMA StopKeeps ==
  ASSUME RegInv, StopBegins \/ StopStep
  PROVE  RegInv'
<1>0. /\ rec \in [Records -> Record] /\ errors \in [Plugins -> Nat] /\ failures \in 0..MaxFailures
      /\ unload \in [Records -> {"none", "spawned", "on_unload", "publish", "done"}]
      /\ records \in [Plugins -> Records \cup {None}] /\ None \notin Records
      /\ stopTodo \in Seq(Plugins) /\ order \in Seq(Plugins) /\ flight \subseteq Records
  BY DEF RegInv, TypeOK, Parameters
<1>a. ASSUME UNCHANGED <<installed, tableVars, task, unload, errors, handlerVars>>, StopInv',
             stop' \in {"no", "gather", "visit", "on_unload", "stopped"},
             stopTodo' \in Seq(Plugins), OneAtATime'
      PROVE  RegInv'
  <2>0. UNCHANGED <<installed, rec, records, order, task, unload, errors, flight, failures>>
    BY <1>a DEF tableVars, handlerVars
  <2>1. TypeOK' /\ TaskInv' /\ LoadingInv' /\ RecordsInv' /\ OneRowEach'
    BY <1>a, <2>0 DEF RegInv, TypeOK, TaskInv, LoadingInv, RecordsInv, OneRowEach, Busy, Over,
       Registered
  <2>2. StatusInv'
    BY <1>a, <2>0 DEF RegInv, StatusInv, Sound
  <2> QED  BY <1>a, <2>1, <2>2 DEF RegInv, Parameters, Serial
<1>1. CASE StopBegins
  <2>1. stop' = "gather" /\ UNCHANGED <<installed, tableVars, task, unload, stopTodo, errors, handlerVars>>
    BY <1>1 DEF StopBegins
  <2>2. \A t \in Tasks : ~Busy(t)
    <3>1. task[Start].pc = "over"  BY <1>1 DEF StopBegins
    <3>2. CASE Requests = {}
      BY <3>1, <3>2 DEF Tasks, Busy, Over
    <3>3. CASE ~Concurrent
      BY <1>1, <3>3 DEF StopBegins, Alone, Busy
    <3> QED  BY <3>2, <3>3 DEF RegInv, Serial
  <2>3. OneAtATime' /\ StopInv'
    BY <2>1, <2>2 DEF RegInv, OneAtATime, StopInv, Busy, Over
  <2> QED  BY <1>0, <1>a, <2>1, <2>3
<1>2. CASE StopGathered
  <2>1. /\ stop = "gather" /\ stop' = "visit" /\ stopTodo' = Reverse(order)
        /\ \A r \in Records : unload[r] \in {"none", "done"}
        /\ UNCHANGED <<installed, tableVars, task, unload, errors, handlerVars>>
    BY <1>2 DEF StopGathered
  <2>2. stopTodo' \in Seq(Plugins) /\ \A x \in ToSet(order) : Contains(stopTodo', x)
    BY <1>0, <2>1, Reversed
  <2>3. \A r \in Records : Loaded(r) => rec[r].plugin \in ToSet(order)
    <3>1. ASSUME NEW r \in Records, Loaded(r)  PROVE rec[r].plugin \in ToSet(order)
      <4>1. rec[r].plugin \in Plugins /\ records[rec[r].plugin] = r
        BY <3>1 DEF Loaded, RegInv, StatusInv, Sound
      <4> QED  BY <1>0, <4>1 DEF RegInv, OneRowEach, Registered
    <3> QED  BY <3>1
  <2>4. StopInv'
    BY <2>1, <2>2, <2>3 DEF StopInv, Loaded, tableVars
  <2>5. OneAtATime'
    BY <2>1 DEF RegInv, OneAtATime, Busy, Over
  <2> QED  BY <1>a, <2>1, <2>2, <2>4, <2>5
<1>3. CASE StopReturns
  <2>1. stop = "visit" /\ stopTodo = <<>> /\ stop' = "stopped"
        /\ UNCHANGED <<installed, tableVars, task, unload, stopTodo, errors, handlerVars>>
    BY <1>3 DEF StopReturns
  <2>2. OneAtATime' /\ StopInv'
    BY <2>1 DEF RegInv, OneAtATime, StopInv, Busy, Over, Loaded, tableVars
  <2> QED  BY <1>0, <1>a, <2>1, <2>2
<1>4. CASE StopVisits
  <2> DEFINE p == Head(stopTodo)
             r == records[p]
  <2>1. /\ stop = "visit" /\ stopTodo # <<>> /\ p \in Plugins
        /\ \A x : Contains(stopTodo, x) /\ x # p => Contains(Tail(stopTodo), x)
        /\ Tail(stopTodo) \in Seq(Plugins)
    BY <1>0, <1>4, Visited DEF StopVisits
  <2>2. UNCHANGED <<installed, records, order, task, unload, errors, handlerVars>>
    BY <1>4 DEF StopVisits
  <2>3. \A x \in Records : unload[x] \in {"none", "done"}
    BY <2>1 DEF RegInv, StopInv
  <2>4. \A x \in Records : Loaded(x) => Contains(stopTodo, rec[x].plugin)
    BY <2>1 DEF RegInv, StopInv
  <2>5. CASE ~Loaded(r)
    <3>1. stop' = stop /\ rec' = rec /\ stopTodo' = Tail(stopTodo)
      BY <1>4, <2>5 DEF StopVisits
    <3>2. \A x \in Records : Loaded(x) => rec[x].plugin # p
      BY <2>5 DEF RegInv, StatusInv, Sound, Loaded
    <3>3. StopInv'
      BY <2>1, <2>2, <2>3, <2>4, <3>1, <3>2 DEF StopInv, Loaded
    <3>4. OneAtATime'
      BY <2>2, <3>1 DEF RegInv, OneAtATime, Busy, Over
    <3> QED  BY <1>a, <2>1, <2>2, <3>1, <3>3, <3>4 DEF tableVars
  <2>6. CASE Loaded(r)
    <3> DEFINE new == [rec[r] EXCEPT !.subscribed = FALSE, !.unloads = @ + 1]
    <3>1. r \in Records /\ rec[r].status = "loaded" /\ rec[r] \in Record /\ Sound(r)
      BY <1>0, <2>1, <2>6 DEF Loaded, RegInv, StatusInv
    <3>2. rec' = [rec EXCEPT ![r] = new] /\ stop' = "on_unload" /\ stopTodo' = stopTodo
      BY <1>0, <1>4, <2>6, <3>1 DEF StopVisits, Unloading
    <3>3. /\ new \in Record /\ new.plugin = rec[r].plugin /\ new.status = rec[r].status
          /\ new.subscribed = FALSE /\ new.count = rec[r].count
      <4>1. rec[r].unloads \in Nat  BY <3>1 DEF Record
      <4>2. rec[r].unloads + 1 \in Nat  BY <4>1
      <4> HIDE DEF r
      <4> QED  BY <3>1, <4>2 DEF Record
    <3> HIDE DEF new
    <3>4. /\ rec' \in [Records -> Record] /\ rec'[r] = new /\ unload' = unload
          /\ \A x \in Records \ {r} : rec'[x] = rec[x] /\ unload'[x] = unload[x]
      BY <1>0, <2>2, <3>1, <3>2, <3>3
    <3>5. StopInv'
      BY <1>0, <2>1, <2>2, <2>3, <2>4, <3>1, <3>2, <3>3, <3>4 DEF StopInv, Loaded, Registered
    <3>6. unload'[r] = "none" /\ new.count < Threshold
      BY <3>1, <3>3, <3>4 DEF Sound
    <3>7. /\ stop' \in {"no", "gather", "visit", "on_unload", "stopped"}
          /\ stopTodo' \in Seq(Plugins) /\ stop # "no"
      BY <1>0, <2>1, <3>2
    <3> HIDE DEF r
    <3> QED
      BY <1>0, <2>2, <3>1, <3>3, <3>4, <3>5, <3>6, <3>7, RecordMoves DEF handlerVars
  <2> QED  BY <2>5, <2>6
<1>5. CASE StopUnloaded
  <2> DEFINE p == Head(stopTodo)
             r == records[p]
  <2>1. /\ stop = "on_unload" /\ stopTodo # <<>> /\ Registered(p) /\ ~rec[r].subscribed
        /\ \A x \in Records : unload[x] \in {"none", "done"}
        /\ \A x \in Records : Loaded(x) => Contains(stopTodo, rec[x].plugin)
    BY <1>5 DEF StopUnloaded, RegInv, StopInv
  <2>2. /\ p \in Plugins /\ Tail(stopTodo) \in Seq(Plugins)
        /\ \A x : Contains(stopTodo, x) /\ x # p => Contains(Tail(stopTodo), x)
    BY <1>0, <2>1, Visited
  <2>3. r \in Records /\ rec[r].plugin = p /\ rec[r].status \notin {"free", "loading"}
    BY <2>1, <2>2, IsRegistered DEF Registered
  <2> DEFINE new == [rec[r] EXCEPT !.status = "unloaded"]
  <2>4. /\ rec' = [rec EXCEPT ![r] = new] /\ stop' = "visit" /\ stopTodo' = Tail(stopTodo)
        /\ UNCHANGED <<installed, records, order, task, unload, errors, handlerVars>>
    BY <1>0, <1>5, <2>3 DEF StopUnloaded
  <2>5. /\ new \in Record /\ new.plugin = rec[r].plugin /\ new.status = "unloaded"
        /\ new.subscribed = rec[r].subscribed
    <3>1. rec[r] \in Record /\ "unloaded" \in Status  BY <1>0, <2>3 DEF Status
    <3> HIDE DEF r
    <3> QED  BY <3>1 DEF Record
  <2> HIDE DEF new
  <2>6. /\ rec' \in [Records -> Record] /\ rec'[r] = new /\ unload' = unload
        /\ \A x \in Records \ {r} : rec'[x] = rec[x] /\ unload'[x] = unload[x]
    BY <1>0, <2>3, <2>4, <2>5
  <2>7. \A x \in Records : Loaded(x)' => Loaded(x) /\ rec'[x].plugin = rec[x].plugin /\ x # r
    BY <2>5, <2>6 DEF Loaded
  <2>8. \A x \in Records : Loaded(x) /\ x # r => rec[x].plugin # p
    BY <2>2 DEF RegInv, StatusInv, Sound, Loaded
  <2>9. StopInv'
    BY <2>1, <2>2, <2>4, <2>7, <2>8 DEF StopInv
  <2>10. /\ stop' \in {"no", "gather", "visit", "on_unload", "stopped"}
         /\ stopTodo' \in Seq(Plugins) /\ stop # "no"
    BY <2>1, <2>2, <2>4
  <2> HIDE DEF r
  <2> QED
    BY <1>0, <2>1, <2>3, <2>4, <2>5, <2>6, <2>9, <2>10, RecordMoves DEF handlerVars
<1> QED  BY <1>1, <1>2, <1>3, <1>4, <1>5 DEF StopStep

(* Two sequences in one.                                                   *)
LEMMA Joined ==
  ASSUME NEW S, NEW s \in Seq(S), NEW t \in Seq(S)
  PROVE  /\ s \o t \in Seq(S) /\ Len(s \o t) = Len(s) + Len(t)
         /\ \A i \in 1..Len(s) : (s \o t)[i] = s[i]
         /\ \A i \in 1..Len(t) : (s \o t)[Len(s) + i] = t[i]
OBVIOUS

(* The list of names without one of them.                                  *)
LEMMA FirstRemoved ==
  ASSUME NEW S, NEW s \in Seq(S), NEW e, Contains(s, e), IsInjective(s)
  PROVE  /\ RemoveFirst(s, e) \in Seq(S) /\ IsInjective(RemoveFirst(s, e))
         /\ ToSet(RemoveFirst(s, e)) = ToSet(s) \ {e}
<1>0. PICK k \in 1..Len(s) : s[k] = e
  BY DEF Contains
<1> DEFINE I == {i \in 1..Len(s) : s[i] = e}
           fore == SubSeq(s, 1, k - 1)
           hind == SubSeq(s, k + 1, Len(s))
           rest == RemoveFirst(s, e)
<1>1. I = {k}
  BY <1>0 DEF IsInjective
<1>2. SelectInSeq(s, LAMBDA v : v = e) = k
  <2>1. SelectInSeq(s, LAMBDA v : v = e) = Min({k})
    BY <1>1 DEF SelectInSeq
  <2> QED  BY <2>1 DEF Min
<1>3. rest = fore \o hind
  BY <1>0, <1>2 DEF RemoveFirst, RemoveAt
<1>4. fore \in Seq(S) /\ Len(fore) = k - 1 /\ \A i \in 1..(k - 1) : fore[i] = s[i]
  BY <1>0
<1>5. hind \in Seq(S) /\ Len(hind) = Len(s) - k /\ \A i \in 1..(Len(s) - k) : hind[i] = s[k + i]
  BY <1>0
<1> HIDE DEF fore, hind, rest
<1>6. rest \in Seq(S) /\ Len(rest) = Len(s) - 1
  <2>1. rest \in Seq(S) /\ Len(rest) = Len(fore) + Len(hind)  BY <1>3, <1>4, <1>5, Joined
  <2> QED  BY <1>0, <1>4, <1>5, <2>1
<1>7. \A i \in 1..(Len(s) - 1) : rest[i] = IF i < k THEN s[i] ELSE s[i + 1]
  <2> SUFFICES ASSUME NEW i \in 1..(Len(s) - 1)
               PROVE  rest[i] = IF i < k THEN s[i] ELSE s[i + 1]
    OBVIOUS
  <2>1. CASE i < k
    <3>1. i \in 1..(k - 1)  BY <1>0, <2>1
    <3> QED  BY <1>0, <1>3, <1>4, <1>5, <2>1, <3>1
  <2>2. CASE i >= k
    <3>1. i - (k - 1) \in 1..(Len(s) - k) /\ k + (i - (k - 1)) = i + 1  BY <1>0, <2>2
    <3>2. rest[i] = hind[i - (k - 1)]  BY <1>0, <1>3, <1>4, <1>5, <2>2, <3>1
    <3>3. hind[i - (k - 1)] = s[i + 1]  BY <1>5, <3>1
    <3> QED  BY <1>0, <2>2, <3>2, <3>3
  <2> QED  BY <1>0, <2>1, <2>2
<1> DEFINE f(i) == IF i < k THEN i ELSE i + 1
<1>8. \A i \in 1..(Len(s) - 1) : f(i) \in 1..Len(s) /\ f(i) # k /\ rest[i] = s[f(i)]
  BY <1>0, <1>7
<1>9. IsInjective(rest)
  <2> SUFFICES ASSUME NEW i \in 1..Len(rest), NEW j \in 1..Len(rest), rest[i] = rest[j]
               PROVE  i = j
    BY <1>6 DEF IsInjective
  <2>1. i \in 1..(Len(s) - 1) /\ j \in 1..(Len(s) - 1)  BY <1>6
  <2>2. f(i) \in 1..Len(s) /\ f(j) \in 1..Len(s) /\ s[f(i)] = s[f(j)]
    BY <1>8, <2>1
  <2>3. f(i) = f(j)
    <3> HIDE DEF f
    <3> QED  BY <2>2 DEF IsInjective
  <2> QED  BY <1>0, <2>1, <2>3
<1>10. ToSet(rest) \subseteq ToSet(s) \ {e}
  <2> SUFFICES ASSUME NEW i \in 1..(Len(s) - 1)  PROVE rest[i] \in ToSet(s) \ {e}
    BY <1>6 DEF ToSet
  <2>1. f(i) \in 1..Len(s) /\ f(i) # k /\ rest[i] = s[f(i)]  BY <1>8
  <2> HIDE DEF f
  <2> QED  BY <1>0, <2>1 DEF ToSet, IsInjective
<1>11. ASSUME NEW x \in ToSet(s) \ {e}  PROVE x \in ToSet(rest)
  <2>1. PICK j \in 1..Len(s) : s[j] = x /\ j # k
    BY <1>0 DEF ToSet
  <2>2. CASE j < k
    <3>1. j \in 1..(Len(s) - 1) /\ f(j) = j  BY <1>0, <2>2
    <3> QED  BY <1>6, <1>8, <2>1, <3>1 DEF ToSet
  <2>3. CASE j > k
    <3>1. j - 1 \in 1..(Len(s) - 1) /\ f(j - 1) = j  BY <1>0, <2>1, <2>3
    <3>2. rest[j - 1] = s[j]  BY <1>8, <3>1
    <3> QED  BY <1>6, <2>1, <3>1, <3>2 DEF ToSet
  <2> QED  BY <1>0, <2>1, <2>2, <2>3
<1> QED  BY <1>6, <1>9, <1>10, <1>11 DEF rest

(* A step of the only task under way, on records and tables.               *)
LEMMA TaskActs ==
  ASSUME RegInv, NEW t \in Tasks, Busy(t), UNCHANGED <<unload, stopVars>>,
         \A u \in Tasks \ {t} : task'[u] = task[u],
         task'[t].pc \in {"discover", "on_load", "publish", "on_unload", "removed"},
         TypeOK', StatusInv', RecordsInv', OneRowEach',
         task'[t].pc = "on_load" =>
           /\ task'[t].r \in Records /\ task'[t].p \in Plugins /\ records'[task'[t].p] = None
           /\ rec'[task'[t].r].status = "loading" /\ rec'[task'[t].r].plugin = task'[t].p,
         task'[t].pc \in {"on_unload", "removed"} =>
           /\ task'[t].r \in Records /\ task'[t].p \in Plugins
           /\ records'[task'[t].p] = task'[t].r /\ ~rec'[task'[t].r].subscribed,
         task'[t].pc = "removed" => rec'[task'[t].r].status # "loaded",
         \A r \in Records : rec'[r].status = "loading" =>
           task'[t].pc = "on_load" /\ task'[t].r = r
  PROVE  RegInv'
<1>1. OneAtATime' /\ StopInv' /\ \A u \in Tasks \ {t} : ~Busy(u)'
  BY TaskAlone DEF stopVars
<1>2. TaskInv'
  BY <1>1 DEF TaskInv
<1>3. LoadingInv'
  BY DEF LoadingInv
<1> QED  BY <1>1, <1>2, <1>3 DEF RegInv, Parameters, Serial

(* While a task is under way only the record it loads is loading.          *)
LEMMA OthersLoaded ==
  ASSUME RegInv, NEW t \in Tasks, Busy(t), NEW r \in Records, rec[r].status = "loading"
  PROVE  task[t].pc = "on_load" /\ task[t].r = r
<1>1. PICK u \in Tasks : task[u].pc = "on_load" /\ task[u].r = r
  BY DEF RegInv, LoadingInv
<1>2. Busy(u)  BY <1>1 DEF Busy, Over
<1> QED  BY <1>1, <1>2 DEF RegInv, OneAtATime

(* on_load is called for a record nobody has.                              *)
LEMMA CallKeeps ==
  ASSUME RegInv, NEW t \in Tasks, NEW p \in Plugins, CallOnLoad(t, p)
  PROVE  RegInv'
<1>0. /\ rec \in [Records -> Record] /\ task \in [Tasks -> Task]
      /\ records \in [Plugins -> Records \cup {None}] /\ None \notin Records
  BY DEF RegInv, TypeOK, Parameters
<1>1. PICK r \in Records :
        /\ rec[r].status = "free"
        /\ rec' = [rec EXCEPT ![r].plugin = p, ![r].status = "loading"]
        /\ task' = [task EXCEPT ![t].pc = "on_load", ![t].p = p, ![t].r = r]
  BY DEF CallOnLoad
<1>2. /\ task[t].pc = "discover" /\ records[p] = None
      /\ UNCHANGED <<installed, records, order, unload, stopVars, errors, flight, failures>>
  BY DEF CallOnLoad, handlerVars, Registered
<1> DEFINE new == [rec[r] EXCEPT !.plugin = p, !.status = "loading"]
           went == [task[t] EXCEPT !.pc = "on_load", !.p = p, !.r = r]
<1>3. rec' = [rec EXCEPT ![r] = new] /\ task' = [task EXCEPT ![t] = went]
  BY <1>0, <1>1
<1>4. /\ new \in Record /\ new.plugin = p /\ new.status = "loading"
      /\ new.subscribed = rec[r].subscribed /\ new.count = rec[r].count
  <2>1. rec[r] \in Record /\ "loading" \in Status  BY <1>0 DEF Status
  <2> QED  BY <2>1 DEF Record
<1>5. went \in Task /\ went.pc = "on_load" /\ went.p = p /\ went.r = r
  BY <1>0 DEF Task
<1> HIDE DEF new, went
<1>6. /\ rec' \in [Records -> Record] /\ rec'[r] = new
      /\ \A x \in Records \ {r} : rec'[x] = rec[x]
      /\ task' \in [Tasks -> Task] /\ task'[t] = went
      /\ \A u \in Tasks \ {t} : task'[u] = task[u]
  BY <1>0, <1>3, <1>4, <1>5
<1>7. Busy(t)  BY <1>2 DEF Busy, Over
<1>8. TypeOK'
  BY <1>2, <1>6 DEF RegInv, TypeOK, stopVars
<1>9. StatusInv'
  <2>1. Sound(r)  BY DEF RegInv, StatusInv
  <2>2. Sound(r)'  BY <1>1, <1>2, <1>4, <1>6, <2>1 DEF Sound
  <2>3. \A x \in Records \ {r} : Sound(x)'
    BY <1>2, <1>6 DEF RegInv, StatusInv, Sound
  <2> QED  BY <2>2, <2>3 DEF StatusInv
<1>10. RecordsInv' /\ OneRowEach'
  <2>1. OneRowEach'  BY <1>2 DEF RegInv, OneRowEach, Registered
  <2>2. \A q \in Plugins : Registered(q) => records[q] \in Records \ {r}
    BY <1>1, IsRegistered DEF Registered
  <2>3. RecordsInv'
    BY <1>2, <1>6, <2>2 DEF RegInv, RecordsInv, Registered
  <2> QED  BY <2>1, <2>3
<1>11. \A x \in Records : rec'[x].status = "loading" => x = r
  BY <1>2, <1>6, <1>7, OthersLoaded
<1> QED
  BY <1>2, <1>4, <1>5, <1>6, <1>7, <1>8, <1>9, <1>10, <1>11, TaskActs
(* It returned, or it raised: the record is registered.                    *)
LEMMA RegisterKeeps ==
  ASSUME RegInv, NEW t \in Tasks, OnLoadReturns(t) \/ OnLoadFails(t)
  PROVE  RegInv'
<1>r. PICK r : r = task[t].r  OBVIOUS
<1>p. PICK p : p = task[t].p  OBVIOUS
<1>0. /\ rec \in [Records -> Record] /\ task \in [Tasks -> Task] /\ order \in Seq(Plugins)
      /\ records \in [Plugins -> Records \cup {None}] /\ None \notin Records
      /\ errors \in [Plugins -> Nat] /\ failures \in 0..MaxFailures /\ MaxFailures \in Nat
  BY DEF RegInv, TypeOK, Parameters
<1>1. task[t].pc = "on_load" /\ Busy(t)
  BY DEF OnLoadReturns, OnLoadFails, Busy, Over
<1>2. /\ r \in Records /\ p \in Plugins /\ records[p] = None
      /\ rec[r].status = "loading" /\ rec[r].plugin = p
  BY <1>1, <1>r, <1>p DEF RegInv, TaskInv
<1>3. PICK status \in {"loaded", "failed"} :
        /\ rec' = [rec EXCEPT ![r].status = status, ![r].subscribed = (status = "loaded")]
        /\ records' = [records EXCEPT ![p] = r]
        /\ order' = Append(order, p)
        /\ task' = [task EXCEPT ![t].pc = "publish", ![t].todo = @ \ {p}]
        /\ UNCHANGED <<installed, unload, stopVars, flight>>
  BY <1>r, <1>p DEF OnLoadReturns, OnLoadFails, Register, handlerVars
<1>4. errors' \in [Plugins -> Nat] /\ failures' \in 0..MaxFailures
  <2>1. CASE OnLoadReturns(t)
    BY <1>0, <2>1 DEF OnLoadReturns, handlerVars
  <2>2. CASE OnLoadFails(t)
    BY <1>0, <1>2, <1>p, <2>2 DEF OnLoadFails
  <2> QED  BY <2>1, <2>2
<1> DEFINE new == [rec[r] EXCEPT !.status = status, !.subscribed = (status = "loaded")]
           went == [task[t] EXCEPT !.pc = "publish", !.todo = @ \ {p}]
<1>5. rec' = [rec EXCEPT ![r] = new] /\ task' = [task EXCEPT ![t] = went]
  BY <1>0, <1>2, <1>3
<1>6. rec[r] \in Record /\ task[t] \in Task
  BY <1>0, <1>2
<1>7. /\ new \in Record /\ new.plugin = rec[r].plugin /\ new.status = status
      /\ new.subscribed = (status = "loaded") /\ new.count = rec[r].count
  <2>1. status \in Status  BY DEF Status
  <2> QED  BY <1>6, <2>1 DEF Record
<1>8. went \in Task /\ went.pc = "publish"
  BY <1>6 DEF Task
<1> HIDE DEF new, went
<1>9. /\ rec' \in [Records -> Record] /\ rec'[r] = new
      /\ \A x \in Records \ {r} : rec'[x] = rec[x]
      /\ task' \in [Tasks -> Task] /\ task'[t] = went
      /\ \A u \in Tasks \ {t} : task'[u] = task[u]
      /\ records' \in [Plugins -> Records \cup {None}] /\ records'[p] = r
      /\ \A q \in Plugins \ {p} : records'[q] = records[q]
  <2>1. r \in Records /\ p \in Plugins  BY <1>2
  <2>2. /\ rec' \in [Records -> Record] /\ rec'[r] = new
        /\ \A x \in Records \ {r} : rec'[x] = rec[x]
    BY <1>0, <1>5, <1>7, <2>1
  <2>3. /\ task' \in [Tasks -> Task] /\ task'[t] = went
        /\ \A u \in Tasks \ {t} : task'[u] = task[u]
    BY <1>0, <1>5, <1>8
  <2>4. /\ records' \in [Plugins -> Records \cup {None}] /\ records'[p] = r
        /\ \A q \in Plugins \ {p} : records'[q] = records[q]
    BY <1>0, <1>3, <2>1
  <2> QED  BY <2>2, <2>3, <2>4
<1>10. order' \in Seq(Plugins)
  BY <1>0, <1>2, <1>3
<1>11. TypeOK'
  BY <1>3, <1>4, <1>9, <1>10 DEF RegInv, TypeOK, stopVars
<1>12. StatusInv'
  <2>1. Sound(r)  BY <1>2 DEF RegInv, StatusInv
  <2>2. Sound(r)'
    <3>1. /\ rec'[r].plugin = p /\ rec'[r].status = status /\ p \in Plugins
          /\ rec'[r].subscribed = (status = "loaded") /\ rec'[r].count = rec[r].count
          /\ records'[p] = r /\ unload'[r] = unload[r]
      BY <1>2, <1>3, <1>7, <1>9
    <3>2. unload[r] = "none" /\ rec[r].count < Threshold
      BY <1>2, <2>1 DEF Sound
    <3> QED  BY <3>1, <3>2 DEF Sound
  <2>3. ASSUME NEW x \in Records \ {r}  PROVE Sound(x)'
    <3>1. Sound(x)  BY DEF RegInv, StatusInv
    <3>2. rec'[x] = rec[x] /\ unload' = unload /\ flight' = flight
      BY <1>3, <1>9
    <3>3. rec[x].status = "loaded" => records'[rec[x].plugin] = x
      <4>1. rec[x].status = "loaded" => rec[x].plugin \in Plugins \ {p}
        BY <1>0, <1>2, <3>1 DEF Sound
      <4>2. rec[x].status = "loaded" => records[rec[x].plugin] = x  BY <3>1 DEF Sound
      <4> QED  BY <1>9, <4>1, <4>2
    <3> QED  BY <3>1, <3>2, <3>3 DEF Sound
  <2> QED  BY <2>2, <2>3 DEF StatusInv
<1>13. RecordsInv'
  <2>1. \A q \in Plugins : Registered(q) => records[q] \in Records \ {r}
    BY <1>2, IsRegistered DEF Registered
  <2>2. ASSUME NEW q \in Plugins, Registered(q)'
        PROVE  rec'[records'[q]].plugin = q /\ rec'[records'[q]].status \notin {"free", "loading"}
    <3>1. CASE q = p
      BY <1>2, <1>7, <1>9, <3>1
    <3>2. CASE q # p
      <4>1. Registered(q) /\ records'[q] = records[q]  BY <1>9, <2>2, <3>2 DEF Registered
      <4>2. rec'[records[q]] = rec[records[q]]  BY <1>9, <2>1, <4>1
      <4> QED  BY <4>1, <4>2 DEF RegInv, RecordsInv
    <3> QED  BY <3>1, <3>2
  <2> QED  BY <2>2 DEF RecordsInv
<1>14. OneRowEach'
  <2>1. IsInjective(order) /\ ToSet(order) = {q \in Plugins : Registered(q)}
    BY DEF RegInv, OneRowEach
  <2>2. p \notin ToSet(order)
    BY <1>2, <2>1 DEF Registered
  <2>3. /\ Len(order') = Len(order) + 1 /\ order'[Len(order) + 1] = p
        /\ \A i \in 1..Len(order) : order'[i] = order[i]
    BY <1>0, <1>2, <1>3
  <2>4. \A i \in 1..Len(order) : order[i] # p
    BY <1>0, <2>2 DEF ToSet
  <2>5. Len(order) \in Nat  BY <1>0
  <2>6. \A i \in DOMAIN order' : i \in DOMAIN order \/ i = Len(order) + 1
    BY <1>0, <1>10, <2>3, <2>5
  <2>9. IsInjective(order')
    <3> SUFFICES ASSUME NEW i \in DOMAIN order', NEW j \in DOMAIN order', order'[i] = order'[j]
                 PROVE  i = j
      BY DEF IsInjective
    <3>1. CASE i \in DOMAIN order /\ j \in DOMAIN order
      BY <1>0, <2>1, <2>3, <3>1 DEF IsInjective
    <3>2. CASE i = Len(order) + 1 \/ j = Len(order) + 1
      BY <1>0, <2>3, <2>4, <2>6, <3>2
    <3> QED  BY <2>6, <3>1, <3>2
  <2>7. ToSet(order') = ToSet(order) \cup {p}
    <3>1. ToSet(order') \subseteq ToSet(order) \cup {p}
      BY <1>0, <2>3, <2>6 DEF ToSet
    <3>2. \A i \in DOMAIN order : order[i] \in ToSet(order')
      <4>1. DOMAIN order = 1..Len(order) /\ DOMAIN order' = 1..Len(order')
        BY <1>0, <1>10
      <4>2. \A i \in DOMAIN order : i \in DOMAIN order' /\ order'[i] = order[i]
        BY <2>3, <2>5, <4>1
      <4> QED  BY <4>2 DEF ToSet
    <3>3. p \in ToSet(order')
      BY <1>0, <1>10, <2>3, <2>5 DEF ToSet
    <3> QED  BY <3>1, <3>2, <3>3 DEF ToSet
  <2>8. {q \in Plugins : Registered(q)'} = {q \in Plugins : Registered(q)} \cup {p}
    BY <1>0, <1>2, <1>9 DEF Registered
  <2> QED  BY <2>1, <2>7, <2>8, <2>9 DEF OneRowEach
<1>15. \A x \in Records : rec'[x].status # "loading"
  BY <1>1, <1>7, <1>9, <1>r, OthersLoaded
<1> QED
  BY <1>1, <1>3, <1>8, <1>9, <1>11, <1>12, <1>13, <1>14, <1>15, TaskActs

(* The name is forgotten when nothing loaded goes by it.                   *)
LEMMA ForgetKeeps ==
  ASSUME RegInv, NEW t \in Tasks, task[t].pc \in {"remove", "removed"}, ~Loaded(task[t].r),
         Forget(t), installed' \subseteq Plugins, UNCHANGED <<rec, unload, stopVars, errors, handlerVars>>
  PROVE  RegInv'
<1> DEFINE p == task[t].p
<1>0. /\ rec \in [Records -> Record] /\ task \in [Tasks -> Task] /\ order \in Seq(Plugins)
      /\ records \in [Plugins -> Records \cup {None}] /\ None \notin Records
  BY DEF RegInv, TypeOK, Parameters
<1>1. Busy(t)  BY DEF Busy, Over
<1>2. p \in Plugins /\ records[p] = task[t].r
  BY <1>1 DEF RegInv, TaskInv
<1>3. /\ records' = [records EXCEPT ![p] = None]
      /\ order' = IF Contains(order, p) THEN RemoveFirst(order, p) ELSE order
      /\ task' = [task EXCEPT ![t].pc = "discover", ![t].todo = installed']
      /\ UNCHANGED <<rec, unload, stop, stopTodo, errors, flight, failures>>
  BY DEF Forget, stopVars, handlerVars
<1> DEFINE went == [task[t] EXCEPT !.pc = "discover", !.todo = installed']
<1>4. task' = [task EXCEPT ![t] = went]  BY <1>0, <1>3
<1>5. went \in Task /\ went.pc = "discover"
  <2>1. task[t] \in Task  BY <1>0
  <2> QED  BY <2>1 DEF Task
<1> HIDE DEF went, p
<1>6. /\ task' \in [Tasks -> Task] /\ task'[t] = went
      /\ \A u \in Tasks \ {t} : task'[u] = task[u]
      /\ records' \in [Plugins -> Records \cup {None}] /\ records'[p] = None
      /\ \A q \in Plugins \ {p} : records'[q] = records[q]
  BY <1>0, <1>2, <1>3, <1>4, <1>5
<1>7. order' \in Seq(Plugins) /\ OneRowEach'
  <2>1. IsInjective(order) /\ ToSet(order) = {q \in Plugins : Registered(q)}
    BY DEF RegInv, OneRowEach
  <2>2. Contains(order, p) <=> p \in ToSet(order)
    BY <1>0 DEF Contains, ToSet
  <2>3. order' \in Seq(Plugins) /\ IsInjective(order') /\ ToSet(order') = ToSet(order) \ {p}
    <3>1. CASE Contains(order, p)
      BY <1>0, <1>3, <2>1, <3>1, FirstRemoved
    <3>2. CASE ~Contains(order, p)
      <4>1. order' = order  BY <1>3, <3>2
      <4> QED  BY <1>0, <2>1, <2>2, <3>2, <4>1
    <3> QED  BY <3>1, <3>2
  <2>4. {q \in Plugins : Registered(q)'} = {q \in Plugins : Registered(q)} \ {p}
    BY <1>0, <1>2, <1>6 DEF Registered
  <2> QED  BY <2>1, <2>3, <2>4 DEF OneRowEach
<1>8. TypeOK'
  BY <1>3, <1>6, <1>7 DEF RegInv, TypeOK
<1>9. StatusInv'
  <2> SUFFICES ASSUME NEW x \in Records  PROVE Sound(x)'
    BY DEF StatusInv
  <2>1. Sound(x)  BY DEF RegInv, StatusInv
  <2>2. rec[x].status = "loaded" => records'[rec[x].plugin] = x
    BY <1>2, <1>6, <2>1 DEF Sound, Loaded, p
  <2> QED  BY <1>3, <2>1, <2>2 DEF Sound
<1>10. RecordsInv'
  BY <1>3, <1>6 DEF RegInv, RecordsInv, Registered
<1>11. \A x \in Records : rec'[x].status # "loading"
  BY <1>1, <1>3, OthersLoaded
<1> QED
  BY <1>1, <1>3, <1>5, <1>6, <1>7, <1>8, <1>9, <1>10, <1>11, TaskActs DEF stopVars
(* remove: pip is done, on_unload runs, plugin.removed is published.       *)
LEMMA RemoveKeeps ==
  ASSUME RegInv, NEW t \in Tasks, PipUninstalled(t) \/ RemoveUnloaded(t) \/ RemovedPublished(t)
  PROVE  RegInv'
<1>r. PICK r : r = task[t].r  OBVIOUS
<1>0. /\ rec \in [Records -> Record] /\ task \in [Tasks -> Task] /\ None \notin Records
      /\ records \in [Plugins -> Records \cup {None}] /\ installed \subseteq Plugins
  BY DEF RegInv, TypeOK, Parameters
<1>1. task[t].pc \in {"remove", "on_unload", "removed"} /\ Busy(t)
  BY DEF PipUninstalled, RemoveUnloaded, RemovedPublished, Busy, Over
<1>2. /\ task[t].p \in Plugins /\ records[task[t].p] = r /\ r \in Records \cup {None}
      /\ task[t].pc \in {"on_unload", "removed"} => r \in Records /\ ~rec[r].subscribed
      /\ task[t].pc = "removed" => rec[r].status # "loaded"
  BY <1>0, <1>1, <1>r DEF RegInv, TaskInv
<1>3. ASSUME NEW new \in Record, NEW pc \in {"on_unload", "removed"}, r \in Records,
             rec' = [rec EXCEPT ![r] = new], task' = [task EXCEPT ![t].pc = pc],
             installed' \subseteq Plugins, new.plugin = rec[r].plugin, ~new.subscribed,
             new.status = "unloaded" \/ (new.status = rec[r].status /\ pc = "on_unload"),
             new.count = rec[r].count,
             UNCHANGED <<records, order, unload, stopVars, errors, handlerVars>>
      PROVE  RegInv'
  <2>1. UNCHANGED <<records, order, unload, stop, stopTodo, errors, flight, failures>>
    BY <1>3 DEF stopVars, handlerVars
  <2>2. rec[r].plugin = task[t].p /\ rec[r].status \notin {"free", "loading"}
    BY <1>0, <1>2, <1>3, IsRegistered
  <2>3. /\ rec' \in [Records -> Record] /\ rec'[r] = new
        /\ \A x \in Records \ {r} : rec'[x] = rec[x]
    BY <1>0, <1>3
  <2>4. /\ task' \in [Tasks -> Task] /\ task'[t].pc = pc
        /\ task'[t].p = task[t].p /\ task'[t].r = r
        /\ \A u \in Tasks \ {t} : task'[u] = task[u]
    BY <1>0, <1>3, <1>r DEF Task
  <2>5. TypeOK'
    BY <1>3, <2>1, <2>3, <2>4 DEF RegInv, TypeOK
  <2>6. StatusInv'
    <3>1. Sound(r)  BY <1>3 DEF RegInv, StatusInv
    <3>2. Sound(r)'
      <4>1. /\ rec'[r].plugin = rec[r].plugin /\ ~rec'[r].subscribed
            /\ rec'[r].status \in {"unloaded", rec[r].status} /\ rec'[r].count = rec[r].count
        BY <1>3, <2>3
      <4> QED  BY <2>1, <2>2, <3>1, <4>1 DEF Sound
    <3>3. ASSUME NEW x \in Records \ {r}  PROVE Sound(x)'
      <4>1. Sound(x)  BY DEF RegInv, StatusInv
      <4>2. rec'[x] = rec[x]  BY <2>3
      <4> QED  BY <2>1, <4>1, <4>2 DEF Sound
    <3> QED  BY <3>2, <3>3 DEF StatusInv
  <2>7. OneRowEach'  BY <2>1 DEF RegInv, OneRowEach, Registered
  <2>8. RecordsInv'
    <3>1. \A x \in Records : rec'[x].plugin = rec[x].plugin
            /\ (rec[x].status \notin {"free", "loading"} => rec'[x].status \notin {"free", "loading"})
      BY <1>3, <2>2, <2>3
    <3>2. \A q \in Plugins : Registered(q) => records[q] \in Records
      BY IsRegistered DEF Registered
    <3> QED  BY <2>1, <3>1, <3>2 DEF RegInv, RecordsInv, Registered
  <2>9. \A x \in Records : rec'[x].status # "loading"
    <3>1. \A x \in Records : rec[x].status # "loading"
      BY <1>1, <1>2, <1>r, OthersLoaded
    <3> QED  BY <1>3, <2>3, <3>1
  <2> QED
    BY <1>1, <1>2, <1>3, <2>1, <2>3, <2>4, <2>5, <2>6, <2>7, <2>8, <2>9, TaskActs DEF stopVars
<1>4. CASE PipUninstalled(t) /\ ~Loaded(r)
  <2>1. Forget(t) /\ UNCHANGED <<rec, unload, stopVars, errors, handlerVars>>
        /\ installed' \subseteq Plugins /\ task[t].pc = "remove"
    BY <1>0, <1>4, <1>r DEF PipUninstalled
  <2> QED  BY <1>4, <1>r, <2>1, ForgetKeeps
<1>5. CASE PipUninstalled(t) /\ Loaded(r)
  <2>1. r \in Records  BY <1>0, <1>2, <1>5 DEF Loaded
  <2> DEFINE new == [rec[r] EXCEPT !.subscribed = FALSE, !.unloads = @ + 1]
  <2>2. /\ rec' = [rec EXCEPT ![r] = new] /\ task' = [task EXCEPT ![t].pc = "on_unload"]
        /\ UNCHANGED <<records, order, unload, stopVars, errors, handlerVars>>
        /\ installed' \subseteq Plugins
    BY <1>0, <1>5, <1>r, <2>1 DEF PipUninstalled, Unloading
  <2>3. /\ new \in Record /\ new.plugin = rec[r].plugin /\ new.status = rec[r].status
        /\ new.subscribed = FALSE /\ new.count = rec[r].count
    <3>1. rec[r] \in Record  BY <1>0, <2>1
    <3>2. rec[r].unloads \in Nat  BY <3>1 DEF Record
    <3>3. rec[r].unloads + 1 \in Nat  BY <3>2
    <3> QED  BY <3>1, <3>3 DEF Record
  <2> HIDE DEF new
  <2> QED  BY <1>3, <2>1, <2>2, <2>3
<1>6. CASE RemoveUnloaded(t)
  <2> DEFINE new == [rec[r] EXCEPT !.status = "unloaded"]
  <2>1. r \in Records /\ ~rec[r].subscribed
    BY <1>2, <1>6 DEF RemoveUnloaded
  <2>2. /\ rec' = [rec EXCEPT ![r] = new] /\ task' = [task EXCEPT ![t].pc = "removed"]
        /\ UNCHANGED <<installed, records, order, unload, stopVars, errors, handlerVars>>
    BY <1>0, <1>6, <1>r, <2>1 DEF RemoveUnloaded
  <2>3. /\ new \in Record /\ new.plugin = rec[r].plugin /\ new.status = "unloaded"
        /\ new.subscribed = rec[r].subscribed /\ new.count = rec[r].count
    <3>1. rec[r] \in Record /\ "unloaded" \in Status  BY <1>0, <2>1 DEF Status
    <3> QED  BY <3>1 DEF Record
  <2> HIDE DEF new
  <2> QED  BY <1>0, <1>3, <2>1, <2>2, <2>3
<1>7. CASE RemovedPublished(t)
  <2>1. ~Loaded(r)  BY <1>2, <1>7 DEF RemovedPublished, Loaded
  <2>2. /\ Forget(t) /\ UNCHANGED <<rec, unload, stopVars, errors, handlerVars>>
        /\ installed' \subseteq Plugins /\ task[t].pc = "removed"
    BY <1>0, <1>7 DEF RemovedPublished
  <2> QED  BY <1>r, <2>1, <2>2, ForgetKeeps
<1> QED  BY <1>4, <1>5, <1>6, <1>7

-----------------------------------------------------------------------------
(* The invariant holds at first.                                           *)
LEMMA RegistryInit ==
  ASSUME Parameters, Serial, Init
  PROVE  RegInv
<1>0. MaxFailures \in Nat /\ Threshold \in Nat /\ 0 \in 0..Threshold /\ 0 \in 0..MaxFailures
      /\ 0 < Threshold /\ Start \in Tasks
  BY DEF Parameters, Tasks
<1>1. TypeOK
  BY <1>0 DEF Init, TypeOK, Record, Task, Status, Parameters
<1>2. OneAtATime
  BY <1>0 DEF Init, OneAtATime, Busy, Over, Tasks, Parameters
<1>3. TaskInv /\ StatusInv /\ LoadingInv /\ RecordsInv
  BY <1>0 DEF Init, TaskInv, StatusInv, Sound, LoadingInv, RecordsInv, Registered, Tasks
<1>4. OneRowEach
  BY DEF Init, OneRowEach, IsInjective, ToSet, Registered
<1>5. StopInv
  BY DEF Init, StopInv
<1> QED  BY <1>1, <1>2, <1>3, <1>4, <1>5 DEF RegInv

(* Every step keeps it.                                                    *)
LEMMA RegistryStep ==
  ASSUME RegInv, [Next]_vars
  PROVE  RegInv'
<1>1. CASE UNCHANGED vars
  BY <1>1 DEF vars, tableVars, stopVars, handlerVars, RegInv, Parameters, Serial, TypeOK,
     OneAtATime, TaskInv, StatusInv, Sound, LoadingInv, RecordsInv, OneRowEach, StopInv,
     Busy, Over, Registered, Loaded
<1>2. CASE \E t \in Tasks : TaskStep(t)
  BY <1>2, TaskMovesKeep, CallKeeps, RegisterKeeps, RemoveKeeps DEF TaskStep
<1>3. CASE \E t \in Requests, p \in Plugins, pc \in {"install", "remove"} : Request(t, p, pc)
  BY <1>3, TaskMovesKeep
<1>4. CASE \E r \in Records : Deliver(r) \/ HandlerEnds(r) \/ UnloadStep(r)
  BY <1>4, HandlersKeep, UnloadKeeps
<1>5. CASE \E p \in Plugins : OnPluginError(p)
  BY <1>5, HandlersKeep
<1>6. CASE StopBegins \/ StopStep
  BY <1>6, StopKeeps
<1> QED  BY <1>1, <1>2, <1>3, <1>4, <1>5, <1>6 DEF Next

(* So it always holds, of a registry whose requests do not overlap.        *)
LEMMA RegistryInvariance ==
  Parameters /\ Serial /\ Spec => []RegInv
<1> SUFFICES ASSUME Parameters, Serial  PROVE Spec => []RegInv
  OBVIOUS
<1>1. Init => RegInv  BY RegistryInit
<1>2. RegInv /\ [Next]_vars => RegInv'  BY RegistryStep
<1> QED  BY <1>1, <1>2, PTL DEF Spec

(* Types of the registry's tables (registry.py:132-148, 215-252).          *)
THEOREM RegistryTypes ==
  Parameters /\ Serial /\ Spec => []TypeOK
<1>1. RegInv => TypeOK  BY DEF RegInv
<1> QED  BY <1>1, RegistryInvariance, PTL

(* No load keeps its subscriptions when the registry has forgotten it, and *)
(* snapshot() has one row for each registered plugin (registry.py:376-396, *)
(* 503-523, 661-725).                                                      *)
THEOREM LoadsAreAccounted ==
  Parameters /\ Serial /\ Spec => []Accounted
<1>1. RegInv => Accounted
  BY DEF RegInv, StatusInv, Sound, Accounted, NoOrphans
<1> QED  BY <1>1, RegistryInvariance, PTL

(* When stop() has returned, nothing is subscribed and every plugin that   *)
(* was loaded has had its on_unload (registry.py:340-348).                 *)
THEOREM StopUnloadsAll ==
  Parameters /\ Serial /\ Spec => []StopLeavesNothing
<1>1. RegInv => StopLeavesNothing
  <2> SUFFICES ASSUME RegInv, stop = "stopped", NEW r \in Records
               PROVE  ~rec[r].subscribed /\ rec[r].status \in {"free", "failed", "unloaded"}
    BY DEF StopLeavesNothing
  <2>1. unload[r] \in {"none", "done"} /\ ~Loaded(r) /\ Sound(r)
    BY DEF RegInv, StopInv, StatusInv, Contains
  <2>2. rec[r].status # "loading"
    BY DEF RegInv, LoadingInv, OneAtATime, Busy, Over
  <2>3. rec[r].status \in Status
    BY DEF RegInv, TypeOK, Record
  <2>4. rec[r].status # "loaded"
    BY <2>1 DEF Loaded, RegInv, Parameters
  <2> QED  BY <2>1, <2>2, <2>3, <2>4 DEF Sound, Loaded, Status
<1> QED  BY <1>1, RegistryInvariance, PTL

-----------------------------------------------------------------------------
(* Without install and remove: on_unload has not run before its claim or   *)
(* stop() comes to it, and stop() goes down the load order.                *)
Quiet == \A t \in Tasks : task[t].pc \notin {"install", "remove", "on_unload", "removed"}

UnloadsInv ==
  \A r \in Records :
    /\ rec[r].unloads <= 1
    /\ unload[r] \in {"none", "spawned"} /\ stop \in {"no", "gather"} => rec[r].unloads = 0
    /\ unload[r] = "spawned" => rec[r].unloads = 0
    /\ unload[r] \in {"spawned", "on_unload"} <=> rec[r].status = "unloading"

Left == Len(stopTodo)
LastFirst ==
  stop \in {"visit", "on_unload"} =>
    /\ Left <= Len(order)
    /\ \A k \in 1..Left : stopTodo[k] = order[Left + 1 - k]
    /\ \A i \in 1..Len(order) :
         LET r == records[order[i]]
         IN  /\ i < Left \/ (i = Left /\ stop = "visit") => unload[r] = "done" \/ rec[r].unloads = 0
             /\ i > Left => ~Loaded(r)
    /\ stop = "on_unload" => Loaded(records[Head(stopTodo)])

OrderInv == RegInv /\ Requests = {} /\ Quiet /\ UnloadsInv /\ LastFirst

(* The steps a status may take.                                            *)
Climbs(r) ==
  LET was == rec[r].status  is == rec'[r].status
  IN  is # was => <<was, is>> \in {<<"free", "loading">>, <<"loading", "loaded">>,
                                   <<"loading", "failed">>, <<"loaded", "unloading">>,
                                   <<"loaded", "unloaded">>, <<"unloading", "failed">>}
Orderly == Quiet' /\ UnloadsInv' /\ LastFirst' /\ \A r \in Records : Climbs(r)

(* Loading is orderly.                                                     *)
LEMMA LoadingIsOrderly ==
  ASSUME OrderInv, NEW t \in Tasks, TaskStep(t)
  PROVE  Orderly
<1>0. /\ rec \in [Records -> Record] /\ task \in [Tasks -> Task] /\ RegInv
      /\ \A x \in Records : Sound(x)
  BY DEF OrderInv, RegInv, TypeOK, StatusInv
<1>2. /\ task[t].pc \in {"discover", "on_load", "publish"}
      /\ \/ \E p \in Plugins : SkipEntryPoint(t, p) \/ CallOnLoad(t, p)
         \/ OnLoadReturns(t) \/ OnLoadFails(t) \/ LoadPublished(t) \/ DiscoveryEnds(t)
  BY DEF TaskStep, SkipEntryPoint, CallOnLoad, OnLoadReturns, OnLoadFails, LoadPublished,
     DiscoveryEnds, PipInstalled, PipFails, PipUninstalled, RemoveUnloaded, RemovedPublished,
     OrderInv, Quiet
<1>3. stop = "no" /\ Busy(t)
  BY <1>0, <1>2 DEF RegInv, OneAtATime, Busy, Over
<1>4. ASSUME UNCHANGED <<unload, stopVars>>, NEW went \in Task, task' = [task EXCEPT ![t] = went],
             went.pc \in {"discover", "on_load", "publish", "over"},
             \A x \in Records :
               /\ rec'[x].unloads = rec[x].unloads
               /\ rec'[x].status # rec[x].status =>
                    <<rec[x].status, rec'[x].status>> \in
                       {<<"free", "loading">>, <<"loading", "loaded">>, <<"loading", "failed">>}
      PROVE  Orderly
  <2>1. unload' = unload /\ stop' = "no"
    BY <1>3, <1>4 DEF stopVars
  <2>2. Quiet'
    BY <1>0, <1>4 DEF OrderInv, Quiet
  <2>3. LastFirst'  BY <2>1 DEF LastFirst
  <2>4. \A x \in Records : Climbs(x)
    BY <1>4 DEF Climbs
  <2>5. ASSUME NEW x \in Records
        PROVE  /\ rec'[x].unloads = rec[x].unloads
               /\ rec'[x].status = "unloading" <=> rec[x].status = "unloading"
    <3>1. rec'[x].status # rec[x].status => rec[x].status \in {"free", "loading"}
      BY <1>4
    <3>2. rec'[x].status # rec[x].status => rec'[x].status # "unloading"
      BY <1>4
    <3> QED  BY <1>4, <3>1, <3>2
  <2>6. UnloadsInv'
    BY <1>3, <2>1, <2>5 DEF OrderInv, UnloadsInv
  <2> QED  BY <2>2, <2>3, <2>4, <2>6 DEF Orderly
<1>5. ASSUME NEW p \in Plugins, CallOnLoad(t, p)
      PROVE  Orderly
  <2>1. PICK r \in Records :
          /\ rec[r].status = "free"
          /\ rec' = [rec EXCEPT ![r].plugin = p, ![r].status = "loading"]
          /\ task' = [task EXCEPT ![t].pc = "on_load", ![t].p = p, ![t].r = r]
    BY <1>5 DEF CallOnLoad
  <2> DEFINE new == [rec[r] EXCEPT !.plugin = p, !.status = "loading"]
             went == [task[t] EXCEPT !.pc = "on_load", !.p = p, !.r = r]
  <2>2. rec' = [rec EXCEPT ![r] = new] /\ task' = [task EXCEPT ![t] = went]
    BY <1>0, <2>1
  <2>3. new.status = "loading" /\ new.unloads = rec[r].unloads
    <3>1. rec[r] \in Record  BY <1>0
    <3> QED  BY <3>1 DEF Record
  <2>4. went \in Task /\ went.pc = "on_load"
    <3>1. task[t] \in Task  BY <1>0
    <3> QED  BY <3>1 DEF Task
  <2> HIDE DEF new, went
  <2>5. \A x \in Records :
          /\ rec'[x].unloads = rec[x].unloads
          /\ rec'[x].status = IF x = r THEN "loading" ELSE rec[x].status
    BY <1>0, <2>2, <2>3
  <2> QED  BY <1>4, <1>5, <2>1, <2>2, <2>4, <2>5 DEF CallOnLoad
<1>6. CASE OnLoadReturns(t) \/ OnLoadFails(t)
  <2>r. PICK r : r = task[t].r  OBVIOUS
  <2>p. PICK p : p = task[t].p  OBVIOUS
  <2>0. r \in Records /\ rec[r].status = "loading"
    BY <1>0, <1>3, <1>6, <2>r DEF RegInv, TaskInv, OnLoadReturns, OnLoadFails
  <2>1. PICK status \in {"loaded", "failed"} :
          /\ rec' = [rec EXCEPT ![r].status = status, ![r].subscribed = (status = "loaded")]
          /\ task' = [task EXCEPT ![t].pc = "publish", ![t].todo = @ \ {p}]
          /\ UNCHANGED <<unload, stopVars>>
    BY <1>6, <2>r, <2>p DEF OnLoadReturns, OnLoadFails, Register
  <2> DEFINE new == [rec[r] EXCEPT !.status = status, !.subscribed = (status = "loaded")]
             went == [task[t] EXCEPT !.pc = "publish", !.todo = @ \ {p}]
  <2>2. rec' = [rec EXCEPT ![r] = new] /\ task' = [task EXCEPT ![t] = went]
    BY <1>0, <2>0, <2>1
  <2>3. new.status = status /\ new.unloads = rec[r].unloads
    <3>1. rec[r] \in Record  BY <1>0, <2>0
    <3> QED  BY <3>1 DEF Record
  <2>4. went \in Task /\ went.pc = "publish"
    <3>1. task[t] \in Task  BY <1>0
    <3> QED  BY <3>1 DEF Task
  <2> HIDE DEF new, went
  <2>5. \A x \in Records :
          /\ rec'[x].unloads = rec[x].unloads
          /\ rec'[x].status = IF x = r THEN status ELSE rec[x].status
    BY <1>0, <2>0, <2>2, <2>3
  <2> QED  BY <1>4, <2>0, <2>1, <2>2, <2>4, <2>5
<1>7. CASE (\E p \in Plugins : SkipEntryPoint(t, p)) \/ LoadPublished(t) \/ DiscoveryEnds(t)
  <2>1. PICK pc \in {"discover", "over"}, todo \in SUBSET Plugins :
          /\ task' = [task EXCEPT ![t] = [task[t] EXCEPT !.pc = pc, !.todo = todo]]
          /\ UNCHANGED <<rec, unload, stopVars>>
    <3>1. task[t] \in Task /\ task[t].todo \in SUBSET Plugins
      BY <1>0 DEF Task
    <3>2. CASE \E p \in Plugins : SkipEntryPoint(t, p)
      <4>1. PICK p \in Plugins : SkipEntryPoint(t, p)  BY <3>2
      <4>2. task[t].pc = "discover" /\ task' = [task EXCEPT ![t].todo = @ \ {p}]
            /\ UNCHANGED <<rec, unload, stopVars>>
        BY <4>1 DEF SkipEntryPoint, tableVars
      <4>3. [task[t] EXCEPT !.todo = @ \ {p}]
              = [task[t] EXCEPT !.pc = "discover", !.todo = task[t].todo \ {p}]
        BY <3>1, <4>2 DEF Task
      <4>4. task' = [task EXCEPT ![t] = [task[t] EXCEPT !.todo = @ \ {p}]]
        BY <1>0, <4>2
      <4>5. task' = [task EXCEPT ![t] = [task[t] EXCEPT !.pc = "discover",
                                                        !.todo = task[t].todo \ {p}]]
        BY <4>3, <4>4
      <4>6. task[t].todo \ {p} \in SUBSET Plugins  BY <3>1
      <4> HIDE <4>3, <4>4
      <4> QED  BY <4>2, <4>5, <4>6
    <3>3. CASE LoadPublished(t) \/ DiscoveryEnds(t)
      <4>1. PICK pc \in {"discover", "over"} :
              task' = [task EXCEPT ![t].pc = pc] /\ UNCHANGED <<rec, unload, stopVars>>
        BY <3>3 DEF LoadPublished, DiscoveryEnds, tableVars
      <4>3. [task[t] EXCEPT !.pc = pc]
              = [task[t] EXCEPT !.pc = pc, !.todo = task[t].todo]
        BY <3>1 DEF Task
      <4>4. task' = [task EXCEPT ![t] = [task[t] EXCEPT !.pc = pc]]
        BY <1>0, <4>1
      <4> QED  BY <3>1, <4>1, <4>3, <4>4
    <3> QED  BY <1>7, <3>2, <3>3
  <2> DEFINE went == [task[t] EXCEPT !.pc = pc, !.todo = todo]
  <2>2. went \in Task /\ went.pc = pc
    <3>1. task[t] \in Task  BY <1>0
    <3> QED  BY <3>1 DEF Task
  <2>3. task' = [task EXCEPT ![t] = went]  BY <2>1
  <2> HIDE DEF went
  <2> QED  BY <1>4, <2>1, <2>2, <2>3
<1> QED  BY <1>2, <1>5, <1>6, <1>7

(* A step that leaves tasks, load order and the way of stop() alone, and   *)
(* moves one registered record.                                            *)
LEMMA MoveIsOrderly ==
  ASSUME OrderInv, NEW r \in Records,
         UNCHANGED <<records, order, task, stopVars>>,
         \A x \in Records \ {r} : rec'[x] = rec[x] /\ unload'[x] = unload[x],
         Climbs(r), rec'[r].unloads \in {0, 1},
         unload'[r] \in {"none", "spawned"} /\ stop \in {"no", "gather"} => rec'[r].unloads = 0,
         unload'[r] = "spawned" => rec'[r].unloads = 0,
         unload'[r] \in {"spawned", "on_unload"} <=> rec'[r].status = "unloading",
         stop \in {"visit", "on_unload"} =>
           /\ Loaded(r)' <=> Loaded(r)
           /\ unload'[r] = "done" \/ rec[r].unloads = 0 => unload'[r] = "done" \/ rec'[r].unloads = 0
           /\ unload[r] = "done" => unload'[r] = "done"
  PROVE  Orderly
<1>0. UNCHANGED <<records, order, task, stop, stopTodo>>
  BY DEF stopVars
<1>1. Quiet'  BY <1>0 DEF OrderInv, Quiet
<1>2. \A x \in Records : Climbs(x)
  BY DEF Climbs
<1>3. UnloadsInv'
  <2> SUFFICES ASSUME NEW x \in Records
      PROVE  /\ rec'[x].unloads <= 1
             /\ unload'[x] \in {"none", "spawned"} /\ stop' \in {"no", "gather"} => rec'[x].unloads = 0
             /\ unload'[x] = "spawned" => rec'[x].unloads = 0
             /\ unload'[x] \in {"spawned", "on_unload"} <=> rec'[x].status = "unloading"
    BY DEF UnloadsInv
  <2>1. CASE x = r  BY <1>0, <2>1
  <2>2. CASE x # r  BY <1>0, <2>2 DEF OrderInv, UnloadsInv
  <2> QED  BY <2>1, <2>2
<1>4. LastFirst'
  <2> SUFFICES ASSUME stop \in {"visit", "on_unload"}  PROVE LastFirst'
    BY <1>0 DEF LastFirst
  <2>1. \A i \in 1..Len(order) : records[order[i]] \in Records
    <3>1. \A i \in 1..Len(order) : order[i] \in ToSet(order)
      BY DEF OrderInv, RegInv, TypeOK, ToSet
    <3> QED  BY <3>1 DEF OrderInv, RegInv, OneRowEach, TypeOK, Registered
  <2>2. \A x \in Records : /\ Loaded(x)' <=> Loaded(x)
                           /\ unload[x] = "done" \/ rec[x].unloads = 0 =>
                                unload'[x] = "done" \/ rec'[x].unloads = 0
    BY DEF Loaded
  <2>3. stop = "on_unload" => Head(stopTodo) \in Plugins /\ records[Head(stopTodo)] \in Records
    BY Visited DEF OrderInv, RegInv, TypeOK, StopInv, Registered
  <2>4. LastFirst  BY DEF OrderInv
  <2> QED  BY <1>0, <2>1, <2>2, <2>3, <2>4 DEF LastFirst, Left
<1> QED  BY <1>1, <1>2, <1>3, <1>4 DEF Orderly

(* Deliveries, handler outcomes, the accounting and the unload task.       *)
LEMMA HandlingIsOrderly ==
  ASSUME OrderInv,
         \/ \E r \in Records : Deliver(r) \/ HandlerEnds(r) \/ UnloadStep(r)
         \/ \E p \in Plugins : OnPluginError(p)
  PROVE  Orderly
<1>0. /\ rec \in [Records -> Record] /\ RegInv /\ \A x \in Records : Sound(x)
      /\ unload \in [Records -> {"none", "spawned", "on_unload", "publish", "done"}]
      /\ records \in [Plugins -> Records \cup {None}] /\ None \notin Records
  BY DEF OrderInv, RegInv, TypeOK, StatusInv, Parameters
<1>1. \A x \in Records :
        /\ rec[x].unloads \in {0, 1}
        /\ unload[x] \in {"none", "spawned"} /\ stop \in {"no", "gather"} => rec[x].unloads = 0
        /\ unload[x] = "spawned" => rec[x].unloads = 0
        /\ unload[x] \in {"spawned", "on_unload"} <=> rec[x].status = "unloading"
  <2> TAKE x \in Records
  <2>1. rec[x].unloads \in Nat  BY <1>0 DEF Record
  <2>2. rec[x].unloads <= 1  BY DEF OrderInv, UnloadsInv
  <2> QED  BY <2>1, <2>2 DEF OrderInv, UnloadsInv
<1>2. stop \in {"visit", "on_unload"} => \A x \in Records : unload[x] \in {"none", "done"}
  BY <1>0 DEF RegInv, StopInv
<1>3. ASSUME UNCHANGED <<records, order, task, unload, stopVars>>, NEW r \in Records,
             NEW new, rec' = [rec EXCEPT ![r] = new],
             new.status = rec[r].status, new.unloads = rec[r].unloads
      PROVE  Orderly
  <2>1. rec'[r] = new /\ \A x \in Records \ {r} : rec'[x] = rec[x]
    BY <1>0, <1>3
  <2>2. Climbs(r)  BY <1>3, <2>1 DEF Climbs
  <2>3. Loaded(r)' <=> Loaded(r)  BY <1>3, <2>1 DEF Loaded
  <2> QED  BY <1>1, <1>3, <2>1, <2>2, <2>3, MoveIsOrderly
<1>4. ASSUME UNCHANGED <<rec, records, order, task, unload, stopVars>>
      PROVE  Orderly
  <2>1. UNCHANGED <<stop, stopTodo>>  BY <1>4 DEF stopVars
  <2>2. Quiet' /\ UnloadsInv'
    BY <1>4, <2>1 DEF OrderInv, Quiet, UnloadsInv
  <2>3. LastFirst'
    BY <1>4, <2>1 DEF OrderInv, LastFirst, Left, Loaded
  <2> QED  BY <1>4, <2>2, <2>3 DEF Orderly, Climbs
<1>5. ASSUME NEW r \in Records, Deliver(r) \/ HandlerFails(r)
      PROVE  Orderly
  BY <1>4, <1>5 DEF Deliver, HandlerFails, tableVars
<1>6. ASSUME NEW r \in Records, HandlerReturns(r)
      PROVE  Orderly
  <2>n. PICK now : now = records[rec[r].plugin]  OBVIOUS
  <2>1. /\ UNCHANGED <<records, order, task, unload, stopVars>>
        /\ rec' = IF Loaded(now) THEN [rec EXCEPT ![now].count = 0] ELSE rec
    BY <1>6, <2>n DEF HandlerReturns
  <2>2. CASE ~Loaded(now)
    BY <1>4, <2>1, <2>2
  <2>3. CASE Loaded(now)
    <3>1. now \in Records
      <4>1. rec[r].status \notin {"free"}
        BY <1>0, <1>6 DEF Sound, HandlerReturns
      <4> QED  BY <1>0, <2>n, <2>3, <4>1 DEF Sound, Loaded
    <3> DEFINE new == [rec[now] EXCEPT !.count = 0]
    <3>2. rec' = [rec EXCEPT ![now] = new]  BY <1>0, <2>1, <2>3, <3>1
    <3>3. new.status = rec[now].status /\ new.unloads = rec[now].unloads
      <4>1. rec[now] \in Record  BY <1>0, <3>1
      <4> QED  BY <4>1 DEF Record
    <3> HIDE DEF new
    <3> QED  BY <1>3, <2>1, <3>1, <3>2, <3>3
  <2> QED  BY <2>2, <2>3
<1>7. ASSUME NEW p \in Plugins, OnPluginError(p)
      PROVE  Orderly
  <2>r. PICK r : r = records[p]  OBVIOUS
  <2>1. UNCHANGED <<records, order, task, stopVars>>
    BY <1>7 DEF OnPluginError
  <2>2. CASE stop # "no" \/ ~Loaded(r)
    <3>1. UNCHANGED <<rec, unload>>  BY <1>7, <2>r, <2>2 DEF OnPluginError
    <3> QED  BY <1>4, <2>1, <3>1
  <2>3. CASE stop = "no" /\ Loaded(r)
    <3>1. r \in Records /\ rec[r] \in Record /\ rec[r].status = "loaded" /\ unload[r] = "none"
      BY <1>0, <2>r, <2>3 DEF Loaded, Sound
    <3>2. ASSUME NEW new, NEW u \in {"none", "spawned"}, rec' = [rec EXCEPT ![r] = new],
                 unload' = [unload EXCEPT ![r] = u], new.unloads = rec[r].unloads,
                 new.status = IF u = "none" THEN "loaded" ELSE "unloading"
          PROVE  Orderly
      <4>1. /\ rec'[r] = new /\ unload'[r] = u
            /\ \A x \in Records \ {r} : rec'[x] = rec[x] /\ unload'[x] = unload[x]
        BY <1>0, <3>1, <3>2
      <4>2. rec[r].unloads = 0  BY <1>1, <2>3, <3>1
      <4>3. Climbs(r)  BY <3>1, <3>2, <4>1 DEF Climbs
      <4> QED  BY <2>1, <2>3, <3>1, <3>2, <4>1, <4>2, <4>3, MoveIsOrderly
    <3> DEFINE counted == [rec[r] EXCEPT !.count = @ + 1]
               claimed == [rec[r] EXCEPT !.count = @ + 1, !.status = "unloading"]
    <3>3. /\ counted.status = "loaded" /\ counted.unloads = rec[r].unloads
          /\ claimed.status = "unloading" /\ claimed.unloads = rec[r].unloads
      BY <3>1 DEF Record
    <3>4. \/ rec' = [rec EXCEPT ![r] = counted] /\ unload' = [unload EXCEPT ![r] = "none"]
          \/ rec' = [rec EXCEPT ![r] = claimed] /\ unload' = [unload EXCEPT ![r] = "spawned"]
      <4>1. CASE rec[r].count + 1 < Threshold
        <5>1. rec' = [rec EXCEPT ![r].count = @ + 1] /\ unload' = unload
          BY <1>7, <2>r, <2>3, <4>1 DEF OnPluginError
        <5>2. [unload EXCEPT ![r] = "none"] = unload  BY <1>0, <3>1
        <5>3. rec' = [rec EXCEPT ![r] = counted]  BY <1>0, <3>1, <5>1
        <5> QED  BY <5>1, <5>2, <5>3
      <4>2. CASE ~(rec[r].count + 1 < Threshold)
        <5>1. /\ rec' = [rec EXCEPT ![r].count = @ + 1, ![r].status = "unloading"]
              /\ unload' = [unload EXCEPT ![r] = "spawned"]
          BY <1>7, <2>r, <2>3, <4>2 DEF OnPluginError
        <5>2. rec' = [rec EXCEPT ![r] = claimed]  BY <1>0, <3>1, <5>1
        <5> QED  BY <5>1, <5>2
      <4> QED  BY <4>1, <4>2
    <3> HIDE DEF counted, claimed
    <3> QED  BY <3>2, <3>3, <3>4
  <2> QED  BY <2>2, <2>3
<1>8. ASSUME NEW r \in Records, UnloadStarts(r)
      PROVE  Orderly
  <2>1. unload[r] = "spawned" /\ rec[r] \in Record /\ rec[r].status = "unloading" /\ rec[r].unloads = 0
    BY <1>0, <1>1, <1>8 DEF UnloadStarts
  <2> DEFINE new == [rec[r] EXCEPT !.subscribed = FALSE, !.unloads = @ + 1]
  <2>2. rec' = [rec EXCEPT ![r] = new] /\ unload' = [unload EXCEPT ![r] = "on_unload"]
        /\ UNCHANGED <<records, order, task, stopVars>>
    BY <1>0, <1>8 DEF UnloadStarts, Unloading
  <2>3. new.status = "unloading" /\ new.unloads = 1
    BY <2>1 DEF Record
  <2> HIDE DEF new
  <2>4. /\ rec'[r] = new /\ unload'[r] = "on_unload"
        /\ \A x \in Records \ {r} : rec'[x] = rec[x] /\ unload'[x] = unload[x]
    BY <1>0, <2>2
  <2>5. Climbs(r)  BY <2>1, <2>3, <2>4 DEF Climbs
  <2> QED  BY <1>2, <2>1, <2>2, <2>3, <2>4, <2>5, MoveIsOrderly
<1>9. ASSUME NEW r \in Records, UnloadReturns(r)
      PROVE  Orderly
  <2>1. unload[r] = "on_unload" /\ rec[r] \in Record /\ rec[r].status = "unloading"
    BY <1>0, <1>1, <1>9 DEF UnloadReturns
  <2> DEFINE new == [rec[r] EXCEPT !.status = "failed"]
  <2>2. rec' = [rec EXCEPT ![r] = new] /\ unload' = [unload EXCEPT ![r] = "publish"]
        /\ UNCHANGED <<records, order, task, stopVars>>
    BY <1>0, <1>9 DEF UnloadReturns
  <2>3. new.status = "failed" /\ new.unloads = rec[r].unloads
    BY <2>1 DEF Record
  <2> HIDE DEF new
  <2>4. /\ rec'[r] = new /\ unload'[r] = "publish"
        /\ \A x \in Records \ {r} : rec'[x] = rec[x] /\ unload'[x] = unload[x]
    BY <1>0, <2>2
  <2>5. Climbs(r)  BY <2>1, <2>3, <2>4 DEF Climbs
  <2> QED  BY <1>1, <1>2, <2>1, <2>2, <2>3, <2>4, <2>5, MoveIsOrderly
<1>10. ASSUME NEW r \in Records, UnloadPublished(r)
       PROVE  Orderly
  <2>1. /\ unload[r] = "publish" /\ unload' = [unload EXCEPT ![r] = "done"]
        /\ UNCHANGED <<rec, records, order, task, stopVars>>
    BY <1>10 DEF UnloadPublished, tableVars
  <2>2. /\ rec' = rec /\ unload'[r] = "done"
        /\ \A x \in Records \ {r} : rec'[x] = rec[x] /\ unload'[x] = unload[x]
    BY <1>0, <2>1
  <2>3. Climbs(r)  BY <2>2 DEF Climbs
  <2> QED  BY <1>1, <1>2, <2>1, <2>2, <2>3, MoveIsOrderly
<1> QED  BY <1>5, <1>6, <1>7, <1>8, <1>9, <1>10 DEF HandlerEnds, UnloadStep

(* stop() goes down the load order.                                        *)
LEMMA StopIsOrderly ==
  ASSUME OrderInv, StopBegins \/ StopStep
  PROVE  Orderly
<1>0. /\ rec \in [Records -> Record] /\ RegInv /\ \A x \in Records : Sound(x)
      /\ records \in [Plugins -> Records \cup {None}] /\ None \notin Records
      /\ order \in Seq(Plugins) /\ stopTodo \in Seq(Plugins) /\ Len(order) \in Nat /\ Left \in Nat
      /\ UnloadsInv /\ LastFirst /\ Quiet
      /\ stop \in {"visit", "on_unload"} => \A x \in Records : unload[x] \in {"none", "done"}
  BY DEF OrderInv, RegInv, TypeOK, StatusInv, StopInv, Parameters, Left
<1>1. \A i \in 1..Len(order) :
        /\ order[i] \in Plugins /\ records[order[i]] \in Records
        /\ rec[records[order[i]]].plugin = order[i]
        /\ \A j \in 1..Len(order) : records[order[i]] = records[order[j]] => i = j
  <2>1. \A i \in 1..Len(order) : order[i] \in Plugins /\ Registered(order[i])
    BY <1>0 DEF RegInv, OneRowEach, ToSet
  <2>2. \A i \in 1..Len(order) : records[order[i]] \in Records /\ rec[records[order[i]]].plugin = order[i]
    BY <1>0, <2>1, IsRegistered DEF Registered
  <2> QED  BY <1>0, <2>1, <2>2 DEF RegInv, OneRowEach, IsInjective
<1>2. UNCHANGED <<order, records, task, unload>>
  BY DEF StopBegins, StopStep, StopGathered, StopVisits, StopUnloaded, StopReturns, tableVars
<1>3. Quiet'  BY <1>0, <1>2 DEF Quiet
<1>4. CASE StopBegins
  <2>1. stop = "no" /\ stop' = "gather" /\ rec' = rec
    BY <1>4 DEF StopBegins, tableVars
  <2>2. UnloadsInv' /\ LastFirst'
    BY <1>0, <1>2, <2>1 DEF UnloadsInv, LastFirst
  <2> QED  BY <1>3, <2>1, <2>2 DEF Orderly, Climbs
<1>5. CASE StopReturns
  <2>1. stop = "visit" /\ stop' = "stopped" /\ rec' = rec
    BY <1>5 DEF StopReturns, tableVars
  <2>2. UnloadsInv' /\ LastFirst'
    BY <1>0, <1>2, <2>1 DEF UnloadsInv, LastFirst
  <2> QED  BY <1>3, <2>1, <2>2 DEF Orderly, Climbs
<1>6. CASE StopGathered
  <2>1. /\ stop = "gather" /\ stop' = "visit" /\ rec' = rec /\ stopTodo' = Reverse(order)
        /\ \A r \in Records : unload[r] \in {"none", "done"}
    BY <1>6 DEF StopGathered, tableVars
  <2>2. Left' = Len(order) /\ \A k \in 1..Len(order) : stopTodo'[k] = order[Len(order) + 1 - k]
    BY <1>0, <2>1, Reversed DEF Left
  <2>3. UnloadsInv'
    BY <1>0, <1>2, <2>1 DEF UnloadsInv
  <2>4. \A x \in Records : unload[x] = "done" \/ rec[x].unloads = 0
    BY <1>0, <2>1 DEF UnloadsInv
  <2>5. LastFirst'
    BY <1>0, <1>1, <1>2, <2>1, <2>2, <2>4 DEF LastFirst
  <2> QED  BY <1>3, <2>1, <2>3, <2>5 DEF Orderly, Climbs
<1>7. ASSUME stop \in {"visit", "on_unload"}, stopTodo # <<>>
      PROVE  /\ Left \in 1..Len(order) /\ Head(stopTodo) = order[Left]
             /\ Len(Tail(stopTodo)) = Left - 1
             /\ \A k \in 1..(Left - 1) : Tail(stopTodo)[k] = order[(Left - 1) + 1 - k]
  <2>1. Left >= 1 /\ Left <= Len(order) /\ \A k \in 1..Left : stopTodo[k] = order[Left + 1 - k]
    BY <1>0, <1>7 DEF LastFirst, Left
  <2>2. Head(stopTodo) = stopTodo[1] /\ Len(Tail(stopTodo)) = Left - 1
        /\ \A k \in 1..(Left - 1) : Tail(stopTodo)[k] = stopTodo[k + 1]
    BY <1>0, <2>1 DEF Left
  <2>3. \A k \in 1..(Left - 1) : k + 1 \in 1..Left /\ Left + 1 - (k + 1) = (Left - 1) + 1 - k
    BY <1>0, <2>1
  <2>4. \A k \in 1..(Left - 1) : Tail(stopTodo)[k] = order[(Left - 1) + 1 - k]
    BY <2>1, <2>2, <2>3
  <2>5. Head(stopTodo) = order[Left]
    <3>1. 1 \in 1..Left /\ Left + 1 - 1 = Left  BY <1>0, <2>1
    <3>2. stopTodo[1] = order[Left + 1 - 1]  BY <2>1, <3>1
    <3> QED  BY <2>2, <3>1, <3>2
  <2> QED  BY <1>0, <2>1, <2>2, <2>4, <2>5
(* The plugin at the head is done with.                                    *)
<1>8. ASSUME stop \in {"visit", "on_unload"}, stopTodo # <<>>, stop' = "visit",
             stopTodo' = Tail(stopTodo),
             \A x \in Records : rec'[x].unloads = rec[x].unloads /\ (Loaded(x)' => Loaded(x)),
             \A x \in Records : x = records[order[Left]] => ~Loaded(x)'
      PROVE  LastFirst'
  <2>1. Left' = Left - 1  BY <1>7, <1>8 DEF Left
  <2>2. \A k \in 1..Left' : stopTodo'[k] = order[Left' + 1 - k]
    BY <1>7, <1>8, <2>1
  <2>3. ASSUME NEW i \in 1..Len(order)
        PROVE  /\ i < Left' \/ i = Left' => unload[records[order[i]]] = "done"
                                            \/ rec'[records[order[i]]].unloads = 0
               /\ i > Left' => ~Loaded(records[order[i]])'
    <3>1. records[order[i]] \in Records  BY <1>1
    <3>2. i < Left => unload[records[order[i]]] = "done" \/ rec[records[order[i]]].unloads = 0
      BY <1>0, <1>8 DEF LastFirst
    <3>3. i > Left => ~Loaded(records[order[i]])
      BY <1>0, <1>8 DEF LastFirst
    <3>4. i < Left' \/ i = Left' => i < Left  BY <1>0, <2>1
    <3>5. i > Left' => i > Left \/ i = Left  BY <1>0, <2>1
    <3>6. PICK x \in Records : x = records[order[i]]  BY <3>1
    <3>7. i = Left => ~Loaded(x)'  BY <1>8, <3>6
    <3>8. i > Left' => ~Loaded(x)'
      BY <1>8, <3>3, <3>5, <3>6, <3>7
    <3>9. i > Left' => ~Loaded(records[order[i]])'
      BY <1>2, <3>6, <3>8
    <3> QED  BY <1>8, <3>1, <3>2, <3>4, <3>9
  <2>4. Left' <= Len(order)  BY <1>0, <1>7, <1>8, <2>1
  <2> QED  BY <1>2, <1>8, <2>2, <2>3, <2>4 DEF LastFirst
<1>9. CASE StopVisits
  <2>0. stop = "visit" /\ stopTodo # <<>> /\ Left \in 1..Len(order) /\ Head(stopTodo) = order[Left]
    BY <1>7, <1>9 DEF StopVisits
  <2>r. PICK r \in Records : r = records[order[Left]]
    BY <1>1, <2>0
  <2>1. CASE ~Loaded(r)
    <3>1. stopTodo' = Tail(stopTodo) /\ rec' = rec /\ stop' = "visit"
      BY <1>9, <2>0, <2>r, <2>1 DEF StopVisits
    <3>2. \A x \in Records : Loaded(x)' <=> Loaded(x)  BY <3>1 DEF Loaded
    <3>3. LastFirst'  BY <1>8, <2>0, <2>r, <2>1, <3>1, <3>2
    <3>4. UnloadsInv'  BY <1>0, <1>2, <2>0, <3>1 DEF UnloadsInv
    <3> QED  BY <1>3, <3>1, <3>3, <3>4 DEF Orderly, Climbs
  <2>2. CASE Loaded(r)
    <3> DEFINE new == [rec[r] EXCEPT !.subscribed = FALSE, !.unloads = @ + 1]
    <3>1. rec' = [rec EXCEPT ![r] = new] /\ stop' = "on_unload" /\ stopTodo' = stopTodo
      BY <1>0, <1>9, <2>0, <2>r, <2>2 DEF StopVisits, Unloading
    <3>2. rec[r] \in Record /\ rec[r].status = "loaded"
      BY <1>0, <2>2 DEF Loaded
    <3>3. rec[r].status = "loaded" /\ unload[r] = "none" /\ rec[r].unloads = 0
      BY <1>0, <2>0, <2>r, <2>2 DEF Loaded, Sound, LastFirst
    <3>4. new.status = "loaded" /\ new.unloads = 1
      BY <3>2, <3>3 DEF Record
    <3> HIDE DEF new
    <3>5. rec'[r] = new /\ \A x \in Records \ {r} : rec'[x] = rec[x]
      BY <1>0, <3>1
    <3>6. \A x \in Records : Climbs(x)  BY <3>3, <3>4, <3>5 DEF Climbs
    <3>7. UnloadsInv'
      <4>1. ASSUME NEW x \in Records
            PROVE  /\ rec'[x].unloads <= 1
                   /\ unload'[x] = "spawned" => rec'[x].unloads = 0
                   /\ unload'[x] \in {"spawned", "on_unload"} <=> rec'[x].status = "unloading"
        <5>1. CASE x = r  BY <1>2, <3>3, <3>4, <3>5, <5>1
        <5>2. CASE x # r  BY <1>0, <1>2, <3>5, <5>2 DEF UnloadsInv
        <5> QED  BY <5>1, <5>2
      <4> QED  BY <3>1, <4>1 DEF UnloadsInv
    <3>8. LastFirst'
      <4>1. Left' = Left  BY <3>1 DEF Left
      <4>2. ASSUME NEW i \in 1..Len(order)
            PROVE  /\ i < Left => unload[records[order[i]]] = "done"
                                  \/ rec'[records[order[i]]].unloads = 0
                   /\ i > Left => ~Loaded(records[order[i]])'
        <5>1. i # Left => records[order[i]] \in Records \ {r}
          BY <1>1, <2>0, <2>r
        <5>2. i < Left => unload[records[order[i]]] = "done" \/ rec[records[order[i]]].unloads = 0
          BY <1>0, <2>0 DEF LastFirst
        <5>3. i > Left => ~Loaded(records[order[i]])
          BY <1>0, <2>0 DEF LastFirst
        <5> QED  BY <1>0, <1>2, <2>0, <3>5, <5>1, <5>2, <5>3 DEF Loaded
      <4>3. Loaded(records[Head(stopTodo)])'
        BY <1>2, <2>0, <2>2, <2>r, <3>1, <3>4, <3>5 DEF Loaded
      <4>4. Left <= Len(order) /\ \A k \in 1..Left : stopTodo[k] = order[Left + 1 - k]
        BY <1>0, <2>0 DEF LastFirst
      <4> QED  BY <1>2, <3>1, <4>1, <4>2, <4>3, <4>4 DEF LastFirst
    <3> QED  BY <1>3, <3>6, <3>7, <3>8 DEF Orderly
  <2> QED  BY <2>1, <2>2
<1>10. CASE StopUnloaded
  <2>0. stop = "on_unload" /\ stopTodo # <<>> /\ Left \in 1..Len(order)
        /\ Head(stopTodo) = order[Left] /\ Loaded(records[order[Left]])
    BY <1>0, <1>7, <1>10 DEF StopUnloaded, RegInv, StopInv, LastFirst
  <2>r. PICK r \in Records : r = records[order[Left]]
    BY <1>1, <2>0
  <2> DEFINE new == [rec[r] EXCEPT !.status = "unloaded"]
  <2>1. rec' = [rec EXCEPT ![r] = new] /\ stop' = "visit" /\ stopTodo' = Tail(stopTodo)
    BY <1>0, <1>10, <2>0, <2>r DEF StopUnloaded
  <2>2. rec[r] \in Record /\ rec[r].status = "loaded"
    BY <1>0, <2>0, <2>r DEF Loaded
  <2>3. new.status = "unloaded" /\ new.unloads = rec[r].unloads
    BY <2>2 DEF Record
  <2> HIDE DEF new
  <2>4. rec'[r] = new /\ \A x \in Records \ {r} : rec'[x] = rec[x]
    BY <1>0, <2>1
  <2>5. \A x \in Records : Climbs(x)  BY <2>2, <2>3, <2>4 DEF Climbs
  <2>6. \A x \in Records : /\ rec'[x].unloads = rec[x].unloads
                           /\ Loaded(x)' => Loaded(x)
                           /\ x = r => ~Loaded(x)'
                           /\ rec'[x].status = "unloading" <=> rec[x].status = "unloading"
    BY <2>2, <2>3, <2>4 DEF Loaded
  <2>7. UnloadsInv'
    BY <1>0, <1>2, <2>1, <2>6 DEF UnloadsInv
  <2>8. LastFirst'  BY <1>8, <2>0, <2>1, <2>6, <2>r
  <2> QED  BY <1>3, <2>5, <2>7, <2>8 DEF Orderly
<1> QED  BY <1>4, <1>5, <1>6, <1>9, <1>10 DEF StopStep

(* Without requests every step keeps the order of unloading, and no status *)
(* goes back.                                                              *)
LEMMA OrderStep ==
  ASSUME OrderInv, [Next]_vars
  PROVE  OrderInv' /\ \A r \in Records : Climbs(r)
<1>1. RegInv' /\ Requests' = {}
  BY RegistryStep DEF OrderInv
<1>2. Orderly
  <2>1. CASE UNCHANGED vars
    <3>1. UNCHANGED <<rec, records, order, task, unload, stop, stopTodo>>
      BY <2>1 DEF vars, tableVars, stopVars
    <3>2. Quiet' /\ UnloadsInv'
      BY <3>1 DEF OrderInv, Quiet, UnloadsInv
    <3>3. LastFirst'
      BY <3>1 DEF OrderInv, LastFirst, Left, Loaded
    <3> QED  BY <3>1, <3>2, <3>3 DEF Orderly, Climbs
  <2>2. CASE Next
    BY <2>2, LoadingIsOrderly, HandlingIsOrderly, StopIsOrderly DEF Next, OrderInv
  <2> QED  BY <2>1, <2>2
<1> QED  BY <1>1, <1>2 DEF OrderInv, Orderly

(* So the order always holds, of a registry without requests.              *)
LEMMA OrderInvariance ==
  Parameters /\ Requests = {} /\ Spec => []OrderInv
<1> SUFFICES ASSUME Parameters, Requests = {}  PROVE Spec => []OrderInv
  OBVIOUS
<1>1. Init => OrderInv
  <2> SUFFICES ASSUME Init  PROVE OrderInv
    OBVIOUS
  <2>1. RegInv  BY RegistryInit DEF Serial
  <2>2. Quiet /\ UnloadsInv /\ LastFirst
    BY DEF Init, Quiet, UnloadsInv, LastFirst, Tasks
  <2> QED  BY <2>1, <2>2 DEF OrderInv
<1>2. OrderInv /\ [Next]_vars => OrderInv'  BY OrderStep
<1> QED  BY <1>1, <1>2, PTL DEF Spec

(* Without install and remove, on_unload runs at most once for a load,     *)
(* however threshold, stop and rival errors interleave, and a plugin       *)
(* outlives, while stop() goes on, all that were loaded after it           *)
(* (registry.py:807-816, 340-348).                                         *)
THEOREM UnloadsAreOrderly ==
  Parameters /\ Requests = {} /\ Spec => []OrderlyUnload
<1>1. OrderInv => OrderlyUnload
  <2> SUFFICES ASSUME OrderInv  PROVE UnloadOnce /\ ReverseOrder
    BY DEF OrderlyUnload
  <2>1. UnloadOnce  BY DEF OrderInv, UnloadsInv, UnloadOnce
  <2>2. ASSUME stop = "on_unload", NEW i \in DOMAIN order, NEW j \in DOMAIN order, i < j,
               Loaded(records[order[j]])
        PROVE  rec[records[order[i]]].unloads = 0 \/ unload[records[order[i]]] = "done"
    <3>1. DOMAIN order = 1..Len(order) /\ Left \in Nat
      BY DEF OrderInv, RegInv, TypeOK, Left
    <3>2. ~(j > Left)  BY <2>2, <3>1 DEF OrderInv, LastFirst
    <3>3. i < Left  BY <2>2, <3>1, <3>2
    <3> QED  BY <2>2, <3>1, <3>3 DEF OrderInv, LastFirst
  <2> QED  BY <2>1, <2>2 DEF ReverseOrder
<1> QED  BY <1>1, OrderInvariance, PTL

(* Without install and remove, a terminal status is terminal, and          *)
(* unloading ends in failed (registry.py:104-129).                         *)
THEOREM StatusClimbs ==
  Parameters /\ Requests = {} /\ Spec => StatusLadder
<1>1. OrderInv /\ [Next]_vars =>
        [\A r \in Records :
           LET was == rec[r].status  is == rec'[r].status
           IN  is # was => <<was, is>> \in {<<"free", "loading">>, <<"loading", "loaded">>,
                                            <<"loading", "failed">>, <<"loaded", "unloading">>,
                                            <<"loaded", "unloaded">>, <<"unloading", "failed">>}]_vars
  BY OrderStep DEF Climbs
<1> QED  BY <1>1, OrderInvariance, PTL DEF StatusLadder, Spec
=====
