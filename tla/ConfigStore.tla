----------------------------- MODULE ConfigStore -----------------------------
(***************************************************************************)
(* The live configuration: kernel/config_store.py, its readers and its     *)
(* writers.  A write goes to sqlite on a single worker thread and, when    *)
(* its coroutine resumes, to the cache everybody reads; then config.updated*)
(* is published, and the llm_openai plugin rebuilds the client of the      *)
(* provider instance it names.  The registry migrates and seeds the store  *)
(* at boot, the web API creates, patches, deletes and activates instances  *)
(* by sequences of single-key writes, and the server may go down at any    *)
(* point.                                                                  *)
(***************************************************************************)
EXTENDS Integers, Sequences, FiniteSets, Functions

CONSTANTS
  Instances,    \* ids of provider instances
  Bundled,      \* the id the registry seeds: the name of the bundled plugin
  Requests,     \* web requests that may run at once
  MaxRequests,  \* bound: web requests
  MaxDowns,     \* bound: times the server goes down
  None

Active == <<"", "provider">>
Migrated == <<"_meta", "migrated">>
Seeded == <<"_meta", "seeded">>
Legacy == <<"plugin", "api_key">>
Plugin(i) == <<i, "plugin">>
ApiKey(i) == <<i, "api_key">>
InstanceKeys == {Plugin(i) : i \in Instances} \cup {ApiKey(i) : i \in Instances}
Keys == InstanceKeys \cup {Active, Migrated, Seeded, Legacy}
Values(k) ==
  IF k = Active THEN Instances
  ELSE IF k[2] = "plugin" THEN {"openai", "other"} ELSE {"key1", "key2"}

Tasks == Requests \cup {"boot"}

VARIABLES
  db,        \* the rows of the sqlite file
  cache,     \* ConfigStore._cache
  queue,     \* writes the database thread has not run
  ran,       \* writes it ran whose coroutines have not resumed
  updates,   \* config.updated events on the kernel session
  task,      \* the writes a request, or the boot, has left
  phase,     \* where the server is: down, migrating, seeding, ready
  clients,   \* OpenAIProvider._clients: the key each client was built with
  requests, downs,  \* so far
  apart      \* history: keys unset while a first write of them was on its way

storeVars == <<db, cache, queue, ran, updates, clients>>
countVars == <<requests, downs>>
vars == <<storeVars, task, phase, countVars, apart>>

Write(what, k, v) == [what |-> what, key |-> k, val |-> v]
Set(k, v) == Write("set", k, v)
Unset(k) == Write("unset", k, None)
NoTask == [at |-> "next", ops |-> <<>>]

Init ==
  /\ db = [k \in Keys |-> None] /\ cache = db
  /\ queue = <<>> /\ ran = <<>> /\ updates = <<>>
  /\ task = [t \in Tasks |-> NoTask]
  /\ phase = "down" /\ clients = [i \in Instances |-> None]
  /\ requests = 0 /\ downs = 0
  /\ apart = {}

-----------------------------------------------------------------------------
(* ProvidersView reads the cache.                                          *)
Row(i) == cache[Plugin(i)] # None \/ cache[ApiKey(i)] # None
PluginOf(i) == cache[Plugin(i)]
Siblings(i) == {j \in Instances \ {i} : Row(j) /\ PluginOf(j) = PluginOf(i)}

(* _build_client, on a machine without OPENAI_API_KEY *)
ClientOf(i) == IF PluginOf(i) = "openai" THEN cache[ApiKey(i)] ELSE None

-----------------------------------------------------------------------------
(* ConfigStore.set and unset.  The boot's writes look at the cache first:  *)
(* a default does not replace a value, a lift copies the legacy one.       *)
Skipped(op) ==
  \/ op.what = "default" /\ cache[op.key] # None
  \/ op.what = "lift" /\ cache[Legacy] = None
Resolved(op) == IF op.what = "lift" THEN [op EXCEPT !.val = cache[Legacy]] ELSE op

(* unset of a key the cache does not have still tries the database, and    *)
(* leaves the cache as it is                                               *)
Blind(op) == op.what = "unset" /\ cache[op.key] = None
InFlight(k) == \E w \in Range(queue) \cup Range(ran) : w.op.key = k /\ w.op.what # "unset"

Issue(t) ==
  LET op == Head(task[t].ops) IN
  /\ task[t].at = "next" /\ task[t].ops # <<>>
  /\ IF Skipped(op)
     THEN task' = [task EXCEPT ![t].ops = Tail(@)] /\ UNCHANGED <<queue, apart>>
     ELSE /\ queue' = Append(queue, [by |-> t, op |-> Resolved(op), blind |-> Blind(op), hit |-> TRUE])
          /\ task' = [task EXCEPT ![t].at = "db"]
          /\ apart' = IF Blind(op) /\ InFlight(op.key) THEN apart \cup {op.key} ELSE apart
  /\ UNCHANGED <<db, cache, ran, updates, clients, phase, countVars>>

(* the database thread: _upsert_row or _delete_row *)
DatabaseRuns ==
  LET w == Head(queue) IN
  /\ queue # <<>>
  /\ queue' = Tail(queue)
  /\ ran' = Append(ran, [w EXCEPT !.hit = db[w.op.key] # None])
  /\ db' = [db EXCEPT ![w.op.key] = w.op.val]
  /\ UNCHANGED <<cache, updates, clients, task, phase, countVars, apart>>

(* the coroutine resumes: cache, then config.updated; the migration and a  *)
(* blind unset that found nothing publish nothing                          *)
Quiet(w) == (w.blind /\ ~w.hit) \/ w.op.what = "migrate"

ResumeAny ==
  \E n \in DOMAIN ran :
    LET w == ran[n] IN
    /\ ran' = SubSeq(ran, 1, n - 1) \o SubSeq(ran, n + 1, Len(ran))
    /\ cache' = IF w.blind THEN cache ELSE [cache EXCEPT ![w.op.key] = w.op.val]
    /\ updates' = IF Quiet(w) THEN updates ELSE Append(updates, [by |-> w.by, key |-> w.op.key])
    /\ task' = [task EXCEPT ![w.by] = IF Quiet(w) THEN [at |-> "next", ops |-> Tail(@.ops)]
                                      ELSE [@ EXCEPT !.at = "publishing"]]
    /\ UNCHANGED <<db, queue, clients, phase, countVars, apart>>

Resume ==
  LET w == Head(ran) IN
  /\ ran # <<>>
  /\ ran' = Tail(ran)
  /\ cache' = IF w.blind THEN cache ELSE [cache EXCEPT ![w.op.key] = w.op.val]
  /\ updates' = IF Quiet(w) THEN updates ELSE Append(updates, [by |-> w.by, key |-> w.op.key])
  /\ task' = [task EXCEPT ![w.by] = IF Quiet(w) THEN [at |-> "next", ops |-> Tail(@.ops)]
                                    ELSE [@ EXCEPT !.at = "publishing"]]
  /\ UNCHANGED <<db, queue, clients, phase, countVars, apart>>

DeliverKeeps ==
  LET u == Head(updates) IN
  /\ updates # <<>>
  /\ updates' = Tail(updates)
  /\ clients' = IF u.key[1] \in Instances /\ clients[u.key[1]] = None
                THEN [clients EXCEPT ![u.key[1]] = ClientOf(u.key[1])] ELSE clients
  /\ task' = [task EXCEPT ![u.by] = [at |-> "next", ops |-> Tail(@.ops)]]
  /\ UNCHANGED <<db, cache, queue, ran, phase, countVars, apart>>

(* the kernel session's worker: _maybe_hot_reload; publish() returns *)
Deliver ==
  LET u == Head(updates) IN
  /\ updates # <<>>
  /\ updates' = Tail(updates)
  /\ clients' = IF u.key[1] \in Instances THEN [clients EXCEPT ![u.key[1]] = ClientOf(u.key[1])]
                ELSE clients
  /\ task' = [task EXCEPT ![u.by] = [at |-> "next", ops |-> Tail(@.ops)]]
  /\ UNCHANGED <<db, cache, queue, ran, phase, countVars, apart>>

-----------------------------------------------------------------------------
(* The boot: open, migrate_from_kernel_config (the key of an old TOML      *)
(* file), load the plugins, _bootstrap_providers_namespace.                *)
Migration == <<Write("migrate", Legacy, "key1"), Write("migrate", Migrated, "yes")>>
Seeding ==
  <<Set(Plugin(Bundled), "openai"), Write("lift", ApiKey(Bundled), None),
    Write("default", Active, Bundled), Set(Seeded, "yes")>>

Open ==
  /\ phase = "down"
  /\ phase' = "migrating"
  /\ cache' = db /\ apart' = {}
  /\ task' = [task EXCEPT !["boot"].ops = IF db[Migrated] = None THEN Migration ELSE <<>>]
  /\ UNCHANGED <<db, queue, ran, updates, clients, countVars>>

(* OpenAIProvider.on_load; the web API listens from here on *)
LoadPlugins ==
  /\ phase = "migrating" /\ task["boot"].ops = <<>>
  /\ phase' = "seeding"
  /\ clients' = [i \in Instances |-> ClientOf(i)]
  /\ task' = [task EXCEPT !["boot"].ops = IF cache[Seeded] = None THEN Seeding ELSE <<>>]
  /\ UNCHANGED <<db, cache, queue, ran, updates, countVars, apart>>

Ready ==
  /\ phase = "seeding" /\ task["boot"].ops = <<>>
  /\ phase' = "ready"
  /\ UNCHANGED <<storeVars, task, countVars, apart>>

GoDown ==
  /\ phase # "down" /\ downs < MaxDowns
  /\ downs' = downs + 1
  /\ phase' = "down"
  /\ queue' = <<>> /\ ran' = <<>> /\ updates' = <<>>
  /\ cache' = [k \in Keys |-> None] /\ clients' = [i \in Instances |-> None]
  /\ task' = [t \in Tasks |-> NoTask]
  /\ UNCHANGED <<db, requests, apart>>

-----------------------------------------------------------------------------
(* The web API.  Each handler checks once and then writes key by key.      *)
Handle(t, ops) ==
  /\ phase \in {"seeding", "ready"} /\ requests < MaxRequests
  /\ task[t] = NoTask
  /\ requests' = requests + 1
  /\ task' = [task EXCEPT ![t].ops = ops]
  /\ UNCHANGED <<storeVars, phase, downs, apart>>

CreateInstance(t, i) ==
  /\ ~Row(i)
  /\ \/ Handle(t, <<Set(Plugin(i), "openai")>>)
     \/ Handle(t, <<Set(Plugin(i), "openai"), Set(ApiKey(i), "key1")>>)

PatchInstance(t, i) == Row(i) /\ Handle(t, <<Set(ApiKey(i), "key2")>>)

Dropped(k) == IF cache[k] # None THEN <<Unset(k)>> ELSE <<>>
DeleteInstance(t, i) ==
  /\ Row(i) /\ cache[Active] # i /\ Siblings(i) # {}
  /\ Handle(t, Dropped(ApiKey(i)) \o Dropped(Plugin(i)))

SetActive(t, i) == PluginOf(i) = "openai" /\ Handle(t, <<Set(Active, i)>>)

ConfigPatch(t, k) == \E v \in Values(k) : Handle(t, <<Set(k, v)>>)
ConfigDelete(t, k) == Handle(t, <<Unset(k)>>)

Writable == InstanceKeys \cup {Active}

Next ==
  \/ \E t \in Tasks : Issue(t)
  \/ DatabaseRuns \/ Resume \/ Deliver
  \/ Open \/ LoadPlugins \/ Ready \/ GoDown
  \/ \E t \in Requests, i \in Instances :
       CreateInstance(t, i) \/ PatchInstance(t, i) \/ DeleteInstance(t, i) \/ SetActive(t, i)
  \/ \E t \in Requests, k \in Writable : ConfigPatch(t, k) \/ ConfigDelete(t, k)

Spec == Init /\ [][Next]_vars

-----------------------------------------------------------------------------
(* A task that is not at its next write waits for one thing of its own: a  *)
(* write with the database, or an event with the kernel session's worker.  *)
Held(s, t) == Cardinality({n \in DOMAIN s : s[n].by = t})
TypeOK ==
  /\ \A k \in Keys : {db[k], cache[k]} \subseteq Values(k) \cup {None, "yes"}
  /\ \A w \in Range(queue) \cup Range(ran) : w.by \in Tasks /\ w.op.key \in Keys
  /\ \A t \in Tasks : task[t].at \in {"next", "db", "publishing"}
  /\ \A t \in Tasks :
       /\ Held(queue, t) + Held(ran, t) = IF task[t].at = "db" THEN 1 ELSE 0
       /\ Held(updates, t) = IF task[t].at = "publishing" THEN 1 ELSE 0
  /\ phase \in {"down", "migrating", "seeding", "ready"}
  /\ apart \subseteq Keys

(* "keeps cache / DB in lock-step on every write": a key nobody is writing *)
(* has one value, whatever requests overlap and wherever the server went   *)
(* down, unless it was unset while the cache did not have it yet.         *)
AtRest(k) == \A w \in Range(queue) \cup Range(ran) : w.op.key # k
LockStep(k) == AtRest(k) => cache[k] = db[k]
CacheTellsDb == phase # "down" => \A k \in Keys \ apart : LockStep(k)

(* Once the events about an instance are delivered, its client exists      *)
(* exactly if the instance is the plugin's and has a key, and was built    *)
(* with that key: edits take effect, deletions stop answering.             *)
ClientsFollow ==
  phase \in {"seeding", "ready"} =>
    \A i \in Instances :
      (\A u \in Range(updates) : u.key[1] # i) => clients[i] = ClientOf(i)

(* However often the first boots go down half-way, a boot that gets        *)
(* through leaves a complete bundled instance, active and with the key of  *)
(* the old configuration; what the marker says was seeded, was.            *)
SeedsWhole ==
  requests = 0 /\ (phase = "ready" \/ db[Seeded] # None) =>
    /\ db[Plugin(Bundled)] = "openai" /\ db[ApiKey(Bundled)] = "key1"
    /\ db[Active] = Bundled

-----------------------------------------------------------------------------
(* What the proofs need of the constants: the plugin's own configuration   *)
(* is not a provider instance's.                                           *)
Parameters ==
  /\ Bundled \in Instances /\ Legacy \notin InstanceKeys
  /\ "boot" \notin Requests
  /\ MaxRequests \in Nat /\ MaxDowns \in Nat
  /\ None \notin Instances \cup {"openai", "other", "key1", "key2", "yes"}

Data == Instances \cup {"openai", "other", "key1", "key2", "yes", None}
Op == {op \in [what : {"set", "unset", "default", "lift", "migrate"}, key : Keys, val : Data] :
         /\ op.what = "unset" => op.val = None
         /\ op.what = "migrate" => op.key \in {Legacy, Migrated}}
OnItsWay == {w \in [by : Tasks, op : Op, blind : BOOLEAN, hit : BOOLEAN] :
               w.blind => w.op.what = "unset"}
Update == [by : Tasks, key : Keys]

Types ==
  /\ db \in [Keys -> Data] /\ cache \in [Keys -> Data]
  /\ queue \in Seq(OnItsWay) /\ ran \in Seq(OnItsWay)
  /\ updates \in Seq(Update)
  /\ task \in [Tasks -> [at : {"next", "db", "publishing"}, ops : Seq(Op)]]
  /\ phase \in {"down", "migrating", "seeding", "ready"}
  /\ clients \in [Instances -> Data]
  /\ requests \in Nat /\ downs \in Nat /\ apart \subseteq Keys

(* A task waits for one write, then for one event, of its own.             *)
Different(s) == \A m, n \in DOMAIN s : s[m].by = s[n].by => m = n
Waits ==
  /\ \A t \in Tasks : task[t].at # "next" => task[t].ops # <<>>
  /\ \A n \in DOMAIN queue : task[queue[n].by].at = "db"
  /\ \A n \in DOMAIN ran : task[ran[n].by].at = "db"
  /\ \A n \in DOMAIN updates : task[updates[n].by].at = "publishing"
  /\ Different(queue) /\ Different(ran) /\ Different(updates)
  /\ \A m \in DOMAIN queue, n \in DOMAIN ran : queue[m].by # ran[n].by
  /\ phase = "down" => /\ queue = <<>> /\ ran = <<>> /\ updates = <<>>
                       /\ task = [t \in Tasks |-> NoTask]

(* ... and it is on its way.                                               *)
Owns(s, t) == \E n \in DOMAIN s : s[n].by = t
Awaits ==
  \A t \in Tasks :
    /\ task[t].at = "db" => Owns(queue, t) \/ Owns(ran, t)
    /\ task[t].at = "publishing" => Owns(updates, t)

(* Writes have values of their keys; only the boot's lift finds its value  *)
(* when it is issued.                                                      *)
ValuesOf(k) == Values(k) \cup {None, "yes"}
Fit(op) == op.val \in ValuesOf(op.key) /\ (op.what = "lift" => op.key = ApiKey(Bundled))
FitOp == {op \in Op : Fit(op)}
ValuesInv ==
  /\ \A k \in Keys : db[k] \in ValuesOf(k) /\ cache[k] \in ValuesOf(k)
  /\ \A n \in DOMAIN queue : Fit(queue[n].op)
  /\ \A n \in DOMAIN ran : Fit(ran[n].op)
  /\ \A t \in Tasks : \A n \in DOMAIN task[t].ops : Fit(task[t].ops[n])

(* What the cache will say of a key once the writes the database ran have  *)
(* resumed is what the database says; and no write of it is ahead of a     *)
(* blind unset.                                                            *)
Unwritten(k, s, m, n) == \A j \in m..n : s[j].op.key # k
Unsets(k, s, m, n) == \A j \in m..n : s[j].op.key = k => s[j].op.what = "unset"
BlindToNothing(k) ==
  /\ \A n \in DOMAIN ran :
       ran[n].blind /\ ran[n].op.key = k => cache[k] = None /\ Unsets(k, ran, 1, n)
  /\ \A n \in DOMAIN queue :
       queue[n].blind /\ queue[n].op.key = k =>
         cache[k] = None /\ Unsets(k, ran, 1, Len(ran)) /\ Unsets(k, queue, 1, n)
CatchesUp(k) ==
  /\ Unwritten(k, ran, 1, Len(ran)) => cache[k] = db[k]
  /\ \A n \in DOMAIN ran :
       ran[n].op.key = k /\ Unwritten(k, ran, n + 1, Len(ran)) => db[k] = ran[n].op.val
KeyInv(k) == BlindToNothing(k) /\ CatchesUp(k)

(* Before the first request only the boot writes.  It sets each of its     *)
(* keys to one value, in the order of its two lists.                       *)
Goal(k) ==
  IF k \in {Legacy, ApiKey(Bundled)} THEN "key1"
  ELSE IF k = Plugin(Bundled) THEN "openai"
  ELSE IF k = Active THEN Bundled ELSE "yes"
BootKeys == {Legacy, Migrated, Plugin(Bundled), ApiKey(Bundled), Active, Seeded}
Reached(s, n) ==
  /\ task["boot"].ops = SubSeq(s, n, Len(s))
  /\ \A j \in 1..(n - 1) : db[s[j].key] # None
BootInv ==
  /\ \A t \in Requests : task[t] = NoTask
  /\ apart = {}
  /\ \A k \in BootKeys : db[k] \in {None, Goal(k)}
  /\ db[Migrated] # None => db[Legacy] # None
  /\ db[Seeded] # None => \A k \in BootKeys : db[k] # None
  /\ phase = "migrating" => \E n \in 1..3 : Reached(Migration, n)
  /\ phase \in {"seeding", "ready"} =>
       db[Migrated] # None /\ \E n \in 1..5 : Reached(Seeding, n)
  /\ phase = "ready" => task["boot"].ops = <<>>
  /\ \A w \in Range(queue) \cup Range(ran) :
       /\ w.op.what # "unset" /\ w.op.key = Head(task["boot"].ops).key
       /\ w.op.val = Goal(w.op.key)
  /\ task["boot"].at = "publishing" => db[Head(task["boot"].ops).key] # None

ConfigInv ==
  /\ Parameters /\ Types /\ Waits
  /\ phase # "down" => \A k \in Keys \ apart : KeyInv(k)
  /\ ClientsFollow
  /\ requests = 0 => BootInv
=============================================================================
