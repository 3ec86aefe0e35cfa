---------------------------- MODULE SqliteMemory ----------------------------
(***************************************************************************)
(* The memory_sqlite plugin: one connection, used on the one thread of an  *)
(* executor, whose jobs the handlers of all sessions queue and wait for,   *)
(* until the bus cancels them or the process dies; on_unload queues the    *)
(* close behind them.  A row's time is the order in which the writes were  *)
(* asked for: entries that bring a "ts", and the filter of a query, are    *)
(* left out.                                                               *)
(***************************************************************************)
EXTENDS Integers, Sequences, FiniteSets, SequencesExt

CONSTANTS
  Sessions,
  Entries,   \* ids of entries
  TopK,      \* the k of every query
  MaxJobs,   \* bound: queries and writes
  None

VARIABLES
  plugin,    \* idle, loading, failed, loaded, unloading, unloaded
  conn,      \* _conn is set
  executor,  \* _db_executor is set
  waits,     \* session -> the job its handler awaits
  result,    \* session -> what that job came to
  submitted, \* how many queries and writes there were
  kept,      \* history: rows whose write was acknowledged
  jobs,      \* jobs submitted, not begun
  thread,    \* the job the thread runs
  open,      \* the SQLite connection is open
  rows       \* the table, on disk

pluginVars == <<plugin, conn, executor>>
handlerVars == <<waits, result, submitted, kept>>
threadVars == <<jobs, thread, open, rows>>
vars == <<pluginVars, handlerVars, threadVars>>

NoJobs == [s \in Sessions |-> None]

Init ==
  /\ plugin = "idle" /\ conn = FALSE /\ executor = FALSE
  /\ waits = NoJobs /\ result = NoJobs /\ submitted = 0 /\ kept = {}
  /\ jobs = <<>> /\ thread = None /\ open = FALSE /\ rows = <<>>

(* "seen" is history: what was acknowledged when the job was submitted     *)
Job(kind, s, id, n) == [kind |-> kind, session |-> s, id |-> id, n |-> n, seen |-> kept]
Maintenance(kind) == Job(kind, None, None, 0)
Row(job) == [id |-> job.id, n |-> job.n]

-----------------------------------------------------------------------------
(* The event loop.                                                         *)
OnLoad ==
  /\ plugin = "idle"
  /\ plugin' = "loading" /\ executor' = TRUE
  /\ jobs' = Append(jobs, Maintenance("open"))
  /\ UNCHANGED <<conn, handlerVars, thread, open, rows>>

Loaded ==
  /\ plugin = "loading" /\ jobs = <<>> /\ thread = None
  /\ plugin' = IF open THEN "loaded" ELSE "failed"
  /\ conn' = open
  /\ UNCHANGED <<executor, handlerVars, threadVars>>

(* from the check of _conn in on_event to here nothing is awaited *)
RunDb(s, kind, id) ==
  LET job == Job(kind, s, id, submitted + 1) IN
  /\ conn /\ waits[s] = None /\ submitted < MaxJobs
  /\ submitted' = submitted + 1
  /\ jobs' = Append(jobs, job)
  /\ waits' = [waits EXCEPT ![s] = job]
  /\ UNCHANGED <<pluginVars, result, kept, thread, open, rows>>

HandleQuery(s) == RunDb(s, "query", None)
HandleWrite(s) == \E id \in Entries : RunDb(s, "write", id)

Leaves(s) == waits' = [waits EXCEPT ![s] = None] /\ result' = [result EXCEPT ![s] = None]

(* a query emits its hits; a duplicate id is logged *)
Resume(s) ==
  /\ result[s] # None
  /\ Leaves(s)
  /\ kept' = IF result[s].came = "inserted" THEN kept \cup {Row(waits[s])} ELSE kept
  /\ UNCHANGED <<pluginVars, submitted, threadVars>>

(* the bus's timeout: a job not begun goes with its future *)
Cancel(s) ==
  /\ waits[s] # None
  /\ Leaves(s)
  /\ jobs' = Remove(jobs, waits[s])
  /\ UNCHANGED <<pluginVars, submitted, kept, thread, open, rows>>

OnUnload ==
  /\ plugin = "loaded"
  /\ plugin' = "unloading" /\ conn' = FALSE
  /\ jobs' = Append(jobs, Maintenance("close"))
  /\ UNCHANGED <<executor, handlerVars, thread, open, rows>>

(* executor.shutdown(wait=True) holds the event loop while the thread works *)
Shutdown ==
  /\ plugin = "unloading" /\ ~open
  /\ jobs = <<>> /\ thread = None
  /\ plugin' = "unloaded" /\ executor' = FALSE
  /\ UNCHANGED <<conn, handlerVars, threadVars>>

(* the process dies and another one starts on the same file *)
Restart ==
  /\ plugin # "idle"
  /\ plugin' = "idle" /\ conn' = FALSE /\ executor' = FALSE
  /\ waits' = NoJobs /\ result' = NoJobs
  /\ jobs' = <<>> /\ thread' = None /\ open' = FALSE
  /\ UNCHANGED <<submitted, kept, rows>>

-----------------------------------------------------------------------------
(* The thread.                                                             *)
Begin ==
  /\ thread = None /\ jobs # <<>>
  /\ thread' = Head(jobs) /\ jobs' = Tail(jobs)
  /\ UNCHANGED <<pluginVars, handlerVars, open, rows>>

Came(what, hits) == [came |-> what, hits |-> hits]
Ends(what) ==
  /\ thread' = None
  /\ result' = [s \in Sessions |-> IF waits[s] = thread THEN what ELSE result[s]]
  /\ UNCHANGED <<pluginVars, waits, submitted, kept, jobs>>

(* the file may be unusable *)
OpenDb ==
  /\ thread # None /\ thread.kind = "open"
  /\ open' \in BOOLEAN
  /\ Ends(None) /\ UNCHANGED rows

InsertEntry ==
  /\ thread # None /\ thread.kind = "write"
  /\ IF \E i \in DOMAIN rows : rows[i].id = thread.id
     THEN Ends(Came("duplicate", <<>>)) /\ UNCHANGED rows
     ELSE Ends(Came("inserted", <<>>)) /\ rows' = Append(rows, Row(thread))
  /\ UNCHANGED open

(* the k latest, latest first *)
QueryLike ==
  /\ thread # None /\ thread.kind = "query"
  /\ LET latest == SetToSortSeq(ToSet(rows), LAMBDA a, b : a.n > b.n)
         hits == SubSeq(latest, 1, IF TopK < Len(rows) THEN TopK ELSE Len(rows)) IN
       Ends(Came("hits", hits))
  /\ UNCHANGED <<open, rows>>

CloseDb ==
  /\ thread # None /\ thread.kind = "close"
  /\ open' = FALSE
  /\ Ends(None) /\ UNCHANGED rows

Next ==
  \/ OnLoad \/ Loaded \/ OnUnload \/ Shutdown \/ Restart
  \/ Begin \/ OpenDb \/ InsertEntry \/ QueryLike \/ CloseDb
  \/ \E s \in Sessions : HandleQuery(s) \/ HandleWrite(s) \/ Resume(s) \/ Cancel(s)

Spec == Init /\ [][Next]_vars

-----------------------------------------------------------------------------
(* A query misses no row acknowledged before it was asked, unless k newer  *)
(* ones displace it, and shows nothing that is not on disk; what was       *)
(* acknowledged outlives the process.                                      *)
Remembers ==
  /\ kept \subseteq ToSet(rows)
  /\ \A s \in Sessions : result[s] # None /\ result[s].came = "hits" =>
       LET hits == result[s].hits IN
       /\ ToSet(hits) \subseteq ToSet(rows)
       /\ \A i \in 1 .. Len(hits) - 1 : hits[i].n > hits[i + 1].n
       /\ \A row \in waits[s].seen \ ToSet(hits) :
            Len(hits) = TopK /\ \A i \in DOMAIN hits : hits[i].n > row.n

(* Nothing touches a connection that is not open, a handler waits for a    *)
(* job that will run or has run, and on_unload, once the connection is     *)
(* closed, finds the thread with nothing to do: the event loop is not held.*)
OneUser ==
  /\ thread # None /\ thread.kind # "open" => open
  /\ \A s \in Sessions :
       waits[s] # None => result[s] # None \/ waits[s] = thread \/ waits[s] \in ToSet(jobs)
  /\ plugin = "unloading" /\ ~open => jobs = <<>> /\ thread = None

=============================================================================
