---------------------------- MODULE SessionStore ----------------------------
(***************************************************************************)
(* kernel/session.py on files, as `yaya serve`, its web API and the        *)
(* `yaya session` commands use it: tapes that are opened by an id or by    *)
(* the suffix the session list shows, appended to, renamed, archived,      *)
(* reset and compacted, by a server that caches and restarts and by        *)
(* one-shot processes.  Inside the server a store call does not suspend;   *)
(* a command is a process of its own and interleaves at every file access. *)
(* A write of a line is one system call, which a killed process does not   *)
(* tear, and two archives of one tape are more than a second apart, so     *)
(* that their names differ.                                                *)
(***************************************************************************)
EXTENDS Integers, Sequences, FiniteSets, SequencesExt

CONSTANTS
  Sessions,      \* session ids of one workspace
  MaxMessages,   \* bound: messages persisted
  MaxCommands,   \* bound: CLI commands run
  MaxUpsets,     \* bound: archives, renames, restarts and killed commands
  None

(* <<s, 0>> is a session id; <<s, k + 1>> is the suffix under which the     *)
(* list shows the tape <<s, k>>.  tape_name_for names a tape after any id.  *)
Levels == 0..2
Ids == Sessions \X Levels
Tapes == Ids
Procs == {"serve", "cli"}

VARIABLES
  file,      \* the lines of each tape file; no lines, no file
  nextId,    \* _FileTapeStore._next_id of a process, 0 if not cached
  archives,  \* the files under .archive
  up,        \* whether the server runs
  tabs,      \* ids under which a browser connected to this server
  cache,     \* SessionPersister._sessions: the tape of an id
  cli,       \* the running command and the tape it works on
  commands, upsets,  \* so far
  messages,      \* history: the messages of each session
  mixed,     \* history: tapes a command wrote while the server was up
  pulled     \* history: sessions archived while a browser was on them

serverVars == <<up, tabs, cache>>
historyVars == <<messages, mixed, pulled>>
countVars == <<commands, upsets>>
vars == <<file, nextId, archives, serverVars, cli, countVars, historyVars>>

Entry(kind, val) == [id |-> 0, kind |-> kind, val |-> val]
Start == Entry("start", 0)
Exists(t) == file[t] # <<>>
IsAnchor(e) == e.kind \in {"start", "name", "compaction"}

(* list_sessions: the tapes whose row carries the id x, at most one *)
Rows(x) == {t \in Tapes : t[1] = x[1] /\ t[2] + 1 = x[2] /\ Exists(t)}

(* SessionStore.open: the derived name, else the tape the suffix stands for *)
Resolve(x) == IF Exists(x) \/ Rows(x) = {} THEN x ELSE CHOOSE t \in Rows(x) : TRUE

(* _ensure_bootstrap_anchor *)
Seed(t) == IF \E i \in DOMAIN file[t] : IsAnchor(file[t][i]) THEN <<>> ELSE <<Start>>

FreshId(p, t) == IF nextId[p][t] = 0 THEN Len(file[t]) + 1 ELSE nextId[p][t]

(* _FileTapeStore.append, several times *)
Stamped(new, first) == [i \in DOMAIN new |-> [new[i] EXCEPT !.id = first + i - 1]]
Write(p, t, new) ==
  LET first == FreshId(p, t) IN
  /\ file' = [file EXCEPT ![t] = @ \o Stamped(new, first)]
  /\ nextId' = IF new = <<>> THEN nextId ELSE [nextId EXCEPT ![p][t] = first + Len(new)]

NoIds == [t \in Tapes |-> 0]
NoCommand == [at |-> "idle", tape |-> None]

Init ==
  /\ file = [t \in Tapes |-> <<>>] /\ nextId = [p \in Procs |-> NoIds]
  /\ archives = {}
  /\ up = TRUE /\ tabs = {} /\ cache = [x \in Ids |-> None]
  /\ cli = NoCommand /\ commands = 0 /\ upsets = 0
  /\ messages = [s \in Sessions |-> 0] /\ mixed = {} /\ pulled = {}

Upset == upsets < MaxUpsets /\ upsets' = upsets + 1

(* _archive_tape writes a file named after the tape and the second *)
Archived(t) == archives \cup {[tape |-> t, lines |-> file[t]]}

DownKeepsSessions ==
  /\ up' = FALSE /\ tabs' = {}
  /\ UNCHANGED cache
  /\ nextId' = [nextId EXCEPT !["serve"] = NoIds]

Down ==
  /\ up' = FALSE /\ tabs' = {}
  /\ cache' = [x \in Ids |-> None]
  /\ nextId' = [nextId EXCEPT !["serve"] = NoIds]

-----------------------------------------------------------------------------
(* A browser opens a page: a new session, or with ?session= a listed one    *)
Fresh(x) == x[2] = 0 /\ messages[x[1]] = 0 /\ \A t \in Tapes : t[1] = x[1] => ~Exists(t)

Connect(x) ==
  /\ up /\ x \notin tabs
  /\ Fresh(x) \/ Rows(x) # {}
  /\ tabs' = tabs \cup {x}
  /\ UNCHANGED <<file, nextId, archives, up, cache, cli, countVars, historyVars>>

PersistUnresolved(x) ==
  LET opening == IF cache[x] = None THEN Seed(x) ELSE <<>> IN
  /\ up /\ x \in tabs /\ messages[x[1]] < MaxMessages
  /\ messages' = [messages EXCEPT ![x[1]] = @ + 1]
  /\ cache' = [cache EXCEPT ![x] = x]
  /\ Write("serve", x, Append(opening, Entry("message", messages[x[1]] + 1)))
  /\ UNCHANGED <<archives, up, tabs, cli, countVars, mixed, pulled>>

(* The server.  The persister opens a session once and keeps its tape.      *)
Persist(x) ==
  LET t == IF cache[x] = None THEN Resolve(x) ELSE cache[x]
      opening == IF cache[x] = None THEN Seed(t) ELSE <<>> IN
  /\ up /\ x \in tabs /\ messages[x[1]] < MaxMessages
  /\ messages' = [messages EXCEPT ![x[1]] = @ + 1]
  /\ cache' = [cache EXCEPT ![x] = t]
  /\ Write("serve", t, Append(opening, Entry("message", messages[x[1]] + 1)))
  /\ UNCHANGED <<archives, up, tabs, cli, countVars, mixed, pulled>>

(* the loop's history is opened anew for each turn, whatever is cached; the *)
(* web API opens the listed sessions only                                   *)
OpenToRead(x) ==
  LET t == Resolve(x) IN
  /\ up /\ Seed(t) # <<>>
  /\ x \in tabs \/ Rows(x) # {}
  /\ Write("serve", t, Seed(t))
  /\ UNCHANGED <<archives, serverVars, cli, countVars, historyVars>>

(* PATCH /api/sessions/{id}: the row must be listed *)
Rename(x) ==
  LET t == Resolve(x) IN
  /\ up /\ Upset
  /\ Rows(x) # {}
  /\ Write("serve", t, Append(Seed(t), Entry("name", 0)))
  /\ UNCHANGED <<archives, serverVars, cli, commands, historyVars>>

ArchiveRemovesFirst(x) ==
  LET t == Resolve(x) IN
  /\ up /\ Upset
  /\ x[2] > 0 /\ Exists(t)
  /\ file' = [file EXCEPT ![t] = <<>>]
  /\ pulled' = pulled \cup {y[1] : y \in {z \in tabs : z[1] = x[1]}}
  /\ \/ /\ archives' = Archived(t)
        /\ nextId' = [nextId EXCEPT !["serve"][t] = 0]
        /\ UNCHANGED serverVars
     \/ Down /\ UNCHANGED archives
  /\ UNCHANGED <<cli, commands, messages, mixed>>

(* DELETE /api/sessions/{id}: the dump, then the removal of the file; the   *)
(* process may end in between                                               *)
Archive(x) ==
  LET t == Resolve(x) IN
  /\ up /\ Upset
  /\ x[2] > 0 /\ Exists(t)
  /\ archives' = Archived(t)
  /\ pulled' = pulled \cup {y[1] : y \in {z \in tabs : z[1] = x[1]}}
  /\ \/ /\ file' = [file EXCEPT ![t] = <<>>]
        /\ nextId' = [nextId EXCEPT !["serve"][t] = 0]
        /\ UNCHANGED serverVars
     \/ /\ Down
        /\ UNCHANGED file
  /\ UNCHANGED <<cli, commands, messages, mixed>>

Stop ==
  /\ up /\ Upset
  /\ Down
  /\ UNCHANGED <<file, archives, cli, commands, historyVars>>

Restart ==
  /\ ~up
  /\ up' = TRUE
  /\ mixed' = mixed \cup ({cli.tape} \ {None})
  /\ UNCHANGED <<file, nextId, archives, tabs, cache, cli, countVars, messages, pulled>>

-----------------------------------------------------------------------------
(* A command opens the session, by an id the user may still remember; then  *)
CliOpen(x) ==
  LET t == Resolve(x) IN
  /\ cli = NoCommand /\ commands < MaxCommands
  /\ Rows(x) # {} \/ (x[2] = 0 /\ messages[x[1]] > 0)
  /\ commands' = commands + 1
  /\ cli' = [at |-> "opened", tape |-> t]
  /\ mixed' = IF up THEN mixed \cup {t} ELSE mixed
  /\ Write("cli", t, Seed(t))
  /\ UNCHANGED <<archives, serverVars, upsets, messages, pulled>>

(* `session show`, and `session compact` of an empty tape, stop there, *)
Done == cli' = NoCommand /\ nextId' = [nextId EXCEPT !["cli"] = NoIds]
CliAppends(e) ==
  file' = [file EXCEPT ![cli.tape] = Append(@, [e EXCEPT !.id = FreshId("cli", cli.tape)])]

CliReturns ==
  /\ cli.at = "opened"
  /\ Done
  /\ UNCHANGED <<file, archives, serverVars, countVars, historyVars>>

(* `session compact` appends an anchor, *)
CliCompact ==
  /\ cli.at = "opened"
  /\ CliAppends(Entry("compaction", 0)) /\ Done
  /\ UNCHANGED <<archives, serverVars, countVars, historyVars>>

(* `session archive` is reset(): dump, remove, seed anew; *)
CliDump ==
  /\ cli.at = "opened"
  /\ archives' = Archived(cli.tape)
  /\ cli' = [cli EXCEPT !.at = "dumped"]
  /\ UNCHANGED <<file, nextId, serverVars, countVars, historyVars>>

CliRemove ==
  /\ cli.at = "dumped"
  /\ file' = [file EXCEPT ![cli.tape] = <<>>]
  /\ nextId' = [nextId EXCEPT !["cli"][cli.tape] = 0]
  /\ cli' = [cli EXCEPT !.at = "removed"]
  /\ UNCHANGED <<archives, serverVars, countVars, historyVars>>

CliSeed ==
  /\ cli.at = "removed"
  /\ CliAppends(Start) /\ Done
  /\ UNCHANGED <<archives, serverVars, countVars, historyVars>>

(* and any command may be killed. *)
CliDies ==
  /\ cli.at \in {"dumped", "removed"} /\ Upset
  /\ Done
  /\ UNCHANGED <<file, archives, serverVars, commands, historyVars>>

CliStep == CliReturns \/ CliCompact \/ CliDump \/ CliRemove \/ CliSeed \/ CliDies

Next ==
  \/ Stop \/ Restart \/ CliStep
  \/ \E x \in Ids : Connect(x) \/ Persist(x) \/ OpenToRead(x) \/ Rename(x) \/ Archive(x) \/ CliOpen(x)

Spec == Init /\ [][Next]_vars

-----------------------------------------------------------------------------
TypeOK ==
  /\ \A t \in Tapes : \A i \in DOMAIN file[t] :
       file[t][i].kind \in {"start", "message", "name", "compaction"}
  /\ nextId \in [Procs -> [Tapes -> Nat]]
  /\ tabs \subseteq Ids /\ cache \in [Ids -> Tapes \cup {None}]
  /\ \A x \in Ids : cache[x] # None => x \in tabs
  /\ cli.at \in {"idle", "opened", "dumped", "removed"} /\ cli.tape \in Tapes \cup {None}
  /\ mixed \subseteq Tapes /\ pulled \subseteq Sessions

Messages(lines) == {lines[i].val : i \in {j \in DOMAIN lines : lines[j].kind = "message"}}
OneWriter(s) == \A t \in mixed : t[1] # s
Settled(s) == OneWriter(s) /\ s \notin pulled

(* "There is no hard-delete": whatever is archived, renamed, compacted or   *)
(* restarted, a message of a session is on one of its tapes or in one of    *)
(* its archives, if no command wrote a tape the server had open.            *)
OnRecord(s) ==
  (UNION {Messages(file[t]) : t \in {u \in Tapes : u[1] = s}})
    \cup (UNION {Messages(a.lines) : a \in {b \in archives : b.tape[1] = s}})
NothingLost == \A s \in Sessions : OneWriter(s) => 1..messages[s] = OnRecord(s)

(* Entry ids are unique on a tape and grow: replay cursors and child links  *)
(* point at them.  Every process caches its own next id.                    *)
IdsIncrease ==
  \A t \in Tapes \ mixed : \A i, j \in DOMAIN file[t] : i < j => file[t][i].id < file[t][j].id

(* What is persisted under an id is read back under it, by the loop's       *)
(* history, the web API and a restarted server alike, if nobody archived    *)
(* the session under an open page.                                          *)
ReadsWhatItWrote == \A x \in Ids : cache[x] # None /\ Settled(x[1]) => Resolve(x) = cache[x]

(* The id a row shows opens that row, and no tape of a session is listed    *)
(* twice or forked by opening it.                                           *)
RowsOpenThemselves ==
  \A t \in Tapes : Exists(t) /\ Settled(t[1]) => Resolve(<<t[1], t[2] + 1>>) = t

(* A tape begins with its session/start anchor, which dates it.             *)
BootstrapFirst ==
  \A t \in Tapes : Exists(t) /\ Settled(t[1]) => file[t][1].kind = "start"

-----------------------------------------------------------------------------
(* What the proofs need of the constants.                                   *)
Parameters == None \notin Tapes

Line == [id : Nat, kind : {"start", "message", "name", "compaction"}, val : Nat]
Dump == [tape : Tapes, lines : Seq(Line)]
Command == [at : {"opened", "dumped", "removed"}, tape : Tapes]

Types ==
  /\ file \in [Tapes -> Seq(Line)] /\ nextId \in [Procs -> [Tapes -> Nat]]
  /\ archives \in SUBSET Dump /\ up \in BOOLEAN /\ tabs \in SUBSET Ids
  /\ cache \in [Ids -> Tapes \cup {None}]
  /\ \A x \in Ids : cache[x] # None => x \in tabs /\ cache[x][1] = x[1]
  /\ cli \in Command \cup {NoCommand}
  /\ messages \in [Sessions -> Nat] /\ mixed \in SUBSET Tapes /\ pulled \in SUBSET Sessions

(* A process knows ids only while it runs, and a command that runs beside   *)
(* the server has marked its tape; otherwise it finds it as it left it.     *)
ProcInv ==
  /\ ~up => tabs = {} /\ nextId["serve"] = NoIds
  /\ \A t \in Tapes : nextId["cli"][t] # 0 => cli.tape = t
  /\ up => cli.tape \in mixed \cup {None}
  /\ cli.tape \notin mixed =>
       /\ cli.at = "opened" => Exists(cli.tape)
       /\ cli.at = "dumped" => [tape |-> cli.tape, lines |-> file[cli.tape]] \in archives
       /\ cli.at = "removed" => ~Exists(cli.tape)

(* Where one process writes at a time, ids are the positions, and whoever   *)
(* has cached the next one is right.                                        *)
IdInv ==
  \A t \in Tapes \ mixed :
    /\ \A i \in DOMAIN file[t] : file[t][i].id = i
    /\ \A p \in Procs : nextId[p][t] \in {0, Len(file[t]) + 1}

(* A session that nobody disturbed has one tape, its own, and all its pages *)
(* are about it.                                                            *)
SettledInv ==
  \A s \in Sessions : Settled(s) =>
    /\ \A t \in Tapes : t[1] = s /\ Exists(t) => t = <<s, 0>> /\ file[t][1].kind = "start"
    /\ \A x \in tabs : x[1] = s => x[2] = 0 \/ (x[2] = 1 /\ Exists(<<s, 0>>))
    /\ \A x \in Ids : x[1] = s /\ cache[x] # None => cache[x] = <<s, 0>> /\ Exists(<<s, 0>>)
    /\ cli # NoCommand /\ cli.tape[1] = s => cli.tape = <<s, 0>>

StoreInv == Types /\ ProcInv /\ IdInv /\ SettledInv /\ NothingLost
=============================================================================
