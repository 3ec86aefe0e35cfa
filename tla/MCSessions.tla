---------------------------- MODULE MCSessions ----------------------------
(* One run of five modules: a behaviour is one of the memory of a session,  *)
(* of its connections, of its files, of the ways its tape is shown, or of   *)
(* the memory plugin, and "part" says which.  The modules share no state;   *)
(* they take turns with the same variables, so that a state is as large as  *)
(* the largest of them.                                                     *)
EXTENDS Integers, TLC

CONSTANTS MaxTurns, MaxOthers, Threshold, MaxRetries, MaxUpsets, Tasks,
          Conns, SinceEntries, MaxConnections, MaxEvents, Sessions,
          MaxMessages, MaxCommands, MaxCalls, MaxExtras, Entries, TopK,
          MaxJobs, None

VARIABLES part, v1, v2, v3, v4, v5, v6, v7, v8, v9, v10, v11, v12, v13, v14,
                v15, v16, v17, v18

vars == <<part, v1, v2, v3, v4, v5, v6, v7, v8, v9, v10, v11, v12, v13, v14,
                v15, v16, v17, v18>>

Tape == INSTANCE SessionTapeProofs WITH
  tape <- v1, chan <- v2, event <- v3, step <- v4, turn <- v5,
  stamped <- v6, hist <- v7, users <- v8, others <- v9, task <- v10,
  inflight <- v11, attempts <- v12, disabled <- v13, stopped <- v14,
  upsets <- v15, delivered <- v16, lost <- v17, failed <- v18

Context == INSTANCE SessionContext WITH
  tape <- v1, worker <- v2, manager <- v3, contexts <- v4, shut <- v5,
  attached <- v6, home <- v7, phase <- v8, replay <- v9, sweeping <- v10,
  closing <- v11, got <- v12, owed <- v13, missed <- v14, said <- v15

Store == INSTANCE SessionStore WITH
  file <- v1, nextId <- v2, archives <- v3, up <- v4, tabs <- v5,
  cache <- v6, cli <- v7, commands <- v8, upsets <- v9, messages <- v10,
  mixed <- v11, pulled <- v12

Transcript == INSTANCE Transcript WITH
  turns <- v1, turn <- v2, calls <- v3, stopping <- v4, running <- v5,
  extras <- v6, tape <- v7, live <- v8, odd <- v9, late <- v10

Memory == INSTANCE SqliteMemory WITH
  Sessions <- {"s1", "s2"}, plugin <- v1, conn <- v2, executor <- v3,
  waits <- v4, result <- v5, submitted <- v6, kept <- v7, jobs <- v8,
  thread <- v9, open <- v10, rows <- v11

Symmetry == Permutations(Conns) \cup Permutations(Tasks)

(* What the proofs about the components ask of the constants.               *)
ASSUME TapeParameters == Tape!Parameters
ASSUME ContextParameters == Context!Parameters
ASSUME StoreParameters == Store!Parameters

Init ==
  \/ /\ part = "tape" /\ Tape!Init
  \/ /\ part = "context" /\ Context!Init
     /\ v16 = None /\ v17 = None /\ v18 = None
  \/ /\ part = "store" /\ Store!Init
     /\ v13 = None /\ v14 = None /\ v15 = None /\ v16 = None /\ v17 = None /\ v18 = None
  \/ /\ part = "transcript" /\ Transcript!Init
     /\ v11 = None /\ v12 = None /\ v13 = None /\ v14 = None /\ v15 = None /\ v16 = None /\ v17 = None /\ v18 = None
  \/ /\ part = "memory" /\ Memory!Init
     /\ v12 = None /\ v13 = None /\ v14 = None /\ v15 = None /\ v16 = None /\ v17 = None /\ v18 = None

Next ==
  /\ UNCHANGED part
  /\ \/ part = "tape" /\ Tape!Next
     \/ part = "context" /\ Context!Next /\ UNCHANGED <<v16, v17, v18>>
     \/ part = "store" /\ Store!Next /\ UNCHANGED <<v13, v14, v15, v16, v17, v18>>
     \/ part = "transcript" /\ Transcript!Next /\ UNCHANGED <<v11, v12, v13, v14, v15, v16, v17, v18>>
     \/ part = "memory" /\ Memory!Next /\ UNCHANGED <<v12, v13, v14, v15, v16, v17, v18>>

Spec == Init /\ [][Next]_vars

-----------------------------------------------------------------------------
(* Types, and what a closed context or a stopped server has forgotten.      *)
TypeOK ==
  /\ part = "tape" => Tape!TypeOK
  /\ part = "context" => Context!TypeOK
  /\ part = "store" => Store!TypeOK

(* The tape holds what was delivered and not reported lost, in that order,  *)
(* whoever else appends in between (session_persister.py:136-154).          *)
TapeTellsTheSession == part = "tape" => Tape!TapeTellsTheSession

(* A message reaches the model verbatim or in one summary, never in two     *)
(* (compaction.py:270-303, loop.py:248-290).                                *)
RepresentedOnce == part = "tape" => Tape!RepresentedOnce

(* A turn sees its own message once, at the end of its history              *)
(* (loop.py:598-625).                                                       *)
OwnMessageOnce == part = "tape" => Tape!OwnMessageOnce

(* A session has one compaction at a time; a failure is told once and ends  *)
(* the trying (compaction.py:421-540).                                      *)
OneCompaction == part = "tape" => Tape!OneCompaction /\ Tape!ToldOnce

(* A served connection has heard every event from its starting point on,    *)
(* and whoever leaves a context is told so (session_context.py:378-448).    *)
Hears == part = "context" => Context!Hears /\ Context!Goodbye

(* A connection hears events in tape order, live ones after its replay      *)
(* (session_context.py:484-570).                                            *)
InOrder == part = "context" => Context!InOrder

(* A message is on a tape of its session or in an archive, and entry ids    *)
(* grow along a tape (session.py:314-344, 959-1007).                        *)
NothingLost == part = "store" => Store!NothingLost /\ Store!IdsIncrease

(* What is persisted under an id is read back under it, the id a row shows  *)
(* opens that row, and a tape begins with its start anchor                  *)
(* (session.py:873-957, 1109-1122); a reloaded tab shows what it showed and *)
(* the histories for the model agree (chat-shell.ts:537-587,                *)
(* api.py:315-424, loop.py:248-290, tape_context.py:60-240); a memory query *)
(* finds what was acknowledged before it (memory_sqlite/plugin.py:142-251). *)
ReadsWhatItWrote ==
  /\ part = "store" => Store!ReadsWhatItWrote /\ Store!RowsOpenThemselves /\ Store!BootstrapFirst
  /\ part = "transcript" =>
       Transcript!ReloadShowsTheSame /\ Transcript!HistoriesAgree /\ Transcript!OwnResult
  /\ part = "memory" => Memory!Remembers /\ Memory!OneUser
=============================================================================
