---------------------------- MODULE SessionTape ----------------------------
(***************************************************************************)
(* The memory of one session: its append-only tape, those who write it and *)
(* those who read it back.                                                 *)
(*                                                                         *)
(* The session persister (kernel/session_persister.py) mirrors the user's  *)
(* and the assistant's messages onto the tape, as the session's bus worker *)
(* delivers them.  A turn (kernel/loop.py) reads its history back and      *)
(* stamps an anchor with the provider it used; the web API may rename the  *)
(* session, which is an anchor too.  The compaction manager                *)
(* (kernel/compaction.py) watches the worker's events and, when too much   *)
(* has been said since the last anchor, runs a task of its own that        *)
(* summarises and appends a compaction anchor: readers then see the        *)
(* summary in place of all that precedes it.                               *)
(*                                                                         *)
(* A conversation is made of messages; every other event of the session is *)
(* mirrored too and counts for the compaction threshold, but carries       *)
(* nothing a history is made of.  A summary is the set of messages it was  *)
(* made from.                                                              *)
(***************************************************************************)
EXTENDS Integers, Sequences, FiniteSets, SequencesExt, Positions

CONSTANTS
  MaxTurns,       \* bound: user messages
  MaxOthers,      \* bound: events of a turn that are not messages
  Threshold,      \* threshold_tokens, in entries
  MaxRetries,     \* _MAX_RETRIES
  MaxUpsets,      \* bound: renames, failed writes, failed summaries
  Tasks,          \* bound: compaction tasks alive
  None

Turns == 1..MaxTurns
User(t) == <<"user", t>>
Assistant(t) == <<"assistant", t>>
Other(n) == <<"other", n>>
Message == {"user", "assistant"} \X Turns
Event == Message \cup {Other(n) : n \in 1..MaxOthers}

(* _write_entry: a message, or a generic event entry.                      *)
Entry(ev) == [kind |-> IF ev \in Message THEN "message" ELSE "event", msg |-> ev, sum |-> {}]
Anchor == [kind |-> "anchor", msg |-> None, sum |-> {}]
CompactionAnchor(sum) == [kind |-> "compaction", msg |-> None, sum |-> sum]

(* What is assumed of the constants.                                       *)
Parameters ==
  /\ MaxTurns \in Nat /\ MaxOthers \in Nat /\ MaxUpsets \in Nat
  /\ Threshold \in Nat /\ MaxRetries \in Nat \ {0}
  /\ None \notin Event \cup Tasks

VARIABLES
  tape,       \* the entries of the session's tape
  chan,       \* events queued on the session
  event,      \* the event the session's worker delivers, or None
  step,       \* the next kernel handler of that event: loop, persist or check
  turn,       \* where each turn's task is
  stamped,    \* live turns that have their provider anchor
  hist,       \* the history each live turn loaded
  users,      \* user messages sent so far
  others,     \* other events published so far
  task,       \* compaction tasks and what they captured
  inflight,   \* _inflight[session]
  attempts,   \* _attempts[session]
  disabled,   \* session in _disabled
  stopped,    \* serve's shutdown has begun: manager and persister stopped, store closed
  upsets,     \* how many of those so far
  delivered,  \* history: messages whose delivery to the persister is over
  lost,       \* history: those of them that were not written
  failed      \* history: terminal session.compaction.failed events

vars == <<tape, chan, event, step, turn, stamped, hist, users, others, task, inflight, attempts,
          disabled, stopped, upsets, delivered, lost, failed>>
turnVars == <<turn, stamped, hist>>
compactionVars == <<task, inflight, attempts, disabled, failed>>
workerVars == <<chan, event, step, users, others, delivered, lost>>

-----------------------------------------------------------------------------
(* What the readers make of a tape.                                        *)

(* after_last_anchor: what is behind the last anchor of any kind.          *)
Window(tp) ==
  {j \in DOMAIN tp : \A k \in j..Len(tp) : tp[k].kind \in {"message", "event"}}

Messages(tp, at) == {tp[j].msg : j \in {i \in at : tp[i].kind = "message"}}

(* project_entries_to_messages: a compaction anchor replaces everything    *)
(* before it by its summary; other anchors are skipped.                    *)
Compactions(tp) == {i \in DOMAIN tp : tp[i].kind = "compaction"}

Summary(tp) ==
  UNION {tp[i].sum : i \in {k \in Compactions(tp) : \A j \in Compactions(tp) : j <= k}}

VerbatimAtAll(tp) == {i \in DOMAIN tp : tp[i].kind = "message"}
VerbatimAt(tp) ==
  {i \in DOMAIN tp : tp[i].kind = "message" /\ \A j \in Compactions(tp) : j < i}

Verbatim(tp) ==
  LET kept == Listed(tp, VerbatimAt(tp))
  IN  [i \in DOMAIN kept |-> kept[i].msg]

(* _load_history: the turn's own message is dropped if it is the last one  *)
(* on the tape, and put at the end.                                        *)
HistoryUndeduped(tp, t) == Append(Verbatim(tp), User(t))

History(tp, t) ==
  LET said == Verbatim(tp)
  IN  Append(IF said # <<>> /\ Last(said) = User(t) THEN Front(said) ELSE said, User(t))

-----------------------------------------------------------------------------
Idle == [pc |-> "off", captured |-> {}]

(* open: a new tape gets its session/start anchor.                         *)
Init ==
  /\ tape = <<Anchor>>
  /\ chan = <<>> /\ event = None /\ step = "loop"
  /\ turn = [t \in Turns |-> "off"]
  /\ stamped = {}
  /\ hist = [t \in Turns |-> <<>>]
  /\ users = 0 /\ others = 0
  /\ task = [k \in Tasks |-> Idle]
  /\ inflight = None /\ attempts = 0 /\ disabled = FALSE
  /\ stopped = FALSE
  /\ upsets = 0
  /\ delivered = <<>> /\ lost = {} /\ failed = 0

(* The adapter publishes a user message.                                   *)
SendMessage ==
  /\ users < MaxTurns
  /\ users' = users + 1
  /\ chan' = Append(chan, User(users + 1))
  /\ UNCHANGED <<tape, event, step, others, turnVars, compactionVars, stopped, upsets,
                 delivered, lost>>

(* The worker takes the next event.  A user message goes to the loop       *)
(* first; the persister and the manager subscribe to every kind.           *)
Deliver ==
  /\ event = None /\ chan # <<>>
  /\ chan' = Tail(chan)
  /\ step' = IF Head(chan)[1] = "user" THEN "loop" ELSE "persist"
  /\ event' = Head(chan)
  /\ UNCHANGED <<tape, turnVars, users, others, compactionVars, stopped, upsets,
                 delivered, lost>>

(* AgentLoop._on_user_message: the running turn is cancelled, the new one  *)
(* spawned.                                                                *)
LoopHandles ==
  /\ event # None /\ step = "loop"
  /\ turn' = [t \in Turns |-> IF t = event[2] THEN "load"
                              ELSE IF turn[t] # "off" THEN "over" ELSE "off"]
  /\ hist' = [t \in Turns |-> <<>>] /\ stamped' = {}
  /\ step' = "persist"
  /\ UNCHANGED <<tape, chan, event, users, others, delivered, lost,
                 compactionVars, stopped, upsets>>

(* SessionPersister._on_event: append the message; when the store fails,   *)
(* report it and go on.  After the shutdown nothing is written: the        *)
(* persister is unsubscribed, or opening the session fails.                *)
PersistInFront ==
  /\ event # None /\ step = "persist"
  /\ step' = "check"
  /\ delivered' = Append(delivered, event)
  /\ tape' = IF stopped THEN tape ELSE <<Entry(event)>> \o tape
  /\ UNCHANGED <<lost, upsets, chan, event, turnVars, users, others, compactionVars, stopped>>

Persist ==
  /\ event # None /\ step = "persist"
  /\ step' = "check"
  /\ delivered' = Append(delivered, event)
  /\ \/ /\ ~stopped
        /\ tape' = Append(tape, Entry(event))
        /\ UNCHANGED <<lost, upsets>>
     \/ /\ stopped
        /\ lost' = lost \cup {event}
        /\ UNCHANGED <<tape, upsets>>
     \/ /\ ~stopped /\ upsets < MaxUpsets
        /\ upsets' = upsets + 1
        /\ lost' = lost \cup {event}
        /\ UNCHANGED tape
  /\ UNCHANGED <<chan, event, turnVars, users, others, compactionVars, stopped>>

-----------------------------------------------------------------------------
(* The turn task.                                                          *)
LoadHistory(t) ==
  /\ turn[t] = "load"
  /\ turn' = [turn EXCEPT ![t] = "run"]
  /\ hist' = [hist EXCEPT ![t] = IF stopped THEN <<User(t)>> ELSE History(tape, t)]
  /\ UNCHANGED <<tape, stamped, workerVars, compactionVars, stopped, upsets>>

(* _stamp_turn_provider: once a turn; a closed store is ignored.           *)
StampProvider(t) ==
  /\ turn[t] = "run" /\ t \notin stamped
  /\ stamped' = stamped \cup {t}
  /\ tape' = IF stopped THEN tape ELSE Append(tape, Anchor)
  /\ UNCHANGED <<turn, hist, workerVars, compactionVars, stopped, upsets>>

(* The task ends, and what it knew with it.                                *)
Over(t) ==
  /\ turn' = [turn EXCEPT ![t] = "over"]
  /\ hist' = [hist EXCEPT ![t] = <<>>]
  /\ stamped' = stamped \ {t}

(* assistant.message.done is published.                                    *)
PublishDone(t) ==
  /\ turn[t] = "run"
  /\ Over(t)
  /\ chan' = Append(chan, Assistant(t))
  /\ UNCHANGED <<tape, event, step, users, others, delivered, lost, compactionVars,
                 stopped, upsets>>

(* A request or any other event of the turn.                               *)
PublishOther(t) ==
  /\ turn[t] = "run" /\ others < MaxOthers
  /\ others' = others + 1
  /\ chan' = Append(chan, Other(others + 1))
  /\ UNCHANGED <<tape, turnVars, event, step, users, delivered, lost, compactionVars, stopped,
                 upsets>>

(* The turn fails, times out or is interrupted.                            *)
TurnFails(t) ==
  /\ turn[t] \in {"load", "run"}
  /\ Over(t)
  /\ UNCHANGED <<tape, workerVars, compactionVars, stopped, upsets>>

(* PATCH /api/sessions/{id}: Session.rename.                               *)
Rename ==
  /\ upsets < MaxUpsets /\ ~stopped
  /\ upsets' = upsets + 1
  /\ tape' = Append(tape, Anchor)
  /\ UNCHANGED <<turnVars, workerVars, compactionVars, stopped>>

-----------------------------------------------------------------------------
(* CompactionManager._on_event, after the persister: nothing for a         *)
(* disabled session or one with a compaction in flight, and nothing below  *)
(* the threshold; otherwise a task is spawned.                             *)
CheckAgain ==
  /\ event # None /\ step = "check"
  /\ event' = None
  /\ IF stopped \/ disabled \/ Cardinality(Window(tape)) < Threshold
     THEN UNCHANGED <<task, inflight>>
     ELSE \E k \in Tasks :
            /\ task[k].pc = "off"
            /\ task' = [task EXCEPT ![k].pc = "begin"]
            /\ inflight' = k
  /\ UNCHANGED <<tape, chan, step, turnVars, users, others, attempts, disabled, failed, stopped,
                 upsets, delivered, lost>>

Check ==
  /\ event # None /\ step = "check"
  /\ event' = None
  /\ IF stopped \/ disabled \/ inflight # None \/ Cardinality(Window(tape)) < Threshold
     THEN UNCHANGED <<task, inflight>>
     ELSE \E k \in Tasks :
            /\ task[k].pc = "off"
            /\ task' = [task EXCEPT ![k].pc = "begin"]
            /\ inflight' = k
  /\ UNCHANGED <<tape, chan, step, turnVars, users, others, attempts, disabled, failed, stopped,
                 upsets, delivered, lost>>

(* compact_session up to the summariser: what is behind the last anchor is *)
(* captured; nothing there means nothing to do, which counts as success.   *)
Capture(k) ==
  /\ task[k].pc = "begin"
  /\ IF Window(tape) = {}
     THEN task' = [task EXCEPT ![k].pc = "ended"] /\ attempts' = 0
     ELSE /\ task' = [task EXCEPT ![k] = [pc |-> "summarise",
                                           captured |-> Messages(tape, Window(tape))]]
          /\ attempts' = attempts + 1
  /\ UNCHANGED <<tape, turnVars, workerVars, inflight, disabled, failed, stopped, upsets>>

(* The summary is there: append the anchor, then publish completed.        *)
AppendAnchor(k) ==
  /\ task[k].pc = "summarise"
  /\ tape' = Append(tape, CompactionAnchor(task[k].captured))
  /\ task' = [task EXCEPT ![k] = [pc |-> "completed", captured |-> {}]]
  /\ UNCHANGED <<turnVars, workerVars, inflight, attempts, disabled, failed, stopped, upsets>>

Completed(k) ==
  /\ task[k].pc = "completed"
  /\ task' = [task EXCEPT ![k].pc = "ended"]
  /\ attempts' = 0
  /\ UNCHANGED <<tape, turnVars, workerVars, inflight, disabled, failed, stopped, upsets>>

(* The summariser raised: back off and try again, or give the session up   *)
(* and say so once.                                                        *)
AttemptFails(k) ==
  /\ task[k].pc = "summarise" /\ upsets < MaxUpsets
  /\ upsets' = upsets + 1
  /\ IF attempts < MaxRetries
     THEN /\ task' = [task EXCEPT ![k] = [pc |-> "sleep", captured |-> {}]]
          /\ UNCHANGED <<attempts, disabled, failed>>
     ELSE /\ task' = [task EXCEPT ![k] = [pc |-> "failed", captured |-> {}]]
          /\ attempts' = 0 /\ disabled' = TRUE /\ failed' = failed + 1
  /\ UNCHANGED <<tape, turnVars, workerVars, inflight, stopped>>

BackoffOver(k) ==
  /\ task[k].pc = "sleep"
  /\ task' = [task EXCEPT ![k].pc = "begin"]
  /\ UNCHANGED <<tape, turnVars, workerVars, inflight, attempts, disabled, failed, stopped,
                 upsets>>

FailurePublished(k) ==
  /\ task[k].pc = "failed"
  /\ task' = [task EXCEPT ![k].pc = "ended"]
  /\ UNCHANGED <<tape, turnVars, workerVars, inflight, attempts, disabled, failed, stopped,
                 upsets>>

(* The task's done callback.                                               *)
Discard(k) ==
  /\ task[k].pc = "ended"
  /\ task' = [task EXCEPT ![k] = Idle]
  /\ inflight' = None
  /\ UNCHANGED <<tape, turnVars, workerVars, attempts, disabled, failed, stopped, upsets>>

(* run_serve's finally clause up to the closed store, which no await       *)
(* interrupts: the manager unsubscribes and cancels, the persister         *)
(* unsubscribes, the store closes.  The loop and the bus stop later.       *)
Shutdown ==
  /\ ~stopped
  /\ stopped' = TRUE
  /\ task' = [k \in Tasks |-> Idle]
  /\ inflight' = None /\ attempts' = 0 /\ disabled' = FALSE
  /\ UNCHANGED <<tape, turnVars, workerVars, failed, upsets>>

CompactionStep(k) ==
  \/ Capture(k) \/ AppendAnchor(k) \/ Completed(k) \/ AttemptFails(k)
  \/ BackoffOver(k) \/ FailurePublished(k) \/ Discard(k)

Next ==
  \/ SendMessage \/ Deliver \/ LoopHandles \/ Persist \/ Check \/ Rename \/ Shutdown
  \/ \E t \in Turns : LoadHistory(t) \/ StampProvider(t) \/ PublishOther(t) \/ PublishDone(t)
                      \/ TurnFails(t)
  \/ \E k \in Tasks : CompactionStep(k)

Spec == Init /\ [][Next]_vars

-----------------------------------------------------------------------------
(* Types of the manager's and the turns' tables (compaction.py:380-395,    *)
(* loop.py:395-457).                                                       *)
TapeEntry == [kind : {"message", "event", "anchor", "compaction"}, msg : Event \cup {None},
              sum : SUBSET Message]
CompactionTask == [pc : {"off", "begin", "summarise", "completed", "sleep", "failed", "ended"},
                   captured : SUBSET Message]
TypeOK ==
  /\ tape \in Seq(TapeEntry)
  /\ chan \in Seq(Event) /\ event \in Event \cup {None}
  /\ step \in {"loop", "persist", "check"}
  /\ turn \in [Turns -> {"off", "load", "run", "over"}]
  /\ stamped \subseteq Turns
  /\ hist \in [Turns -> Seq(Message)]
  /\ users \in 0..MaxTurns /\ others \in 0..MaxOthers
  /\ task \in [Tasks -> CompactionTask]
  /\ inflight \in Tasks \cup {None} /\ attempts \in 0..MaxRetries
  /\ disabled \in BOOLEAN /\ stopped \in BOOLEAN
  /\ upsets \in 0..MaxUpsets
  /\ delivered \in Seq(Event) /\ lost \subseteq Event /\ failed \in Nat

(* The tape tells the conversation in its order, whoever else appends to   *)
(* it in between: exactly the events that were delivered and not           *)
(* reported lost, in the order they were delivered                         *)
(* (session_persister.py:136-154).                                         *)
TapeTellsTheSession ==
  LET said == Listed(tape, {i \in DOMAIN tape : tape[i].kind \in {"message", "event"}})
      due == Listed(delivered, {i \in DOMAIN delivered : delivered[i] \notin lost})
  IN  /\ Len(said) = Len(due)
      /\ \A i \in DOMAIN due : said[i].msg = due[i]

(* A message reaches the model once: verbatim or in one summary, never in  *)
(* two, whatever was said while the summariser ran (compaction.py:270-303, *)
(* loop.py:248-290).                                                       *)
RepresentedOnce ==
  /\ Summary(tape) \cap ToSet(Verbatim(tape)) = {}
  /\ IsInjective(Verbatim(tape))
  /\ \A i, j \in Compactions(tape) : i # j => tape[i].sum \cap tape[j].sum = {}

(* A turn sees its own message once, at the end of its history, however    *)
(* the persister's write and its read are ordered (loop.py:598-625);       *)
(* only a superseded turn's reply that was still queued may stand between  *)
(* the two.                                                                *)
OwnMessageOnce ==
  \A t \in Turns : hist[t] # <<>> =>
    /\ Last(hist[t]) = User(t)
    /\ \A i \in 1..(Len(hist[t]) - 1) : hist[t][i] = User(t) =>
         hist[t][i + 1][1] = "assistant" /\ hist[t][i + 1][2] < t

(* One compaction at a time, and no bookkeeping is left of it when it has  *)
(* ended (compaction.py:421-524).                                          *)
OneCompaction ==
  /\ \A k \in Tasks : task[k].pc # "off" => inflight = k
  /\ inflight # None => task[inflight].pc # "off"
  /\ inflight = None => attempts = 0

(* The failure of a session is told once, and nothing is tried after it    *)
(* (compaction.py:500-540).                                                *)
ToldOnce ==
  /\ failed <= 1
  /\ disabled => failed = 1 /\ \A k \in Tasks : task[k].pc \in {"off", "failed", "ended"}

(* kernel/AGENT.md:30 (compaction.py) and kernel-compaction.spec:16-17:    *)
(* the summary stands for all it replaces: every message on the tape is in *)
(* the history, verbatim or summarised.                                    *)
NothingForgotten ==
  Messages(tape, DOMAIN tape) \subseteq Summary(tape) \cup ToSet(Verbatim(tape))
=============================================================================
