--------------------------- MODULE SessionContext ---------------------------
(***************************************************************************)
(* kernel/session_context.py: the connections of one session.  The         *)
(* session's bus worker persists an event, runs other subscribers, and     *)
(* then fans it out to every connection; connections attach (with or       *)
(* without a replay of the tape), send heartbeats, fall silent, are        *)
(* reaped, leave, or are dropped when a send fails; the manager closes.    *)
(* Store.open is awaited, so two first attaches may both create a context. *)
(***************************************************************************)
EXTENDS Integers, Sequences, FiniteSets, Functions, Positions

CONSTANTS
  Conns,           \* the clients that may attach, once each
  SinceEntries,    \* the values of since_entry, None or a number
  MaxConnections,  \* SessionContext.max_connections
  MaxEvents,       \* bound: entries on the tape
  None

(* What is assumed of the constants.                                       *)
Parameters == SinceEntries \subseteq Nat \cup {None} /\ MaxConnections \in Nat

VARIABLES
  tape,      \* entries persisted so far: entry e carries event e
  worker,    \* the session's bus worker: where it is, whom it still visits
  manager,   \* _contexts[session]: the number of the context, 0 if none
  contexts,  \* how many contexts were made
  shut,      \* the contexts that are closed
  attached,  \* the connections of all contexts, in registration order
  home,      \* the context of a connection
  phase,     \* where each attach() call is
  replay,    \* the entries a replay still sends
  sweeping,  \* connections a reap sweep found stale and will detach
  closing,   \* where SessionManager.close() is
  got,       \* history: the entries each connection received
  owed,      \* history: the first entry a connection is to hear
  missed,    \* history: entries whose fan-out timed out before a connection
  said       \* history: the session.context.* events of a connection

connVars == <<attached, home, phase, replay>>
managerVars == <<manager, contexts, shut, closing>>
historyVars == <<got, owed, missed, said>>
vars == <<tape, worker, managerVars, connVars, sweeping, historyVars>>

Idle == [at |-> "idle", todo |-> <<>>]
NoReplay == [next |-> 1, upto |-> 0]

Init ==
  /\ tape = 0 /\ worker = Idle
  /\ manager = 0 /\ contexts = 0 /\ shut = {} /\ closing = "no"
  /\ attached = <<>> /\ home = [c \in Conns |-> 0]
  /\ phase = [c \in Conns |-> "out"] /\ replay = [c \in Conns |-> NoReplay]
  /\ sweeping = {}
  /\ got = [c \in Conns |-> <<>>] /\ owed = [c \in Conns |-> 0]
  /\ missed = [c \in Conns |-> {}] /\ said = [c \in Conns |-> {}]

Attached(c) == c \in Range(attached)
Connections(k) == Listed(attached, {i \in DOMAIN attached : home[attached[i]] = k})
Emit(c, kind) == said' = [said EXCEPT ![c] = @ \cup {kind}]

(* what a connection heard is of interest while it is there *)
Drop(c) ==
  /\ attached' = Listed(attached, {i \in DOMAIN attached : attached[i] # c})
  /\ got' = [got EXCEPT ![c] = <<>>]
  /\ Emit(c, "detached")

(* detach: an unknown id is ignored *)
Detach(c) == IF Attached(c) THEN Drop(c) ELSE UNCHANGED <<attached, got, said>>

-----------------------------------------------------------------------------
(* The worker: the persister, then whoever is subscribed before the manager *)
Persist ==
  /\ worker.at = "idle" /\ tape < MaxEvents
  /\ tape' = tape + 1
  /\ worker' = [at |-> "others", todo |-> <<>>]
  /\ UNCHANGED <<managerVars, connVars, sweeping, historyVars>>

(* _on_event and the snapshot fanout() takes *)
OnEvent ==
  /\ worker.at = "others"
  /\ worker' = IF manager = 0 \/ manager \in shut \/ Connections(manager) = <<>> THEN Idle
               ELSE [at |-> "visit", todo |-> Connections(manager)]
  /\ UNCHANGED <<tape, managerVars, connVars, sweeping, historyVars>>

Visited == IF Len(worker.todo) = 1 THEN Idle ELSE [at |-> "visit", todo |-> Tail(worker.todo)]

(* a connection that is still there is sent to under its lock *)
FanoutVisits ==
  /\ worker.at = "visit"
  /\ worker' = IF Attached(Head(worker.todo)) THEN [worker EXCEPT !.at = "lock"] ELSE Visited
  /\ UNCHANGED <<tape, managerVars, connVars, sweeping, historyVars>>

UnlockedAlways(c) == TRUE

Unlocked(c) == phase[c] # "replaying"

FanoutSends ==
  LET c == Head(worker.todo) IN
  /\ worker.at = "lock" /\ Unlocked(c)
  /\ worker' = Visited
  /\ \/ /\ got' = [got EXCEPT ![c] = Append(@, tape)]
        /\ UNCHANGED <<attached, said>>
     \/ Detach(c)
  /\ UNCHANGED <<tape, managerVars, home, phase, replay, sweeping, owed, missed>>

(* the bus gives a handler 30 seconds: the connections not reached yet are *)
(* not visited for this event any more                                     *)
FanoutTimesOut ==
  /\ worker.at = "lock"
  /\ missed' = [c \in Conns |-> IF c \in Range(worker.todo) THEN missed[c] \cup {tape}
                                ELSE missed[c]]
  /\ worker' = Idle
  /\ UNCHANGED <<tape, managerVars, connVars, sweeping, got, owed, said>>

-----------------------------------------------------------------------------
Refuse(c) ==
  /\ phase' = [phase EXCEPT ![c] = "done"]
  /\ UNCHANGED <<attached, home, replay, owed, said>>

RegisterSkips(c, k, since) ==
  /\ attached' = Append(attached, c)
  /\ home' = [home EXCEPT ![c] = k]
  /\ IF since = None
     THEN /\ phase' = [phase EXCEPT ![c] = "done"]
          /\ Emit(c, "attached")
          /\ owed' = [owed EXCEPT ![c] = IF worker.at = "others" THEN tape ELSE tape + 1]
          /\ UNCHANGED replay
     ELSE /\ phase' = [phase EXCEPT ![c] = "replaying"]
          /\ replay' = [replay EXCEPT ![c] = [next |-> since + 1, upto |-> tape - 1]]
          /\ owed' = [owed EXCEPT ![c] = since + 1]
          /\ UNCHANGED said

(* SessionContext.attach: the entries to replay are read in the step that  *)
(* registers the connection                                                *)
Register(c, k, since) ==
  /\ attached' = Append(attached, c)
  /\ home' = [home EXCEPT ![c] = k]
  /\ IF since = None
     THEN /\ phase' = [phase EXCEPT ![c] = "done"]
          /\ Emit(c, "attached")
          /\ owed' = [owed EXCEPT ![c] = IF worker.at = "others" THEN tape ELSE tape + 1]
          /\ UNCHANGED replay
     ELSE /\ phase' = [phase EXCEPT ![c] = "replaying"]
          /\ replay' = [replay EXCEPT ![c] = [next |-> since + 1, upto |-> tape]]
          /\ owed' = [owed EXCEPT ![c] = since + 1]
          /\ UNCHANGED said

AttachTo(c, k, since) ==
  IF k \in shut \/ Len(Connections(k)) >= MaxConnections
  THEN Refuse(c) ELSE Register(c, k, since)

(* SessionManager.attach: a session without a context opens its store *)
Attach(c) ==
  /\ phase[c] = "out"
  /\ IF manager = 0
     THEN phase' = [phase EXCEPT ![c] = "opening"] /\ UNCHANGED <<attached, home, replay, owed, said>>
     ELSE \E since \in SinceEntries : AttachTo(c, manager, since)
  /\ UNCHANGED <<tape, worker, managerVars, sweeping, got, missed>>

StoreOpened(c) ==
  /\ phase[c] = "opening"
  /\ contexts' = contexts + 1 /\ manager' = contexts + 1
  /\ \E since \in SinceEntries : AttachTo(c, contexts + 1, since)
  /\ UNCHANGED <<tape, worker, shut, closing, sweeping, got, missed>>

(* _replay: the entries one by one, then session.replay.done *)
ReplaySends(c) ==
  /\ phase[c] = "replaying" /\ replay[c].next <= replay[c].upto
  /\ got' = [got EXCEPT ![c] = Append(@, replay[c].next)]
  /\ replay' = [replay EXCEPT ![c].next = @ + 1]
  /\ UNCHANGED <<tape, worker, managerVars, attached, home, phase, sweeping, owed, missed, said>>

ReplayDone(c) ==
  /\ phase[c] = "replaying" /\ replay[c].next > replay[c].upto
  /\ phase' = [phase EXCEPT ![c] = "done"]
  /\ Emit(c, "attached")
  /\ UNCHANGED <<tape, worker, managerVars, attached, home, replay, sweeping, got, owed, missed>>

(* the pop does not ask whether the connection is still there *)
ReplayFails(c) ==
  /\ phase[c] = "replaying"
  /\ phase' = [phase EXCEPT ![c] = "done"]
  /\ Drop(c)
  /\ UNCHANGED <<tape, worker, managerVars, home, replay, sweeping, owed, missed>>

-----------------------------------------------------------------------------
ClientDetach(c) ==
  /\ phase[c] = "done" /\ Attached(c) /\ home[c] = manager
  /\ Detach(c)
  /\ UNCHANGED <<tape, worker, managerVars, home, phase, replay, sweeping, owed, missed>>

(* _reap_once: any connection may have been silent for too long (heartbeats *)
(* are not timed here); the task exists once an attach() has returned      *)
ReapSweep(k) ==
  /\ k \notin shut
  /\ \E c \in Conns : home[c] = k /\ phase[c] = "done"
  /\ \A c \in sweeping : home[c] # k
  /\ \E stale \in SUBSET Range(Connections(k)) \ {{}} : sweeping' = sweeping \cup stale
  /\ UNCHANGED <<tape, worker, managerVars, connVars, historyVars>>

ReapDetach(c) ==
  /\ c \in sweeping
  /\ sweeping' = sweeping \ {c}
  /\ Detach(c)
  /\ UNCHANGED <<tape, worker, managerVars, home, phase, replay, owed, missed>>

(* SessionManager.close closes the contexts it knows; closing one cancels  *)
(* its reap task first                                                     *)
Close ==
  /\ closing = "no"
  /\ closing' = "yes"
  /\ shut' = shut \cup ({manager} \ {0})
  /\ sweeping' = {c \in sweeping : home[c] # manager}
  /\ UNCHANGED <<tape, worker, manager, contexts, connVars, historyVars>>

CloseDetach(c) ==
  /\ closing = "yes" /\ Attached(c) /\ home[c] \in shut
  /\ Detach(c)
  /\ UNCHANGED <<tape, worker, managerVars, home, phase, replay, sweeping, owed, missed>>

CloseReturns ==
  /\ closing = "yes" /\ \A k \in shut : Connections(k) = <<>>
  /\ closing' = "done" /\ manager' = 0
  /\ UNCHANGED <<tape, worker, contexts, shut, connVars, sweeping, historyVars>>

WorkerStep == OnEvent \/ FanoutVisits \/ FanoutSends \/ FanoutTimesOut
AttachStep(c) == StoreOpened(c) \/ ReplaySends(c) \/ ReplayDone(c) \/ ReplayFails(c)

Next ==
  \/ Persist \/ WorkerStep \/ Close \/ CloseReturns
  \/ \E c \in Conns : Attach(c) \/ AttachStep(c) \/ ClientDetach(c)
                      \/ ReapDetach(c) \/ CloseDetach(c)
  \/ \E k \in 1..contexts : ReapSweep(k)

Spec == Init /\ [][Next]_vars

-----------------------------------------------------------------------------
Types ==
  /\ tape \in Nat /\ worker \in [at : {"idle", "others", "visit", "lock"}, todo : Seq(Conns)]
  /\ worker.at \in {"visit", "lock"} <=> worker.todo # <<>>
  /\ IsInjective(worker.todo)
  /\ contexts \in Nat /\ manager \in 0..contexts /\ shut \subseteq 1..contexts
  /\ attached \in Seq(Conns) /\ IsInjective(attached)
  /\ home \in [Conns -> 0..contexts]
  /\ phase \in [Conns -> {"out", "opening", "replaying", "done"}]
  /\ replay \in [Conns -> [next : Nat, upto : Nat]]
  /\ sweeping \subseteq Conns /\ closing \in {"no", "yes", "done"}
  /\ got \in [Conns -> Seq(Nat)] /\ owed \in [Conns -> Nat]
  /\ missed \in [Conns -> SUBSET Nat] /\ said \in [Conns -> SUBSET {"attached", "detached"}]
TypeOK ==
  /\ Types
  /\ \A k \in 1..contexts : Len(Connections(k)) <= MaxConnections

(* A connection of the context the manager serves has heard every event    *)
(* from its starting point on, whatever attaches, leaves, stalls or        *)
(* replays beside it: no event falls between the replay and the live       *)
(* stream, and only a fan-out the bus timed out skips anybody.             *)
Served(c) == Attached(c) /\ home[c] = manager /\ manager \notin shut /\ phase[c] = "done"
Settled(c) == IF worker.at = "others" \/ c \in Range(worker.todo) THEN tape - 1 ELSE tape
Heard(c) == Served(c) => owed[c]..Settled(c) \subseteq Range(got[c]) \cup missed[c]
Hears == \A c \in Conns : Heard(c)

(* A connection hears events in tape order, live ones after its replay;    *)
(* only the event that was on its way when it attached may come twice.     *)
Ordered(c) ==
  \A i \in 1..Len(got[c]) - 1 :
    \/ got[c][i] < got[c][i + 1]
    \/ got[c][i] = got[c][i + 1] /\ got[c][i] = replay[c].upto
InOrder == \A c \in Conns : Ordered(c)

(* Whatever ends a connection says so: detached is published for whoever   *)
(* is gone, and nobody is left attached to a closed context.               *)
Told(c) == home[c] # 0 /\ ~Attached(c) => "detached" \in said[c]
Closed == closing = "done" => \A c \in Conns : Attached(c) => home[c] \notin shut
Goodbye == Closed /\ \A c \in Conns : Told(c)

-----------------------------------------------------------------------------
(* The inductive invariant.  Who is not registered yet was sent nothing.   *)
Absent(c) ==
  /\ phase[c] \in {"out", "opening"} =>
       ~Attached(c) /\ c \notin Range(worker.todo) /\ got[c] = <<>> /\ home[c] = 0
  /\ Attached(c) => home[c] # 0

(* A replay goes no further than the tape it was read from, and whoever is *)
(* to get the event under way has not got it but from that replay.         *)
Pending(c) == c \in Range(worker.todo) \/ (worker.at = "others" /\ Attached(c))
InPlace(c) ==
  /\ replay[c].upto <= tape /\ \A i \in DOMAIN got[c] : got[c][i] <= tape
  /\ phase[c] = "replaying" =>
       \A i \in DOMAIN got[c] : got[c][i] < replay[c].next /\ got[c][i] <= replay[c].upto
  /\ Pending(c) => \A i \in DOMAIN got[c] : got[c][i] = tape => replay[c].upto = tape

(* While a replay runs it has sent all it is past, and what came live was  *)
(* skipped by a fan-out that timed out on the connection's lock.           *)
Replays(c) ==
  Attached(c) /\ home[c] = manager /\ manager \notin shut /\ phase[c] = "replaying" =>
    /\ owed[c]..(replay[c].next - 1) \subseteq Range(got[c])
    /\ (replay[c].upto + 1)..Settled(c) \subseteq missed[c]

ContextInv ==
  /\ Parameters /\ Types /\ Closed
  /\ \A c \in Conns : /\ Absent(c) /\ InPlace(c) /\ Replays(c)
                       /\ Heard(c) /\ Ordered(c) /\ Told(c)
=============================================================================
