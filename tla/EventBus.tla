------------------------------ MODULE EventBus ------------------------------
(***************************************************************************)
(* The kernel's event bus (src/yaya/kernel/bus.py).                        *)
(*                                                                         *)
(* Every session that has something to deliver owns one asyncio.Queue and  *)
(* one drain worker.  `publish` appends an envelope and, outside a worker, *)
(* awaits the envelope's `done` future; the worker takes envelopes one at  *)
(* a time and runs the subscribers of the kind serially, then releases its *)
(* queue when nothing is pending.  A failing handler makes the bus enqueue *)
(* `plugin.error` on the kernel session; `close` sends every worker a      *)
(* token and gathers them.                                                 *)
(*                                                                         *)
(* A step is the code between two suspension points: asyncio interleaves   *)
(* tasks only there, and Queue.put on an unbounded queue never suspends.   *)
(*                                                                         *)
(* Queues are object identities (a queue and the task that drains it);     *)
(* the identity of a finished worker may be used for a new one.  Events of *)
(* a session are numbered in the order the bus accepted them.              *)
(***************************************************************************)
EXTENDS Integers, Sequences, FiniteSets

CONSTANTS
  Sessions,       \* session ids, the kernel's own included
  KernelSession,  \* the session plugin.error is enqueued on ("kernel")
  Kinds,          \* event kinds
  ErrorKind,      \* "plugin.error"
  Subs,           \* subscriber objects (handler, kind, source)
  SubKind,        \* [Subs -> Kinds]: the kind each subscribes to
  KernelSubs,     \* the subscribers whose source is "kernel"
  CancelSubs,     \* the subscribers whose handler may raise CancelledError
  Publishers,     \* tasks outside every worker that call publish
  Closers,        \* tasks that call close
  Queues,         \* identities of queue + worker
  MaxEvents       \* bound: events accepted per session

CONSTANTS NoQueue, NoEvent, CloseToken, Nothing

ASSUME SessionAssumption == KernelSession \in Sessions /\ ErrorKind \in Kinds
ASSUME SubAssumption == /\ SubKind \in [Subs -> Kinds]
                        /\ KernelSubs \subseteq Subs
                        /\ CancelSubs \subseteq Subs
ASSUME BoundAssumption == MaxEvents \in Nat
ASSUME NullAssumption == NoQueue \notin Queues

Envelope == [kind : Kinds, num : 1..MaxEvents]

ASSUME TokenAssumption == CloseToken \notin Envelope /\ NoEvent \notin Envelope

Awaited == [sess : Sessions, num : 1..MaxEvents]

ASSUME NothingAssumption == Nothing \notin Awaited

VARIABLES
  subs,      \* _subs: per kind, the subscribers in registration order
  closed,    \* _closed
  qmap,      \* _session_queues and _session_workers, which change together
  items,     \* contents of each queue
  worker,    \* the drain task of each queue
  wait,      \* per publisher, the event whose done future it awaits
  gathers,   \* per closer, the workers its gather still covers, or Nothing
  accepted,  \* history: events accepted per session
  drawn,     \* history: events that left the session's queue
  got        \* history: number of the last event handed to handlers

vars == <<subs, closed, qmap, items, worker, wait, gathers, accepted, drawn, got>>

-----------------------------------------------------------------------------
(* The drain task: gone (not started, or finished), about to take an item, *)
(* or running handlers: `cur` is the event, `todo` what is left of the     *)
(* snapshot of its targets, whose head is the handler that runs now.       *)
Gone == [pc |-> "gone", sess |-> KernelSession, cur |-> NoEvent, todo |-> <<>>]
Ready(s) == [pc |-> "get", sess |-> s, cur |-> NoEvent, todo |-> <<>>]
Running(s, e, targets) == [pc |-> "run", sess |-> s, cur |-> e, todo |-> targets]

Worker == [pc : {"gone", "get", "run"}, sess : Sessions,
           cur : Envelope \cup {NoEvent}, todo : Seq(Subs)]

Live(q) == worker[q].pc # "gone"

(* _ensure_worker: an event of session s goes to the session's queue, or   *)
(* to a new queue whose worker is created with it.                         *)
QueueFor(s, q) == IF qmap[s] # NoQueue THEN q = qmap[s] ELSE ~Live(q)

EnsureWorker(s, q) ==
  IF qmap[s] # NoQueue THEN worker ELSE [worker EXCEPT ![q] = Ready(s)]

(* queue.put of a new envelope.                                            *)
PutInFront(s, k, q) ==
  [items EXCEPT ![q] = IF k = ErrorKind
                       THEN <<[kind |-> k, num |-> accepted[s] + 1]>> \o @
                       ELSE Append(@, [kind |-> k, num |-> accepted[s] + 1])]
PutFromZero(s, k, q) ==
  [items EXCEPT ![q] = Append(@, [kind |-> k, num |-> accepted[s]])]

Put(s, k, q) ==
  [items EXCEPT ![q] = Append(@, [kind |-> k, num |-> accepted[s] + 1])]

(* done.set_result(None): whoever awaits the event's future goes on.       *)
ResolveNobody(s, e) == wait

ResolveSession(s, e) ==
  [p \in Publishers |-> IF wait[p] # Nothing /\ wait[p].sess = s THEN Nothing ELSE wait[p]]

Resolve(s, e) ==
  [p \in Publishers |-> IF wait[p] = [sess |-> s, num |-> e.num]
                        THEN Nothing ELSE wait[p]]

(* The worker's finally clause: drop the session's entries if they are     *)
(* still this worker's.                                                    *)
Release(qm, s, q) == IF qm[s] = q THEN [qm EXCEPT ![s] = NoQueue] ELSE qm

(* The rest of the drain loop's body once `rest` is what remains of event  *)
(* e's targets, over the tables w, it, qm that the step so far has left:   *)
(* the next handler starts, or the event is done and the worker takes the  *)
(* next item, or, with nothing pending, it releases the session and ends.  *)
Continue(q, e, rest, w, it, qm) ==
  LET s == worker[q].sess
  IN  /\ items' = it
      /\ \/ /\ rest # <<>>
            /\ worker' = [w EXCEPT ![q] = Running(s, e, rest)]
            /\ qmap' = qm
            /\ UNCHANGED wait
         \/ /\ rest = <<>>
            /\ wait' = Resolve(s, e)
            /\ IF it[q] # <<>>
               THEN /\ worker' = [w EXCEPT ![q] = Ready(s)]
                    /\ qmap' = qm
               ELSE /\ worker' = [w EXCEPT ![q] = Gone]
                    /\ qmap' = Release(qm, s, q)

(* The worker ends with its queue, whatever that still holds.              *)
EndWorker(q) ==
  /\ worker' = [worker EXCEPT ![q] = Gone]
  /\ items' = [items EXCEPT ![q] = <<>>]
  /\ qmap' = Release(qmap, worker[q].sess, q)

-----------------------------------------------------------------------------
Init ==
  /\ subs = [k \in Kinds |-> <<>>]
  /\ closed = FALSE
  /\ qmap = [s \in Sessions |-> NoQueue]
  /\ items = [q \in Queues |-> <<>>]
  /\ worker = [q \in Queues |-> Gone]
  /\ wait = [p \in Publishers |-> Nothing]
  /\ gathers = [c \in Closers |-> Nothing]
  /\ accepted = [s \in Sessions |-> 0]
  /\ drawn = [s \in Sessions |-> 0]
  /\ got = [s \in Sessions |-> 0]

Registered(x) == \E i \in DOMAIN subs[SubKind[x]] : subs[SubKind[x]][i] = x

(* subscribe: a new subscriber joins at the end of its kind's list.        *)
Subscribe(x) ==
  /\ ~Registered(x)
  /\ subs' = [subs EXCEPT ![SubKind[x]] = Append(@, x)]
  /\ UNCHANGED <<closed, qmap, items, worker, wait, gathers, accepted, drawn, got>>

(* Subscription.unsubscribe and remove: also during a delivery, which goes *)
(* on over its own snapshot.                                               *)
Unsubscribe(x) ==
  /\ \E i \in DOMAIN subs[SubKind[x]] :
       /\ subs[SubKind[x]][i] = x
       /\ subs' = [subs EXCEPT ![SubKind[x]] = SubSeq(@, 1, i - 1) \o SubSeq(@, i + 1, Len(@))]
  /\ UNCHANGED <<closed, qmap, items, worker, wait, gathers, accepted, drawn, got>>

(* publish from a task outside every worker: accept and await `done`.      *)
PublishUnguarded(p, s, k) ==
  /\ wait[p] = Nothing
  /\ accepted[s] < MaxEvents
  /\ \E q \in Queues :
       /\ QueueFor(s, q)
       /\ items' = Put(s, k, q)
       /\ worker' = EnsureWorker(s, q)
       /\ qmap' = [qmap EXCEPT ![s] = q]
  /\ accepted' = [accepted EXCEPT ![s] = @ + 1]
  /\ wait' = [wait EXCEPT ![p] = [sess |-> s, num |-> accepted[s] + 1]]
  /\ UNCHANGED <<subs, closed, gathers, drawn, got>>

Publish(p, s, k) ==
  /\ wait[p] = Nothing
  /\ ~closed
  /\ accepted[s] < MaxEvents
  /\ \E q \in Queues :
       /\ QueueFor(s, q)
       /\ items' = Put(s, k, q)
       /\ worker' = EnsureWorker(s, q)
       /\ qmap' = [qmap EXCEPT ![s] = q]
  /\ accepted' = [accepted EXCEPT ![s] = @ + 1]
  /\ wait' = [wait EXCEPT ![p] = [sess |-> s, num |-> accepted[s] + 1]]
  /\ UNCHANGED <<subs, closed, gathers, drawn, got>>

(* publish on a closed bus logs and returns: the event is dropped.         *)
PublishClosed(p, s, k) ==
  /\ wait[p] = Nothing
  /\ closed
  /\ UNCHANGED vars

(* The task that awaits `done` is cancelled: the event stays where it is.  *)
PublisherCancelled(p) ==
  /\ wait[p] # Nothing
  /\ wait' = [wait EXCEPT ![p] = Nothing]
  /\ UNCHANGED <<subs, closed, qmap, items, worker, gathers, accepted, drawn, got>>

(* _drain: take the next item.  The close token ends the worker; an event  *)
(* starts with the snapshot of its kind's subscribers.                     *)
WorkerReleasesEarly(q) ==
  /\ worker[q].pc = "get"
  /\ items[q] # <<>>
  /\ LET s == worker[q].sess
         e == Head(items[q])
     IN  IF e = CloseToken
         THEN EndWorker(q) /\ UNCHANGED <<wait, drawn, got>>
         ELSE /\ Continue(q, e, subs[e.kind], worker, [items EXCEPT ![q] = Tail(@)],
                          IF Tail(items[q]) = <<>> THEN Release(qmap, s, q) ELSE qmap)
              /\ got' = [got EXCEPT ![s] = e.num]
              /\ drawn' = [drawn EXCEPT ![s] = e.num]
  /\ UNCHANGED <<subs, closed, gathers, accepted>>
WorkerSkipsToken(q) ==
  /\ worker[q].pc = "get"
  /\ items[q] # <<>>
  /\ LET s == worker[q].sess
         e == Head(items[q])
     IN  IF e = CloseToken
         THEN /\ items' = [items EXCEPT ![q] = Tail(@)]
              /\ UNCHANGED <<worker, qmap, wait, drawn, got>>
         ELSE /\ Continue(q, e, subs[e.kind], worker, [items EXCEPT ![q] = Tail(@)], qmap)
              /\ got' = [got EXCEPT ![s] = e.num]
              /\ drawn' = [drawn EXCEPT ![s] = e.num]
  /\ UNCHANGED <<subs, closed, gathers, accepted>>

WorkerGet(q) ==
  /\ worker[q].pc = "get"
  /\ items[q] # <<>>
  /\ LET s == worker[q].sess
         e == Head(items[q])
     IN  IF e = CloseToken
         THEN EndWorker(q) /\ UNCHANGED <<wait, drawn, got>>
         ELSE /\ Continue(q, e, subs[e.kind], worker, [items EXCEPT ![q] = Tail(@)], qmap)
              /\ got' = [got EXCEPT ![s] = e.num]
              /\ drawn' = [drawn EXCEPT ![s] = e.num]
  /\ UNCHANGED <<subs, closed, gathers, accepted>>

(* A running handler publishes: nothing is awaited inside a worker.        *)
HandlerPublish(q, s, k) ==
  /\ worker[q].pc = "run"
  /\ ~closed
  /\ accepted[s] < MaxEvents
  /\ \E r \in Queues :
       /\ QueueFor(s, r)
       /\ items' = Put(s, k, r)
       /\ worker' = EnsureWorker(s, r)
       /\ qmap' = [qmap EXCEPT ![s] = r]
  /\ accepted' = [accepted EXCEPT ![s] = @ + 1]
  /\ UNCHANGED <<subs, closed, wait, gathers, drawn, got>>

(* _deliver, the handler returns.                                          *)
HandlerReturns(q) ==
  /\ worker[q].pc = "run"
  /\ Continue(q, worker[q].cur, Tail(worker[q].todo), worker, items, qmap)
  /\ UNCHANGED <<subs, closed, gathers, accepted, drawn, got>>

(* _deliver and _report_handler_failure, the handler raised or exceeded    *)
(* the timeout: plugin.error goes to the kernel session, unless the        *)
(* failing subscriber is the kernel's own or the bus is closed.            *)
HandlerFails(q) ==
  /\ worker[q].pc = "run"
  /\ LET rest == Tail(worker[q].todo)
         K == KernelSession
     IN  IF Head(worker[q].todo) \in KernelSubs \/ closed
         THEN /\ Continue(q, worker[q].cur, rest, worker, items, qmap)
              /\ UNCHANGED accepted
         ELSE /\ accepted[K] < MaxEvents
              /\ \E r \in Queues :
                   /\ QueueFor(K, r)
                   /\ Continue(q, worker[q].cur, rest, EnsureWorker(K, r),
                               Put(K, ErrorKind, r), [qmap EXCEPT ![K] = r])
              /\ accepted' = [accepted EXCEPT ![K] = @ + 1]
  /\ UNCHANGED <<subs, closed, gathers, drawn, got>>

(* _deliver re-raises CancelledError: `done` of the current event is set,  *)
(* then the worker ends, and its queue with whatever it holds.             *)
HandlerCancelled(q) ==
  /\ worker[q].pc = "run"
  /\ Head(worker[q].todo) \in CancelSubs
  /\ wait' = Resolve(worker[q].sess, worker[q].cur)
  /\ EndWorker(q)
  /\ drawn' = [drawn EXCEPT ![worker[q].sess] = accepted[worker[q].sess]]
  /\ UNCHANGED <<subs, closed, gathers, accepted, got>>

(* close up to its gather: refuse further events, a token to every queue.  *)
Close(c) ==
  LET current == {qmap[s] : s \in Sessions} \ {NoQueue}
  IN  /\ gathers[c] = Nothing
      /\ ~(closed /\ current = {})
      /\ closed' = TRUE
      /\ items' = [q \in Queues |-> IF q \in current THEN Append(items[q], CloseToken)
                                    ELSE items[q]]
      /\ gathers' = [gathers EXCEPT ![c] = current]
      /\ UNCHANGED <<subs, qmap, worker, wait, accepted, drawn, got>>

(* close, after every gathered worker ended: clear the tables.             *)
CloseReturns(c) ==
  /\ gathers[c] # Nothing
  /\ \A q \in gathers[c] : ~Live(q)
  /\ gathers' = [gathers EXCEPT ![c] = Nothing]
  /\ qmap' = [s \in Sessions |-> NoQueue]
  /\ UNCHANGED <<subs, closed, items, worker, wait, accepted, drawn, got>>

HandlerEnds(q) == HandlerReturns(q) \/ HandlerFails(q) \/ HandlerCancelled(q)

Next ==
  \/ \E x \in Subs : Subscribe(x) \/ Unsubscribe(x)
  \/ \E p \in Publishers, s \in Sessions, k \in Kinds :
       Publish(p, s, k) \/ PublishClosed(p, s, k)
  \/ \E p \in Publishers : PublisherCancelled(p)
  \/ \E q \in Queues : WorkerGet(q) \/ HandlerEnds(q)
  \/ \E q \in Queues, s \in Sessions, k \in Kinds : HandlerPublish(q, s, k)
  \/ \E c \in Closers : Close(c) \/ CloseReturns(c)

(* The event loop runs every ready task; the timeout of _deliver bounds a  *)
(* handler, so a handler that runs ends.                                   *)
Fairness ==
  /\ \A q \in Queues : WF_vars(WorkerGet(q)) /\ WF_vars(HandlerEnds(q))
  /\ \A c \in Closers : WF_vars(CloseReturns(c))

Spec == Init /\ [][Next]_vars
FairSpec == Spec /\ Fairness

-----------------------------------------------------------------------------
(* Types of the bus's tables (bus.py:129-141).                             *)
TypeOK ==
  /\ subs \in [Kinds -> Seq(Subs)]
  /\ closed \in BOOLEAN
  /\ qmap \in [Sessions -> Queues \cup {NoQueue}]
  /\ items \in [Queues -> Seq(Envelope \cup {CloseToken})]
  /\ worker \in [Queues -> Worker]
  /\ wait \in [Publishers -> Awaited \cup {Nothing}]
  /\ gathers \in [Closers -> (SUBSET Queues) \cup {Nothing}]
  /\ accepted \in [Sessions -> 0..MaxEvents]
  /\ drawn \in [Sessions -> 0..MaxEvents]
  /\ got \in [Sessions -> 0..MaxEvents]

(* Two workers never serve the same session, across releases, new workers  *)
(* and close (bus.py:231-277): what "no re-entry hazard" rests on.         *)
OneWorkerPerSession ==
  \A q, r \in Queues : (Live(q) /\ Live(r) /\ worker[q].sess = worker[r].sess) => q = r

(* A session without a worker has nothing left to deliver: an event that   *)
(* was accepted while its worker was ending, or ahead of close, is not     *)
(* stranded (bus.py:216-223, 266-277, 348-363); and a worker at queue.get  *)
(* has something to take, so idle sessions leak no task.                   *)
NothingStranded ==
  /\ \A s \in Sessions : qmap[s] = NoQueue => got[s] = accepted[s]
  /\ \A q \in Queues : worker[q].pc = "get" => items[q] # <<>>

Holds(q, a) ==
  /\ Live(q) /\ worker[q].sess = a.sess
  /\ \/ worker[q].cur # NoEvent /\ worker[q].cur.num = a.num
     \/ \E i \in DOMAIN items[q] : /\ items[q][i] # CloseToken
                                   /\ items[q][i].num = a.num

(* An awaited event is in the hands of a live worker, so its publisher can *)
(* return once "every subscriber finished" (bus.py:198-200).               *)
AwaitedIsHeld ==
  \A p \in Publishers : wait[p] # Nothing => \E q \in Queues : Holds(q, wait[p])

(* Handlers see a session's events in publish order, and, unless a handler *)
(* raises CancelledError, all of them (bus.py:9-17).                       *)
PublishOrder ==
  [][\A s \in Sessions : got'[s] # got[s] =>
       IF CancelSubs = {} THEN got'[s] = got[s] + 1 ELSE got'[s] > got[s]]_vars

(* The bus implements the promise of SessionFifo: one event of a session   *)
(* at a time, in order and without a gap, and publish returns only when    *)
(* its event's subscribers have finished (bus.py:1-31, 189-229).           *)
Busy == {s \in Sessions : \E q \in Queues : worker[q].pc = "run" /\ worker[q].sess = s}
Fifo == INSTANCE SessionFifo WITH busy <- Busy, Lossy <- CancelSubs # {}
ImplementsFifo == Fifo!Spec

(* Every accepted event reaches its handlers, fire-and-forget ones too;    *)
(* publish returns, and close does, also when two tasks close at once      *)
(* (bus.py:189-277, 348-363).                                              *)
AcceptedIsDelivered ==
  \A s \in Sessions, n \in 1..MaxEvents : (accepted[s] >= n) ~> (got[s] >= n)
PublishReturns ==
  \A p \in Publishers : (wait[p] # Nothing) ~> (wait[p] = Nothing)
CloseTerminates ==
  \A c \in Closers : (gathers[c] # Nothing) ~> (gathers[c] = Nothing)
CallsReturn == AcceptedIsDelivered /\ PublishReturns /\ CloseTerminates
=============================================================================
