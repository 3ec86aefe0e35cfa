---------------------------- MODULE MCLiveProofs ----------------------------
(***************************************************************************)
(* Proofs about the event bus, for every set of sessions, subscribers,     *)
(* publishers and closers; and, at the end, about the run it shares with   *)
(* the registry: a behaviour of the sum is, of the registry's variables,   *)
(* one of the registry, so what RegistryProofs proves holds of it.         *)
(***************************************************************************)
EXTENDS MCLive, SequenceTheorems, TLAPS

(* What ties the three tables of the bus (w: worker, it: items, qm: qmap)  *)
(* to the counts of accepted and drawn events.  Stated over parameters, so *)
(* that a step that enqueues and then continues is proved in two parts.    *)
TableTypes(w, it, qm, acc, drw) ==
  /\ w \in [Queues -> Worker]
  /\ it \in [Queues -> Seq(Envelope \cup {CloseToken})]
  /\ qm \in [Sessions -> Queues \cup {NoQueue}]
  /\ acc \in [Sessions -> 0..MaxEvents]
  /\ drw \in [Sessions -> 0..MaxEvents]

(* The session table and the live workers name each other.                 *)
TablesAgree(w, qm) ==
  /\ \A s \in Sessions : qm[s] # NoQueue => w[qm[s]].pc # "gone" /\ w[qm[s]].sess = s
  /\ \A q \in Queues : w[q].pc # "gone" => qm[w[q].sess] = q

(* What a queue and its worker hold at each point of the drain loop.       *)
WorkerHolds(w, it, drw) ==
  \A q \in Queues :
    /\ w[q].pc = "gone" => it[q] = <<>>
    /\ w[q].pc = "get" => it[q] # <<>>
    /\ w[q].pc = "run" => w[q].cur \in Envelope /\ w[q].cur.num = drw[w[q].sess]

(* A session's queue holds the events drawn+1 .. accepted in this order,   *)
(* behind them close tokens only, and without a queue nothing is pending.  *)
QueueNumbers(it, qm, acc, drw, cl) ==
  \A s \in Sessions :
    /\ drw[s] <= acc[s]
    /\ qm[s] = NoQueue => drw[s] = acc[s]
    /\ qm[s] # NoQueue =>
         /\ Len(it[qm[s]]) >= acc[s] - drw[s]
         /\ ~cl => Len(it[qm[s]]) = acc[s] - drw[s]
         /\ \A i \in 1..Len(it[qm[s]]) :
              /\ i <= acc[s] - drw[s] => /\ it[qm[s]][i] \in Envelope
                                         /\ it[qm[s]][i].num = drw[s] + i
              /\ i > acc[s] - drw[s] => it[qm[s]][i] = CloseToken

Tables(w, it, qm, acc, drw, cl) ==
  /\ TableTypes(w, it, qm, acc, drw)
  /\ TablesAgree(w, qm)
  /\ WorkerHolds(w, it, drw)
  /\ QueueNumbers(it, qm, acc, drw, cl)

TodoInv == \A q \in Queues : worker[q].pc = "run" => worker[q].todo # <<>>

GatherInv ==
  \A c \in Closers : gathers[c] # Nothing =>
    closed /\ \A q \in Queues : Live(q) => q \in gathers[c]

GotInv ==
  \A s \in Sessions : got[s] <= drawn[s] /\ (CancelSubs = {} => got[s] = drawn[s])

(* An awaited event is still queued, or it is the one being delivered.     *)
AwaitsPending(wt, w, qm, acc, drw) ==
  \A p \in Publishers : wt[p] # Nothing =>
    /\ wt[p].num <= acc[wt[p].sess]
    /\ wt[p].num >= drw[wt[p].sess]
    /\ wt[p].num = drw[wt[p].sess] =>
         qm[wt[p].sess] # NoQueue /\ w[qm[wt[p].sess]].pc = "run"

WaitInv == CancelSubs = {} => AwaitsPending(wait, worker, qmap, accepted, drawn)

IInv ==
  /\ TypeOK
  /\ Tables(worker, items, qmap, accepted, drawn, closed)
  /\ TodoInv
  /\ GatherInv
  /\ GotInv
  /\ WaitInv

-----------------------------------------------------------------------------
(* Enqueuing an event on an open bus keeps the tables in order: what       *)
(* publish, a handler's publish and the failure report have in common.     *)
LEMMA EnqueueTables ==
  ASSUME TypeOK, Tables(worker, items, qmap, accepted, drawn, closed), ~closed,
         NEW s \in Sessions, NEW k \in Kinds, NEW q \in Queues,
         accepted[s] < MaxEvents, QueueFor(s, q)
  PROVE  Tables(EnsureWorker(s, q), Put(s, k, q), [qmap EXCEPT ![s] = q],
                [accepted EXCEPT ![s] = @ + 1], drawn, closed)
<1> DEFINE w == EnsureWorker(s, q)
           it == Put(s, k, q)
           qm == [qmap EXCEPT ![s] = q]
           acc == [accepted EXCEPT ![s] = @ + 1]
           e == [kind |-> k, num |-> accepted[s] + 1]
<1>1. /\ e \in Envelope
      /\ e # CloseToken
      /\ accepted[s] \in Nat
      /\ drawn[s] \in Nat
  BY TokenAssumption, BoundAssumption DEF TypeOK, Envelope
<1>2. TableTypes(w, it, qm, acc, drawn)
  <2>1. Ready(s) \in Worker
    BY DEF Ready, Worker
  <2>2. w \in [Queues -> Worker]
    BY <2>1 DEF TypeOK, EnsureWorker
  <2>3. it \in [Queues -> Seq(Envelope \cup {CloseToken})]
    BY <1>1, AppendProperties DEF TypeOK, Put
  <2>4. /\ qm \in [Sessions -> Queues \cup {NoQueue}]
        /\ acc \in [Sessions -> 0..MaxEvents]
    BY <1>1, BoundAssumption DEF TypeOK
  <2>5. QED BY <2>2, <2>3, <2>4 DEF TypeOK, TableTypes
<1>3. /\ qmap[s] = NoQueue => /\ worker[q].pc = "gone"
                              /\ items[q] = <<>>
      /\ qmap[s] # NoQueue => /\ q = qmap[s]
                              /\ worker[q].pc # "gone"
                              /\ worker[q].sess = s
  BY DEF Tables, TablesAgree, WorkerHolds, QueueFor, Live
<1>4. TablesAgree(w, qm)
  <2>1. CASE qmap[s] # NoQueue
    BY <1>3, <2>1 DEF TypeOK, Tables, TablesAgree, EnsureWorker
  <2>2. CASE qmap[s] = NoQueue
    BY <1>3, <2>2, NullAssumption
    DEF TypeOK, Tables, TablesAgree, EnsureWorker, Ready
  <2>3. QED BY <2>1, <2>2
<1>5. items[q] \in Seq(Envelope \cup {CloseToken}) /\ it[q] = Append(items[q], e)
  BY DEF TypeOK, Put
<1>6. /\ it[q] # <<>>
      /\ Len(it[q]) = Len(items[q]) + 1
      /\ it[q][Len(items[q]) + 1] = e
      /\ \A i \in 1..Len(items[q]) : it[q][i] = items[q][i]
      /\ \A r \in Queues : r # q => it[r] = items[r]
      /\ Len(items[q]) \in Nat
  BY <1>1, <1>5, AppendProperties DEF Put, TypeOK
<1>7. WorkerHolds(w, it, drawn)
  BY <1>3, <1>6 DEF TypeOK, Tables, WorkerHolds, EnsureWorker, Ready
<1>8. QueueNumbers(it, qm, acc, drawn, closed)
  <2> SUFFICES ASSUME NEW t \in Sessions
               PROVE  /\ drawn[t] <= acc[t]
                      /\ qm[t] = NoQueue => drawn[t] = acc[t]
                      /\ qm[t] # NoQueue =>
                           /\ Len(it[qm[t]]) >= acc[t] - drawn[t]
                           /\ ~closed => Len(it[qm[t]]) = acc[t] - drawn[t]
                           /\ \A i \in 1..Len(it[qm[t]]) :
                                /\ i <= acc[t] - drawn[t] => /\ it[qm[t]][i] \in Envelope
                                                             /\ it[qm[t]][i].num = drawn[t] + i
                                /\ i > acc[t] - drawn[t] => it[qm[t]][i] = CloseToken
    BY DEF QueueNumbers
  <2>1. CASE t # s
    <3>1. qm[t] = qmap[t] /\ acc[t] = accepted[t]
      BY <2>1 DEF TypeOK
    <3>2. qmap[t] # q
      BY <1>3, <2>1, NullAssumption DEF TypeOK, Tables, TablesAgree
    <3>3. qmap[t] # NoQueue => qmap[t] \in Queues /\ it[qmap[t]] = items[qmap[t]]
      BY <1>6, <3>2 DEF TypeOK
    <3>4. QED BY <3>1, <3>3 DEF Tables, QueueNumbers
  <2>2. CASE t = s
    <3>1. qm[s] = q /\ acc[s] = accepted[s] + 1 /\ q # NoQueue
      BY NullAssumption DEF TypeOK
    <3>2. drawn[s] <= accepted[s] /\ Len(items[q]) = accepted[s] - drawn[s]
      BY <1>1, <1>3 DEF Tables, QueueNumbers
    <3>3. ASSUME NEW i \in 1..Len(items[q])
          PROVE  items[q][i] \in Envelope /\ items[q][i].num = drawn[s] + i
      <4>1. qmap[s] # NoQueue /\ q = qmap[s]
        BY <1>3, <3>2 DEF Tables, QueueNumbers
      <4>2. QED BY <1>1, <3>2, <4>1 DEF Tables, QueueNumbers
    <3>4. ASSUME NEW i \in 1..Len(it[q])
          PROVE  /\ i <= acc[s] - drawn[s]
                 /\ it[q][i] \in Envelope
                 /\ it[q][i].num = drawn[s] + i
      <4>1. CASE i = Len(items[q]) + 1
        BY <1>1, <1>6, <3>1, <3>2, <4>1
      <4>2. CASE i # Len(items[q]) + 1
        <5>1. i \in 1..Len(items[q])
          BY <1>6, <4>2
        <5>2. it[q][i] = items[q][i] /\ i <= acc[s] - drawn[s]
          BY <1>1, <1>6, <3>1, <3>2, <5>1
        <5>3. QED BY <3>3, <5>1, <5>2
      <4>3. QED BY <4>1, <4>2
    <3>5. drawn[s] <= acc[s] /\ Len(it[q]) = acc[s] - drawn[s] /\ acc[s] \in Nat
      BY <1>1, <1>6, <3>1, <3>2
    <3>6. \A i \in 1..Len(it[q]) : ~(i > acc[s] - drawn[s])
      BY <1>1, <3>5
    <3> HIDE DEF qm, it, acc
    <3>7. QED BY <1>1, <2>2, <3>1, <3>4, <3>5, <3>6
  <2>3. QED BY <2>1, <2>2
<1>9. QED BY <1>2, <1>4, <1>7, <1>8 DEF Tables

(* The rest of the drain loop's body keeps the tables in order, given that *)
(* they are with q running event e.                                        *)
LEMMA ContinueTables ==
  ASSUME NEW q \in Queues, NEW e, NEW rest, NEW w, NEW it, NEW qm, NEW acc, NEW drw, NEW cl,
         w \in [Queues -> Worker], worker[q].sess \in Sessions,
         Tables([w EXCEPT ![q] = Running(worker[q].sess, e, rest)], it, qm, acc, drw, cl),
         Continue(q, e, rest, w, it, qm)
  PROVE  Tables(worker', items', qmap', acc, drw, cl)
<1> DEFINE s == worker[q].sess
           w1 == [w EXCEPT ![q] = Running(s, e, rest)]
<1>0. Tables(w1, it, qm, acc, drw, cl)
  OBVIOUS
<1>1. w1[q] = Running(s, e, rest) /\ w1[q].pc = "run" /\ w1[q].sess = s
  BY DEF Running
<1>2. \A r \in Queues : r # q => w1[r] = w[r]
  OBVIOUS
<1> HIDE DEF w1
<1>3. items' = it
  BY DEF Continue
<1>4. qm[s] = q /\ q # NoQueue
  BY <1>0, <1>1, NullAssumption DEF Tables, TablesAgree
<1>5. CASE rest # <<>>
  BY <1>0, <1>3, <1>5 DEF Continue, w1
<1>6. CASE rest = <<>> /\ it[q] # <<>>
  <2>1. worker' = [w EXCEPT ![q] = Ready(s)] /\ qmap' = qm
    BY <1>6 DEF Continue
  <2>2. /\ worker'[q].pc = "get"
        /\ worker'[q].sess = s
        /\ \A r \in Queues : r # q => worker'[r] = w1[r]
        /\ Ready(s) \in Worker
    BY <1>2, <2>1 DEF Ready, Worker
  <2>3. TableTypes(worker', items', qmap', acc, drw)
    BY <1>0, <1>3, <2>1, <2>2 DEF Tables, TableTypes
  <2>4. TablesAgree(worker', qmap')
    BY <1>0, <1>1, <1>4, <2>1, <2>2 DEF Tables, TableTypes, TablesAgree
  <2>5. WorkerHolds(worker', items', drw)
    BY <1>0, <1>3, <1>6, <2>2 DEF Tables, TableTypes, WorkerHolds
  <2>6. QueueNumbers(items', qmap', acc, drw, cl)
    BY <1>0, <1>3, <2>1 DEF Tables
  <2>7. QED BY <2>3, <2>4, <2>5, <2>6 DEF Tables
<1>7. CASE rest = <<>> /\ it[q] = <<>>
  <2>1. worker' = [w EXCEPT ![q] = Gone] /\ qmap' = [qm EXCEPT ![s] = NoQueue]
    BY <1>4, <1>7 DEF Continue, Release
  <2>2. /\ worker'[q].pc = "gone"
        /\ \A r \in Queues : r # q => worker'[r] = w1[r]
        /\ Gone \in Worker
    BY <1>2, <2>1, SessionAssumption DEF Gone, Worker
  <2>3. TableTypes(worker', items', qmap', acc, drw)
    BY <1>0, <1>3, <2>1, <2>2 DEF Tables, TableTypes
  <2>4. /\ qmap'[s] = NoQueue
        /\ \A t \in Sessions : t # s => qmap'[t] = qm[t] /\ qm[t] # q
    BY <1>0, <1>1, <1>4, <2>1 DEF Tables, TableTypes, TablesAgree
  <2>5. TablesAgree(worker', qmap')
    <3>1. \A r \in Queues : w1[r].sess \in Sessions
      BY <1>0 DEF Tables, TableTypes, Worker
    <3>2. ASSUME NEW t \in Sessions, qmap'[t] # NoQueue
          PROVE  worker'[qmap'[t]].pc # "gone" /\ worker'[qmap'[t]].sess = t
      <4>1. qmap'[t] = qm[t] /\ qm[t] # q /\ qm[t] \in Queues
        BY <1>0, <2>4, <3>2 DEF Tables, TableTypes
      <4>2. QED BY <1>0, <2>2, <3>2, <4>1 DEF Tables, TablesAgree
    <3>3. ASSUME NEW r \in Queues, worker'[r].pc # "gone"
          PROVE  qmap'[worker'[r].sess] = r
      <4>1. r # q /\ worker'[r] = w1[r]
        BY <2>2, <3>3
      <4>2. qm[w1[r].sess] = r
        BY <1>0, <3>3, <4>1 DEF Tables, TablesAgree
      <4>3. QED BY <1>4, <2>4, <3>1, <4>1, <4>2
    <3>4. QED BY <3>2, <3>3 DEF TablesAgree
  <2>6. WorkerHolds(worker', items', drw)
    BY <1>0, <1>3, <1>7, <2>2 DEF Tables, TableTypes, WorkerHolds
  <2>7. drw[s] = acc[s]
    <3>1. drw[s] <= acc[s] /\ Len(it[q]) >= acc[s] - drw[s]
      BY <1>0, <1>4 DEF Tables, QueueNumbers
    <3>2. drw[s] \in Int /\ acc[s] \in Int /\ Len(it[q]) = 0
      BY <1>0, <1>7, BoundAssumption DEF Tables, TableTypes
    <3>3. QED BY <3>1, <3>2
  <2>8. QueueNumbers(items', qmap', acc, drw, cl)
    <3>1. QueueNumbers(it, qm, acc, drw, cl)
      BY <1>0 DEF Tables
    <3>2. drw[s] <= acc[s]
      BY <3>1 DEF QueueNumbers
    <3> HIDE DEF s
    <3>3. QED BY <1>3, <2>4, <2>7, <3>1, <3>2 DEF QueueNumbers
  <2>9. QED BY <2>3, <2>5, <2>6, <2>8 DEF Tables
<1>8. QED BY <1>5, <1>6, <1>7

(* It also keeps every awaited event pending: the event it finishes is     *)
(* awaited by nobody afterwards.                                           *)
LEMMA ContinueAwaits ==
  ASSUME NEW q \in Queues, NEW e, NEW rest, NEW w, NEW it, NEW qm, NEW acc, NEW drw, NEW cl,
         w \in [Queues -> Worker], worker[q].sess \in Sessions,
         wait \in [Publishers -> Awaited \cup {Nothing}],
         Tables([w EXCEPT ![q] = Running(worker[q].sess, e, rest)], it, qm, acc, drw, cl),
         AwaitsPending(wait, [w EXCEPT ![q] = Running(worker[q].sess, e, rest)], qm, acc, drw),
         Continue(q, e, rest, w, it, qm)
  PROVE  AwaitsPending(wait', worker', qmap', acc, drw)
<1> DEFINE s == worker[q].sess
           w1 == [w EXCEPT ![q] = Running(s, e, rest)]
<1>0. Tables(w1, it, qm, acc, drw, cl) /\ AwaitsPending(wait, w1, qm, acc, drw)
  OBVIOUS
<1>1. w1[q] = Running(s, e, rest) /\ w1[q].pc = "run" /\ w1[q].sess = s /\ w1[q].cur = e
  BY DEF Running
<1>2. /\ \A r \in Queues : r # q => w1[r] = w[r]
      /\ \A x : \A r \in Queues : r # q => [w EXCEPT ![q] = x][r] = w[r]
  OBVIOUS
<1>3. CASE rest # <<>>
  BY <1>0, <1>3 DEF Continue
<1> HIDE DEF w1
<1>4. CASE rest = <<>>
  <2>1. wait' = Resolve(s, e)
    BY <1>4 DEF Continue
  <2>2. qm[s] = q /\ e.num = drw[s]
    BY <1>0, <1>1 DEF Tables, TablesAgree, WorkerHolds
  <2>3. \A r \in Queues : r # q => worker'[r] = w1[r]
    BY <1>2, <1>4 DEF Continue
  <2>4. \A t \in Sessions : t # s => qmap'[t] = qm[t] /\ qm[t] # q
    BY <1>0, <1>1, <1>4, NullAssumption DEF Continue, Release, Tables, TableTypes, TablesAgree
  <2>5. SUFFICES ASSUME NEW p \in Publishers, wait'[p] # Nothing
                 PROVE  /\ wait'[p].num <= acc[wait'[p].sess]
                        /\ wait'[p].num >= drw[wait'[p].sess]
                        /\ wait'[p].num = drw[wait'[p].sess] =>
                             /\ qmap'[wait'[p].sess] # NoQueue
                             /\ worker'[qmap'[wait'[p].sess]].pc = "run"
    BY DEF AwaitsPending
  <2>6. /\ wait'[p] = wait[p]
        /\ wait[p] # [sess |-> s, num |-> e.num]
        /\ wait[p] \in Awaited
    BY <2>1, <2>5 DEF Resolve
  <2>7. wait[p].sess \in Sessions /\ (wait[p].sess = s => wait[p].num # e.num)
    BY <2>6 DEF Awaited
  <2>8. /\ wait[p].num <= acc[wait[p].sess]
        /\ wait[p].num >= drw[wait[p].sess]
        /\ wait[p].num = drw[wait[p].sess] =>
             qm[wait[p].sess] # NoQueue /\ w1[qm[wait[p].sess]].pc = "run"
    BY <1>0, <2>5, <2>6 DEF AwaitsPending
  <2>9. CASE wait[p].num = drw[wait[p].sess]
    <3>1. wait[p].sess # s
      BY <2>2, <2>7, <2>9
    <3>2. qm[wait[p].sess] \in Queues /\ qm[wait[p].sess] # q
      BY <1>0, <2>4, <2>7, <2>8, <2>9, <3>1 DEF Tables, TableTypes
    <3>3. QED BY <2>3, <2>4, <2>6, <2>7, <2>8, <2>9, <3>1, <3>2
  <2>10. QED BY <2>6, <2>8, <2>9
<1>5. QED BY <1>3, <1>4

-----------------------------------------------------------------------------
(* One step that enqueues an event, in publish or in a handler's publish.  *)
LEMMA EnqueueStep ==
  ASSUME IInv, ~closed,
         NEW s \in Sessions, NEW k \in Kinds, NEW q \in Queues,
         accepted[s] < MaxEvents, QueueFor(s, q),
         items' = Put(s, k, q), worker' = EnsureWorker(s, q),
         qmap' = [qmap EXCEPT ![s] = q],
         accepted' = [accepted EXCEPT ![s] = @ + 1],
         UNCHANGED <<subs, closed, gathers, drawn, got>>,
         \/ wait' = wait
         \/ \E p \in Publishers :
              wait' = [wait EXCEPT ![p] = [sess |-> s, num |-> accepted[s] + 1]]
  PROVE  IInv'
<1>1. Tables(worker', items', qmap', accepted', drawn', closed')
  BY EnqueueTables DEF IInv
<1>2. accepted[s] \in Nat /\ drawn[s] \in Nat /\ drawn[s] <= accepted[s]
      /\ accepted'[s] = accepted[s] + 1
  BY BoundAssumption DEF IInv, TypeOK, Tables, QueueNumbers
<1>3. wait' \in [Publishers -> Awaited \cup {Nothing}]
  <2>1. accepted[s] + 1 \in 1..MaxEvents
    BY <1>2, BoundAssumption
  <2>2. [sess |-> s, num |-> accepted[s] + 1] \in Awaited
    BY <2>1 DEF Awaited
  <2>3. wait \in [Publishers -> Awaited \cup {Nothing}]
    BY DEF IInv, TypeOK
  <2>4. QED BY <2>2, <2>3
<1>4. TypeOK'
  BY <1>1, <1>3 DEF IInv, TypeOK, Tables, TableTypes
<1>5. TodoInv'
  BY DEF IInv, TypeOK, TodoInv, EnsureWorker, Ready
<1>6. GatherInv'
  BY DEF IInv, GatherInv
<1>7. GotInv'
  BY DEF IInv, GotInv
<1>8. WaitInv'
  <2> SUFFICES ASSUME CancelSubs = {}, NEW p \in Publishers, wait'[p] # Nothing
               PROVE  /\ wait'[p].num <= accepted'[wait'[p].sess]
                      /\ wait'[p].num >= drawn[wait'[p].sess]
                      /\ wait'[p].num = drawn[wait'[p].sess] =>
                           /\ qmap'[wait'[p].sess] # NoQueue
                           /\ worker'[qmap'[wait'[p].sess]].pc = "run"
    BY DEF WaitInv, AwaitsPending
  <2>1. CASE wait'[p] = [sess |-> s, num |-> accepted[s] + 1]
    BY <1>2, <2>1
  <2>2. CASE wait'[p] = wait[p]
    <3>1. wait[p] \in Awaited
      BY <2>2 DEF IInv, TypeOK
    <3>2. /\ wait[p].num <= accepted[wait[p].sess]
          /\ wait[p].num >= drawn[wait[p].sess]
          /\ wait[p].num = drawn[wait[p].sess] =>
               /\ qmap[wait[p].sess] # NoQueue
               /\ worker[qmap[wait[p].sess]].pc = "run"
      BY <2>2 DEF IInv, WaitInv, AwaitsPending
    <3>3. wait[p].sess \in Sessions /\ wait[p].num \in Int
      BY <3>1, BoundAssumption DEF Awaited
    <3>4. /\ accepted[wait[p].sess] \in Int
          /\ accepted'[wait[p].sess] \in Int
          /\ accepted[wait[p].sess] <= accepted'[wait[p].sess]
      BY <1>2, <3>3, BoundAssumption DEF IInv, TypeOK
    <3>5. qmap[wait[p].sess] # NoQueue =>
            /\ qmap'[wait[p].sess] = qmap[wait[p].sess]
            /\ worker'[qmap[wait[p].sess]] = worker[qmap[wait[p].sess]]
      <4>1. CASE qmap[s] # NoQueue
        BY <3>3, <4>1 DEF IInv, TypeOK, QueueFor, EnsureWorker
      <4>2. CASE qmap[s] = NoQueue /\ qmap[wait[p].sess] # NoQueue
        <5>1. worker[q].pc = "gone" /\ worker[qmap[wait[p].sess]].pc # "gone"
              /\ wait[p].sess # s
          BY <3>3, <4>2 DEF IInv, Tables, TablesAgree, QueueFor, Live
        <5>2. QED BY <3>3, <4>2, <5>1 DEF IInv, TypeOK, EnsureWorker
      <4>3. QED BY <4>1, <4>2
    <3>6. QED BY <2>2, <3>2, <3>3, <3>4, <3>5
  <2>3. QED BY <2>1, <2>2 DEF IInv, TypeOK
<1>9. QED BY <1>1, <1>4, <1>5, <1>6, <1>7, <1>8 DEF IInv

(* One step of a worker that ends a handler or takes an event: the tables  *)
(* w, it, qm are what the step made of them before it continued.           *)
LEMMA ContinueStep ==
  ASSUME IInv, NEW q \in Queues, NEW e, NEW rest \in Seq(Subs), NEW w, NEW it, NEW qm,
         w \in [Queues -> Worker], Live(q),
         closed => w = worker,
         \A r \in Queues : r # q /\ w[r].pc = "run" => w[r].todo # <<>>,
         Tables([w EXCEPT ![q] = Running(worker[q].sess, e, rest)], it, qm,
                accepted', drawn', closed),
         CancelSubs = {} =>
           AwaitsPending(wait, [w EXCEPT ![q] = Running(worker[q].sess, e, rest)], qm,
                         accepted', drawn'),
         Continue(q, e, rest, w, it, qm),
         UNCHANGED <<subs, closed, gathers>>,
         got' \in [Sessions -> 0..MaxEvents], GotInv'
  PROVE  IInv'
<1>0. worker[q].sess \in Sessions /\ wait \in [Publishers -> Awaited \cup {Nothing}]
  BY DEF IInv, TypeOK, Worker
<1>1. Tables(worker', items', qmap', accepted', drawn', closed')
  BY <1>0, ContinueTables
<1>2. wait' \in [Publishers -> Awaited \cup {Nothing}]
  BY <1>0 DEF Continue, Resolve
<1>3. TypeOK'
  BY <1>1, <1>2 DEF IInv, TypeOK, Tables, TableTypes
<1>4. TodoInv'
  BY DEF Continue, TodoInv, Running, Ready, Gone
<1>5. GatherInv'
  <2>1. CASE ~closed
    BY <2>1 DEF IInv, GatherInv
  <2>2. CASE closed
    BY <2>2 DEF IInv, GatherInv, Continue, Live
  <2>3. QED BY <2>1, <2>2
<1>6. WaitInv'
  BY <1>0, ContinueAwaits DEF WaitInv
<1>7. QED BY <1>1, <1>3, <1>4, <1>5, <1>6 DEF IInv

(* A worker that ends and leaves no pending event, or only dropped ones.   *)
LEMMA EndStep ==
  ASSUME IInv, NEW q \in Queues, Live(q), EndWorker(q),
         drawn' = [drawn EXCEPT ![worker[q].sess] = accepted[worker[q].sess]],
         CancelSubs = {} => drawn[worker[q].sess] = accepted[worker[q].sess]
                            /\ worker[q].pc = "get" /\ wait' = wait,
         wait' = wait \/ wait' = Resolve(worker[q].sess, worker[q].cur),
         UNCHANGED <<subs, closed, gathers, accepted, got>>
  PROVE  IInv'
<1> DEFINE s == worker[q].sess
<1>0. /\ s \in Sessions
      /\ qmap[s] = q /\ q # NoQueue
      /\ accepted[s] \in 0..MaxEvents /\ drawn[s] \in 0..MaxEvents
      /\ drawn[s] <= accepted[s]
  BY NullAssumption DEF IInv, TypeOK, Worker, Tables, TablesAgree, QueueNumbers, Live
<1> HIDE DEF s
<1>1. /\ worker' = [worker EXCEPT ![q] = Gone]
      /\ items' = [items EXCEPT ![q] = <<>>]
      /\ qmap' = [qmap EXCEPT ![s] = NoQueue]
      /\ drawn' = [drawn EXCEPT ![s] = accepted[s]]
  BY <1>0 DEF EndWorker, Release, s
<1>2. Gone \in Worker /\ Gone.pc = "gone" /\ s = worker[q].sess
  BY SessionAssumption DEF Gone, Worker, s
<1>3. /\ qmap'[s] = NoQueue
      /\ \A t \in Sessions : t # s => qmap'[t] = qmap[t] /\ qmap[t] # q /\ drawn'[t] = drawn[t]
      /\ drawn'[s] = accepted[s]
      /\ worker'[q].pc = "gone" /\ items'[q] = <<>>
      /\ \A r \in Queues : r # q => worker'[r] = worker[r] /\ items'[r] = items[r]
  BY <1>0, <1>1, <1>2 DEF IInv, TypeOK, Tables, TablesAgree
<1>4. TableTypes(worker', items', qmap', accepted', drawn')
  BY <1>0, <1>1, <1>2 DEF IInv, TypeOK, TableTypes
<1>5. \A r \in Queues : r # q /\ worker[r].pc # "gone" => worker[r].sess \in Sessions \ {s}
  BY <1>0, <1>2 DEF IInv, TypeOK, Worker, Tables, TablesAgree
<1>6. TablesAgree(worker', qmap')
  <2>1. ASSUME NEW t \in Sessions, qmap'[t] # NoQueue
        PROVE  worker'[qmap'[t]].pc # "gone" /\ worker'[qmap'[t]].sess = t
    <3>1. t # s /\ qmap'[t] = qmap[t] /\ qmap[t] # q /\ qmap[t] \in Queues
      BY <1>3, <2>1 DEF IInv, TypeOK
    <3>2. worker'[qmap[t]] = worker[qmap[t]]
      BY <1>3, <3>1
    <3>3. QED BY <2>1, <3>1, <3>2 DEF IInv, Tables, TablesAgree
  <2>2. ASSUME NEW r \in Queues, worker'[r].pc # "gone"
        PROVE  qmap'[worker'[r].sess] = r
    BY <1>3, <1>5, <2>2 DEF IInv, Tables, TablesAgree
  <2>3. QED BY <2>1, <2>2 DEF TablesAgree
<1>7. WorkerHolds(worker', items', drawn')
  BY <1>3, <1>5 DEF IInv, Tables, WorkerHolds
<1>8. QueueNumbers(items', qmap', accepted', drawn', closed')
  <2>1. QueueNumbers(items, qmap, accepted, drawn, closed)
    BY DEF IInv, Tables
  <2>2. \A t \in Sessions : t # s /\ qmap[t] # NoQueue => items'[qmap[t]] = items[qmap[t]]
    BY <1>3 DEF IInv, TypeOK
  <2>3. accepted[s] <= accepted[s]
    BY <1>0, BoundAssumption
  <2>4. QED BY <1>3, <2>1, <2>2, <2>3 DEF QueueNumbers
<1>9. wait' \in [Publishers -> Awaited \cup {Nothing}]
  BY DEF IInv, TypeOK, Resolve
<1>10. TypeOK'
  BY <1>4, <1>9 DEF IInv, TypeOK, TableTypes
<1>11. TodoInv' /\ GatherInv'
  BY <1>3 DEF IInv, TodoInv, GatherInv, Live
<1>12. GotInv'
  <2>1. \A t \in Sessions : drawn[t] <= drawn'[t] /\ drawn[t] \in Int /\ drawn'[t] \in Int
                            /\ got[t] \in Int
    BY <1>0, <1>3, BoundAssumption DEF IInv, TypeOK
  <2>2. CancelSubs = {} => \A t \in Sessions : drawn'[t] = drawn[t]
    BY <1>2, <1>3
  <2>3. QED BY <2>1, <2>2 DEF IInv, GotInv
<1>13. WaitInv'
  <2> SUFFICES ASSUME CancelSubs = {} PROVE AwaitsPending(wait, worker', qmap', accepted, drawn')
    BY DEF WaitInv
  <2>1. drawn' = drawn
    BY <1>0, <1>1, <1>2 DEF IInv, TypeOK
  <2>2. worker[q].pc = "get"
    OBVIOUS
  <2>3. SUFFICES ASSUME NEW p \in Publishers, wait[p] # Nothing
                 PROVE  /\ wait[p].num <= accepted[wait[p].sess]
                        /\ wait[p].num >= drawn[wait[p].sess]
                        /\ wait[p].num = drawn[wait[p].sess] =>
                             /\ qmap'[wait[p].sess] # NoQueue
                             /\ worker'[qmap'[wait[p].sess]].pc = "run"
    BY <2>1 DEF AwaitsPending
  <2>4. wait[p].sess \in Sessions
    BY <2>3 DEF IInv, TypeOK, Awaited
  <2>5. /\ wait[p].num <= accepted[wait[p].sess]
        /\ wait[p].num >= drawn[wait[p].sess]
        /\ wait[p].num = drawn[wait[p].sess] =>
             /\ qmap[wait[p].sess] # NoQueue
             /\ worker[qmap[wait[p].sess]].pc = "run"
    BY <2>3 DEF IInv, WaitInv, AwaitsPending
  <2>6. wait[p].num = drawn[wait[p].sess] =>
          wait[p].sess # s /\ qmap[wait[p].sess] \in Queues /\ qmap[wait[p].sess] # q
    BY <1>0, <2>2, <2>4, <2>5 DEF IInv, TypeOK
  <2>7. QED BY <1>3, <2>4, <2>5, <2>6
<1>14. QED BY <1>4, <1>6, <1>7, <1>8, <1>10, <1>11, <1>12, <1>13 DEF IInv, Tables

-----------------------------------------------------------------------------
(* Taking the next item: either the close token, with nothing pending, or  *)
(* the event drawn + 1 of the session.                                     *)
LEMMA WorkerGetStep ==
  ASSUME IInv, NEW q \in Queues, WorkerGet(q)
  PROVE  IInv'
<1> DEFINE s == worker[q].sess
           e == Head(items[q])
<1>0. /\ s \in Sessions /\ Live(q)
      /\ qmap[s] = q /\ q # NoQueue
      /\ accepted[s] \in Nat /\ drawn[s] \in Nat /\ drawn[s] <= accepted[s]
      /\ items[q] \in Seq(Envelope \cup {CloseToken}) /\ items[q] # <<>>
  BY NullAssumption, BoundAssumption
  DEF IInv, TypeOK, Worker, Tables, TablesAgree, QueueNumbers, Live, WorkerGet
<1>1. /\ Len(items[q]) >= 1 /\ Len(items[q]) \in Nat
      /\ e = items[q][1]
      /\ Tail(items[q]) \in Seq(Envelope \cup {CloseToken})
      /\ Len(Tail(items[q])) = Len(items[q]) - 1
      /\ \A i \in 1..Len(items[q]) - 1 : Tail(items[q])[i] = items[q][i + 1]
  BY <1>0, HeadTailProperties, LenProperties, EmptySeq
<1>2. /\ Len(items[q]) >= accepted[s] - drawn[s]
      /\ ~closed => Len(items[q]) = accepted[s] - drawn[s]
      /\ \A i \in 1..Len(items[q]) :
           /\ i <= accepted[s] - drawn[s] => /\ items[q][i] \in Envelope
                                             /\ items[q][i].num = drawn[s] + i
           /\ i > accepted[s] - drawn[s] => items[q][i] = CloseToken
  BY <1>0 DEF IInv, Tables, QueueNumbers
<1>3. CASE e = CloseToken
  <2>1. drawn[s] = accepted[s]
    BY <1>0, <1>1, <1>2, <1>3, TokenAssumption
  <2>2. EndWorker(q) /\ UNCHANGED <<subs, closed, gathers, accepted, wait, drawn, got>>
    BY <1>3 DEF WorkerGet
  <2>3. drawn' = [drawn EXCEPT ![s] = accepted[s]]
    BY <1>0, <2>1, <2>2 DEF IInv, TypeOK
  <2>4. worker[q].pc = "get"
    BY DEF WorkerGet
  <2>5. QED BY <1>0, <2>1, <2>2, <2>3, <2>4, EndStep
<1>4. CASE e # CloseToken
  <2> DEFINE it == [items EXCEPT ![q] = Tail(@)]
             rest == subs[e.kind]
             w1 == [worker EXCEPT ![q] = Running(s, e, rest)]
  <2>1. /\ accepted[s] - drawn[s] >= 1
        /\ e \in Envelope /\ e.num = drawn[s] + 1
    BY <1>0, <1>1, <1>2, <1>4
  <2>2. /\ Continue(q, e, rest, worker, it, qmap)
        /\ got' = [got EXCEPT ![s] = e.num]
        /\ drawn' = [drawn EXCEPT ![s] = e.num]
        /\ UNCHANGED <<subs, closed, gathers, accepted>>
        /\ worker[q].pc = "get"
    BY <1>4 DEF WorkerGet
  <2>3. rest \in Seq(Subs) /\ e.num \in 1..MaxEvents
    BY <2>1 DEF IInv, TypeOK, Envelope
  <2>4. got' \in [Sessions -> 0..MaxEvents] /\ drawn' \in [Sessions -> 0..MaxEvents]
    <3>1. e.num \in 0..MaxEvents
      BY <2>3, BoundAssumption
    <3>2. QED BY <2>2, <3>1 DEF IInv, TypeOK
  <2>5. /\ drawn'[s] = drawn[s] + 1 /\ got'[s] = drawn[s] + 1
        /\ \A t \in Sessions : t # s => drawn'[t] = drawn[t] /\ got'[t] = got[t]
    BY <1>0, <2>1, <2>2 DEF IInv, TypeOK
  <2>6. GotInv'
    BY <1>0, <2>5 DEF IInv, GotInv
  <2>7. Running(s, e, rest) \in Worker
    BY <1>0, <2>1, <2>3 DEF Running, Worker
  <2>8. /\ w1[q].pc = "run" /\ w1[q].sess = s /\ w1[q].cur = e
        /\ \A r \in Queues : r # q => w1[r] = worker[r] /\ it[r] = items[r]
        /\ it[q] = Tail(items[q])
    BY DEF Running, IInv, TypeOK
  <2>9. TableTypes(w1, it, qmap, accepted', drawn')
    BY <1>1, <2>2, <2>4, <2>7 DEF IInv, TypeOK, TableTypes
  <2> HIDE DEF w1, it, rest
  <2>10. TablesAgree(w1, qmap)
    <3>1. \A r \in Queues : (w1[r].pc # "gone" <=> worker[r].pc # "gone")
                             /\ w1[r].sess = worker[r].sess
      BY <1>0, <2>8 DEF Live
    <3>2. TablesAgree(worker, qmap) /\ qmap \in [Sessions -> Queues \cup {NoQueue}]
      BY DEF IInv, TypeOK, Tables
    <3>3. ASSUME NEW t \in Sessions, qmap[t] # NoQueue
          PROVE  w1[qmap[t]].pc # "gone" /\ w1[qmap[t]].sess = t
      BY <3>1, <3>2, <3>3 DEF TablesAgree
    <3>4. ASSUME NEW r \in Queues, w1[r].pc # "gone"
          PROVE  qmap[w1[r].sess] = r
      BY <3>1, <3>2, <3>4 DEF TablesAgree
    <3>5. QED BY <3>3, <3>4 DEF TablesAgree
  <2>11. \A r \in Queues : r # q /\ worker[r].pc # "gone" => worker[r].sess \in Sessions \ {s}
    BY <1>0 DEF IInv, TypeOK, Worker, Tables, TablesAgree
  <2>12. WorkerHolds(w1, it, drawn')
    BY <2>1, <2>5, <2>8, <2>11 DEF IInv, Tables, WorkerHolds
  <2>13. QueueNumbers(it, qmap, accepted', drawn', closed)
    <3> SUFFICES ASSUME NEW t \in Sessions
                 PROVE  /\ drawn'[t] <= accepted[t]
                        /\ qmap[t] = NoQueue => drawn'[t] = accepted[t]
                        /\ qmap[t] # NoQueue =>
                             /\ Len(it[qmap[t]]) >= accepted[t] - drawn'[t]
                             /\ ~closed => Len(it[qmap[t]]) = accepted[t] - drawn'[t]
                             /\ \A i \in 1..Len(it[qmap[t]]) :
                                  /\ i <= accepted[t] - drawn'[t] =>
                                       /\ it[qmap[t]][i] \in Envelope
                                       /\ it[qmap[t]][i].num = drawn'[t] + i
                                  /\ i > accepted[t] - drawn'[t] => it[qmap[t]][i] = CloseToken
      BY <2>2 DEF QueueNumbers
    <3>1. CASE t # s
      <4>1. drawn'[t] = drawn[t] /\ (qmap[t] # NoQueue => it[qmap[t]] = items[qmap[t]])
        BY <1>0, <2>5, <2>8, <3>1 DEF IInv, TypeOK, Tables, TablesAgree
      <4>2. QED BY <4>1 DEF IInv, Tables, QueueNumbers
    <3>2. CASE t = s
      <4>1. ASSUME NEW i \in 1..Len(it[q])
            PROVE  /\ i + 1 \in 1..Len(items[q])
                   /\ it[q][i] = items[q][i + 1]
        BY <1>1, <2>8
      <4>2. ASSUME NEW i \in 1..Len(it[q])
            PROVE  /\ i <= accepted[s] - drawn'[s] => /\ it[q][i] \in Envelope
                                                      /\ it[q][i].num = drawn'[s] + i
                   /\ i > accepted[s] - drawn'[s] => it[q][i] = CloseToken
        <5>1. (i + 1 <= accepted[s] - drawn[s] => /\ items[q][i + 1] \in Envelope
                                                  /\ items[q][i + 1].num = drawn[s] + (i + 1))
              /\ (i + 1 > accepted[s] - drawn[s] => items[q][i + 1] = CloseToken)
          BY <1>2, <4>1
        <5>2. i \in Int /\ it[q][i] = items[q][i + 1]
          BY <4>1
        <5>3. accepted[s] \in Nat /\ drawn[s] \in Nat /\ drawn'[s] = drawn[s] + 1
          BY <1>0, <2>5
        <5>4. i <= accepted[s] - drawn'[s] => i + 1 <= accepted[s] - drawn[s]
          BY <5>2, <5>3
        <5>5. i > accepted[s] - drawn'[s] => i + 1 > accepted[s] - drawn[s]
          BY <5>2, <5>3
        <5>6. drawn'[s] + i = drawn[s] + (i + 1)
          BY <5>2, <5>3
        <5>7. QED BY <5>1, <5>2, <5>4, <5>5, <5>6
      <4>3. /\ drawn'[s] <= accepted[s]
            /\ Len(it[q]) >= accepted[s] - drawn'[s]
            /\ ~closed => Len(it[q]) = accepted[s] - drawn'[s]
        <5>1. Len(it[q]) = Len(items[q]) - 1 /\ Len(items[q]) \in Nat
          BY <1>1, <2>8
        <5>2. accepted[s] \in Nat /\ drawn[s] \in Nat /\ drawn'[s] = drawn[s] + 1
          BY <1>0, <2>5
        <5>3. /\ Len(items[q]) >= accepted[s] - drawn[s]
              /\ ~closed => Len(items[q]) = accepted[s] - drawn[s]
          BY <1>2
        <5>4. drawn'[s] <= accepted[s]
          BY <2>1, <5>2
        <5>5. Len(it[q]) >= accepted[s] - drawn'[s]
          BY <5>1, <5>2, <5>3
        <5>6. ASSUME ~closed PROVE Len(it[q]) = accepted[s] - drawn'[s]
          <6>1. Len(items[q]) = accepted[s] - drawn[s]
            BY <5>3, <5>6
          <6>2. accepted[s] - drawn'[s] = (accepted[s] - drawn[s]) - 1
            BY <5>2
          <6>3. QED BY <5>1, <6>1, <6>2
        <5>7. QED BY <5>4, <5>5, <5>6
      <4> HIDE DEF s
      <4>4. QED BY <1>0, <3>2, <4>2, <4>3
    <3>3. QED BY <3>1, <3>2
  <2>14. CancelSubs = {} => AwaitsPending(wait, w1, qmap, accepted', drawn')
    <3> SUFFICES ASSUME CancelSubs = {}, NEW p \in Publishers, wait[p] # Nothing
                 PROVE  /\ wait[p].num <= accepted[wait[p].sess]
                        /\ wait[p].num >= drawn'[wait[p].sess]
                        /\ wait[p].num = drawn'[wait[p].sess] =>
                             /\ qmap[wait[p].sess] # NoQueue
                             /\ w1[qmap[wait[p].sess]].pc = "run"
      BY <2>2 DEF AwaitsPending
    <3>1. wait[p].sess \in Sessions /\ wait[p].num \in Int
      BY BoundAssumption DEF IInv, TypeOK, Awaited
    <3>2. /\ wait[p].num <= accepted[wait[p].sess]
          /\ wait[p].num >= drawn[wait[p].sess]
          /\ wait[p].num = drawn[wait[p].sess] =>
               /\ qmap[wait[p].sess] # NoQueue
               /\ worker[qmap[wait[p].sess]].pc = "run"
      BY DEF IInv, WaitInv, AwaitsPending
    <3>3. CASE wait[p].sess = s
      <4>1. wait[p].num # drawn[s]
        BY <1>0, <2>2, <3>2, <3>3
      <4>2. QED BY <1>0, <2>5, <2>8, <3>1, <3>2, <3>3, <4>1
    <3>4. CASE wait[p].sess # s
      <4>1. qmap[wait[p].sess] # NoQueue => w1[qmap[wait[p].sess]] = worker[qmap[wait[p].sess]]
        BY <1>0, <2>8, <3>1, <3>4 DEF IInv, TypeOK, Tables, TablesAgree
      <4>2. QED BY <2>5, <3>1, <3>2, <3>4, <4>1
    <3>5. QED BY <3>3, <3>4
  <2>15. Tables(w1, it, qmap, accepted', drawn', closed)
    BY <2>9, <2>10, <2>12, <2>13 DEF Tables
  <2>16. /\ worker \in [Queues -> Worker]
         /\ \A r \in Queues : r # q /\ worker[r].pc = "run" => worker[r].todo # <<>>
    BY DEF IInv, TypeOK, TodoInv
  <2> USE DEF w1
  <2> HIDE DEF s, e
  <2>17. QED BY <1>0, <2>2, <2>3, <2>4, <2>6, <2>14, <2>15, <2>16, ContinueStep DEF s
<1>5. QED BY <1>3, <1>4

(* A handler returns, or fails, with or without a report.                  *)
LEMMA HandlerReturnsStep ==
  ASSUME IInv, NEW q \in Queues, worker[q].pc = "run",
         Continue(q, worker[q].cur, Tail(worker[q].todo), worker, items, qmap),
         UNCHANGED <<subs, closed, gathers, accepted, drawn, got>>
  PROVE  IInv'
<1> DEFINE s == worker[q].sess
           e == worker[q].cur
           rest == Tail(worker[q].todo)
           w1 == [worker EXCEPT ![q] = Running(s, e, rest)]
<1>1. /\ worker \in [Queues -> Worker] /\ Live(q) /\ s \in Sessions
      /\ e \in Envelope /\ worker[q].todo \in Seq(Subs) /\ worker[q].todo # <<>>
  BY DEF IInv, TypeOK, TodoInv, Worker, Live, Tables, WorkerHolds
<1>2. rest \in Seq(Subs)
  BY <1>1, HeadTailProperties
<1>3. Running(s, e, rest) \in Worker
  BY <1>1, <1>2 DEF Running, Worker
<1>4. w1 \in [Queues -> Worker]
  BY <1>1, <1>3
<1>5. \A r \in Queues : /\ w1[r].pc = worker[r].pc
                        /\ w1[r].sess = worker[r].sess
                        /\ w1[r].cur = worker[r].cur
  BY <1>1 DEF Running
<1> HIDE DEF w1
<1>6. Tables(w1, items, qmap, accepted', drawn', closed)
  <2>1. TableTypes(w1, items, qmap, accepted', drawn')
    BY <1>4 DEF IInv, TypeOK, TableTypes
  <2>2. TablesAgree(w1, qmap)
    <3>1. TablesAgree(worker, qmap) /\ qmap \in [Sessions -> Queues \cup {NoQueue}]
      BY DEF IInv, TypeOK, Tables
    <3>2. \A t \in Sessions : qmap[t] # NoQueue => w1[qmap[t]].pc # "gone" /\ w1[qmap[t]].sess = t
      BY <1>5, <3>1 DEF TablesAgree
    <3>3. \A r \in Queues : w1[r].pc # "gone" => qmap[w1[r].sess] = r
      BY <1>5, <3>1 DEF TablesAgree
    <3>4. QED BY <3>2, <3>3 DEF TablesAgree
  <2>3. WorkerHolds(w1, items, drawn')
    BY <1>5 DEF IInv, Tables, WorkerHolds
  <2>4. QueueNumbers(items, qmap, accepted', drawn', closed)
    BY DEF IInv, Tables
  <2>5. QED BY <2>1, <2>2, <2>3, <2>4 DEF Tables
<1>7. CancelSubs = {} => AwaitsPending(wait, w1, qmap, accepted', drawn')
  <2> SUFFICES ASSUME CancelSubs = {} PROVE AwaitsPending(wait, w1, qmap, accepted, drawn)
    OBVIOUS
  <2>1. AwaitsPending(wait, worker, qmap, accepted, drawn)
    BY DEF IInv, WaitInv
  <2>2. \A t \in Sessions : qmap[t] # NoQueue => w1[qmap[t]].pc = worker[qmap[t]].pc
    BY <1>5 DEF IInv, TypeOK
  <2>3. \A p \in Publishers : wait[p] # Nothing => wait[p].sess \in Sessions
    BY DEF IInv, TypeOK, Awaited
  <2>4. QED BY <2>1, <2>2, <2>3 DEF AwaitsPending
<1>8. got' \in [Sessions -> 0..MaxEvents] /\ GotInv'
  BY DEF IInv, TypeOK, GotInv
<1>9. \A r \in Queues : r # q /\ worker[r].pc = "run" => worker[r].todo # <<>>
  BY DEF IInv, TodoInv
<1> USE DEF w1
<1> HIDE DEF e, rest
<1>10. QED BY <1>1, <1>2, <1>6, <1>7, <1>8, <1>9, ContinueStep DEF e, rest

(* A failing handler: plugin.error is enqueued, then the worker goes on.   *)
LEMMA HandlerReportsStep ==
  ASSUME IInv, NEW q \in Queues, worker[q].pc = "run", ~closed,
         accepted[KernelSession] < MaxEvents,
         NEW r \in Queues, QueueFor(KernelSession, r),
         Continue(q, worker[q].cur, Tail(worker[q].todo), EnsureWorker(KernelSession, r),
                  Put(KernelSession, ErrorKind, r), [qmap EXCEPT ![KernelSession] = r]),
         accepted' = [accepted EXCEPT ![KernelSession] = @ + 1],
         UNCHANGED <<subs, closed, gathers, drawn, got>>
  PROVE  IInv'
<1> DEFINE s == worker[q].sess
           e == worker[q].cur
           rest == Tail(worker[q].todo)
           w == EnsureWorker(KernelSession, r)
           it == Put(KernelSession, ErrorKind, r)
           qm == [qmap EXCEPT ![KernelSession] = r]
           w1 == [w EXCEPT ![q] = Running(s, e, rest)]
<1>1. /\ worker \in [Queues -> Worker] /\ Live(q) /\ s \in Sessions
      /\ e \in Envelope /\ worker[q].todo \in Seq(Subs) /\ worker[q].todo # <<>>
  BY DEF IInv, TypeOK, TodoInv, Worker, Live, Tables, WorkerHolds
<1>2. rest \in Seq(Subs)
  BY <1>1, HeadTailProperties
<1>3. Running(s, e, rest) \in Worker
  BY <1>1, <1>2 DEF Running, Worker
<1>4. Tables(w, it, qm, accepted', drawn', closed)
  BY EnqueueTables, SessionAssumption DEF IInv
<1>5. w \in [Queues -> Worker] /\ w1 \in [Queues -> Worker]
  BY <1>3, <1>4 DEF Tables, TableTypes
<1>6. w[q] = worker[q]
  <2>1. CASE qmap[KernelSession] # NoQueue
    BY <2>1 DEF EnsureWorker
  <2>2. CASE qmap[KernelSession] = NoQueue
    BY <1>1, <2>2 DEF EnsureWorker, QueueFor, Live
  <2>3. QED BY <2>1, <2>2
<1>7. \A x \in Queues : /\ w1[x].pc = w[x].pc
                        /\ w1[x].sess = w[x].sess
                        /\ w1[x].cur = w[x].cur
  BY <1>5, <1>6 DEF Running
<1>8. \A x \in Queues : x # q /\ w[x].pc = "run" => w[x].todo # <<>>
  BY <1>1 DEF IInv, TodoInv, EnsureWorker, Ready
<1>9. CancelSubs = {} => AwaitsPending(wait, w, qm, accepted', drawn')
  <2> SUFFICES ASSUME CancelSubs = {}, NEW p \in Publishers, wait[p] # Nothing
               PROVE  /\ wait[p].num <= accepted'[wait[p].sess]
                      /\ wait[p].num >= drawn[wait[p].sess]
                      /\ wait[p].num = drawn[wait[p].sess] =>
                           /\ qm[wait[p].sess] # NoQueue
                           /\ w[qm[wait[p].sess]].pc = "run"
    BY DEF AwaitsPending
  <2>1. wait[p].sess \in Sessions /\ wait[p].num \in Int
    BY BoundAssumption DEF IInv, TypeOK, Awaited
  <2>2. /\ wait[p].num <= accepted[wait[p].sess]
        /\ wait[p].num >= drawn[wait[p].sess]
        /\ wait[p].num = drawn[wait[p].sess] =>
             /\ qmap[wait[p].sess] # NoQueue
             /\ worker[qmap[wait[p].sess]].pc = "run"
    BY DEF IInv, WaitInv, AwaitsPending
  <2>3. /\ accepted[wait[p].sess] \in Int
        /\ accepted'[wait[p].sess] \in Int
        /\ accepted[wait[p].sess] <= accepted'[wait[p].sess]
    BY <2>1, BoundAssumption, SessionAssumption DEF IInv, TypeOK
  <2>4. qmap[wait[p].sess] # NoQueue /\ worker[qmap[wait[p].sess]].pc = "run" =>
          /\ qm[wait[p].sess] = qmap[wait[p].sess]
          /\ w[qmap[wait[p].sess]] = worker[qmap[wait[p].sess]]
    BY <2>1, SessionAssumption DEF IInv, TypeOK, QueueFor, EnsureWorker, Live
  <2> HIDE DEF w, qm
  <2>5. QED BY <2>1, <2>2, <2>3, <2>4
<1> HIDE DEF w1, w, it, qm
<1>10. Tables(w1, it, qm, accepted', drawn', closed)
  <2>1. TableTypes(w1, it, qm, accepted', drawn') /\ TablesAgree(w, qm) /\ WorkerHolds(w, it, drawn')
    BY <1>4, <1>5 DEF Tables, TableTypes
  <2>2. \A t \in Sessions : qm[t] # NoQueue => w1[qm[t]].pc # "gone" /\ w1[qm[t]].sess = t
    <3>1. qm \in [Sessions -> Queues \cup {NoQueue}]
      BY <2>1 DEF TableTypes
    <3>2. QED BY <1>7, <2>1, <3>1 DEF TablesAgree
  <2>3. \A x \in Queues : w1[x].pc # "gone" => qm[w1[x].sess] = x
    BY <1>7, <2>1 DEF TablesAgree
  <2>4. WorkerHolds(w1, it, drawn')
    BY <1>7, <2>1 DEF WorkerHolds
  <2>5. TablesAgree(w1, qm)
    BY <2>2, <2>3 DEF TablesAgree
  <2>6. QED BY <1>4, <2>1, <2>4, <2>5 DEF Tables
<1>11. CancelSubs = {} => AwaitsPending(wait, w1, qm, accepted', drawn')
  <2>1. \A t \in Sessions : qm[t] # NoQueue => w1[qm[t]].pc = w[qm[t]].pc
    BY <1>4, <1>7 DEF Tables, TableTypes
  <2>2. \A p \in Publishers : wait[p] # Nothing => wait[p].sess \in Sessions
    BY DEF IInv, TypeOK, Awaited
  <2>3. QED BY <1>9, <2>1, <2>2 DEF AwaitsPending
<1>12. got' \in [Sessions -> 0..MaxEvents] /\ GotInv'
  BY DEF IInv, TypeOK, GotInv
<1>13. Continue(q, e, rest, w, it, qm)
  BY DEF w, it, qm
<1> USE DEF w1
<1> HIDE DEF e, rest
<1>14. QED BY <1>1, <1>2, <1>5, <1>8, <1>10, <1>11, <1>12, <1>13, ContinueStep

-----------------------------------------------------------------------------
(* The empty bus satisfies the invariant.                                  *)
LEMMA InvInit == Init => IInv
<1> SUFFICES ASSUME Init PROVE IInv
  OBVIOUS
<1>0. Gone \in Worker /\ Gone.pc = "gone"
  BY SessionAssumption DEF Gone, Worker
<1>1. TypeOK
  <2>1. <<>> \in Seq(Subs) /\ <<>> \in Seq(Envelope \cup {CloseToken}) /\ 0 \in 0..MaxEvents
    BY EmptySeq, BoundAssumption
  <2>2. QED BY <1>0, <2>1 DEF Init, TypeOK
<1>2. Tables(worker, items, qmap, accepted, drawn, closed)
  <2>1. TableTypes(worker, items, qmap, accepted, drawn)
    BY <1>1 DEF TypeOK, TableTypes
  <2>2. TablesAgree(worker, qmap) /\ WorkerHolds(worker, items, drawn)
    BY <1>0 DEF Init, TablesAgree, WorkerHolds
  <2>3. QueueNumbers(items, qmap, accepted, drawn, closed)
    BY DEF Init, QueueNumbers
  <2>4. QED BY <2>1, <2>2, <2>3 DEF Tables
<1>3. TodoInv /\ GatherInv /\ GotInv /\ WaitInv
  BY <1>0 DEF Init, TodoInv, GatherInv, GotInv, WaitInv, AwaitsPending
<1>4. QED BY <1>1, <1>2, <1>3 DEF IInv

(* Steps that leave the queues and workers alone.                          *)
LEMMA SubscribeStep ==
  ASSUME IInv, NEW x \in Subs, Subscribe(x) \/ Unsubscribe(x)
  PROVE  IInv'
<1>1. SubKind[x] \in Kinds /\ subs[SubKind[x]] \in Seq(Subs)
  BY SubAssumption DEF IInv, TypeOK
<1>2. subs' \in [Kinds -> Seq(Subs)]
  <2>1. CASE Subscribe(x)
    BY <1>1, <2>1, AppendProperties DEF IInv, TypeOK, Subscribe
  <2>2. CASE Unsubscribe(x)
    <3>1. PICK i \in DOMAIN subs[SubKind[x]] :
            subs' = [subs EXCEPT ![SubKind[x]] = SubSeq(@, 1, i - 1) \o SubSeq(@, i + 1, Len(@))]
      BY <2>2 DEF Unsubscribe
    <3> DEFINE l == subs[SubKind[x]]
    <3>2. l \in Seq(Subs) /\ Len(l) \in Nat /\ i \in 1..Len(l)
      BY <1>1, LenProperties
    <3>3. \A j \in 1..Len(l) : l[j] \in Subs
      BY <3>2, ElementOfSeq
    <3> HIDE DEF l
    <3>4. SubSeq(l, 1, i - 1) \in Seq(Subs)
      BY <3>2, <3>3, SubSeqProperties
    <3>5. SubSeq(l, i + 1, Len(l)) \in Seq(Subs)
      BY <3>2, <3>3, SubSeqProperties
    <3>6. SubSeq(l, 1, i - 1) \o SubSeq(l, i + 1, Len(l)) \in Seq(Subs)
      BY <3>4, <3>5, ConcatProperties
    <3>7. QED BY <1>1, <3>1, <3>6 DEF IInv, TypeOK, l
  <2>3. QED BY <2>1, <2>2
<1>3. UNCHANGED <<closed, qmap, items, worker, wait, gathers, accepted, drawn, got>>
  BY DEF Subscribe, Unsubscribe
<1>4. TypeOK'
  BY <1>2, <1>3 DEF IInv, TypeOK
<1>5. QED BY <1>3, <1>4 DEF IInv, TodoInv, GatherInv, GotInv, WaitInv, Live

(* A publisher that is cancelled leaves the bus itself as it is.           *)
LEMMA PublisherCancelledStep ==
  ASSUME IInv, NEW p \in Publishers, PublisherCancelled(p)
  PROVE  IInv'
<1>1. /\ UNCHANGED <<subs, closed, qmap, items, worker, gathers, accepted, drawn, got>>
      /\ wait' = [wait EXCEPT ![p] = Nothing]
  BY DEF PublisherCancelled
<1>2. TypeOK'
  BY <1>1 DEF IInv, TypeOK
<1>3. WaitInv'
  BY <1>1 DEF IInv, TypeOK, WaitInv, AwaitsPending
<1>4. QED BY <1>1, <1>2, <1>3 DEF IInv, TodoInv, GatherInv, GotInv, Live

(* A closer that has gathered every worker changes nothing else.           *)
LEMMA CloseReturnsStep ==
  ASSUME IInv, NEW c \in Closers, CloseReturns(c)
  PROVE  IInv'
<1>1. \A q \in Queues : ~Live(q)
  BY DEF IInv, GatherInv, CloseReturns
<1>2. \A s \in Sessions : qmap[s] = NoQueue
  <2>1. qmap \in [Sessions -> Queues \cup {NoQueue}] /\ TablesAgree(worker, qmap)
    BY DEF IInv, TypeOK, Tables
  <2>2. QED BY <1>1, <2>1 DEF TablesAgree, Live
<1>3. qmap' = qmap
  BY <1>2 DEF IInv, TypeOK, CloseReturns
<1>4. /\ UNCHANGED <<subs, closed, items, worker, wait, accepted, drawn, got>>
      /\ gathers' = [gathers EXCEPT ![c] = Nothing]
  BY DEF CloseReturns
<1>5. TypeOK' /\ GatherInv'
  <2>1. gathers' \in [Closers -> (SUBSET Queues) \cup {Nothing}]
    BY <1>4 DEF IInv, TypeOK
  <2>2. TypeOK'
    BY <1>3, <1>4, <2>1 DEF IInv, TypeOK
  <2>3. GatherInv'
    BY <1>4 DEF IInv, TypeOK, GatherInv, Live
  <2>4. QED BY <2>2, <2>3
<1>6. QED BY <1>3, <1>4, <1>5 DEF IInv, TodoInv, GotInv, WaitInv

(* close appends its tokens behind everything that is pending.             *)
LEMMA CloseStep ==
  ASSUME IInv, NEW c \in Closers, Close(c)
  PROVE  IInv'
<1> DEFINE current == {qmap[s] : s \in Sessions} \ {NoQueue}
<1>1. /\ closed' = TRUE
      /\ items' = [q \in Queues |-> IF q \in current THEN Append(items[q], CloseToken)
                                    ELSE items[q]]
      /\ gathers' = [gathers EXCEPT ![c] = current]
      /\ UNCHANGED <<subs, qmap, worker, wait, accepted, drawn, got>>
  BY DEF Close
<1>2. current \subseteq Queues
  BY DEF IInv, TypeOK
<1>3. \A q \in Queues : Live(q) <=> q \in current
  BY NullAssumption DEF IInv, TypeOK, Worker, Tables, TablesAgree, Live
<1> HIDE DEF current
<1>4. \A q \in Queues :
        /\ items[q] \in Seq(Envelope \cup {CloseToken})
        /\ Len(items[q]) \in Nat
        /\ q \in current => /\ items'[q] = Append(items[q], CloseToken)
                            /\ items'[q] # <<>>
                            /\ Len(items'[q]) = Len(items[q]) + 1
                            /\ items'[q][Len(items[q]) + 1] = CloseToken
                            /\ \A i \in 1..Len(items[q]) : items'[q][i] = items[q][i]
        /\ q \notin current => items'[q] = items[q]
  <2> TAKE q \in Queues
  <2>1. items[q] \in Seq(Envelope \cup {CloseToken})
    BY DEF IInv, TypeOK
  <2>2. CloseToken \in Envelope \cup {CloseToken}
    OBVIOUS
  <2>3. /\ q \in current => items'[q] = Append(items[q], CloseToken)
        /\ q \notin current => items'[q] = items[q]
    BY <1>1
  <2>4. QED BY <2>1, <2>2, <2>3, AppendProperties, LenProperties
<1>5. items' \in [Queues -> Seq(Envelope \cup {CloseToken})]
  BY <1>1, <1>4, AppendProperties DEF IInv, TypeOK
<1>6. TypeOK'
  <2>1. gathers' \in [Closers -> (SUBSET Queues) \cup {Nothing}]
    BY <1>1, <1>2 DEF IInv, TypeOK
  <2>2. QED BY <1>1, <1>5, <2>1 DEF IInv, TypeOK
<1>7. TableTypes(worker', items', qmap', accepted', drawn') /\ TablesAgree(worker', qmap')
  BY <1>1, <1>6 DEF IInv, TypeOK, Tables, TableTypes
<1>8. WorkerHolds(worker', items', drawn')
  BY <1>1, <1>3, <1>4 DEF IInv, Tables, WorkerHolds, Live
<1>9. QueueNumbers(items', qmap', accepted', drawn', closed')
  <2> SUFFICES ASSUME NEW s \in Sessions, qmap[s] # NoQueue
               PROVE  /\ Len(items'[qmap[s]]) >= accepted[s] - drawn[s]
                      /\ \A i \in 1..Len(items'[qmap[s]]) :
                           /\ i <= accepted[s] - drawn[s] =>
                                /\ items'[qmap[s]][i] \in Envelope
                                /\ items'[qmap[s]][i].num = drawn[s] + i
                           /\ i > accepted[s] - drawn[s] => items'[qmap[s]][i] = CloseToken
    BY <1>1 DEF IInv, Tables, QueueNumbers
  <2> DEFINE q == qmap[s]
  <2>1. q \in Queues /\ q \in current
    BY DEF IInv, TypeOK, current
  <2>2. /\ accepted[s] \in Nat /\ drawn[s] \in Nat
        /\ Len(items[q]) >= accepted[s] - drawn[s]
        /\ \A i \in 1..Len(items[q]) :
             /\ i <= accepted[s] - drawn[s] => /\ items[q][i] \in Envelope
                                               /\ items[q][i].num = drawn[s] + i
             /\ i > accepted[s] - drawn[s] => items[q][i] = CloseToken
    BY BoundAssumption DEF IInv, TypeOK, Tables, QueueNumbers
  <2> HIDE DEF q
  <2>3. /\ Len(items[q]) \in Nat
        /\ Len(items'[q]) = Len(items[q]) + 1
        /\ items'[q][Len(items[q]) + 1] = CloseToken
        /\ \A i \in 1..Len(items[q]) : items'[q][i] = items[q][i]
    BY <1>4, <2>1
  <2>4. Len(items'[q]) >= accepted[s] - drawn[s]
    BY <2>2, <2>3
  <2>5. ASSUME NEW i \in 1..Len(items'[q])
        PROVE  /\ i <= accepted[s] - drawn[s] => /\ items'[q][i] \in Envelope
                                                 /\ items'[q][i].num = drawn[s] + i
               /\ i > accepted[s] - drawn[s] => items'[q][i] = CloseToken
    <3>1. CASE i = Len(items[q]) + 1
      <4>1. ~(i <= accepted[s] - drawn[s])
        BY <2>2, <2>3, <3>1
      <4>2. QED BY <2>3, <3>1, <4>1
    <3>2. CASE i # Len(items[q]) + 1
      <4>1. i \in 1..Len(items[q])
        BY <2>3, <3>2
      <4>2. QED BY <2>2, <2>3, <4>1
    <3>3. QED BY <3>1, <3>2
  <2>6. QED BY <2>4, <2>5 DEF q
<1>10. GatherInv'
  BY <1>1, <1>2, <1>3 DEF IInv, TypeOK, GatherInv, Live
<1>11. TodoInv' /\ GotInv' /\ WaitInv'
  BY <1>1 DEF IInv, TodoInv, GotInv, WaitInv
<1>12. QED BY <1>6, <1>7, <1>8, <1>9, <1>10, <1>11 DEF IInv, Tables

(* The inductive step.                                                     *)
LEMMA InvStep == IInv /\ [Next]_vars => IInv'
<1> SUFFICES ASSUME IInv, [Next]_vars PROVE IInv'
  OBVIOUS
<1>1. CASE UNCHANGED vars
  BY <1>1 DEF vars, IInv, TypeOK, TodoInv, GatherInv, GotInv, WaitInv, Live
<1>2. ASSUME NEW x \in Subs, Subscribe(x) \/ Unsubscribe(x) PROVE IInv'
  BY <1>2, SubscribeStep
<1>3. ASSUME NEW p \in Publishers, NEW s \in Sessions, NEW k \in Kinds, Publish(p, s, k)
      PROVE  IInv'
  BY <1>3, EnqueueStep DEF Publish
<1>4. ASSUME NEW p \in Publishers, NEW s \in Sessions, NEW k \in Kinds, PublishClosed(p, s, k)
      PROVE  IInv'
  BY <1>1, <1>4 DEF PublishClosed
<1>5. ASSUME NEW p \in Publishers, PublisherCancelled(p) PROVE IInv'
  BY <1>5, PublisherCancelledStep
<1>6. ASSUME NEW q \in Queues, WorkerGet(q) PROVE IInv'
  BY <1>6, WorkerGetStep
<1>7. ASSUME NEW q \in Queues, HandlerReturns(q) PROVE IInv'
  BY <1>7, HandlerReturnsStep DEF HandlerReturns
<1>8. ASSUME NEW q \in Queues, HandlerFails(q) PROVE IInv'
  <2>1. CASE Head(worker[q].todo) \in KernelSubs \/ closed
    BY <1>8, <2>1, HandlerReturnsStep DEF HandlerFails
  <2>2. CASE ~(Head(worker[q].todo) \in KernelSubs \/ closed)
    BY <1>8, <2>2, HandlerReportsStep DEF HandlerFails
  <2>3. QED BY <2>1, <2>2
<1>9. ASSUME NEW q \in Queues, HandlerCancelled(q) PROVE IInv'
  <2>1. Live(q) /\ worker[q].todo \in Seq(Subs) /\ worker[q].todo # <<>> /\ CancelSubs # {}
    BY <1>9 DEF HandlerCancelled, Live, IInv, TypeOK, Worker, TodoInv
  <2>2. QED BY <1>9, <2>1, EndStep DEF HandlerCancelled
<1>10. ASSUME NEW q \in Queues, NEW s \in Sessions, NEW k \in Kinds, HandlerPublish(q, s, k)
       PROVE  IInv'
  BY <1>10, EnqueueStep DEF HandlerPublish
<1>11. ASSUME NEW c \in Closers, Close(c) PROVE IInv'
  BY <1>11, CloseStep
<1>12. ASSUME NEW c \in Closers, CloseReturns(c) PROVE IInv'
  BY <1>12, CloseReturnsStep
<1>13. QED
  BY <1>1, <1>2, <1>3, <1>4, <1>5, <1>6, <1>7, <1>8, <1>9, <1>10, <1>11, <1>12
  DEF Next, HandlerEnds

(* IInv holds in every reachable state.                                    *)
LEMMA Invariance == Spec => []IInv
BY InvInit, InvStep, PTL DEF Spec

-----------------------------------------------------------------------------
(* The bus's tables keep their types, whatever the number of sessions,     *)
(* subscribers and tasks (bus.py:129-141).                                 *)
THEOREM TypeCorrectness == Spec => []TypeOK
<1>1. IInv => TypeOK
  BY DEF IInv
<1>2. QED BY <1>1, Invariance, PTL

(* No two workers ever serve one session (bus.py:231-277).                 *)
THEOREM SingleWorker == Spec => []OneWorkerPerSession
<1>1. IInv => OneWorkerPerSession
  BY DEF IInv, Tables, TablesAgree, OneWorkerPerSession, Live
<1>2. QED BY <1>1, Invariance, PTL

(* Without a handler that raises CancelledError, no accepted event is ever *)
(* left without a worker, close included (bus.py:189-277, 348-363).        *)
THEOREM NoneStranded == ASSUME CancelSubs = {} PROVE Spec => []NothingStranded
<1>1. IInv => NothingStranded
  BY DEF IInv, GotInv, Tables, QueueNumbers, WorkerHolds, NothingStranded
<1>2. QED BY <1>1, Invariance, PTL

(* Without a handler that raises CancelledError, an awaited event is with  *)
(* a live worker: publish waits for something that can still happen        *)
(* (bus.py:198-200, 225-229).                                              *)
THEOREM AwaitedHeld == ASSUME CancelSubs = {} PROVE Spec => []AwaitedIsHeld
<1>1. ASSUME IInv, NEW p \in Publishers, wait[p] # Nothing
      PROVE  \E q \in Queues : Holds(q, wait[p])
  <2> DEFINE s == wait[p].sess
             n == wait[p].num
             q == qmap[s]
  <2>1. s \in Sessions /\ n \in Nat /\ accepted[s] \in Nat /\ drawn[s] \in Nat
    BY <1>1, BoundAssumption DEF IInv, TypeOK, Awaited
  <2>2. n <= accepted[s] /\ n >= drawn[s]
        /\ (n = drawn[s] => q # NoQueue /\ worker[q].pc = "run")
    BY <1>1 DEF IInv, WaitInv, AwaitsPending
  <2>3. q # NoQueue
    BY <1>1, <2>1, <2>2 DEF IInv, Tables, QueueNumbers
  <2>4. q \in Queues /\ Live(q) /\ worker[q].sess = s
    BY <1>1, <2>1, <2>3 DEF IInv, TypeOK, Tables, TablesAgree, Live
  <2>5. CASE n = drawn[s]
    <3>1. worker[q].cur \in Envelope /\ worker[q].cur.num = n
      BY <1>1, <2>2, <2>4, <2>5 DEF IInv, Tables, WorkerHolds
    <3>2. QED BY <2>4, <3>1, TokenAssumption DEF Holds
  <2>6. CASE n # drawn[s]
    <3> DEFINE i == n - drawn[s]
    <3>1. i \in Nat /\ i >= 1 /\ i <= accepted[s] - drawn[s] /\ drawn[s] + i = n
      BY <2>1, <2>2, <2>6
    <3>2. Len(items[q]) \in Nat /\ Len(items[q]) >= accepted[s] - drawn[s]
          /\ DOMAIN items[q] = 1..Len(items[q])
      BY <1>1, <2>1, <2>3, <2>4, LenProperties DEF IInv, TypeOK, Tables, QueueNumbers
    <3>3. i \in 1..Len(items[q])
      BY <2>1, <3>1, <3>2
    <3>4. items[q][i] \in Envelope /\ items[q][i].num = n
      BY <1>1, <2>1, <2>3, <3>1, <3>3 DEF IInv, Tables, QueueNumbers
    <3>5. QED BY <2>4, <3>2, <3>3, <3>4, TokenAssumption DEF Holds
  <2>7. QED BY <2>5, <2>6
<1>2. IInv => AwaitedIsHeld
  BY <1>1 DEF AwaitedIsHeld
<1>3. QED BY <1>2, Invariance, PTL

(* Handlers get a session's events in the order of acceptance, and each    *)
(* one unless a handler raises CancelledError (bus.py:9-17).               *)
THEOREM InPublishOrder == Spec => PublishOrder
<1> DEFINE Order == \A s \in Sessions : got'[s] # got[s] =>
                      IF CancelSubs = {} THEN got'[s] = got[s] + 1 ELSE got'[s] > got[s]
<1>1. ASSUME IInv, NEW q \in Queues, WorkerGet(q) PROVE Order
  <2> DEFINE s == worker[q].sess
             e == Head(items[q])
  <2>1. /\ s \in Sessions /\ qmap[s] = q /\ q # NoQueue
        /\ accepted[s] \in Nat /\ drawn[s] \in Nat /\ got[s] \in Nat
        /\ items[q] \in Seq(Envelope \cup {CloseToken}) /\ items[q] # <<>>
    BY <1>1, NullAssumption, BoundAssumption
    DEF IInv, TypeOK, Worker, Tables, TablesAgree, WorkerGet
  <2>2. Len(items[q]) \in Nat /\ Len(items[q]) >= 1 /\ e = items[q][1]
    BY <2>1, HeadTailProperties, LenProperties, EmptySeq
  <2>3. CASE e = CloseToken
    BY <1>1, <2>3 DEF WorkerGet
  <2>4. CASE e # CloseToken
    <3>1. got' = [got EXCEPT ![s] = e.num]
      BY <1>1, <2>4 DEF WorkerGet
    <3>2. 1 <= accepted[s] - drawn[s] => e.num = drawn[s] + 1
      BY <1>1, <2>1, <2>2 DEF IInv, Tables, QueueNumbers
    <3>3. ~(1 > accepted[s] - drawn[s])
      BY <1>1, <2>1, <2>2, <2>4 DEF IInv, Tables, QueueNumbers
    <3>4. e.num = drawn[s] + 1
      BY <2>1, <3>2, <3>3
    <3>5. got[s] <= drawn[s] /\ (CancelSubs = {} => got[s] = drawn[s])
      BY <1>1, <2>1 DEF IInv, GotInv
    <3>6. got'[s] = drawn[s] + 1 /\ \A t \in Sessions : t # s => got'[t] = got[t]
      BY <1>1, <2>1, <3>1, <3>4 DEF IInv, TypeOK
    <3> HIDE DEF s
    <3>7. QED BY <2>1, <3>5, <3>6
  <2>5. QED BY <2>3, <2>4
<1>2. IInv /\ [Next]_vars => [Order]_vars
  <2> SUFFICES ASSUME IInv, Next PROVE Order
    OBVIOUS
  <2>1. CASE got' = got
    BY <2>1
  <2>2. CASE \E q \in Queues : WorkerGet(q)
    BY <1>1, <2>2
  <2>3. QED
    BY <2>1, <2>2
    DEF Next, HandlerEnds, Subscribe, Unsubscribe, Publish, PublishClosed, PublisherCancelled,
        HandlerReturns, HandlerFails, HandlerCancelled, HandlerPublish, Close, CloseReturns, vars
<1>3. QED BY <1>2, Invariance, PTL DEF Spec, PublishOrder

-----------------------------------------------------------------------------
(* The refinement of SessionFifo.  A step that touches worker q alone      *)
(* changes who is busy in q's session alone.                               *)
LEMMA BusyChange ==
  ASSUME IInv, NEW q \in Queues, NEW s \in Sessions, worker[q].sess = s, Live(q),
         worker'[q].pc = "run" => worker'[q].sess = s,
         \A r \in Queues \ {q} : \/ worker'[r] = worker[r]
                                 \/ worker[r].pc # "run" /\ worker'[r].pc # "run"
  PROVE  /\ s \in Busy <=> worker[q].pc = "run"
         /\ Busy' = IF worker'[q].pc = "run" THEN Busy \cup {s} ELSE Busy \ {s}
<1>1. \A r \in Queues : worker[r].pc = "run" /\ worker[r].sess = s => r = q
  BY DEF IInv, Tables, TablesAgree, Live
<1>2. s \in Busy <=> worker[q].pc = "run"
  BY <1>1 DEF Busy
<1>3. \A t \in Sessions \ {s} : t \in Busy' <=> t \in Busy
  BY DEF Busy
<1>4. s \in Busy' <=> worker'[q].pc = "run"
  BY <1>1 DEF Busy
<1>5. Busy \subseteq Sessions /\ Busy' \subseteq Sessions
  BY DEF Busy
<1>6. QED BY <1>2, <1>3, <1>4, <1>5

(* Enqueuing wakes no handler.                                             *)
LEMMA EnqueueBusy ==
  ASSUME IInv, NEW s \in Sessions, NEW q \in Queues, QueueFor(s, q)
  PROVE  \A r \in Queues : \/ EnsureWorker(s, q)[r] = worker[r]
                           \/ worker[r].pc # "run" /\ EnsureWorker(s, q)[r].pc # "run"
BY DEF IInv, TypeOK, QueueFor, EnsureWorker, Ready, Live

(* The rest of the drain loop's body: an event is done exactly when no     *)
(* target is left, and then its publisher goes on.                         *)
LEMMA ContinueMaps ==
  ASSUME IInv, NEW q \in Queues, Live(q), NEW s \in Sessions, worker[q].sess = s,
         NEW e \in Envelope, NEW rest, NEW w, NEW it, NEW qm,
         w \in [Queues -> Worker], w[q] = worker[q],
         \A r \in Queues : w[r] = worker[r] \/ (worker[r].pc # "run" /\ w[r].pc # "run"),
         Continue(q, e, rest, w, it, qm)
  PROVE  /\ s \in Busy <=> worker[q].pc = "run"
         /\ \/ Busy' = Busy \cup {s} /\ UNCHANGED wait
            \/ Busy' = Busy \ {s} /\ wait' = Fifo!Returned(s, e.num)
<1>1. CASE rest # <<>>
  <2>1. worker' = [w EXCEPT ![q] = Running(s, e, rest)] /\ UNCHANGED wait
    BY <1>1 DEF Continue
  <2>2. worker'[q].pc = "run" /\ worker'[q].sess = s
    BY <2>1 DEF Running
  <2>3. QED BY <2>1, <2>2, BusyChange
<1>2. CASE rest = <<>>
  <2>1. /\ worker' = [w EXCEPT ![q] = Ready(s)] \/ worker' = [w EXCEPT ![q] = Gone]
        /\ wait' = Resolve(s, e)
    BY <1>2 DEF Continue
  <2>2. worker'[q].pc # "run"
    BY <2>1 DEF Ready, Gone
  <2>3. \A r \in Queues \ {q} : worker'[r] = w[r]
    BY <2>1
  <2>4. Busy' = Busy \ {s} /\ (s \in Busy <=> worker[q].pc = "run")
    BY <2>2, <2>3, BusyChange
  <2>5. wait' = Fifo!Returned(s, e.num)
    BY <2>1 DEF Resolve, Fifo!Returned
  <2>6. QED BY <2>4, <2>5
<1>3. QED BY <1>1, <1>2

(* Each step of a worker is a step of its session's FIFO.                  *)
LEMMA GetMaps ==
  ASSUME IInv, NEW q \in Queues, WorkerGet(q)
  PROVE  [Fifo!Next]_(Fifo!vars)
<1> DEFINE s == worker[q].sess
           e == Head(items[q])
<1>1. /\ s \in Sessions /\ qmap[s] = q /\ q # NoQueue /\ Live(q)
      /\ accepted[s] \in Nat /\ drawn[s] \in Nat
      /\ items[q] \in Seq(Envelope \cup {CloseToken}) /\ items[q] # <<>>
  BY NullAssumption, BoundAssumption
  DEF IInv, TypeOK, Worker, Tables, TablesAgree, WorkerGet, Live
<1>2. Len(items[q]) \in Nat /\ Len(items[q]) >= 1 /\ e = items[q][1]
  BY <1>1, HeadTailProperties, LenProperties, EmptySeq
<1>3. CASE e = CloseToken
  <2>1. /\ worker' = [worker EXCEPT ![q] = Gone]
        /\ UNCHANGED <<closed, accepted, drawn, wait>>
    BY <1>3 DEF WorkerGet, EndWorker
  <2>2. worker'[q].pc = "gone" /\ worker[q].pc = "get"
    BY <2>1 DEF Gone, WorkerGet, IInv, TypeOK
  <2>3. Busy' = Busy
    <3>1. \A r \in Queues \ {q} : worker'[r] = worker[r]
      BY <2>1
    <3>2. \A r \in Queues, t \in Sessions :
            worker'[r].pc = "run" /\ worker'[r].sess = t <=> worker[r].pc = "run" /\ worker[r].sess = t
      BY <2>2, <3>1
    <3>3. QED BY <3>2 DEF Busy
  <2>4. QED BY <2>1, <2>3 DEF Fifo!vars
<1>4. CASE e # CloseToken
  <2>1. 1 <= accepted[s] - drawn[s] /\ e \in Envelope /\ e.num = drawn[s] + 1
    <3>1. 1 <= accepted[s] - drawn[s] => e \in Envelope /\ e.num = drawn[s] + 1
      BY <1>1, <1>2 DEF IInv, Tables, QueueNumbers
    <3>2. ~(1 > accepted[s] - drawn[s])
      BY <1>1, <1>2, <1>4 DEF IInv, Tables, QueueNumbers
    <3>3. QED BY <1>1, <3>1, <3>2
  <2>2. /\ Continue(q, e, subs[e.kind], worker, [items EXCEPT ![q] = Tail(@)], qmap)
        /\ drawn' = [drawn EXCEPT ![s] = e.num]
        /\ UNCHANGED <<closed, accepted>> /\ worker[q].pc = "get"
    BY <1>4 DEF WorkerGet
  <2>3. drawn' = [drawn EXCEPT ![s] = @ + 1]
    BY <2>1, <2>2
  <2>4. worker \in [Queues -> Worker]
    BY DEF IInv, TypeOK
  <2> HIDE DEF s, e
  <2>5. /\ s \in Busy <=> worker[q].pc = "run"
        /\ \/ Busy' = Busy \cup {s} /\ UNCHANGED wait
           \/ Busy' = Busy \ {s} /\ wait' = Fifo!Returned(s, e.num)
    BY <1>1, <2>1, <2>2, <2>4, ContinueMaps DEF s
  <2>6. s \notin Busy /\ Busy \ {s} = Busy
    BY <2>2, <2>5
  <2>7. Fifo!Begin(s)
    <3>1. drawn[s] < accepted[s]
      BY <1>1, <2>1
    <3>2. \/ Busy' = Busy \cup {s} /\ UNCHANGED wait
          \/ Busy' = Busy /\ wait' = Fifo!Returned(s, drawn[s] + 1)
      BY <2>1, <2>5, <2>6
    <3>3. QED BY <2>2, <2>3, <2>6, <3>1, <3>2 DEF Fifo!Begin
  <2>8. QED BY <1>1, <2>7 DEF Fifo!Next
<1>5. QED BY <1>3, <1>4

(* A handler that returns: the event goes on to its next handler, which    *)
(* the fifo does not see, or it ends and the next one may begin            *)
(* (bus.py:255-330).                                                       *)
LEMMA ReturnsMaps ==
  ASSUME IInv, NEW q \in Queues, worker[q].pc = "run",
         Continue(q, worker[q].cur, Tail(worker[q].todo), worker, items, qmap),
         UNCHANGED <<closed, accepted, drawn>>
  PROVE  [Fifo!Next]_(Fifo!vars)
<1> DEFINE s == worker[q].sess
           e == worker[q].cur
<1>1. /\ s \in Sessions /\ e \in Envelope /\ e.num = drawn[s] /\ Live(q)
      /\ worker \in [Queues -> Worker]
  BY DEF IInv, TypeOK, Worker, Tables, WorkerHolds, Live
<1> HIDE DEF s, e
<1>2. /\ s \in Busy
      /\ \/ Busy' = Busy \cup {s} /\ UNCHANGED wait
         \/ Busy' = Busy \ {s} /\ wait' = Fifo!Returned(s, e.num)
  BY <1>1, ContinueMaps DEF s, e
<1>3. CASE Busy' = Busy \cup {s} /\ UNCHANGED wait
  <2>1. Busy' = Busy
    BY <1>2, <1>3
  <2>2. QED BY <1>3, <2>1 DEF Fifo!vars
<1>4. CASE Busy' = Busy \ {s} /\ wait' = Fifo!Returned(s, e.num)
  <2>1. Fifo!End(s)
    BY <1>1, <1>2, <1>4 DEF Fifo!End
  <2>2. QED BY <1>1, <2>1 DEF Fifo!Next
<1>5. QED BY <1>2, <1>3, <1>4

(* A failure is reported: the kernel session takes an event, and the       *)
(* failing handler's session may end its own in the same step.             *)
LEMMA ReportsMaps ==
  ASSUME IInv, NEW q \in Queues, worker[q].pc = "run", ~closed,
         NEW r \in Queues, QueueFor(KernelSession, r),
         Continue(q, worker[q].cur, Tail(worker[q].todo), EnsureWorker(KernelSession, r),
                  Put(KernelSession, ErrorKind, r), [qmap EXCEPT ![KernelSession] = r]),
         accepted' = [accepted EXCEPT ![KernelSession] = @ + 1],
         UNCHANGED <<closed, drawn>>
  PROVE  [Fifo!Next]_(Fifo!vars)
<1> DEFINE s == worker[q].sess
           e == worker[q].cur
           w == EnsureWorker(KernelSession, r)
<1>1. /\ s \in Sessions /\ e \in Envelope /\ e.num = drawn[s] /\ Live(q)
      /\ worker \in [Queues -> Worker]
  BY DEF IInv, TypeOK, Worker, Tables, WorkerHolds, Live
<1>2. w \in [Queues -> Worker]
  BY <1>1, SessionAssumption DEF EnsureWorker, Ready, Worker
<1>3. \A x \in Queues : w[x] = worker[x] \/ (worker[x].pc # "run" /\ w[x].pc # "run")
  BY EnqueueBusy, SessionAssumption
<1>4. w[q] = worker[q]
  BY <1>3
<1> HIDE DEF s, e, w
<1>5. /\ s \in Busy
      /\ \/ Busy' = Busy \cup {s} /\ UNCHANGED wait
         \/ Busy' = Busy \ {s} /\ wait' = Fifo!Returned(s, e.num)
  BY <1>1, <1>2, <1>3, <1>4, ContinueMaps DEF s, e, w
<1>6. Fifo!Taken(KernelSession)
  BY DEF Fifo!Taken
<1>7. CASE Busy' = Busy \cup {s} /\ UNCHANGED wait
  <2>1. Busy' = Busy
    BY <1>5, <1>7
  <2>2. Fifo!Accept(KernelSession)
    BY <1>6, <1>7, <2>1 DEF Fifo!Accept
  <2>3. QED BY <2>2, SessionAssumption DEF Fifo!Next
<1>8. CASE Busy' = Busy \ {s} /\ wait' = Fifo!Returned(s, e.num)
  <2>1. Fifo!End(s)
    BY <1>1, <1>5, <1>6, <1>8 DEF Fifo!End
  <2>2. QED BY <1>1, <2>1 DEF Fifo!Next
<1>9. QED BY <1>5, <1>7, <1>8

(* A handler that lets CancelledError out ends the worker: for the fifo    *)
(* the event is over and nothing begins (bus.py:283).                      *)
LEMMA CancelledMaps ==
  ASSUME IInv, NEW q \in Queues, HandlerCancelled(q)
  PROVE  [Fifo!Next]_(Fifo!vars)
<1> DEFINE s == worker[q].sess
           e == worker[q].cur
<1>1. /\ s \in Sessions /\ e.num = drawn[s] /\ Live(q) /\ worker[q].pc = "run"
      /\ worker \in [Queues -> Worker] /\ CancelSubs # {}
  BY DEF HandlerCancelled, IInv, TypeOK, Worker, Tables, WorkerHolds, Live
<1>2. /\ worker' = [worker EXCEPT ![q] = Gone]
      /\ wait' = Fifo!Returned(s, e.num)
      /\ drawn' = [drawn EXCEPT ![s] = accepted[s]]
      /\ UNCHANGED <<closed, accepted>>
  BY DEF HandlerCancelled, EndWorker, Resolve, Fifo!Returned
<1>3. worker'[q].pc = "gone" /\ \A r \in Queues \ {q} : worker'[r] = worker[r]
  BY <1>1, <1>2 DEF Gone
<1> HIDE DEF s, e
<1>4. s \in Busy /\ Busy' = Busy \ {s}
  BY <1>1, <1>3, BusyChange DEF s
<1>5. Fifo!Drop(s)
  BY <1>1, <1>2, <1>4 DEF Fifo!Drop
<1>6. QED BY <1>1, <1>5 DEF Fifo!Next

(* What a publish takes, from a task or from a handler.                    *)
LEMMA PublishMaps ==
  ASSUME IInv, NEW s \in Sessions, NEW k \in Kinds,
         (\E p \in Publishers : Publish(p, s, k)) \/ (\E q \in Queues : HandlerPublish(q, s, k))
  PROVE  [Fifo!Next]_(Fifo!vars)
<1>1. PICK q \in Queues : QueueFor(s, q) /\ worker' = EnsureWorker(s, q)
  BY DEF Publish, HandlerPublish
<1>2. \A r \in Queues : \/ worker'[r] = worker[r]
                        \/ worker[r].pc # "run" /\ worker'[r].pc # "run"
  BY <1>1, EnqueueBusy
<1>3. Busy' = Busy
  BY <1>2 DEF Busy
<1>4. /\ ~closed /\ accepted' = [accepted EXCEPT ![s] = @ + 1] /\ UNCHANGED <<closed, drawn>>
      /\ \/ UNCHANGED wait
         \/ \E p \in Publishers :
              wait[p] = Nothing /\ wait' = [wait EXCEPT ![p] = [sess |-> s, num |-> accepted[s] + 1]]
  BY DEF Publish, HandlerPublish
<1>5. Fifo!Accept(s)
  BY <1>3, <1>4 DEF Fifo!Accept, Fifo!Taken
<1>6. QED BY <1>5 DEF Fifo!Next

(* The bus implements SessionFifo: whatever its queues, workers, publishers*)
(* and closers do, each session is served one event at a time, in order    *)
(* and without a gap, and publish returns only when its event's handlers   *)
(* have finished (bus.py:1-31, 189-229).                                   *)
THEOREM Refinement == Spec => ImplementsFifo
<1>1. Init => Fifo!Init
  <2>1. Init => Busy = {}
    BY DEF Init, Busy, Gone
  <2>2. QED BY <2>1 DEF Init, Fifo!Init
<1>2. IInv /\ [Next]_vars => [Fifo!Next]_(Fifo!vars)
  <2> SUFFICES ASSUME IInv, [Next]_vars PROVE [Fifo!Next]_(Fifo!vars)
    OBVIOUS
  <2>1. CASE UNCHANGED <<worker, wait, closed, accepted, drawn>>
    <3>1. Busy' = Busy
      BY <2>1 DEF Busy
    <3>2. QED BY <2>1, <3>1 DEF Fifo!vars
  <2>2. ASSUME NEW p \in Publishers, PublisherCancelled(p) PROVE Fifo!Cancel(p)
    <3>1. UNCHANGED worker
      BY <2>2 DEF PublisherCancelled
    <3>2. Busy' = Busy
      BY <3>1 DEF Busy
    <3>3. QED BY <2>2, <3>2 DEF PublisherCancelled, Fifo!Cancel
  <2>3. ASSUME NEW c \in Closers, Close(c) PROVE Fifo!Close
    <3>1. UNCHANGED worker
      BY <2>3 DEF Close
    <3>2. Busy' = Busy
      BY <3>1 DEF Busy
    <3>3. QED BY <2>3, <3>2 DEF Close, Fifo!Close
  <2>4. ASSUME NEW q \in Queues, HandlerReturns(q) PROVE [Fifo!Next]_(Fifo!vars)
    BY <2>4, ReturnsMaps DEF HandlerReturns
  <2>5. ASSUME NEW q \in Queues, HandlerFails(q) PROVE [Fifo!Next]_(Fifo!vars)
    <3>1. CASE Head(worker[q].todo) \in KernelSubs \/ closed
      BY <2>5, <3>1, ReturnsMaps DEF HandlerFails
    <3>2. CASE ~(Head(worker[q].todo) \in KernelSubs \/ closed)
      BY <2>5, <3>2, ReportsMaps DEF HandlerFails
    <3>3. QED BY <3>1, <3>2
  <2>6. CASE \E x \in Subs : Subscribe(x) \/ Unsubscribe(x)
    BY <2>1, <2>6 DEF Subscribe, Unsubscribe
  <2>7. CASE \E c \in Closers : CloseReturns(c)
    BY <2>1, <2>7 DEF CloseReturns
  <2>8. CASE UNCHANGED vars \/ \E p \in Publishers, s \in Sessions, k \in Kinds : PublishClosed(p, s, k)
    BY <2>1, <2>8 DEF PublishClosed, vars
  <2>9. CASE \E p \in Publishers : PublisherCancelled(p)
    BY <2>2, <2>9 DEF Fifo!Next
  <2>10. CASE \E c \in Closers : Close(c)
    BY <2>3, <2>10 DEF Fifo!Next
  <2>11. QED
    BY <2>4, <2>5, <2>6, <2>7, <2>8, <2>9, <2>10, GetMaps, CancelledMaps, PublishMaps
    DEF Next, HandlerEnds
<1>3. QED BY <1>1, <1>2, Invariance, PTL DEF Spec, ImplementsFifo, Fifo!Spec

-----------------------------------------------------------------------------
(* A behaviour of the sum is, of the registry's variables, one of the      *)
(* registry.                                                               *)
LEMMA RegistryAlone ==
  PartSpec => Reg!Spec
<1>1. PartInit => Reg!Init
  BY DEF PartInit
<1>2. [PartNext]_<<part, vars, registryVars>> => [Reg!Next]_(Reg!vars)
  BY DEF PartNext, registryVars, Reg!vars, Reg!tableVars, Reg!stopVars, Reg!handlerVars
<1> QED  BY <1>1, <1>2, PTL DEF PartSpec, Reg!Spec

(* Without install and remove, on_unload runs once for a load, and stop()  *)
(* unloads last loaded first (registry.py:340-348, 807-816).               *)
THEOREM LiveUnloadsAreOrderly ==
  Requests = {} /\ PartSpec => []OrderlyUnload
<1>1. Reg!Parameters
  BY RegistryParameters
<1>2. OrderlyUnload <=> Reg!OrderlyUnload
  BY DEF OrderlyUnload
<1> QED  BY <1>1, <1>2, RegistryAlone, Reg!UnloadsAreOrderly, PTL

(* Without install and remove, a terminal status is terminal, and          *)
(* unloading ends in failed (registry.py:104-129).                         *)
THEOREM LiveStatusClimbs ==
  Requests = {} /\ PartSpec => StatusLadder
<1>1. Reg!Parameters
  BY RegistryParameters
<1> QED  BY <1>1, RegistryAlone, Reg!StatusClimbs, PTL DEF StatusLadder
=============================================================================
