---------------------------- MODULE MCTurnsProofs ----------------------------
(***************************************************************************)
(* Proofs about the agent loop: for any number of user messages,           *)
(* iterations and stray events, one turn acts on the session at a time,    *)
(* every answer goes to the request it was given to, and a turn ends with  *)
(* one terminal event and no text behind it.  And, at the end, about the   *)
(* approval runtime, whichever of its timeout and the bus's is the shorter *)
(* one: that a gated tool runs only with an approval, that no prompt is    *)
(* lost from both its sides, and that a key or a refusal is lost only in a *)
(* call which the bus cut.                                                 *)
(***************************************************************************)
EXTENDS MCTurns, SequenceTheorems, FiniteSetTheorems, TLAPS

(* The request numbers: two requests an iteration at most, a decision      *)
(* first; a turn nobody started is as new.                                 *)
ProgressInv ==
  \A t \in Turns :
    /\ turn[t].pc = "off" => turn[t] = NewTurn
    /\ turn[t].pc = "load" => turn[t].n = 0
    /\ Live(t) => turn[t].n <= 2 * turn[t].step
    /\ (turn[t].pc = "start" \/ (turn[t].pc \in {"req", "wait"} /\ turn[t].ask = "decide"))
         => turn[t].n < 2 * turn[t].step

(* What is tracked has no answer yet.                                      *)
UnansweredInv == \A r \in pending : turn[r[1]].resp = None

(* How many terminal events a turn has published, by where its task is.    *)
EndedInv ==
  \A t \in Turns :
    /\ turn[t].pc \in {"off", "load", "req", "wait", "stamp", "start"} => ended[t] = 0
    /\ turn[t].pc \in {"done", "write", "error"} => ended[t] = 1

(* The queue: a user message starts a turn that is still off, and no two   *)
(* start the same one; a response says what some plugin may answer; the    *)
(* turn of a terminal event has published it.                              *)
UserInv ==
  /\ \A t \in Turns : t > users => turn[t].pc = "off"
  /\ \A i \in DOMAIN chan : chan[i].k = "user" =>
       chan[i].t \in 1..users /\ turn[chan[i].t].pc = "off"
  /\ \A i, j \in DOMAIN chan : (chan[i].k = "user" /\ chan[j].k = "user" /\ chan[i].t = chan[j].t)
                                 => i = j
ContentInv ==
  \A i \in DOMAIN chan :
    /\ chan[i].k = "resp" => chan[i].a \in UNION {Answers(x) : x \in Asks}
    /\ chan[i].k \in {"done", "error"} => chan[i].t \in Turns /\ ended[chan[i].t] = 1

LoopInv == TypeOK /\ ProgressInv /\ UnansweredInv /\ EndedInv /\ UserInv /\ ContentInv
           /\ OneActiveTurn /\ OwnAnswer /\ TurnEndsOnce

-----------------------------------------------------------------------------
(* What appending to a queue leaves in it.                                 *)
LEMMA Appended ==
  ASSUME NEW S, NEW s \in Seq(S), NEW e \in S
  PROVE  /\ Append(s, e) \in Seq(S)
         /\ DOMAIN Append(s, e) = 1..(Len(s) + 1) /\ DOMAIN s = 1..Len(s) /\ Len(s) \in Nat
         /\ \A i \in DOMAIN s : Append(s, e)[i] = s[i]
         /\ Append(s, e)[Len(s) + 1] = e
  OBVIOUS

(* What taking the first event leaves in it.                               *)
LEMMA Taken ==
  ASSUME NEW S, NEW s \in Seq(S), s # <<>>
  PROVE  /\ Tail(s) \in Seq(S) /\ Head(s) \in S
         /\ 1 \in DOMAIN s /\ Head(s) = s[1]
         /\ \A i \in DOMAIN Tail(s) : i + 1 \in DOMAIN s /\ Tail(s)[i] = s[i + 1] /\ i \in Nat
  OBVIOUS

(* The queue parts survive the publication of an event by a turn task.     *)
LEMMA QueueGrows ==
  ASSUME LoopInv, NEW t \in Turns, Live(t),
         NEW e \in Event, e.k \in {"req", "start", "done", "write", "error"}, e.t = t,
         chan' = Append(chan, e), UNCHANGED users,
         \A x \in Turns \ {t} : turn'[x] = turn[x] /\ ended'[x] = ended[x],
         turn' \in [Turns -> Turn], turn'[t].pc # "off",
         e.k \in {"done", "error"} => ended[t] = 0 /\ ended'[t] = 1,
         e.k \notin {"done", "error"} => ended' = ended
  PROVE  chan' \in Seq(Event) /\ UserInv' /\ ContentInv' /\ TextBeforeTerminal'
<1> USE DEF LoopInv, TypeOK, UserInv, ContentInv, TextBeforeTerminal, TurnEndsOnce, Live
<1>1. /\ chan' \in Seq(Event)
      /\ DOMAIN chan' = 1..(Len(chan) + 1) /\ DOMAIN chan = 1..Len(chan) /\ Len(chan) \in Nat
      /\ \A i \in DOMAIN chan : chan'[i] = chan[i]
      /\ chan'[Len(chan) + 1] = e
  <2> HIDE DEF LoopInv
  <2>1. chan \in Seq(Event)  BY DEF LoopInv
  <2> QED  BY <2>1, Appended
<1>2. UserInv'
  <2>1. \A i \in DOMAIN chan' : chan'[i].k = "user" => i \in DOMAIN chan /\ chan'[i] = chan[i]
    BY <1>1
  <2>2. \A i \in DOMAIN chan : chan[i].k = "user" => chan[i].t \in Turns \ {t}
    BY BoundAssumption DEF Turns
  <2>3. \A x \in Turns : x > users' => turn'[x].pc = "off"
    BY DEF Turns
  <2> QED  BY <2>1, <2>2, <2>3
<1>3. ContentInv'
  BY <1>1
<1>4. TextBeforeTerminal'
  BY <1>1
<1> QED  BY <1>1, <1>2, <1>3, <1>4

(* So do they when the next event is taken, or dropped by a step that      *)
(* leaves the other turns' starts and ends alone.                          *)
LEMMA QueueShrinks ==
  ASSUME LoopInv, chan # <<>>, chan' = Tail(chan), UNCHANGED <<users, ended>>,
         \A x \in Turns : turn[x].pc = "off" /\ (Head(chan).k = "user" => x # Head(chan).t)
                            => turn'[x].pc = "off"
  PROVE  chan' \in Seq(Event) /\ UserInv' /\ ContentInv' /\ TextBeforeTerminal'
<1> USE DEF LoopInv, TypeOK, UserInv, ContentInv, TextBeforeTerminal, TurnEndsOnce
<1>1. /\ chan' \in Seq(Event)
      /\ 1 \in DOMAIN chan /\ Head(chan) = chan[1]
      /\ \A i \in DOMAIN chan' : i + 1 \in DOMAIN chan /\ chan'[i] = chan[i + 1] /\ i \in Nat
  <2>1. chan \in Seq(Event) /\ chan # <<>>  OBVIOUS
  <2> QED  BY <2>1, Taken
<1>2. UserInv'
  <2>1. \A i \in DOMAIN chan : chan[i].k = "user" => chan[i].t \in Turns
    BY BoundAssumption DEF Turns
  <2>2. \A i \in DOMAIN chan' : chan'[i].k = "user" =>
          /\ chan'[i].t \in 1..users'
          /\ Head(chan).k = "user" => chan'[i].t # Head(chan).t
    <3> SUFFICES ASSUME NEW i \in DOMAIN chan', chan'[i].k = "user"
                 PROVE  /\ chan'[i].t \in 1..users'
                        /\ Head(chan).k = "user" => chan'[i].t # Head(chan).t
      OBVIOUS
    <3>1. i + 1 \in DOMAIN chan /\ chan'[i] = chan[i + 1] /\ i + 1 # 1  BY <1>1
    <3> QED  BY <1>1, <3>1
  <2>3. \A i \in DOMAIN chan' : chan'[i].k = "user" => turn'[chan'[i].t].pc = "off"
    BY <1>1, <2>1, <2>2
  <2>4. \A x \in Turns : x > users' => turn'[x].pc = "off"
    <3>1. Head(chan).k = "user" => Head(chan).t \in 1..users  BY <1>1
    <3> QED  BY <3>1 DEF Turns
  <2>5. \A i, j \in DOMAIN chan' :
          (chan'[i].k = "user" /\ chan'[j].k = "user" /\ chan'[i].t = chan'[j].t) => i = j
    BY <1>1
  <2> QED  BY <2>2, <2>3, <2>4, <2>5
<1>3. ContentInv'
  BY <1>1
<1>4. TextBeforeTerminal'
  BY <1>1
<1> QED  BY <1>1, <1>2, <1>3, <1>4

(* And when another kind of event is added from outside the turns.         *)
LEMMA QueueFed ==
  ASSUME LoopInv, NEW e \in Event, e.k \in {"interrupt", "resp", "delta", "toolerror"},
         e.k = "resp" => e.a \in UNION {Answers(x) : x \in Asks},
         chan' = Append(chan, e), UNCHANGED <<users, ended, turn>>
  PROVE  chan' \in Seq(Event) /\ UserInv' /\ ContentInv' /\ TextBeforeTerminal'
<1> USE DEF LoopInv, TypeOK, UserInv, ContentInv, TextBeforeTerminal, TurnEndsOnce
<1>1. /\ chan' \in Seq(Event)
      /\ DOMAIN chan' = 1..(Len(chan) + 1) /\ DOMAIN chan = 1..Len(chan) /\ Len(chan) \in Nat
      /\ \A i \in DOMAIN chan : chan'[i] = chan[i]
      /\ chan'[Len(chan) + 1] = e
  <2>1. chan \in Seq(Event)  OBVIOUS
  <2> QED  BY <2>1, Appended
<1>2. UserInv'
  BY <1>1
<1>3. ContentInv'
  BY <1>1
<1>4. TextBeforeTerminal'
  BY <1>1
<1> QED  BY <1>1, <1>2, <1>3, <1>4

-----------------------------------------------------------------------------
(* Asking a plugin: the id is new, tracked and unanswered.                 *)
LEMMA AskKeeps ==
  ASSUME LoopInv, NEW t \in Turns, Runs(t), NEW what \in Asks, NEW st \in Turn,
         turn[t].resp # None \/ turn[t].pc \notin {"req", "wait"},
         st.n = turn[t].n, ~st.cancel, ended[t] = 0,
         st.n + 1 <= 2 * st.step, what = "decide" => st.n + 1 < 2 * st.step,
         Ask(t, st, what), UNCHANGED <<current, started, sessionVars>>
  PROVE  LoopInv'
<1> DEFINE e == Ev("req", t, turn[t].n + 1, what)
<1>0. /\ turn \in [Turns -> Turn] /\ turn[t] \in Turn /\ pending \subseteq Request
      /\ \A r \in pending : r[1] \in Turns
  BY DEF LoopInv, TypeOK, Request
<1>1. turn[t].n + 1 \in 1..MaxRequests
  BY <1>0, BoundAssumption DEF Turn, MaxRequests
<1>2. e \in Event
  BY <1>1 DEF Ev, Event, Turns, Asks
<1>3. /\ turn' = [turn EXCEPT ![t] = turn'[t]] /\ turn'[t] \in Turn
      /\ turn'[t].pc = "req" /\ turn'[t].n = turn[t].n + 1 /\ turn'[t].ask = what
      /\ turn'[t].resp = None /\ ~turn'[t].cancel /\ turn'[t].step = st.step
  <2>1. turn'[t] = [st EXCEPT !.pc = "req", !.n = @ + 1, !.ask = what, !.resp = None]
    BY <1>0 DEF Ask
  <2>2. turn'[t] \in Turn
    <3>1. st.n + 1 \in 0..MaxRequests  BY <1>1
    <3>2. "req" \in PCs  BY DEF PCs
    <3> QED  BY <2>1, <3>1, <3>2 DEF Turn
  <2> QED  BY <2>1, <2>2, <1>0 DEF Ask, Turn
<1>4. /\ \A x \in Turns \ {t} : turn'[x] = turn[x]
      /\ turn' \in [Turns -> Turn]
  BY <1>0, <1>3
<1>5. chan' \in Seq(Event) /\ UserInv' /\ ContentInv' /\ TextBeforeTerminal'
  <2>1. /\ e.k = "req" /\ e.t = t /\ chan' = Append(chan, e) /\ ended' = ended /\ users' = users
        /\ Live(t)
    BY DEF Ev, Ask, sessionVars, Runs
  <2> HIDE DEF e
  <2> QED  BY <1>2, <1>3, <1>4, <2>1, QueueGrows
<1>6. pending' = pending \cup {<<t, turn[t].n + 1>>} /\ ended' = ended
  BY DEF Ask
<1>7. TypeOK'
  BY <1>1, <1>4, <1>5, <1>6 DEF LoopInv, TypeOK, sessionVars, Request
<1>8. ProgressInv'
  BY <1>3, <1>4 DEF LoopInv, ProgressInv, Live, Turn
<1>9. UnansweredInv' /\ OwnAnswer'
  <2>1. \A r \in pending : r[1] # t
    BY <1>0 DEF LoopInv, UnansweredInv, OwnAnswer, TrackedIsAwaited
  <2>2. \A r \in pending' : \/ r \in pending /\ turn'[r[1]] = turn[r[1]]
                            \/ r = <<t, turn[t].n + 1>>
    BY <1>0, <1>4, <1>6, <2>1
  <2>3. UnansweredInv' /\ TrackedIsAwaited'
    BY <1>3, <1>4, <1>6, <2>2 DEF LoopInv, UnansweredInv, OwnAnswer, TrackedIsAwaited
  <2>4. AnswersItsRequest'
    BY <1>3, <1>4 DEF LoopInv, OwnAnswer, AnswersItsRequest
  <2> QED  BY <2>3, <2>4 DEF OwnAnswer
<1>10. EndedInv' /\ OneTerminalEvent' /\ OneActiveTurn'
  BY <1>3, <1>4, <1>6 DEF LoopInv, EndedInv, TurnEndsOnce, OneTerminalEvent, OneActiveTurn, Runs,
     Live
<1> QED  BY <1>5, <1>7, <1>8, <1>9, <1>10 DEF LoopInv, TurnEndsOnce

(* Publishing an event of the turn: nothing of the turn stays tracked.     *)
LEMMA PublishKeeps ==
  ASSUME LoopInv, NEW t \in Turns, Runs(t), NEW k \in {"start", "done", "write", "error"},
         k = "start" => turn[t].n < 2 * turn[t].step,
         k = "write" => ended[t] = 1, k # "write" => ended[t] = 0,
         Publish(t, k), pending' = pending \ {<<t, turn[t].n>>},
         UNCHANGED <<current, started, sessionVars>>
  PROVE  LoopInv'
<1> DEFINE e == Ev(k, t, turn[t].n, None)
<1>0. /\ turn \in [Turns -> Turn] /\ turn[t] \in Turn /\ pending \subseteq Request
      /\ ended \in [Turns -> Nat] /\ \A r \in pending : r[1] \in Turns /\ r = <<r[1], r[2]>>
  BY DEF LoopInv, TypeOK, Request
<1>1. e \in Event
  BY <1>0 DEF Ev, Event, Turns, Turn
<1>2. turn' = [turn EXCEPT ![t].pc = k] /\ k \in PCs
  BY DEF Publish, PCs
<1>3. /\ \A x \in Turns \ {t} : turn'[x] = turn[x] /\ ended'[x] = ended[x]
      /\ turn' \in [Turns -> Turn] /\ turn'[t].pc = k
      /\ turn'[t].n = turn[t].n /\ turn'[t].step = turn[t].step /\ turn'[t].resp = turn[t].resp
      /\ turn'[t].cancel = turn[t].cancel
  <2>1. \A x \in Turns \ {t} : ended'[x] = ended[x]
    BY <1>0 DEF Publish
  <2>2. turn'[t] = [turn[t] EXCEPT !.pc = k] /\ turn' \in [Turns -> Turn]
    BY <1>0, <1>2 DEF Turn
  <2> QED  BY <1>0, <1>2, <2>1, <2>2 DEF Turn
<1>4. /\ ended' \in [Turns -> Nat]
      /\ k \in {"done", "error"} => ended'[t] = 1
      /\ k \notin {"done", "error"} => ended' = ended
  <2>1. CASE k \in {"done", "error"}
    <3>1. ended' = [ended EXCEPT ![t] = @ + 1] /\ ended[t] = 0  BY <2>1 DEF Publish
    <3> QED  BY <1>0, <2>1, <3>1
  <2>2. CASE k \notin {"done", "error"}
    BY <1>0, <2>2 DEF Publish
  <2> QED  BY <2>1, <2>2
<1>5. chan' \in Seq(Event) /\ UserInv' /\ ContentInv' /\ TextBeforeTerminal'
  <2>1. /\ e.k = k /\ e.t = t /\ chan' = Append(chan, e) /\ users' = users /\ Live(t)
    BY DEF Ev, Publish, sessionVars, Runs
  <2> HIDE DEF e
  <2> QED  BY <1>1, <1>3, <1>4, <2>1, QueueGrows
<1>6. TypeOK'
  BY <1>0, <1>3, <1>4, <1>5 DEF LoopInv, TypeOK, sessionVars
<1>7. ProgressInv'
  BY <1>0, <1>3 DEF LoopInv, ProgressInv, Live, Runs
<1>8. UnansweredInv' /\ OwnAnswer'
  <2>1. \A r \in pending' : r \in pending /\ r[1] \in Turns \ {t}
    BY <1>0 DEF LoopInv, OwnAnswer, TrackedIsAwaited
  <2>2. \A x \in Turns : turn'[x].pc \in {"req", "wait"} => x # t
    BY <1>3
  <2>3. UnansweredInv' /\ TrackedIsAwaited'
    BY <1>3, <2>1, <2>2 DEF LoopInv, UnansweredInv, OwnAnswer, TrackedIsAwaited
  <2>4. AnswersItsRequest'
    BY <1>3, <2>2 DEF LoopInv, OwnAnswer, AnswersItsRequest
  <2> QED  BY <2>3, <2>4 DEF OwnAnswer
<1>9. EndedInv' /\ OneTerminalEvent' /\ OneActiveTurn'
  BY <1>3, <1>4 DEF LoopInv, EndedInv, TurnEndsOnce, OneTerminalEvent, OneActiveTurn, Runs,
     Live
<1> QED  BY <1>5, <1>6, <1>7, <1>8, <1>9 DEF LoopInv, TurnEndsOnce

(* The end of a task: it publishes nothing and nothing of it is tracked.   *)
LEMMA OverKeeps ==
  ASSUME LoopInv, NEW t \in Turns, Live(t), turn[t].cancel \/ ended[t] = 1,
         Over(t), pending' = pending \ {<<t, turn[t].n>>},
         UNCHANGED <<started, chan, sessionVars, ended>>
  PROVE  LoopInv'
<1>0. /\ turn \in [Turns -> Turn] /\ turn[t] \in Turn /\ pending \subseteq Request
      /\ \A r \in pending : r[1] \in Turns /\ r = <<r[1], r[2]>>
  BY DEF LoopInv, TypeOK, Request
<1>1. NewTurn \in Turn
  BY BoundAssumption DEF NewTurn, Turn, PCs, Asks, MaxRequests
<1>2. /\ turn' = [turn EXCEPT ![t] = turn'[t]]
      /\ turn'[t] = [NewTurn EXCEPT !.pc = "over", !.n = turn[t].n, !.cancel = turn[t].cancel]
  BY <1>0 DEF Over
<1>3. /\ \A x \in Turns \ {t} : turn'[x] = turn[x]
      /\ turn' \in [Turns -> Turn] /\ turn'[t].pc = "over" /\ turn'[t].cancel = turn[t].cancel
  <2>1. "over" \in PCs  BY DEF PCs
  <2>2. turn'[t] \in Turn
    BY <1>0, <1>1, <1>2, <2>1 DEF Turn
  <2> QED  BY <1>0, <1>2, <2>2, <1>1 DEF Turn
<1>4. chan' \in Seq(Event) /\ UserInv' /\ ContentInv' /\ TextBeforeTerminal'
  <2>1. \A x \in Turns : turn[x].pc = "off" => turn'[x] = turn[x]
    BY <1>3 DEF Live
  <2>2. \A i \in DOMAIN chan : chan[i].k = "user" => chan[i].t \in Turns
    BY BoundAssumption DEF Turns, LoopInv, UserInv, TypeOK
  <2> QED
    BY <2>1, <2>2 DEF sessionVars, LoopInv, TypeOK, UserInv, ContentInv, TurnEndsOnce,
      TextBeforeTerminal
<1>5. TypeOK'
  BY <1>0, <1>3, <1>4 DEF LoopInv, TypeOK, sessionVars, Over
<1>6. ProgressInv'
  BY <1>3 DEF LoopInv, ProgressInv, Live
<1>7. UnansweredInv' /\ OwnAnswer'
  <2>1. \A r \in pending' : r \in pending /\ r[1] \in Turns \ {t}
    BY <1>0 DEF LoopInv, OwnAnswer, TrackedIsAwaited
  <2>2. \A x \in Turns : turn'[x].pc \in {"req", "wait"} => x # t
    BY <1>3
  <2>3. UnansweredInv' /\ TrackedIsAwaited'
    BY <1>3, <2>1, <2>2 DEF LoopInv, UnansweredInv, OwnAnswer, TrackedIsAwaited
  <2>4. AnswersItsRequest'
    BY <1>3, <2>2 DEF LoopInv, OwnAnswer, AnswersItsRequest
  <2> QED  BY <2>3, <2>4 DEF OwnAnswer
<1>8. EndedInv' /\ OneTerminalEvent' /\ OneActiveTurn'
  BY <1>3 DEF LoopInv, EndedInv, TurnEndsOnce, OneTerminalEvent, OneActiveTurn, Runs,
     Live, Over
<1> QED  BY <1>4, <1>5, <1>6, <1>7, <1>8 DEF LoopInv, TurnEndsOnce

(* The iteration guard: another decision, or kernel.error.                 *)
LEMMA IterationKeeps ==
  ASSUME LoopInv, NEW t \in Turns, Runs(t), NEW st \in Turn,
         turn[t].pc \notin {"req", "wait"} \/ turn[t].resp # None,
         st.n = turn[t].n, ~st.cancel, st.step = turn[t].step, ended[t] = 0,
         NextIteration(t, st), UNCHANGED <<current, started, sessionVars>>
  PROVE  LoopInv'
<1>0. turn[t] \in Turn /\ turn[t].n <= 2 * turn[t].step /\ pending \subseteq Request
  BY DEF LoopInv, TypeOK, ProgressInv, Runs
<1>1. CASE st.step < MaxIterations
  <2> DEFINE s2 == [st EXCEPT !.step = @ + 1]
  <2>1. s2 \in Turn /\ s2.n = turn[t].n /\ s2.step = turn[t].step + 1 /\ ~s2.cancel
        /\ turn[t].step \in Nat /\ turn[t].n \in Nat
    BY <1>0, <1>1, BoundAssumption DEF Turn
  <2>2. Ask(t, s2, "decide") /\ "decide" \in Asks
    BY <1>1 DEF NextIteration, Asks
  <2>3. s2.n + 1 <= 2 * s2.step /\ s2.n + 1 < 2 * s2.step
    BY <1>0, <2>1
  <2> HIDE DEF s2
  <2> QED  BY <2>1, <2>2, <2>3, AskKeeps
<1>2. CASE ~(st.step < MaxIterations)
  <2>1. Publish(t, "error") /\ pending' = pending
    BY <1>2 DEF NextIteration
  <2>2. <<t, turn[t].n>> \notin pending
    BY DEF LoopInv, UnansweredInv, OwnAnswer, TrackedIsAwaited
  <2>3. pending' = pending \ {<<t, turn[t].n>>}
    BY <2>1, <2>2
  <2> QED  BY <2>1, <2>3, PublishKeeps
<1> QED  BY <1>1, <1>2

(* What is not awaited is not tracked.                                     *)
LEMMA NotTracked ==
  ASSUME LoopInv, NEW t \in Turns, turn[t].pc \notin {"req", "wait"} \/ turn[t].resp # None
  PROVE  pending \ {<<t, turn[t].n>>} = pending
<1>1. <<t, turn[t].n>> \notin pending
  BY DEF LoopInv, UnansweredInv, OwnAnswer, TrackedIsAwaited
<1> QED  BY <1>1

(* Every step of a turn task, its timeout included.                        *)
LEMMA TurnKeeps ==
  ASSUME LoopInv, NEW t \in Turns, TurnStep(t) \/ Timeout(t)
  PROVE  LoopInv'
<1>0. turn[t] \in Turn /\ (Live(t) => turn[t].n <= 2 * turn[t].step) /\ ended[t] \in Nat
  BY DEF LoopInv, TypeOK, ProgressInv
<1>1. CASE HistoryLoaded(t)
  <2>1. ended[t] = 0 /\ ~turn[t].cancel
    BY <1>1 DEF HistoryLoaded, LoopInv, EndedInv, Runs
  <2> QED  BY <1>0, <1>1, <2>1, IterationKeeps DEF HistoryLoaded
<1>2. CASE RequestPublished(t)
  <2>1. /\ \A x \in Turns \ {t} : turn'[x] = turn[x]
        /\ turn' \in [Turns -> Turn] /\ turn[t].pc = "req" /\ turn' = [turn EXCEPT ![t].pc = "wait"]
        /\ turn'[t] = [turn[t] EXCEPT !.pc = "wait"]
    BY <1>2 DEF RequestPublished, LoopInv, TypeOK, Turn, PCs
  <2>2. /\ turn'[t].pc = "wait" /\ turn'[t].n = turn[t].n /\ turn'[t].step = turn[t].step
        /\ turn'[t].ask = turn[t].ask /\ turn'[t].resp = turn[t].resp
        /\ turn'[t].cancel = turn[t].cancel
    BY <1>0, <2>1 DEF Turn
  <2>3. UNCHANGED <<current, pending, started, chan, busy, users, extra, ended>>
    BY <1>2 DEF RequestPublished, sessionVars
  <2>4. TypeOK' /\ ContentInv' /\ TextBeforeTerminal'
    BY <2>1, <2>3 DEF LoopInv, TypeOK, ContentInv, TextBeforeTerminal, TurnEndsOnce
  <2>5. UserInv'
    <3>1. \A i \in DOMAIN chan : chan[i].k = "user" => chan[i].t \in Turns
      BY BoundAssumption DEF Turns, LoopInv, UserInv, TypeOK
    <3>2. \A x \in Turns : turn[x].pc = "off" => turn'[x].pc = "off"
      BY <2>1, <2>2
    <3> QED  BY <2>3, <3>1, <3>2 DEF LoopInv, UserInv
  <2>6. ProgressInv' /\ EndedInv' /\ OneTerminalEvent' /\ OneActiveTurn'
    BY <2>1, <2>2, <2>3 DEF LoopInv, ProgressInv, EndedInv, OneTerminalEvent, OneActiveTurn,
       TurnEndsOnce, Runs, Live
  <2>7. UnansweredInv' /\ OwnAnswer'
    <3>1. \A r \in pending : r[1] \in Turns  BY DEF LoopInv, TypeOK, Request
    <3> QED
      BY <2>1, <2>2, <2>3, <3>1 DEF LoopInv, UnansweredInv, OwnAnswer, TrackedIsAwaited,
         AnswersItsRequest
  <2> QED  BY <2>4, <2>5, <2>6, <2>7 DEF LoopInv, TurnEndsOnce
<1>4. CASE ProviderStamped(t)
  <2>1. ended[t] = 0 /\ ~turn[t].cancel
    BY <1>4 DEF ProviderStamped, LoopInv, EndedInv, Runs
  <2> DEFINE st == [turn[t] EXCEPT !.anchored = TRUE]
  <2>2. st \in Turn /\ st.n = turn[t].n /\ st.step = turn[t].step /\ st.cancel = turn[t].cancel
    BY <1>0 DEF Turn
  <2>3. NextIteration(t, st) /\ Runs(t) /\ turn[t].pc = "stamp" /\ UNCHANGED <<current, started,
          sessionVars>>
    BY <1>4 DEF ProviderStamped
  <2> HIDE DEF st
  <2> QED  BY <2>1, <2>2, <2>3, IterationKeeps
<1>5. CASE ToolStartPublished(t)
  <2>1. ended[t] = 0 /\ ~turn[t].cancel /\ turn[t].n < 2 * turn[t].step
    BY <1>5 DEF ToolStartPublished, LoopInv, EndedInv, Runs, ProgressInv
  <2>2. turn[t].n + 1 <= 2 * turn[t].step /\ "tool" \in Asks
    BY <1>0, <2>1 DEF Turn, Asks
  <2> QED  BY <1>0, <1>5, <2>1, <2>2, AskKeeps DEF ToolStartPublished
<1>6. CASE DonePublished(t)
  <2>1. ended[t] = 1 /\ pending' = pending \ {<<t, turn[t].n>>}
    BY <1>6, NotTracked DEF DonePublished, LoopInv, EndedInv
  <2>2. CASE Publish(t, "write") /\ UNCHANGED current
    BY <1>6, <2>1, <2>2, PublishKeeps DEF DonePublished
  <2>3. CASE Over(t) /\ UNCHANGED <<chan, ended>>
    BY <1>6, <2>1, <2>3, OverKeeps DEF DonePublished, Runs
  <2> QED  BY <1>6, <2>2, <2>3 DEF DonePublished
<1>7. CASE LastPublished(t)
  <2>1. ended[t] = 1 /\ pending' = pending \ {<<t, turn[t].n>>}
    BY <1>7, NotTracked DEF LastPublished, LoopInv, EndedInv
  <2> QED  BY <1>7, <2>1, OverKeeps DEF LastPublished, Runs
<1>8. CASE Unwind(t)
  BY <1>8, OverKeeps DEF Unwind
<1>9. CASE Timeout(t)
  <2>1. ended[t] = 0
    BY <1>9 DEF Timeout, LoopInv, EndedInv
  <2> QED  BY <1>9, <2>1, PublishKeeps DEF Timeout
<1>3. CASE Apply(t)
  <2>0. /\ Runs(t) /\ turn[t].pc = "wait" /\ turn[t].resp # None /\ ended[t] = 0
        /\ ~turn[t].cancel /\ UNCHANGED <<current, started, sessionVars>>
        /\ pending \ {<<t, turn[t].n>>} = pending
    BY <1>3, NotTracked DEF Apply, LoopInv, EndedInv, Runs
  <2>1. ASSUME turn[t].ask = "decide", NEW what \in {"memory", "llm"}, Ask(t, turn[t], what)
        PROVE  LoopInv'
    <3>1. turn[t].n < 2 * turn[t].step
      BY <2>0, <2>1 DEF LoopInv, ProgressInv
    <3>2. turn[t].n + 1 <= 2 * turn[t].step /\ what \in Asks /\ what # "decide"
      BY <1>0, <3>1 DEF Turn, Asks
    <3> QED  BY <1>0, <2>0, <2>1, <3>2, AskKeeps
  <2>2. ASSUME NEW k \in {"start", "done", "error"}, k = "start" => turn[t].ask = "decide",
               Publish(t, k), UNCHANGED pending
        PROVE  LoopInv'
    <3>1. k = "start" => turn[t].n < 2 * turn[t].step
      BY <2>0, <2>2 DEF LoopInv, ProgressInv
    <3> QED  BY <2>0, <2>2, <3>1, PublishKeeps
  <2>3. CASE NextIteration(t, turn[t])
    BY <1>0, <2>0, <2>3, IterationKeeps
  <2>4. CASE turn' = [turn EXCEPT ![t].pc = "stamp"] /\ UNCHANGED <<pending, chan, ended>>
    <3>1. /\ \A x \in Turns \ {t} : turn'[x] = turn[x]
          /\ turn' \in [Turns -> Turn] /\ turn'[t] = [turn[t] EXCEPT !.pc = "stamp"]
      BY <2>4 DEF LoopInv, TypeOK, Turn, PCs
    <3>2. /\ turn'[t].pc = "stamp" /\ turn'[t].n = turn[t].n /\ turn'[t].step = turn[t].step
          /\ turn'[t].cancel = turn[t].cancel
      BY <1>0, <3>1 DEF Turn
    <3>3. UNCHANGED <<current, pending, started, chan, busy, users, extra, ended>>
      BY <2>0, <2>4 DEF sessionVars
    <3>4. TypeOK' /\ ContentInv' /\ TextBeforeTerminal'
      BY <3>1, <3>3 DEF LoopInv, TypeOK, ContentInv, TextBeforeTerminal, TurnEndsOnce
    <3>5. UserInv'
      <4>1. \A i \in DOMAIN chan : chan[i].k = "user" => chan[i].t \in Turns
        BY BoundAssumption DEF Turns, LoopInv, UserInv, TypeOK
      <4>2. \A x \in Turns : turn[x].pc = "off" => turn'[x].pc = "off"
        BY <2>0, <3>1
      <4> QED  BY <3>3, <4>1, <4>2 DEF LoopInv, UserInv
    <3>6. ProgressInv' /\ EndedInv' /\ OneTerminalEvent' /\ OneActiveTurn'
      <4>1. ProgressInv'
        <5>1. Live(t) /\ turn'[t].n <= 2 * turn'[t].step
          BY <2>0, <3>2, <1>0 DEF Runs
        <5> QED  BY <3>1, <3>2, <5>1 DEF LoopInv, ProgressInv, Live
      <4>2. EndedInv' /\ OneTerminalEvent'
        BY <2>0, <3>1, <3>2, <3>3 DEF LoopInv, EndedInv, OneTerminalEvent, TurnEndsOnce
      <4>3. OneActiveTurn'
        BY <2>0, <3>1, <3>2, <3>3 DEF LoopInv, OneActiveTurn, Runs, Live
      <4> QED  BY <4>1, <4>2, <4>3
    <3>7. UnansweredInv' /\ OwnAnswer'
      <4>1. \A r \in pending : r[1] \in Turns /\ r[1] # t
        BY <2>0 DEF LoopInv, TypeOK, Request, UnansweredInv
      <4>2. \A x \in Turns : turn'[x].pc \in {"req", "wait"} => x # t
        BY <3>2
      <4>3. UnansweredInv' /\ TrackedIsAwaited'
        BY <3>1, <3>3, <4>1, <4>2 DEF LoopInv, UnansweredInv, OwnAnswer, TrackedIsAwaited
      <4>4. AnswersItsRequest'
        BY <3>1, <4>2 DEF LoopInv, OwnAnswer, AnswersItsRequest
      <4> QED  BY <4>3, <4>4 DEF OwnAnswer
    <3> QED  BY <3>4, <3>5, <3>6, <3>7 DEF LoopInv, TurnEndsOnce
  <2> QED  BY <1>3, <2>1, <2>2, <2>3, <2>4 DEF Apply
<1> QED  BY <1>1, <1>2, <1>3, <1>4, <1>5, <1>6, <1>7, <1>8, <1>9 DEF TurnStep

-----------------------------------------------------------------------------
(* Cancelling a turn, or nothing, disturbs no account of the turns.        *)
LEMMA SameTurns ==
  ASSUME LoopInv, UNCHANGED <<pending, ended>>,
         \A x \in Turns :
           /\ turn'[x].pc = turn[x].pc /\ turn'[x].n = turn[x].n /\ turn'[x].step = turn[x].step
           /\ turn'[x].ask = turn[x].ask /\ turn'[x].resp = turn[x].resp
           /\ turn[x].cancel => turn'[x].cancel
           /\ turn[x].pc = "off" => turn'[x] = turn[x]
  PROVE  ProgressInv' /\ UnansweredInv' /\ OwnAnswer' /\ EndedInv' /\ OneTerminalEvent'
<1>1. \A r \in pending : r[1] \in Turns
  BY DEF LoopInv, TypeOK, Request
<1>2. ProgressInv' /\ EndedInv' /\ OneTerminalEvent'
  BY DEF LoopInv, ProgressInv, EndedInv, OneTerminalEvent, TurnEndsOnce, Live
<1>3. UnansweredInv' /\ OwnAnswer'
  BY <1>1 DEF LoopInv, UnansweredInv, OwnAnswer, TrackedIsAwaited, AnswersItsRequest
<1> QED  BY <1>2, <1>3

(* Cancelling the registered turn leaves no turn that acts.                *)
LEMMA CancelStopsAll ==
  ASSUME LoopInv, CancelCurrent
  PROVE  /\ turn' \in [Turns -> Turn]
         /\ \A x \in Turns :
              /\ turn'[x].pc = turn[x].pc /\ turn'[x].n = turn[x].n
              /\ turn'[x].step = turn[x].step
              /\ turn'[x].ask = turn[x].ask /\ turn'[x].resp = turn[x].resp
              /\ turn[x].cancel => turn'[x].cancel
              /\ turn[x].pc = "off" => turn'[x] = turn[x]
              /\ ~Runs(x)'
<1>0. turn \in [Turns -> Turn] /\ current \in Turns \cup {None} /\ None \notin Turns
  BY NoneAssumption DEF LoopInv, TypeOK
<1>1. CASE current # None /\ Live(current)
  <2>1. current \in Turns /\ turn' = [turn EXCEPT ![current].cancel = TRUE]
    BY <1>0, <1>1 DEF CancelCurrent
  <2>2. turn'[current] = [turn[current] EXCEPT !.cancel = TRUE] /\ turn' \in [Turns -> Turn]
        /\ \A x \in Turns \ {current} : turn'[x] = turn[x]
    BY <1>0, <2>1 DEF Turn
  <2>3. turn[current] \in Turn  BY <1>0, <2>1
  <2>4. /\ turn'[current].cancel /\ turn'[current].pc = turn[current].pc
        /\ turn'[current].n = turn[current].n /\ turn'[current].step = turn[current].step
        /\ turn'[current].ask = turn[current].ask /\ turn'[current].resp = turn[current].resp
    BY <2>2, <2>3 DEF Turn
  <2>5. turn[current].pc # "off"  BY <1>1 DEF Live
  <2>6. \A x \in Turns : ~Runs(x)'
    BY <2>2, <2>4 DEF LoopInv, OneActiveTurn, Runs, Live
  <2> QED  BY <2>2, <2>4, <2>5, <2>6
<1>2. CASE ~(current # None /\ Live(current))
  <2>1. turn' = turn  BY <1>2 DEF CancelCurrent
  <2>2. \A x \in Turns : ~Runs(x)
    BY <1>0, <1>2 DEF LoopInv, OneActiveTurn, Runs
  <2> QED  BY <1>0, <2>1, <2>2 DEF Runs, Live
<1> QED  BY <1>1, <1>2

(* The next event is in the queue.                                         *)
LEMMA Delivered ==
  ASSUME LoopInv, NEW k, Deliver(k)
  PROVE  /\ chan # <<>> /\ Head(chan) \in Event /\ Head(chan).k = k /\ busy = None
         /\ 1 \in DOMAIN chan /\ Head(chan) = chan[1]
<1>1. chan \in Seq(Event) /\ chan # <<>>  BY DEF LoopInv, TypeOK, Deliver
<1> QED  BY <1>1, Taken DEF Deliver

(* A user message starts its turn and cancels the one before.              *)
LEMMA UserMessageKeeps ==
  ASSUME LoopInv, OnUserMessage
  PROVE  LoopInv'
<1> DEFINE u == Head(chan).t
<1>1. chan # <<>> /\ Head(chan).k = "user" /\ u \in Turns /\ turn[u].pc = "off"
  <2>1. /\ chan # <<>> /\ Head(chan) \in Event /\ Head(chan).k = "user"
        /\ 1 \in DOMAIN chan /\ Head(chan) = chan[1]
    BY Delivered DEF OnUserMessage
  <2> QED  BY <2>1, BoundAssumption DEF LoopInv, TypeOK, UserInv, Turns
<1>2. chan' = Tail(chan) /\ UNCHANGED <<pending, started, busy, users, extra, ended>>
  BY DEF OnUserMessage
<1>3. turn \in [Turns -> Turn] /\ current \in Turns \cup {None} /\ None \notin Turns
  BY NoneAssumption DEF LoopInv, TypeOK
<1>4. CASE ~started
  <2>1. turn' = turn /\ current' = current  BY <1>4 DEF OnUserMessage
  <2>2. chan' \in Seq(Event) /\ UserInv' /\ ContentInv' /\ TextBeforeTerminal'
    BY <1>1, <1>2, <2>1, QueueShrinks
  <2>3. ProgressInv' /\ UnansweredInv' /\ OwnAnswer' /\ EndedInv' /\ OneTerminalEvent'
    BY <1>2, <2>1, SameTurns
  <2>4. TypeOK' /\ OneActiveTurn'
    BY <1>2, <2>1, <2>2 DEF LoopInv, TypeOK, OneActiveTurn, Runs, Live
  <2> QED  BY <2>2, <2>3, <2>4 DEF LoopInv, TurnEndsOnce
<1>5. CASE started
  <2> DEFINE live == current # None /\ Live(current)
  <2>1. /\ current' = u
        /\ turn' = [x \in Turns |->
                      IF x = u THEN [turn[x] EXCEPT !.pc = "load"]
                      ELSE [turn[x] EXCEPT !.cancel = @ \/ (live /\ x = current)]]
    BY <1>5 DEF OnUserMessage
  <2>2. turn[u] = NewTurn /\ turn'[u] = [NewTurn EXCEPT !.pc = "load"]
    BY <1>1, <2>1 DEF LoopInv, ProgressInv
  <2>3. /\ turn'[u].pc = "load" /\ turn'[u].n = 0 /\ turn'[u].step = 0 /\ turn'[u].resp = None
        /\ turn'[u] \in Turn
    <3>1. "load" \in PCs  BY DEF PCs
    <3>2. NewTurn \in Turn
      BY BoundAssumption DEF NewTurn, Turn, PCs, Asks, MaxRequests
    <3>3. turn'[u] \in Turn /\ turn'[u].pc = "load"
      BY <2>2, <3>1, <3>2 DEF Turn
    <3>4. NewTurn.n = 0 /\ NewTurn.step = 0 /\ NewTurn.resp = None
      BY DEF NewTurn
    <3> QED  BY <2>2, <3>2, <3>3, <3>4 DEF Turn
  <2>4. \A x \in Turns \ {u} :
          /\ turn'[x].pc = turn[x].pc /\ turn'[x].n = turn[x].n /\ turn'[x].step = turn[x].step
          /\ turn'[x].ask = turn[x].ask /\ turn'[x].resp = turn[x].resp
          /\ turn'[x].cancel = (turn[x].cancel \/ (live /\ x = current))
          /\ turn'[x] \in Turn
          /\ turn[x].pc = "off" => turn'[x] = turn[x]
    <3> SUFFICES ASSUME NEW x \in Turns \ {u}
                 PROVE /\ turn'[x].pc = turn[x].pc /\ turn'[x].n = turn[x].n
                       /\ turn'[x].step = turn[x].step
                       /\ turn'[x].ask = turn[x].ask /\ turn'[x].resp = turn[x].resp
                       /\ turn'[x].cancel = (turn[x].cancel \/ (live /\ x = current))
                       /\ turn'[x] \in Turn
                       /\ turn[x].pc = "off" => turn'[x] = turn[x]
      OBVIOUS
    <3>1. turn'[x] = [turn[x] EXCEPT !.cancel = @ \/ (live /\ x = current)] /\ turn[x] \in Turn
      BY <1>3, <2>1
    <3>2. turn[x].pc = "off" => ~(live /\ x = current)
      BY DEF Live
    <3>3. turn[x].pc = "off" => turn[x].cancel = FALSE
      BY DEF LoopInv, ProgressInv, NewTurn
    <3> DEFINE c == turn[x].cancel \/ (live /\ x = current)
    <3>4. turn'[x] = [turn[x] EXCEPT !.cancel = c] /\ c \in BOOLEAN  BY <3>1
    <3>5. turn[x].pc = "off" => c = turn[x].cancel  BY <3>2, <3>3
    <3> HIDE DEF c
    <3>6. /\ turn'[x].pc = turn[x].pc /\ turn'[x].n = turn[x].n /\ turn'[x].step = turn[x].step
          /\ turn'[x].ask = turn[x].ask /\ turn'[x].resp = turn[x].resp
          /\ turn'[x].cancel = c /\ turn'[x] \in Turn
      BY <3>1, <3>4 DEF Turn
    <3>7. turn[x].pc = "off" => turn'[x] = turn[x]
      BY <3>1, <3>4, <3>5 DEF Turn
    <3> QED  BY <3>6, <3>7 DEF c
  <2>5. turn' \in [Turns -> Turn]
    BY <2>1, <2>3, <2>4
  <2>6. chan' \in Seq(Event) /\ UserInv' /\ ContentInv' /\ TextBeforeTerminal'
    <3>1. \A x \in Turns : turn[x].pc = "off" /\ (Head(chan).k = "user" => x # Head(chan).t)
                            => turn'[x].pc = "off"
      BY <1>1, <2>4
    <3> QED  BY <1>1, <1>2, <3>1, QueueShrinks
  <2>7. TypeOK'
    BY <1>1, <1>2, <2>1, <2>5, <2>6 DEF LoopInv, TypeOK
  <2>8. ended[u] = 0 /\ (\A r \in pending : r[1] \in Turns \ {u})
    BY <1>1 DEF LoopInv, TypeOK, Request, EndedInv, OwnAnswer, TrackedIsAwaited
  <2>9. ProgressInv' /\ EndedInv' /\ OneTerminalEvent'
    <3> HIDE DEF live, u
    <3>1. ProgressInv'
      BY <2>3, <2>4 DEF LoopInv, ProgressInv, Live
    <3>2. EndedInv' /\ OneTerminalEvent'
      BY <1>2, <2>3, <2>4, <2>8 DEF LoopInv, EndedInv, OneTerminalEvent, TurnEndsOnce
    <3> QED  BY <3>1, <3>2
  <2>10. UnansweredInv' /\ OwnAnswer'
    <3> HIDE DEF live, u
    <3>1. \A x \in Turns : turn'[x].pc \in {"req", "wait"} => x # u
      BY <2>3
    <3>2. UnansweredInv' /\ TrackedIsAwaited'
      BY <1>2, <2>4, <2>8, <3>1 DEF LoopInv, UnansweredInv, OwnAnswer, TrackedIsAwaited
    <3>3. AnswersItsRequest'
      BY <2>4, <3>1 DEF LoopInv, OwnAnswer, AnswersItsRequest
    <3> QED  BY <3>2, <3>3 DEF OwnAnswer
  <2>11. OneActiveTurn'
    <3>1. ASSUME NEW x \in Turns \ {u}  PROVE ~Runs(x)'
      <4>1. Runs(x) => live /\ x = current
        BY <1>3 DEF LoopInv, OneActiveTurn, Runs
      <4>2. Runs(x)' => Runs(x) /\ ~(live /\ x = current)
        BY <2>4 DEF Runs, Live
      <4> QED  BY <4>1, <4>2
    <3> QED  BY <2>1, <3>1 DEF OneActiveTurn
  <2> QED  BY <2>6, <2>7, <2>9, <2>10, <2>11 DEF LoopInv, TurnEndsOnce
<1> QED  BY <1>4, <1>5

(* An interrupt, an event the loop ignores, and stop().                    *)
LEMMA IgnoredKeeps ==
  ASSUME LoopInv, OnInterrupt \/ OnToolError \/ OnOther \/ OnRequest
  PROVE  LoopInv'
<1>1. chan # <<>> /\ Head(chan) \in Event /\ Head(chan).k # "user" /\ chan' = Tail(chan)
      /\ UNCHANGED <<current, pending, started, users, extra, ended>>
      /\ busy' \in Event \cup {None}
  <2>1. CASE OnInterrupt
    BY <2>1, Delivered DEF OnInterrupt, LoopInv, TypeOK
  <2>2. CASE OnToolError
    BY <2>2, Delivered DEF OnToolError, LoopInv, TypeOK
  <2>3. CASE OnOther
    <3>1. PICK k \in {"start", "done", "write", "error", "text"} : Deliver(k)
      BY <2>3 DEF OnOther
    <3> QED  BY <2>3, <3>1, Delivered DEF OnOther, LoopInv, TypeOK, sessionVars
  <2>4. CASE OnRequest
    BY <2>4, Delivered DEF OnRequest, LoopInv, TypeOK
  <2> QED  BY <2>1, <2>2, <2>3, <2>4
<1>2. CancelCurrent \/ turn' = turn
  BY DEF OnInterrupt, OnToolError, OnOther, OnRequest
<1>3. /\ turn' \in [Turns -> Turn]
      /\ \A x \in Turns :
           /\ turn'[x].pc = turn[x].pc /\ turn'[x].n = turn[x].n
           /\ turn'[x].step = turn[x].step
           /\ turn'[x].ask = turn[x].ask /\ turn'[x].resp = turn[x].resp
           /\ turn[x].cancel => turn'[x].cancel
           /\ turn[x].pc = "off" => turn'[x] = turn[x]
           /\ Runs(x)' => Runs(x)
  <2>1. CASE CancelCurrent
    BY <2>1, CancelStopsAll
  <2>2. CASE turn' = turn
    BY <2>2 DEF LoopInv, TypeOK, Runs, Live
  <2> QED  BY <1>2, <2>1, <2>2
<1>4. chan' \in Seq(Event) /\ UserInv' /\ ContentInv' /\ TextBeforeTerminal'
  BY <1>1, <1>3, QueueShrinks
<1>5. ProgressInv' /\ UnansweredInv' /\ OwnAnswer' /\ EndedInv' /\ OneTerminalEvent'
  BY <1>1, <1>3, SameTurns
<1>6. TypeOK' /\ OneActiveTurn'
  BY <1>1, <1>3, <1>4 DEF LoopInv, TypeOK, OneActiveTurn
<1> QED  BY <1>4, <1>5, <1>6 DEF LoopInv, TurnEndsOnce

(* stop() cancels the registered turn and forgets it.                      *)
LEMMA StopKeeps ==
  ASSUME LoopInv, Stop
  PROVE  LoopInv'
<1>1. CancelCurrent /\ current' = None /\ started' \in BOOLEAN
      /\ UNCHANGED <<pending, chan, busy, users, extra, ended>>
  BY DEF Stop, sessionVars
<1>2. /\ turn' \in [Turns -> Turn]
      /\ \A x \in Turns :
           /\ turn'[x].pc = turn[x].pc /\ turn'[x].n = turn[x].n
           /\ turn'[x].step = turn[x].step
           /\ turn'[x].ask = turn[x].ask /\ turn'[x].resp = turn[x].resp
           /\ turn[x].cancel => turn'[x].cancel
           /\ turn[x].pc = "off" => turn'[x] = turn[x]
           /\ ~Runs(x)'
  BY <1>1, CancelStopsAll
<1>3. UserInv' /\ ContentInv' /\ TextBeforeTerminal'
  <2>1. \A i \in DOMAIN chan : chan[i].k = "user" => chan[i].t \in Turns
    BY BoundAssumption DEF Turns, LoopInv, UserInv, TypeOK
  <2>2. UserInv'
    BY <1>1, <1>2, <2>1 DEF LoopInv, UserInv
  <2> QED  BY <1>1, <2>2 DEF LoopInv, ContentInv, TextBeforeTerminal, TurnEndsOnce
<1>4. ProgressInv' /\ UnansweredInv' /\ OwnAnswer' /\ EndedInv' /\ OneTerminalEvent'
  BY <1>1, <1>2, SameTurns
<1>5. TypeOK' /\ OneActiveTurn'
  BY <1>1, <1>2 DEF LoopInv, TypeOK, OneActiveTurn
<1> QED  BY <1>3, <1>4, <1>5 DEF LoopInv, TurnEndsOnce

(* A response resolves the request it names, if that is still tracked.     *)
LEMMA ResponseKeeps ==
  ASSUME LoopInv, OnResponse
  PROVE  LoopInv'
<1> DEFINE e == Head(chan)
           t == e.t
<1>1. /\ chan # <<>> /\ e \in Event /\ e.k = "resp"
      /\ e.a \in UNION {Answers(x) : x \in Asks}
  <2>1. chan # <<>> /\ e \in Event /\ e.k = "resp" /\ 1 \in DOMAIN chan /\ e = chan[1]
    BY Delivered DEF OnResponse
  <2> QED  BY <2>1 DEF LoopInv, ContentInv
<1>2. chan' = Tail(chan) /\ UNCHANGED <<current, started, busy, users, extra, ended>>
  BY DEF OnResponse, sessionVars
<1>3. CASE started /\ <<t, e.n>> \in pending
  <2>1. pending' = pending \ {<<t, e.n>>} /\ turn' = [turn EXCEPT ![t].resp = [n |-> e.n,
          a |-> e.a]]
    BY <1>3 DEF OnResponse
  <2>2. /\ t \in Turns /\ e.n \in 1..MaxRequests /\ turn[t].pc \in {"req", "wait"}
        /\ turn[t].n = e.n /\ turn[t] \in Turn /\ turn \in [Turns -> Turn]
    <3>1. <<t, e.n>> \in Request /\ turn \in [Turns -> Turn]
      BY <1>3 DEF LoopInv, TypeOK
    <3>2. t \in Turns /\ e.n \in 1..MaxRequests  BY <3>1 DEF Request
    <3>3. turn[t].pc \in {"req", "wait"} /\ turn[t].n = e.n
      BY <1>3 DEF LoopInv, OwnAnswer, TrackedIsAwaited
    <3> QED  BY <3>1, <3>2, <3>3
  <2> DEFINE r == [n |-> e.n, a |-> e.a]
  <2>3. r \in Reply /\ r # None /\ r.n = e.n
    BY <1>1, <2>2, NoneAssumption DEF Reply
  <2>4. turn' = [turn EXCEPT ![t].resp = r]
    BY <2>1
  <2> HIDE DEF r
  <2>5. /\ \A x \in Turns \ {t} : turn'[x] = turn[x]
        /\ turn'[t] = [turn[t] EXCEPT !.resp = r] /\ turn'[t] \in Turn
        /\ turn' \in [Turns -> Turn]
    BY <2>2, <2>3, <2>4 DEF Turn
  <2>6. /\ turn'[t].pc = turn[t].pc /\ turn'[t].n = turn[t].n /\ turn'[t].step = turn[t].step
        /\ turn'[t].ask = turn[t].ask /\ turn'[t].resp = r /\ turn'[t].cancel = turn[t].cancel
    BY <2>2, <2>5 DEF Turn
  <2>7. chan' \in Seq(Event) /\ UserInv' /\ ContentInv' /\ TextBeforeTerminal'
    BY <1>1, <1>2, <2>5, <2>6, QueueShrinks
  <2>8. TypeOK' /\ OneActiveTurn'
    BY <1>2, <2>1, <2>5, <2>6, <2>7 DEF LoopInv, TypeOK, OneActiveTurn, Runs, Live
  <2>9. ProgressInv' /\ EndedInv' /\ OneTerminalEvent'
    <3>1. ProgressInv'
      <4>1. /\ turn[t].n <= 2 * turn[t].step
            /\ turn[t].ask = "decide" => turn[t].n < 2 * turn[t].step
        BY <2>2 DEF LoopInv, ProgressInv, Live
      <4>2. /\ turn'[t].pc \in {"req", "wait"} /\ turn'[t].n <= 2 * turn'[t].step
            /\ turn'[t].ask = "decide" => turn'[t].n < 2 * turn'[t].step
        BY <2>2, <2>6, <4>1
      <4> QED  BY <2>5, <4>2 DEF LoopInv, ProgressInv, Live
    <3> QED
      BY <1>2, <2>2, <2>5, <2>6, <3>1 DEF LoopInv, EndedInv, OneTerminalEvent, TurnEndsOnce
  <2>10. UnansweredInv' /\ OwnAnswer'
    <3>1. \A q \in pending' : q \in pending /\ q[1] \in Turns \ {t}
      <4>1. \A q \in pending : q[1] \in Turns /\ q = <<q[1], q[2]>> /\ turn[q[1]].n = q[2]
        BY DEF LoopInv, TypeOK, Request, OwnAnswer, TrackedIsAwaited
      <4> QED  BY <2>1, <2>2, <4>1
    <3>2. UnansweredInv'
      BY <2>5, <3>1 DEF LoopInv, UnansweredInv
    <3>3. TrackedIsAwaited'
      <4>1. \A q \in pending' : turn'[q[1]].pc \in {"req", "wait"} /\ turn'[q[1]].n = q[2]
        BY <2>5, <3>1 DEF LoopInv, OwnAnswer, TrackedIsAwaited
      <4>2. \A x \in Turns \ {t} : (turn'[x].pc \in {"req", "wait"} /\ turn'[x].resp = None)
              => <<x, turn'[x].n>> \in pending'
        BY <2>1, <2>5 DEF LoopInv, OwnAnswer, TrackedIsAwaited
      <4> QED  BY <2>3, <2>6, <4>1, <4>2 DEF TrackedIsAwaited
    <3>4. AnswersItsRequest'
      BY <2>2, <2>3, <2>5, <2>6 DEF LoopInv, OwnAnswer, AnswersItsRequest
    <3> QED  BY <3>2, <3>3, <3>4 DEF OwnAnswer
  <2> QED  BY <2>7, <2>8, <2>9, <2>10 DEF LoopInv, TurnEndsOnce
<1>4. CASE ~(started /\ <<t, e.n>> \in pending)
  <2>1. UNCHANGED <<pending, turn>>  BY <1>4 DEF OnResponse
  <2>2. chan' \in Seq(Event) /\ UserInv' /\ ContentInv' /\ TextBeforeTerminal'
    BY <1>1, <1>2, <2>1, QueueShrinks
  <2>3. ProgressInv' /\ UnansweredInv' /\ OwnAnswer' /\ EndedInv' /\ OneTerminalEvent'
    BY <1>2, <2>1, SameTurns
  <2>4. TypeOK' /\ OneActiveTurn'
    BY <1>2, <2>1, <2>2 DEF LoopInv, TypeOK, OneActiveTurn, Runs, Live
  <2> QED  BY <2>2, <2>3, <2>4 DEF LoopInv, TurnEndsOnce
<1> QED  BY <1>3, <1>4

(* A delta is forwarded only while its request is awaited, so no terminal  *)
(* event of its turn is out.                                               *)
LEMMA DeltaKeeps ==
  ASSUME LoopInv, OnDelta
  PROVE  LoopInv'
<1> DEFINE e == Head(chan)
           x == Ev("text", e.t, e.n, None)
<1>1. /\ chan # <<>> /\ e \in Event /\ e.k = "delta"
      /\ UNCHANGED <<turn, current, pending, started, busy, users, extra, ended>>
  BY Delivered DEF OnDelta, sessionVars
<1>2. ProgressInv' /\ UnansweredInv' /\ OwnAnswer' /\ EndedInv' /\ OneTerminalEvent'
  BY <1>1, SameTurns
<1>3. chan' \in Seq(Event) /\ UserInv' /\ ContentInv' /\ TextBeforeTerminal'
  <2>1. CASE chan' = Tail(chan)
    BY <1>1, <2>1, QueueShrinks
  <2>2. CASE <<e.t, e.n>> \in pending /\ chan' = Append(Tail(chan), x)
    <3> DEFINE s == Tail(chan)
    <3>1. /\ s \in Seq(Event)
          /\ \A i \in DOMAIN s : i + 1 \in DOMAIN chan /\ s[i] = chan[i + 1] /\ i \in Nat
      BY <1>1, Taken DEF LoopInv, TypeOK
    <3>2. x \in Event /\ x.k = "text" /\ x.t = e.t
      BY <1>1 DEF Event, Ev
    <3>3. /\ chan' \in Seq(Event)
          /\ DOMAIN chan' = 1..(Len(s) + 1) /\ DOMAIN s = 1..Len(s) /\ Len(s) \in Nat
          /\ \A i \in DOMAIN s : chan'[i] = s[i]
          /\ chan'[Len(s) + 1] = x
      <4> HIDE DEF s, x
      <4> QED  BY <2>2, <3>1, <3>2, Appended DEF s, x
    <3>4. e.t \in Turns /\ ended[e.t] = 0
      <4>1. e.t \in Turns  BY <2>2 DEF LoopInv, TypeOK, Request
      <4>2. turn[e.t].pc \in {"req", "wait"}
        BY <2>2 DEF LoopInv, OwnAnswer, TrackedIsAwaited
      <4> QED  BY <4>1, <4>2 DEF LoopInv, EndedInv
    <3>5. \A i \in DOMAIN chan' : \/ /\ i \in DOMAIN s /\ i + 1 \in DOMAIN chan
                                     /\ chan'[i] = chan[i + 1] /\ i \in Nat
                                  \/ i = Len(s) + 1 /\ chan'[i] = x
      BY <3>1, <3>3
    <3>6. UserInv'
      <4> HIDE DEF s, x, e
      <4>1. \A i \in DOMAIN chan' : chan'[i].k = "user" =>
              i + 1 \in DOMAIN chan /\ chan'[i] = chan[i + 1] /\ i \in Nat
        BY <3>2, <3>5
      <4> QED  BY <1>1, <4>1 DEF LoopInv, UserInv
    <3>7. ContentInv'
      <4> HIDE DEF s, x, e
      <4>1. \A i \in DOMAIN chan' : chan'[i].k # "text" =>
              i + 1 \in DOMAIN chan /\ chan'[i] = chan[i + 1]
        BY <3>2, <3>5
      <4> QED  BY <1>1, <4>1 DEF LoopInv, ContentInv
    <3>8. TextBeforeTerminal'
      <4> HIDE DEF s, x, e
      <4>1. SUFFICES ASSUME NEW i \in DOMAIN chan', NEW j \in DOMAIN chan',
                            chan'[i].k \in {"done", "error"}, chan'[j].k = "text",
                            chan'[i].t = chan'[j].t
                     PROVE  j < i
        BY DEF TextBeforeTerminal
      <4>2. i \in DOMAIN s /\ i + 1 \in DOMAIN chan /\ chan'[i] = chan[i + 1] /\ i \in Nat
        BY <3>2, <3>5, <4>1
      <4>3. ended[chan'[i].t] = 1
        BY <4>1, <4>2 DEF LoopInv, ContentInv
      <4>4. chan'[j] # x
        BY <3>2, <3>4, <4>1, <4>3
      <4>5. j + 1 \in DOMAIN chan /\ chan'[j] = chan[j + 1] /\ j \in Nat
        BY <3>5, <4>4
      <4> QED  BY <4>1, <4>2, <4>5 DEF LoopInv, TurnEndsOnce, TextBeforeTerminal
    <3> QED  BY <3>3, <3>6, <3>7, <3>8
  <2> QED  BY <2>1, <2>2 DEF OnDelta
<1>4. TypeOK' /\ OneActiveTurn'
  BY <1>1, <1>3 DEF LoopInv, TypeOK, OneActiveTurn, Runs, Live
<1> QED  BY <1>2, <1>3, <1>4 DEF LoopInv, TurnEndsOnce

(* What the plugins and the adapter add to the queue.                      *)
LEMMA OutsideKeeps ==
  ASSUME LoopInv,
         \/ HandlerEnds \/ LlmStreams \/ SendInterrupt \/ StopReturns \/ UNCHANGED vars
         \/ \E t \in Turns, k \in {"resp", "delta"} : LateEvent(t, k)
  PROVE  LoopInv'
<1>0. chan \in Seq(Event) /\ busy \in Event \cup {None} /\ turn \in [Turns -> Turn]
      /\ extra \in 0..MaxExtra /\ MaxExtra \in Nat
  BY BoundAssumption DEF LoopInv, TypeOK
<1>1. ASSUME UNCHANGED <<turn, current, pending, started, users, ended>>,
             extra' \in 0..MaxExtra, busy' \in Event \cup {None},
             \/ chan' = chan
             \/ \E e \in Event : /\ e.k \in {"interrupt", "resp", "delta", "toolerror"}
                                 /\ e.k = "resp" => e.a \in UNION {Answers(x) : x \in Asks}
                                 /\ chan' = Append(chan, e)
      PROVE  LoopInv'
  <2>1. chan' \in Seq(Event) /\ UserInv' /\ ContentInv' /\ TextBeforeTerminal'
    <3>1. CASE chan' = chan
      BY <1>1, <3>1 DEF LoopInv, TypeOK, UserInv, ContentInv, TextBeforeTerminal, TurnEndsOnce
    <3>2. CASE chan' # chan
      <4>1. PICK e \in Event : /\ e.k \in {"interrupt", "resp", "delta", "toolerror"}
                               /\ e.k = "resp" => e.a \in UNION {Answers(x) : x \in Asks}
                               /\ chan' = Append(chan, e)
        BY <1>1, <3>2
      <4> QED  BY <1>1, <4>1, QueueFed
    <3> QED  BY <3>1, <3>2
  <2>2. ProgressInv' /\ UnansweredInv' /\ OwnAnswer' /\ EndedInv' /\ OneTerminalEvent'
    BY <1>1, SameTurns
  <2>3. TypeOK' /\ OneActiveTurn'
    BY <1>1, <2>1 DEF LoopInv, TypeOK, OneActiveTurn, Runs, Live
  <2> QED  BY <2>1, <2>2, <2>3 DEF LoopInv, TurnEndsOnce
<1>2. \A x : x \in Asks => Answers(x) \subseteq UNION {Answers(y) : y \in Asks}
  OBVIOUS
<1>3. \A x : Answers(x) \subseteq UNION {Answers(y) : y \in Asks}
  <2>1. \A x : Answers(x) \in {Answers("decide"), Answers("llm"), Answers("tool")}
    BY DEF Answers
  <2>2. {"decide", "llm", "tool"} \subseteq Asks  BY DEF Asks
  <2> QED  BY <1>2, <2>1, <2>2
<1>4. CASE \E a \in UNION {Answers(x) : x \in Asks} : HandlerAnswers(a)
  <2>1. PICK a \in UNION {Answers(x) : x \in Asks} : HandlerAnswers(a)  BY <1>4
  <2> DEFINE e == Ev("resp", busy.t, busy.n, a)
  <2>2. busy \in Event  BY <1>0, <2>1 DEF HandlerAnswers
  <2>3. e \in Event /\ e.k = "resp" /\ e.a = a
    BY <2>2 DEF Ev, Event
  <2> QED  BY <1>0, <1>1, <2>1, <2>3 DEF HandlerAnswers
<1>5. CASE HandlerSilent
  BY <1>0, <1>1, <1>5 DEF HandlerSilent
<1>6. CASE ToolRefuses
  <2> DEFINE e == Ev("toolerror", busy.t, busy.n, None)
  <2>1. busy \in Event  BY <1>0, <1>6 DEF ToolRefuses
  <2>2. e \in Event /\ e.k = "toolerror"
    BY <2>1 DEF Ev, Event
  <2> QED  BY <1>0, <1>1, <1>6, <2>2 DEF ToolRefuses
<1>7. CASE LlmStreams
  <2> DEFINE e == Ev("delta", busy.t, busy.n, None)
  <2>1. busy \in Event  BY <1>0, <1>7 DEF LlmStreams
  <2>2. e \in Event /\ e.k = "delta"
    BY <2>1 DEF Ev, Event
  <2> QED  BY <1>0, <1>1, <1>7, <2>2 DEF LlmStreams
<1>8. CASE SendInterrupt
  <2> DEFINE e == Ev("interrupt", 0, 0, None)
  <2>1. e \in Event /\ e.k = "interrupt"
    BY BoundAssumption DEF Ev, Event, MaxRequests
  <2> QED  BY <1>0, <1>1, <1>8, <2>1 DEF SendInterrupt
<1>9. CASE StopReturns
  <2>1. pending' = {} /\ UNCHANGED <<turn, current, started, chan, busy, users, extra, ended>>
        /\ \A t \in Turns : ~Live(t)
    BY <1>9 DEF StopReturns, sessionVars
  <2>2. pending = {}
    <3> SUFFICES ASSUME NEW r \in pending  PROVE FALSE  OBVIOUS
    <3>1. r[1] \in Turns /\ turn[r[1]].pc \in {"req", "wait"}
      BY DEF LoopInv, TypeOK, Request, OwnAnswer, TrackedIsAwaited
    <3> QED  BY <2>1, <3>1 DEF Live
  <2> QED  BY <1>0, <1>1, <2>1, <2>2
<1>10. CASE UNCHANGED vars
  BY <1>0, <1>1, <1>10 DEF vars
<1>11. CASE \E t \in Turns, k \in {"resp", "delta"} : LateEvent(t, k)
  <2>1. PICK t \in Turns, k \in {"resp", "delta"} : LateEvent(t, k)  BY <1>11
  <2>2. PICK n \in 1..turn[t].n :
          \E a \in IF k = "resp" THEN LateAnswers(t, n) ELSE {None} :
            chan' = Append(chan, Ev(k, t, n, a))
    BY <2>1 DEF LateEvent
  <2>3. PICK a \in IF k = "resp" THEN LateAnswers(t, n) ELSE {None} :
          chan' = Append(chan, Ev(k, t, n, a))
    BY <2>2
  <2>4. k = "resp" => a \in UNION {Answers(x) : x \in Asks}
    <3>1. "ok" \in Answers("tool") /\ "tool" \in Asks  BY DEF Answers, Asks
    <3>2. CASE <<t, n>> \in pending
      BY <2>3, <3>2, <1>3 DEF LateAnswers
    <3>3. CASE <<t, n>> \notin pending
      BY <2>3, <3>1, <3>3 DEF LateAnswers
    <3> QED  BY <3>2, <3>3
  <2>5. k = "delta" => a = None  BY <2>3
  <2>6. n \in 0..MaxRequests
    BY <1>0, <2>2, BoundAssumption DEF Turn, MaxRequests
  <2> DEFINE e == Ev(k, t, n, a)
  <2>7. e \in Event /\ e.k = k /\ e.a = a
    BY <2>4, <2>5, <2>6 DEF Ev, Event, Turns
  <2> QED  BY <1>0, <1>1, <2>1, <2>3, <2>4, <2>7 DEF LateEvent
<1> QED  BY <1>4, <1>5, <1>6, <1>7, <1>8, <1>9, <1>10, <1>11 DEF HandlerEnds

(* A new user message is for a turn that nobody has started.               *)
LEMMA SendKeeps ==
  ASSUME LoopInv, SendMessage
  PROVE  LoopInv'
<1> DEFINE e == Ev("user", users + 1, 0, None)
<1>1. /\ UNCHANGED <<turn, current, pending, started, busy, extra, ended>>
      /\ users' = users + 1 /\ chan' = Append(chan, e)
      /\ users \in Nat /\ users + 1 \in Turns
  BY BoundAssumption DEF SendMessage, LoopInv, TypeOK, Turns
<1>2. e \in Event /\ e.k = "user" /\ e.t = users + 1
  BY <1>1, BoundAssumption DEF Ev, Event, MaxRequests, Turns
<1>3. /\ chan' \in Seq(Event)
      /\ DOMAIN chan' = 1..(Len(chan) + 1) /\ DOMAIN chan = 1..Len(chan) /\ Len(chan) \in Nat
      /\ \A i \in DOMAIN chan : chan'[i] = chan[i]
      /\ chan'[Len(chan) + 1] = e
  <2> HIDE DEF e
  <2>1. chan \in Seq(Event)  BY DEF LoopInv, TypeOK
  <2> QED  BY <1>1, <1>2, <2>1, Appended
<1>4. UserInv'
  <2> HIDE DEF e
  <2>1. turn[users + 1].pc = "off"
    BY <1>1 DEF LoopInv, UserInv
  <2>2. \A x \in Turns : x > users' => turn'[x].pc = "off"
    BY <1>1 DEF LoopInv, UserInv, Turns
  <2>3. \A i \in DOMAIN chan' : \/ i \in DOMAIN chan /\ chan'[i] = chan[i]
                                \/ i = Len(chan) + 1 /\ chan'[i] = e
    BY <1>3
  <2>4. \A i \in DOMAIN chan : chan[i].k = "user" => chan[i].t \in 1..users
                                 /\ turn[chan[i].t].pc = "off"
    BY DEF LoopInv, UserInv
  <2>5. \A i \in DOMAIN chan' : chan'[i].k = "user" => chan'[i].t \in 1..users'
                                 /\ turn'[chan'[i].t].pc = "off"
    BY <1>1, <1>2, <2>1, <2>3, <2>4
  <2>6. \A i, j \in DOMAIN chan' :
          (chan'[i].k = "user" /\ chan'[j].k = "user" /\ chan'[i].t = chan'[j].t) => i = j
    BY <1>1, <1>2, <2>3, <2>4 DEF LoopInv, UserInv
  <2> QED  BY <2>2, <2>5, <2>6 DEF UserInv
<1>5. ContentInv' /\ TextBeforeTerminal'
  <2> HIDE DEF e
  <2> QED  BY <1>1, <1>2, <1>3 DEF LoopInv, ContentInv, TextBeforeTerminal, TurnEndsOnce
<1>6. ProgressInv' /\ UnansweredInv' /\ OwnAnswer' /\ EndedInv' /\ OneTerminalEvent'
  BY <1>1, SameTurns
<1>7. TypeOK' /\ OneActiveTurn'
  BY <1>1, <1>3, BoundAssumption DEF LoopInv, TypeOK, OneActiveTurn, Runs, Live, Turns
<1> QED  BY <1>4, <1>5, <1>6, <1>7 DEF LoopInv, TurnEndsOnce

-----------------------------------------------------------------------------
(* The loop starts with no turn, nothing tracked and nothing queued.       *)
LEMMA LoopInit == Init => LoopInv
<1> SUFFICES ASSUME Init PROVE LoopInv  OBVIOUS
<1>1. NewTurn \in Turn /\ NewTurn.pc = "off" /\ NewTurn.cancel = FALSE
  BY BoundAssumption DEF NewTurn, Turn, PCs, Asks, MaxRequests
<1>2. TypeOK
  BY <1>1, BoundAssumption DEF Init, TypeOK
<1>3. \A t \in Turns : turn[t] = NewTurn /\ turn[t].pc = "off" /\ ended[t] = 0
  BY <1>1 DEF Init
<1>4. DOMAIN chan = {} /\ pending = {}
  BY DEF Init
<1>5. ProgressInv /\ UnansweredInv /\ EndedInv /\ UserInv /\ ContentInv /\ OneActiveTurn
  BY <1>3, <1>4 DEF ProgressInv, UnansweredInv, EndedInv, UserInv, ContentInv, OneActiveTurn,
     Runs, Live
<1>6. OwnAnswer /\ TurnEndsOnce
  BY <1>3, <1>4 DEF OwnAnswer, TrackedIsAwaited, AnswersItsRequest, TurnEndsOnce,
     OneTerminalEvent, TextBeforeTerminal
<1> QED  BY <1>2, <1>5, <1>6 DEF LoopInv

(* LoopInv holds in every reachable state.                                 *)
LEMMA LoopInvariance == Spec => []LoopInv
<1>1. LoopInv /\ [Next]_vars => LoopInv'
  BY TurnKeeps, UserMessageKeeps, IgnoredKeeps, ResponseKeeps, DeltaKeeps, OutsideKeeps,
     SendKeeps, StopKeeps DEF Next, DeliverNext
<1> QED  BY LoopInit, <1>1, PTL DEF Spec

(* The loop's tables keep their types (loop.py:315-457).                   *)
THEOREM LoopTypes == Spec => []TypeOK
<1>1. LoopInv => TypeOK  BY DEF LoopInv
<1> QED  BY LoopInvariance, <1>1, PTL

(* Two turns never act on the session together: of the live turns only     *)
(* the registered one is not cancelled (loop.py:501-534).                  *)
THEOREM SessionHasOneTurn == Spec => []OneActiveTurn
<1>1. LoopInv => OneActiveTurn  BY DEF LoopInv
<1> QED  BY LoopInvariance, <1>1, PTL

(* The tracker holds exactly the requests that are awaited, and a turn     *)
(* goes on with the answer to the request it awaits, whatever answers late *)
(* (loop.py:337-392, 870-891).                                             *)
THEOREM AnswersMeetTheirRequests == Spec => []OwnAnswer
<1>1. LoopInv => OwnAnswer  BY DEF LoopInv
<1> QED  BY LoopInvariance, <1>1, PTL

(* A turn ends with one assistant.message.done or kernel.error, at most    *)
(* one when it was cancelled, and no streamed text is queued behind it     *)
(* (loop.py:628-655, 540-575, 352-383).                                    *)
THEOREM TurnsEndOnce == Spec => []TurnEndsOnce
<1>1. LoopInv => TurnEndsOnce  BY DEF LoopInv
<1> QED  BY LoopInvariance, <1>1, PTL

-----------------------------------------------------------------------------
(* What a future says was accepted, no key is left behind an answer, and   *)
(* the allowlist holds what the user allowed for a session.                *)
FutureInv ==
  \A c \in Calls : /\ fut[c] \in Gate!Responses => accepted[c] = fut[c]
                   /\ fut[c] \in {"none", "open"} => accepted[c] = "none"
                   /\ pc[c] = "queued" => fut[c] = "none" /\ c \notin gated \cup ran
                   /\ c \in parked => accepted[c] = "none" /\ fut[c] # "none"

AllowInv ==
  \A x \in allow : \E d \in Calls : accepted[d] = "approve_for_session" /\ Gate!KeyIn(d) = x

GateInv == Gate!TypeOK /\ FutureInv /\ AllowInv /\ Gate!RunsOnlyApproved

(* A prompt's timer runs past neither timeout, and what each state of a    *)
(* call says of its future.                                                *)
TimerInv ==
  \A c \in Calls : /\ pc[c] = "asked" => age[c] <= timeout_s /\ age[c] <= HandlerTimeout
                   /\ pc[c] = "queued" => age[c] = 0
                   /\ pc[c] = "asked" => fut[c] # "none"
                   /\ pc[c] = "running" => c \in ran
                   /\ fut[c] = "open" => pc[c] = "asked"

(* stop() still has every waiting call before it, and every key it did not *)
(* withdraw yet.                                                           *)
StopInv ==
  /\ \A c \in Calls : Gate!Waiting(c) => c \in parked
  /\ phase = "on" => todo = {} /\ emitting = NoCall
                     /\ \A c \in parked : Gate!Waiting(c) \/ Gate!Cut(c)
  /\ phase = "stopping" => /\ \A c \in Calls : Gate!Waiting(c) => c \in todo
                           /\ \A c \in parked : c \in todo \/ withdrawn[c] # {}
  /\ phase = "stopped" => parked = {} /\ todo = {} /\ emitting = NoCall

SettledInv ==
  /\ \A c \in Calls : fut[c] \notin {"none", "open"}
                        => \/ accepted[c] # "none" \/ withdrawn[c] # {}
                           \/ Gate!Cut(c) /\ c \in parked
  /\ \A c \in Calls : emitting = c => withdrawn[c] # {}

PromptInv == GateInv /\ TimerInv /\ StopInv /\ SettledInv /\ Gate!RefusalReported

-----------------------------------------------------------------------------
(* What is assumed of the gate's constants.                                *)
LEMMA GateConstants ==
  /\ NoCall \notin Calls
  /\ ApprovalTimeouts \subseteq Nat \ {0} /\ HandlerTimeout \in Nat \ {0}
BY GateParameters DEF Gate!Parameters

(* A step of the run is one of the gate.                                   *)
LEMMA GateAlone == GateSpec => Gate!Spec
<1>1. [GateNext]_<<vars, side, gateVars, streamVars>> => [Gate!Next]_(Gate!vars)
  BY DEF GateNext, gateVars, Gate!vars
<1> QED  BY <1>1, PTL DEF GateSpec, TurnsInit, Gate!Spec

(* Nothing is prompted, parked or allowed in the initial state.            *)
LEMMA GateInit == Gate!Init => GateInv
  BY DEF Gate!Init, GateInv, Gate!TypeOK, FutureInv, AllowInv, Gate!RunsOnlyApproved, Gate!KeyIn

(* Every step of a dispatch keeps the gate: what runs was approved.        *)
LEMMA GateCallStep ==
  ASSUME GateInv, UNCHANGED timeout_s, NEW c \in Calls, Gate!CallStep(c) \/ Gate!ToolReturns(c)
  PROVE  GateInv'
<1> USE DEF GateInv, FutureInv, AllowInv, Gate!RunsOnlyApproved, Gate!TypeOK, Gate!Approved,
  Gate!KeyIn,
            Gate!EndWith, Gate!Run, Gate!runtimeVars, Gate!stopVars, Gate!historyVars,
              Gate!Responses
<1>1. CASE Gate!DispatchIgnored(c) \/ Gate!DispatchRefused(c) \/ Gate!DispatchUngated(c)
  <2>1. c \notin gated /\ gated' = gated
    BY <1>1 DEF Gate!DispatchIgnored, Gate!DispatchRefused, Gate!DispatchUngated, Gate!Dispatched
  <2> QED
    BY <1>1, <2>1 DEF Gate!DispatchIgnored, Gate!DispatchRefused, Gate!DispatchUngated,
      Gate!Dispatched
<1>2. CASE Gate!DispatchGated(c)
  <2>1. CASE phase # "on"
    BY <1>2, <2>1 DEF Gate!DispatchGated, Gate!Dispatched
  <2>2. CASE phase = "on" /\ Gate!KeyIn(c) \in allow
    <3>1. ran' = ran \cup {c} /\ gated' = gated \cup {c}
          /\ UNCHANGED <<allow, accepted, unguarded, fut>>
      BY <1>2, <2>2 DEF Gate!DispatchGated, Gate!Dispatched
    <3>2. Gate!Approved(c)'  BY <2>2, <3>1
    <3>3. Gate!TypeOK' /\ FutureInv' /\ AllowInv'
      BY <1>2, <2>2 DEF Gate!DispatchGated, Gate!Dispatched
    <3>4. Gate!RunsOnlyApproved'
      <4>1. \A d \in ran \cap gated : (d \in unguarded \/ Gate!Approved(d))'
        BY <3>1
      <4> QED  BY <4>1, <3>1, <3>2
    <3> QED  BY <3>3, <3>4
  <2>3. CASE phase = "on" /\ Gate!KeyIn(c) \notin allow
    BY <1>2, <2>3 DEF Gate!DispatchGated, Gate!Dispatched
  <2> QED  BY <2>1, <2>2, <2>3
<1>3. CASE Gate!RequestResumes(c)
  BY <1>3 DEF Gate!RequestResumes
<1>4. CASE Gate!RequestTimesOut(c)
  BY <1>4 DEF Gate!RequestTimesOut
<1>5. CASE Gate!HandlerTimesOut(c)
  BY <1>5 DEF Gate!HandlerTimesOut
<1>6. CASE Gate!ToolReturns(c)
  BY <1>6 DEF Gate!ToolReturns
<1> QED  BY <1>1, <1>2, <1>3, <1>4, <1>5, <1>6 DEF Gate!CallStep

(* So does every step of the runtime, and the clock.                       *)
LEMMA GateRuntimeStep ==
  ASSUME GateInv, UNCHANGED timeout_s,
         \/ \E c \in Calls, r \in Gate!Responses : Gate!OnApprovalResponse(c, r)
         \/ Gate!Uninstall \/ Gate!StopStep \/ Gate!Tick \/ UNCHANGED Gate!vars
  PROVE  GateInv'
<1> USE DEF GateInv, FutureInv, AllowInv, Gate!RunsOnlyApproved, Gate!TypeOK, Gate!Approved,
  Gate!KeyIn,
            Gate!runtimeVars, Gate!stopVars, Gate!historyVars, Gate!Responses
<1>1. CASE \E c \in Calls, r \in Gate!Responses : Gate!OnApprovalResponse(c, r)
  <2>1. PICK c \in Calls, r \in Gate!Responses : Gate!OnApprovalResponse(c, r)  BY <1>1
  <2> QED  BY <2>1 DEF Gate!OnApprovalResponse
<1>2. CASE Gate!Uninstall
  BY <1>2 DEF Gate!Uninstall
<1>3. CASE \E c \in Calls : Gate!StopEmitsCancelled(c)
  BY <1>3 DEF Gate!StopEmitsCancelled
<1>4. CASE Gate!StopFailsFuture
  BY <1>4 DEF Gate!StopFailsFuture
<1>5. CASE Gate!StopReturns
  BY <1>5 DEF Gate!StopReturns
<1>6. CASE Gate!Tick
  BY <1>6 DEF Gate!Tick
<1>7. CASE UNCHANGED Gate!vars
  BY <1>7 DEF Gate!vars
<1> QED  BY <1>1, <1>2, <1>3, <1>4, <1>5, <1>6, <1>7 DEF Gate!StopStep

(* GateInv holds in every reachable state.                                 *)
LEMMA GateInvariance == Gate!Spec => []GateInv
<1>1. GateInv /\ [Gate!Next]_(Gate!vars) => GateInv'
  BY GateCallStep, GateRuntimeStep DEF Gate!Next, Gate!vars
<1> QED  BY GateInit, <1>1, PTL DEF Gate!Spec

(* Whatever the timeouts: while a runtime is registered, a gated tool runs *)
(* only for a call its user accepted, or one with the same key that was    *)
(* accepted for the same session (tool.py:563, approval.py:351-408).       *)
THEOREM GatedRunsAreApproved == GateSpec => []RunsOnlyApproved
<1>1. GateInv => RunsOnlyApproved  BY DEF GateInv, RunsOnlyApproved
<1> QED  BY GateInvariance, <1>1, GateAlone, PTL
-----------------------------------------------------------------------------
(* What becomes of a prompt, whichever timeout fires first.                *)

(* Nothing is prompted in the initial state.                               *)
LEMMA PromptInit == Gate!Init => PromptInv
<1>1. Gate!Init => TimerInv /\ StopInv /\ SettledInv /\ Gate!RefusalReported
  BY GateConstants DEF Gate!Init, TimerInv, StopInv, SettledInv, Gate!RefusalReported, Gate!Waiting
<1> QED  BY GateInit, <1>1 DEF PromptInv

(* A call the bus cut stays cut.                                           *)
LEMMA CutStays ==
  ASSUME GateInv, [Gate!Next]_(Gate!vars), NEW c \in Calls, Gate!Cut(c)
  PROVE  Gate!Cut(c)'
<1> USE DEF GateInv, Gate!TypeOK, Gate!Cut, Gate!runtimeVars, Gate!stopVars, Gate!EndWith, Gate!Run
<1>1. CASE \E d \in Calls : Gate!CallStep(d) \/ Gate!ToolReturns(d)
  <2>1. PICK d \in Calls : Gate!CallStep(d) \/ Gate!ToolReturns(d)  BY <1>1
  <2>2. d # c /\ timeout_s' = timeout_s
    BY <2>1 DEF Gate!Next, Gate!vars, Gate!CallStep, Gate!ToolReturns, Gate!DispatchIgnored,
      Gate!DispatchRefused, Gate!DispatchUngated, Gate!DispatchGated, Gate!Dispatched,
      Gate!RequestResumes, Gate!RequestTimesOut, Gate!HandlerTimesOut, Gate!Active
  <2>3. pc'[c] = pc[c] /\ out'[c] = out[c] /\ fut'[c] = fut[c] /\ age' = age
    BY <2>1, <2>2 DEF Gate!CallStep, Gate!ToolReturns, Gate!DispatchIgnored,
      Gate!DispatchRefused, Gate!DispatchUngated, Gate!DispatchGated, Gate!RequestResumes,
      Gate!RequestTimesOut, Gate!HandlerTimesOut
  <2> QED  BY <2>2, <2>3
<1>2. CASE \E d \in Calls, r \in Gate!Responses : Gate!OnApprovalResponse(d, r)
  BY <1>2 DEF Gate!OnApprovalResponse, Gate!Next, Gate!vars
<1>3. CASE Gate!Uninstall \/ Gate!StopStep
  BY <1>3 DEF Gate!Uninstall, Gate!StopStep, Gate!StopEmitsCancelled, Gate!StopFailsFuture,
    Gate!StopReturns, Gate!Next, Gate!vars
<1>4. CASE Gate!Tick
  BY <1>4 DEF Gate!Tick, Gate!Active, Gate!Next, Gate!vars
<1>5. CASE UNCHANGED Gate!vars
  BY <1>5 DEF Gate!vars
<1> QED  BY <1>1, <1>2, <1>3, <1>4, <1>5 DEF Gate!Next

(* The steps of a dispatch.                                                *)
LEMMA PromptCallStep ==
  ASSUME PromptInv, GateInv', UNCHANGED timeout_s, [Gate!Next]_(Gate!vars),
         NEW c \in Calls, Gate!CallStep(c) \/ Gate!ToolReturns(c)
  PROVE  PromptInv'
<1> USE DEF PromptInv, Gate!EndWith, Gate!Run, Gate!runtimeVars, Gate!stopVars, Gate!historyVars,
  Gate!Responses
<1>0. \A d \in Calls : Gate!Cut(d) => Gate!Cut(d)'  BY CutStays
<1>1. CASE Gate!DispatchIgnored(c) \/ Gate!DispatchRefused(c) \/ Gate!DispatchUngated(c)
  <2> USE <1>1 DEF Gate!DispatchIgnored, Gate!DispatchRefused, Gate!DispatchUngated,
    Gate!Dispatched, GateInv,
                   Gate!TypeOK, FutureInv
  <2>1. TimerInv'  BY DEF TimerInv
  <2>2. StopInv'  BY <1>0 DEF StopInv, Gate!Waiting
  <2>3. SettledInv'  BY <1>0 DEF SettledInv
  <2>4. Gate!RefusalReported'  BY <1>0 DEF Gate!RefusalReported
  <2> QED  BY <2>1, <2>2, <2>3, <2>4
<1>2. CASE Gate!DispatchGated(c)
  <2> USE <1>2, GateConstants DEF Gate!DispatchGated, Gate!Dispatched, GateInv, Gate!TypeOK,
    FutureInv
  <2>1. TimerInv'  BY DEF TimerInv
  <2>2. StopInv'  BY <1>0 DEF StopInv, Gate!Waiting
  <2>3. SettledInv'  BY <1>0 DEF SettledInv
  <2>4. Gate!RefusalReported'  BY <1>0 DEF Gate!RefusalReported
  <2> QED  BY <2>1, <2>2, <2>3, <2>4
<1>3. CASE Gate!RequestResumes(c)
  <2> USE <1>3 DEF Gate!RequestResumes, GateInv, Gate!TypeOK, FutureInv
  <2>1. TimerInv'  BY DEF TimerInv
  <2>2. StopInv'  BY <1>0 DEF StopInv, Gate!Waiting
  <2>3. SettledInv'  BY <1>0 DEF SettledInv
  <2>4. Gate!RefusalReported'  BY <1>0 DEF Gate!RefusalReported
  <2> QED  BY <2>1, <2>2, <2>3, <2>4
<1>4. CASE Gate!RequestTimesOut(c)
  <2> USE <1>4 DEF Gate!RequestTimesOut, GateInv, Gate!TypeOK, FutureInv
  <2>1. TimerInv'  BY DEF TimerInv
  <2>2. StopInv'  BY <1>0 DEF StopInv, Gate!Waiting
  <2>3. SettledInv'  BY <1>0 DEF SettledInv
  <2>4. Gate!RefusalReported'  BY <1>0 DEF Gate!RefusalReported
  <2> QED  BY <2>1, <2>2, <2>3, <2>4
<1>5. CASE Gate!HandlerTimesOut(c)
  <2> USE <1>5 DEF Gate!HandlerTimesOut, Gate!Active, GateInv, Gate!TypeOK, FutureInv
  <2>1. pc[c] = "asked" => Gate!Cut(c)'
    <3> SUFFICES ASSUME pc[c] = "asked"  PROVE Gate!Cut(c)'
      OBVIOUS
    <3>1. age[c] \in Nat /\ timeout_s \in Nat /\ age[c] >= HandlerTimeout /\ age[c] <= timeout_s
      BY GateConstants DEF TimerInv
    <3>2. timeout_s >= HandlerTimeout  BY <3>1, GateConstants
    <3> QED  BY <3>1, <3>2 DEF Gate!Cut
  <2>2. pc[c] # "asked" => c \in ran /\ fut' = fut
    BY DEF TimerInv
  <2>3. \A d \in Calls : Gate!Cut(d) => Gate!Cut(d)'  BY <1>0
  <2>4. TimerInv'  BY <2>2 DEF TimerInv
  <2>5. StopInv'  BY <2>1, <2>2, <2>3 DEF StopInv, Gate!Waiting
  <2>6. SettledInv'
    <3>1. pc[c] = "asked" /\ fut[c] = "open" => c \in parked  BY DEF StopInv, Gate!Waiting
    <3>2. pc[c] = "asked" /\ fut[c] # "open" => accepted[c] # "none" \/ withdrawn[c] # {}
      BY DEF SettledInv, TimerInv, Gate!Cut
    <3> QED  BY <2>1, <2>2, <2>3, <3>1, <3>2 DEF SettledInv
  <2>7. Gate!RefusalReported'  BY <2>1, <2>2, <2>3 DEF Gate!RefusalReported
  <2> QED  BY <2>4, <2>5, <2>6, <2>7
<1>6. CASE Gate!ToolReturns(c)
  <2> USE <1>6 DEF Gate!ToolReturns, GateInv, Gate!TypeOK, FutureInv
  <2>1. TimerInv'  BY DEF TimerInv
  <2>2. StopInv'  BY <1>0 DEF StopInv, Gate!Waiting
  <2>3. SettledInv'  BY <1>0 DEF SettledInv
  <2>4. Gate!RefusalReported'  BY <1>0 DEF Gate!RefusalReported, TimerInv
  <2> QED  BY <2>1, <2>2, <2>3, <2>4
<1> QED  BY <1>1, <1>2, <1>3, <1>4, <1>5, <1>6 DEF Gate!CallStep

(* The steps of the runtime, and the clock.                                *)
LEMMA PromptRuntimeStep ==
  ASSUME PromptInv, GateInv', UNCHANGED timeout_s, [Gate!Next]_(Gate!vars),
         \/ \E c \in Calls, r \in Gate!Responses : Gate!OnApprovalResponse(c, r)
         \/ Gate!Uninstall \/ Gate!StopStep \/ Gate!Tick \/ UNCHANGED Gate!vars
  PROVE  PromptInv'
<1> USE DEF PromptInv, GateInv, Gate!TypeOK, FutureInv, Gate!runtimeVars, Gate!stopVars,
  Gate!historyVars
<1>0. \A d \in Calls : Gate!Cut(d) => Gate!Cut(d)'  BY CutStays
<1>1. CASE \E c \in Calls, r \in Gate!Responses : Gate!OnApprovalResponse(c, r)
  <2>1. PICK c \in Calls, r \in Gate!Responses : Gate!OnApprovalResponse(c, r)  BY <1>1
  <2> USE <2>1 DEF Gate!OnApprovalResponse, Gate!Responses
  <2>2. TimerInv'  BY DEF TimerInv
  <2>3. StopInv'  BY <1>0 DEF StopInv, Gate!Waiting
  <2>4. SettledInv'  BY <1>0 DEF SettledInv
  <2>5. Gate!RefusalReported'  BY <1>0 DEF Gate!RefusalReported
  <2> QED  BY <2>2, <2>3, <2>4, <2>5
<1>2. CASE Gate!Uninstall
  BY <1>0, <1>2 DEF Gate!Uninstall, TimerInv, StopInv, SettledInv, Gate!RefusalReported, Gate!Waiting
<1>3. CASE \E c \in Calls : Gate!StopEmitsCancelled(c)
  BY <1>0, <1>3 DEF Gate!StopEmitsCancelled, TimerInv, StopInv, SettledInv, Gate!RefusalReported,
    Gate!Waiting
<1>4. CASE Gate!StopFailsFuture
  BY <1>0, <1>4, GateConstants DEF Gate!StopFailsFuture, TimerInv, StopInv, SettledInv,
    Gate!RefusalReported, Gate!Waiting
<1>5. CASE Gate!StopReturns
  BY <1>0, <1>5 DEF Gate!StopReturns, TimerInv, StopInv, SettledInv, Gate!RefusalReported, Gate!Waiting
<1>6. CASE Gate!Tick
  <2>1. TimerInv'
    <3> SUFFICES ASSUME NEW c \in Calls
                 PROVE  /\ pc[c] = "asked" => age'[c] <= timeout_s /\ age'[c] <= HandlerTimeout
                        /\ pc[c] = "queued" => age'[c] = 0
      BY <1>6 DEF Gate!Tick, TimerInv
    <3>1. CASE pc[c] = "asked"
      <4>1. age'[c] = age[c] + 1 /\ ~(age[c] >= timeout_s) /\ ~(age[c] >= HandlerTimeout)
        BY <1>6, <3>1 DEF Gate!Tick, Gate!Active, Gate!Due
      <4>2. age[c] \in Nat /\ timeout_s \in Nat  BY GateConstants
      <4> QED  BY <3>1, <4>1, <4>2, GateConstants
    <3>2. CASE pc[c] = "queued"
      BY <1>6, <3>2 DEF Gate!Tick, Gate!Active, TimerInv
    <3> QED  BY <3>1, <3>2
  <2> QED  BY <1>0, <1>6, <2>1 DEF Gate!Tick, StopInv, SettledInv, Gate!RefusalReported, Gate!Waiting
<1>7. CASE UNCHANGED Gate!vars
  BY <1>0, <1>7 DEF Gate!vars, TimerInv, StopInv, SettledInv, Gate!RefusalReported, Gate!Waiting
<1> QED  BY <1>1, <1>2, <1>3, <1>4, <1>5, <1>6, <1>7 DEF Gate!StopStep

(* PromptInv always holds.                                                 *)
LEMMA PromptInvariance == Gate!Spec => []PromptInv
<1>1. PromptInv /\ [Gate!Next]_(Gate!vars) => PromptInv'
  <2> SUFFICES ASSUME PromptInv, [Gate!Next]_(Gate!vars) PROVE PromptInv'
    OBVIOUS
  <2>1. GateInv'
    BY GateCallStep, GateRuntimeStep DEF Gate!Next, Gate!vars, PromptInv
  <2> QED  BY <2>1, PromptCallStep, PromptRuntimeStep DEF Gate!Next, Gate!vars
<1> QED  BY PromptInit, <1>1, PTL DEF Gate!Spec

(* Outside stop() the runtime holds the keys of the calls that wait, and   *)
(* besides them only those of calls the bus cut, of which there is none    *)
(* where the runtime's timeout is the shorter one (approval.py:385-427).   *)
THEOREM NoKeyLeaks == GateSpec => []PendingIsAwaited
<1>1. PromptInv => PendingIsAwaited
  BY DEF PromptInv, StopInv, PendingIsAwaited, Gate!PendingIsAwaited, GateInv, Gate!TypeOK
<1> QED  BY PromptInvariance, <1>1, GateAlone, PTL

(* Whichever timeout is the shorter one, the prompt of a finished call was *)
(* answered or withdrawn, or is still where an answer or stop() finds it   *)
(* (approval.py:308-317, 387-390, 427).                                    *)
THEOREM PromptsAreSettled == GateSpec => []PromptSettled
<1>1. PromptInv => PromptSettled
  BY DEF PromptInv, SettledInv, TimerInv, PromptSettled, Gate!PromptSettled
<1> QED  BY PromptInvariance, <1>1, GateAlone, PTL

(* Every gated call that did not run ended with tool.error, but those the  *)
(* bus cut (tool.py:595-666, bus.py:282).                                  *)
THEOREM RefusalsAreReported == GateSpec => []RefusalReported
<1>1. PromptInv => RefusalReported  BY DEF PromptInv, RefusalReported
<1> QED  BY PromptInvariance, <1>1, GateAlone, PTL

(* When stop() has returned nobody waits for an answer and no key is left, *)
(* not even of a call the bus cut (approval.py:293-318).                   *)
THEOREM NobodyWaits == GateSpec => []NoneWaitsAfterStop
<1>1. PromptInv => NoneWaitsAfterStop
  BY DEF PromptInv, StopInv, NoneWaitsAfterStop, Gate!NoneWaitsAfterStop
<1> QED  BY PromptInvariance, <1>1, GateAlone, PTL

-----------------------------------------------------------------------------
(* The library counts the same.                                            *)
LEMMA StreamCardinality == \A S : Stream!Cardinality(S) = Cardinality(S)
  BY DEF Stream!Cardinality, Cardinality

Rank(at, i) == Cardinality({j \in at : j <= i})

(* Ranks number a finite set of positions from one on, in order.           *)
LEMMA RankIs ==
  ASSUME NEW N \in Nat, NEW at \in SUBSET (1..N)
  PROVE  /\ IsFiniteSet(at) /\ Cardinality(at) \in Nat
         /\ \A i \in at : Rank(at, i) \in 1..Cardinality(at)
         /\ \A i, k \in at : i < k => Rank(at, i) < Rank(at, k)
<1>1. IsFiniteSet(at) /\ Cardinality(at) \in Nat
  <2>1. IsFiniteSet(1..N)  BY FS_Interval
  <2> QED  BY <2>1, FS_Subset, FS_CardinalityType
<1>2. \A i \in at : /\ IsFiniteSet({j \in at : j <= i}) /\ Rank(at, i) \in Nat
                    /\ Rank(at, i) <= Cardinality(at)
  <2> TAKE i \in at
  <2>1. {j \in at : j <= i} \in SUBSET at  OBVIOUS
  <2> QED  BY <1>1, <2>1, FS_Subset, FS_CardinalityType DEF Rank
<1>3. \A i \in at : Rank(at, i) # 0
  BY <1>2, FS_EmptySet DEF Rank
<1>4. ASSUME NEW i \in at, NEW k \in at, i < k  PROVE Rank(at, i) < Rank(at, k)
  <2>0. at \in SUBSET Nat /\ i \in Nat /\ k \in Nat  OBVIOUS
  <2>1. {j \in at : j <= i} \in SUBSET {j \in at : j <= k}
    <3>1. \A j \in at : j <= i => j <= k  BY <1>4, <2>0
    <3> QED  BY <3>1
  <2>2. k \in {j \in at : j <= k} /\ k \notin {j \in at : j <= i}  BY <1>4, <2>0
  <2>3. Rank(at, i) <= Rank(at, k) /\ Rank(at, i) # Rank(at, k)
    <3>1. IsFiniteSet({j \in at : j <= k})  BY <1>2
    <3>2. {j \in at : j <= i} # {j \in at : j <= k}  BY <2>2
    <3> QED  BY <2>1, <3>1, <3>2, FS_Subset DEF Rank
  <2>4. PICK a \in Nat, b \in Nat : a = Rank(at, i) /\ b = Rank(at, k)  BY <1>2
  <2>5. a <= b /\ a # b  BY <2>3, <2>4
  <2>6. a < b  BY <2>5
  <2> HIDE DEF Rank
  <2> QED  BY <2>4, <2>6
<1>5. ASSUME NEW i \in at  PROVE Rank(at, i) \in 1..Cardinality(at)
  <2>1. Rank(at, i) \in Nat /\ Rank(at, i) <= Cardinality(at) /\ Rank(at, i) # 0
    BY <1>2, <1>3
  <2>2. Cardinality(at) \in Nat  BY <1>1
  <2>3. \A a, b \in Nat : a <= b /\ a # 0 => a \in 1..b  OBVIOUS
  <2> QED  BY <2>1, <2>2, <2>3
<1>6. \A i, k \in at : i < k => Rank(at, i) < Rank(at, k)  BY ONLY <1>4
<1> QED  BY ONLY <1>1, <1>5, <1>6

(* The n-th position of a set is the one of rank n.                        *)
LEMMA NthIs ==
  ASSUME NEW N \in Nat, NEW at \in SUBSET (1..N)
  PROVE  /\ Cardinality(at) \in Nat
         /\ \A n \in 1..Cardinality(at) : Stream!Nth(at, n) \in at
              /\ Rank(at, Stream!Nth(at, n)) = n
         /\ \A i \in at : Rank(at, i) \in 1..Cardinality(at) /\ Stream!Nth(at, Rank(at, i)) = i
         /\ \A m, n \in 1..Cardinality(at) : m < n <=> Stream!Nth(at, m) < Stream!Nth(at, n)
<1> DEFINE c == Cardinality(at)
           f == [i \in at |-> Rank(at, i)]
<1>1. /\ IsFiniteSet(at) /\ c \in Nat
      /\ \A i \in at : Rank(at, i) \in 1..c
      /\ \A i, k \in at : i < k => Rank(at, i) < Rank(at, k)
  BY RankIs
<1>2. \A i, k \in at : Rank(at, i) = Rank(at, k) => i = k
  BY <1>1
<1>3. f \in Injection(at, 1..c)
  BY <1>1, <1>2 DEF Injection, IsInjective
<1>4. f \in Surjection(at, 1..c)
  <2>1. IsFiniteSet(1..c) /\ Cardinality(1..c) = c
    BY <1>1, FS_Interval
  <2> QED  BY <1>3, <2>1, FS_Injection
<1>5. \A n \in 1..c : \E i \in at : Rank(at, i) = n
  BY <1>4 DEF Surjection
<1>6. ASSUME NEW n \in 1..c  PROVE Stream!Nth(at, n) \in at /\ Rank(at, Stream!Nth(at, n)) = n
  BY <1>5, StreamCardinality DEF Stream!Nth, Rank
<1>7. ASSUME NEW i \in at  PROVE Stream!Nth(at, Rank(at, i)) = i
  BY <1>1, <1>2, <1>6
<1>8. ASSUME NEW m \in 1..c, NEW n \in 1..c  PROVE m < n <=> Stream!Nth(at, m) < Stream!Nth(at, n)
  <2> DEFINE i == Stream!Nth(at, m)
             k == Stream!Nth(at, n)
  <2>1. i \in at /\ k \in at /\ Rank(at, i) = m /\ Rank(at, k) = n  BY <1>6
  <2>2. i < k => m < n  BY <1>1, <2>1
  <2>3. k < i => n < m  BY <1>1, <2>1
  <2>4. i = k => m = n  BY <2>1
  <2>5. at \in SUBSET Nat /\ c \in Nat  BY <1>1
  <2> HIDE DEF c
  <2>6. m \in Nat /\ n \in Nat  BY <2>5
  <2>7. PICK a \in at, b \in at : a = i /\ b = k  BY <2>1
  <2>8. a \in Nat /\ b \in Nat  BY <2>5
  <2> HIDE DEF i, k
  <2>9. m < n <=> a < b  BY <2>2, <2>3, <2>4, <2>6, <2>7, <2>8
  <2>10. m < n <=> i < k  BY <2>7, <2>9
  <2> QED  BY <2>10 DEF i, k
<1> QED  BY <1>1, <1>6, <1>7, <1>8

-----------------------------------------------------------------------------
(* A set of positions cut after p: the ranks up to there stay the same.     *)
LEMMA NthBelow ==
  ASSUME NEW N \in Nat, NEW at \in SUBSET (1..N), NEW p \in Nat
  PROVE  LET low == {i \in at : i <= p} IN
         /\ Cardinality(low) \in Nat /\ Cardinality(low) <= Cardinality(at)
         /\ \A n \in 1..Cardinality(low) : Stream!Nth(at, n) = Stream!Nth(low, n)
              /\ Stream!Nth(low, n) \in low
<1> DEFINE low == {i \in at : i <= p}
<1>1. low \in SUBSET (1..N) /\ low \in SUBSET at  OBVIOUS
<1>2. IsFiniteSet(at) /\ Cardinality(at) \in Nat  BY RankIs
<1>3. Cardinality(low) \in Nat /\ Cardinality(low) <= Cardinality(at)
  BY <1>1, <1>2, FS_Subset, FS_CardinalityType
<1>4. ASSUME NEW i \in low  PROVE Rank(at, i) = Rank(low, i)
  <2>1. {j \in at : j <= i} = {j \in low : j <= i}
    <3>1. \A j \in at : j <= i => j <= p  BY <1>1
    <3> QED  BY <3>1
  <2> QED  BY <2>1 DEF Rank
<1>5. ASSUME NEW n \in 1..Cardinality(low)
      PROVE Stream!Nth(at, n) = Stream!Nth(low, n) /\ Stream!Nth(low, n) \in low
  <2> HIDE DEF low
  <2>1. Stream!Nth(low, n) \in low /\ Rank(low, Stream!Nth(low, n)) = n  BY <1>1, NthIs
  <2>2. Stream!Nth(low, n) \in at /\ Rank(at, Stream!Nth(low, n)) = n  BY <1>1, <1>4, <2>1
  <2> QED  BY <2>1, <2>2, NthIs
<1> QED  BY <1>3, <1>5

(* What is listed so far is a beginning of what is listed.                 *)
LEMMA ListedBelow ==
  ASSUME NEW S, NEW s \in Seq(S), NEW at \in SUBSET DOMAIN s, NEW p \in Nat
  PROVE  LET low == {i \in at : i <= p} IN
         /\ Stream!Listed(s, low) \in Seq(S) /\ Stream!Listed(s, at) \in Seq(S)
         /\ Stream!IsPrefix(Stream!Listed(s, low), Stream!Listed(s, at))
<1> DEFINE low == {i \in at : i <= p}
           c == Cardinality(low)
           d == Cardinality(at)
<1>1. Len(s) \in Nat /\ at \in SUBSET (1..Len(s)) /\ DOMAIN s = 1..Len(s)  BY LenProperties
<1>2. c \in Nat /\ c <= d /\ \A n \in 1..c : Stream!Nth(at, n) = Stream!Nth(low, n)
        /\ Stream!Nth(low, n) \in low
  BY <1>1, NthBelow
<1>3. d \in Nat /\ \A n \in 1..d : Stream!Nth(at, n) \in at  BY <1>1, NthIs
<1> HIDE DEF c, d, low
<1>4. Stream!Listed(s, low) = [n \in 1..c |-> s[Stream!Nth(low, n)]]
        /\ Stream!Listed(s, at) = [n \in 1..d |-> s[Stream!Nth(at, n)]]
  BY StreamCardinality DEF Stream!Listed, c, d
<1>5. low \in SUBSET DOMAIN s  BY DEF low
<1>6. \A i \in DOMAIN s : s[i] \in S  BY <1>1
<1>7. PICK x : x = Stream!Listed(s, low)  OBVIOUS
<1>8. PICK y : y = Stream!Listed(s, at)  OBVIOUS
<1>9. x \in Seq(S) /\ Len(x) = c /\ \A n \in 1..c : x[n] = s[Stream!Nth(low, n)]
  BY <1>2, <1>4, <1>5, <1>6, <1>7
<1>10. y \in Seq(S) /\ Len(y) = d /\ \A n \in 1..d : y[n] = s[Stream!Nth(at, n)]
  BY <1>3, <1>4, <1>6, <1>8
<1>11. \A n \in 1..c : x[n] = y[n]  BY <1>2, <1>3, <1>9, <1>10
<1>12. SubSeq(x, 1, c) = SubSeq(y, 1, c)
  <2>1. SubSeq(x, 1, c) = [n \in 1..c |-> x[n]] /\ SubSeq(y, 1, c) = [n \in 1..c |-> y[n]]
    BY <1>2, <1>3, <1>9, <1>10
  <2> QED  BY <1>11, <2>1
<1>13. Stream!IsPrefix(x, y)  BY <1>2, <1>3, <1>9, <1>10, <1>12 DEF Stream!IsPrefix
<1> QED  BY <1>7, <1>8, <1>9, <1>10, <1>13 DEF low

(* A run of positions behind all others lists what stands there.           *)
LEMMA ListedRun ==
  ASSUME NEW S, NEW s \in Seq(S), NEW at \in SUBSET DOMAIN s, NEW p \in Nat, NEW q \in Nat,
         p <= q, q <= Len(s), \A i \in at : i <= p
  PROVE  Stream!Listed(s, at \cup (p + 1)..q) = Stream!Listed(s, at) \o SubSeq(s, p + 1, q)
<1> DEFINE run == (p + 1)..q
           up == at \cup run
           c == Cardinality(at)
           d == Cardinality(up)
<1>1. Len(s) \in Nat /\ DOMAIN s = 1..Len(s)  BY LenProperties
<1>2. at \in SUBSET (1..Len(s)) /\ run \in SUBSET (1..Len(s)) /\ up \in SUBSET (1..Len(s))
  BY <1>1
<1>3. at = {i \in up : i <= p}
  <2>1. \A i \in run : ~(i <= p)  OBVIOUS
  <2> QED  BY <2>1
<1>4. /\ c \in Nat /\ c <= d /\ d \in Nat
      /\ \A n \in 1..c : Stream!Nth(up, n) = Stream!Nth(at, n) /\ Stream!Nth(at, n) \in at
  <2> HIDE DEF up
  <2>1. LET low == {i \in up : i <= p} IN
        /\ Cardinality(low) \in Nat /\ Cardinality(low) <= Cardinality(up)
        /\ \A n \in 1..Cardinality(low) : Stream!Nth(up, n) = Stream!Nth(low, n)
             /\ Stream!Nth(low, n) \in low
    BY <1>1, <1>2, NthBelow
  <2>2. d \in Nat  BY <1>1, <1>2, NthIs
  <2> QED  BY <1>3, <2>1, <2>2
<1>5. ASSUME NEW r \in p..q  PROVE Cardinality(at \cup (p + 1)..r) = c + (r - p)
  <2>0. p + 1 \in Int /\ r \in Int /\ p <= r  OBVIOUS
  <2>1. IsFiniteSet((p + 1)..r) /\ Cardinality((p + 1)..r) = r - p
    <3>1. IsFiniteSet((p + 1)..r)
            /\ Cardinality((p + 1)..r) = IF p + 1 > r THEN 0 ELSE r - (p + 1) + 1
      BY <2>0, FS_Interval
    <3> QED  BY <2>0, <3>1
  <2>2. IsFiniteSet(at)  BY <1>1, <1>2, RankIs
  <2>3. at \cap (p + 1)..r = {}  OBVIOUS
  <2>4. Cardinality(at \cup (p + 1)..r)
          = Cardinality(at) + Cardinality((p + 1)..r) - Cardinality(at \cap (p + 1)..r)
    BY <2>1, <2>2, FS_Union
  <2>5. Cardinality(at \cap (p + 1)..r) = 0  BY <2>3, FS_EmptySet
  <2> HIDE DEF c
  <2>6. PICK a \in Nat : a = Cardinality(at)  BY <1>4 DEF c
  <2> QED  BY <2>0, <2>1, <2>4, <2>5, <2>6 DEF c
<1>6. d = c + (q - p)  BY <1>5
<1>7. ASSUME NEW r \in run  PROVE Stream!Nth(up, c + (r - p)) = r
  <2>1. {j \in up : j <= r} = at \cup (p + 1)..r
    <3>1. \A j \in at : j <= r  BY <1>1, <1>2
    <3> QED  BY <3>1
  <2>2. Rank(up, r) = c + (r - p)  BY <1>5, <2>1 DEF Rank
  <2> HIDE DEF up
  <2>3. \A i \in up : Stream!Nth(up, Rank(up, i)) = i  BY <1>1, <1>2, NthIs
  <2>4. r \in up  BY DEF up
  <2> QED  BY <2>2, <2>3, <2>4
<1> HIDE DEF c, d, up, run
<1>8. PICK x : x = Stream!Listed(s, up)  OBVIOUS
<1>9. PICK y : y = Stream!Listed(s, at)  OBVIOUS
<1>10. PICK z : z = SubSeq(s, p + 1, q)  OBVIOUS
<1>11. x = [n \in 1..d |-> s[Stream!Nth(up, n)]] /\ y = [n \in 1..c |-> s[Stream!Nth(at, n)]]
  BY <1>8, <1>9, StreamCardinality DEF Stream!Listed, c, d
<1>12. \A i \in DOMAIN s : s[i] \in S  BY <1>1
<1>13. y \in Seq(S) /\ Len(y) = c /\ \A n \in 1..c : y[n] = s[Stream!Nth(at, n)]
  BY <1>4, <1>11, <1>12
<1>14. z \in Seq(S) /\ Len(z) = q - p /\ \A n \in 1..(q - p) : z[n] = s[p + n]
  BY <1>1, <1>10, <1>12
<1>15. PICK w : w = y \o z  OBVIOUS
<1>16. /\ w \in Seq(S) /\ Len(w) = d
       /\ \A n \in 1..d : w[n] = IF n <= c THEN y[n] ELSE z[n - c]
  <2>1. w \in Seq(S) /\ Len(w) = Len(y) + Len(z)  BY <1>13, <1>14, <1>15, ConcatProperties
  <2>2. \A n \in 1..Len(y) + Len(z) : w[n] = IF n <= Len(y) THEN y[n] ELSE z[n - Len(y)]
    BY <1>13, <1>14, <1>15, ConcatProperties
  <2>3. Len(y) + Len(z) = d  BY <1>4, <1>6, <1>13, <1>14
  <2> QED  BY <1>13, <2>1, <2>2, <2>3
<1>17. ASSUME NEW n \in 1..d  PROVE x[n] = w[n]
  <2>1. CASE n <= c
    BY <1>4, <1>11, <1>13, <1>16, <2>1
  <2>2. CASE ~(n <= c)
    <3>1. n - c \in 1..(q - p) /\ p + (n - c) \in run  BY <1>4, <1>6, <2>2 DEF run
    <3>2. Stream!Nth(up, c + ((p + (n - c)) - p)) = p + (n - c)  BY <1>7, <3>1
    <3>3. c + ((p + (n - c)) - p) = n  BY <1>4
    <3> QED  BY <1>11, <1>14, <1>16, <2>2, <3>1, <3>2, <3>3
  <2> QED  BY <2>1, <2>2
<1>18. x = w
  <2>1. w = [n \in 1..d |-> w[n]]  BY <1>4, <1>16
  <2> QED  BY <1>11, <1>17, <2>1
<1> QED  BY <1>8, <1>9, <1>10, <1>15, <1>18 DEF up, run

-----------------------------------------------------------------------------
(* Prefixes and occurrences, character by character.                       *)
Begins(t, u) == Len(t) <= Len(u) /\ \A i \in 1..Len(t) : t[i] = u[i]
StandsAt(s, t, n) ==
  n \in 1..Len(s) /\ n + Len(t) - 1 <= Len(s) /\ \A i \in 1..Len(t) : s[n + i - 1] = t[i]

(* A prefix, position by position.                                         *)
LEMMA PrefixIs ==
  ASSUME NEW S, NEW t \in Seq(S), NEW u \in Seq(S)
  PROVE  Stream!IsPrefix(t, u) <=> Begins(t, u)
<1>1. Len(t) \in Nat /\ Len(u) \in Nat  BY LenProperties
<1>2. ASSUME Len(t) <= Len(u)
      PROVE  SubSeq(t, 1, Len(t)) = SubSeq(u, 1, Len(t)) <=> \A i \in 1..Len(t) : t[i] = u[i]
  <2>1. /\ SubSeq(t, 1, Len(t)) = [i \in 1..Len(t) |-> t[i]]
        /\ SubSeq(u, 1, Len(t)) = [i \in 1..Len(t) |-> u[i]]
    BY <1>1, <1>2
  <2>2. [i \in 1..Len(t) |-> t[i]] = [i \in 1..Len(t) |-> u[i]] <=> \A i \in 1..Len(t) : t[i] = u[i]
    OBVIOUS
  <2> QED  BY <2>1, <2>2
<1> QED  BY <1>2 DEF Stream!IsPrefix, Begins

(* What is left of a sequence from a position on.                          *)
LEMMA FromIs ==
  ASSUME NEW S, NEW s \in Seq(S), NEW n \in 1..Len(s) + 1
  PROVE  /\ Stream!From(s, n) \in Seq(S) /\ Len(Stream!From(s, n)) = Len(s) - n + 1
         /\ \A i \in 1..Len(s) - n + 1 : Stream!From(s, n)[i] = s[n + i - 1]
<1>1. Len(s) \in Nat /\ DOMAIN s = 1..Len(s)  BY LenProperties
<1>2. \A i \in n..Len(s) : s[i] \in S  BY <1>1
<1>3. n \in Int /\ Len(s) \in Int  BY <1>1
<1>4. /\ SubSeq(s, n, Len(s)) \in Seq(S)
      /\ Len(SubSeq(s, n, Len(s))) = IF n <= Len(s) THEN Len(s) - n + 1 ELSE 0
      /\ \A i \in 1..Len(s) - n + 1 : SubSeq(s, n, Len(s))[i] = s[n + i - 1]
  BY <1>2, <1>3, SubSeqProperties
<1> QED  BY <1>1, <1>4 DEF Stream!From

(* A tag is found where it stands.                                         *)
LEMMA FindsIs ==
  ASSUME NEW S, NEW s \in Seq(S), NEW t \in Seq(S), NEW n \in Int
  PROVE  Stream!Finds(s, t, n) <=> StandsAt(s, t, n)
<1>1. Len(s) \in Nat /\ DOMAIN s = 1..Len(s) /\ Len(t) \in Nat  BY LenProperties
<1>2. ASSUME n \in 1..Len(s)
      PROVE  Stream!IsPrefix(t, Stream!From(s, n)) <=>
               /\ n + Len(t) - 1 <= Len(s)
               /\ \A i \in 1..Len(t) : s[n + i - 1] = t[i]
  <2>0. n \in 1..Len(s) + 1 /\ n \in Nat  BY <1>1, <1>2
  <2>1. /\ Stream!From(s, n) \in Seq(S) /\ Len(Stream!From(s, n)) = Len(s) - n + 1
        /\ \A i \in 1..Len(s) - n + 1 : Stream!From(s, n)[i] = s[n + i - 1]
    BY <2>0, FromIs
  <2>2. Stream!IsPrefix(t, Stream!From(s, n)) <=>
          /\ Len(t) <= Len(Stream!From(s, n))
          /\ \A i \in 1..Len(t) : t[i] = Stream!From(s, n)[i]
    <3>1. Stream!IsPrefix(t, Stream!From(s, n)) <=> Begins(t, Stream!From(s, n))  BY <2>1, PrefixIs
    <3> QED  BY <3>1 DEF Begins
  <2>3. Len(t) <= Len(Stream!From(s, n)) <=> n + Len(t) - 1 <= Len(s)  BY <1>1, <2>0, <2>1
  <2>4. ASSUME n + Len(t) - 1 <= Len(s)
        PROVE  \A i \in 1..Len(t) : Stream!From(s, n)[i] = s[n + i - 1]
    <3>1. \A i \in 1..Len(t) : i \in 1..Len(s) - n + 1  BY <1>1, <2>0, <2>4
    <3> QED  BY <2>1, <3>1
  <2> QED  BY <2>2, <2>3, <2>4
<1> QED  BY <1>1, <1>2 DEF Stream!Finds, Stream!StartsWith, StandsAt

(* The tags and their characters.                                          *)
LEMMA TagsAre ==
  /\ Stream!OpenTag \in Seq(Stream!Chars) /\ Len(Stream!OpenTag) = 3
  /\ Stream!OpenTag[1] = "<" /\ Stream!OpenTag[2] = "t" /\ Stream!OpenTag[3] = ">"
  /\ Stream!CloseTag \in Seq(Stream!Chars) /\ Len(Stream!CloseTag) = 4
  /\ Stream!CloseTag[1] = "<" /\ Stream!CloseTag[2] = "/" /\ Stream!CloseTag[3] = "t"
  /\ Stream!CloseTag[4] = ">"
  /\ <<"<">> \in Seq(Stream!Chars) /\ Len(<<"<">>) = 1 /\ <<"<">>[1] = "<"
BY DEF Stream!OpenTag, Stream!CloseTag, Stream!Chars

(* The same for the two tags and the single "<", character by character.   *)
LEMMA TagIs ==
  ASSUME NEW s \in Seq(Stream!Chars), NEW n \in Int
  PROVE  /\ Stream!Finds(s, Stream!OpenTag, n) <=>
              /\ n \in 1..Len(s) /\ n + 2 <= Len(s)
              /\ s[n] = "<" /\ s[n + 1] = "t" /\ s[n + 2] = ">"
         /\ Stream!Finds(s, Stream!CloseTag, n) <=>
              /\ n \in 1..Len(s) /\ n + 3 <= Len(s)
              /\ s[n] = "<" /\ s[n + 1] = "/" /\ s[n + 2] = "t" /\ s[n + 3] = ">"
         /\ Stream!Finds(s, <<"<">>, n) <=> n \in 1..Len(s) /\ s[n] = "<"
<1> DEFINE less == <<"<">>
<1>1. Len(s) \in Nat  BY LenProperties
<1>2. Stream!Finds(s, Stream!OpenTag, n) <=>
        /\ n \in 1..Len(s) /\ n + 2 <= Len(s)
        /\ s[n] = "<" /\ s[n + 1] = "t" /\ s[n + 2] = ">"
  <2>1. Stream!Finds(s, Stream!OpenTag, n) <=>
          /\ n \in 1..Len(s) /\ n + 3 - 1 <= Len(s)
          /\ \A i \in 1..3 : s[n + i - 1] = Stream!OpenTag[i]
    <3>1. Len(Stream!OpenTag) = 3 /\ Stream!OpenTag \in Seq(Stream!Chars)  BY TagsAre
    <3>2. Stream!Finds(s, Stream!OpenTag, n) <=> StandsAt(s, Stream!OpenTag, n)  BY <3>1, FindsIs
    <3> QED  BY <3>1, <3>2 DEF StandsAt
  <2>2. 1..3 = {1, 2, 3}  OBVIOUS
  <2>3. n \in 1..Len(s) => n + 1 - 1 = n /\ n + 2 - 1 = n + 1 /\ n + 3 - 1 = n + 2  BY <1>1
  <2> QED  BY <2>1, <2>2, <2>3, TagsAre
<1>3. Stream!Finds(s, Stream!CloseTag, n) <=>
        /\ n \in 1..Len(s) /\ n + 3 <= Len(s)
        /\ s[n] = "<" /\ s[n + 1] = "/" /\ s[n + 2] = "t" /\ s[n + 3] = ">"
  <2>1. Stream!Finds(s, Stream!CloseTag, n) <=>
          /\ n \in 1..Len(s) /\ n + 4 - 1 <= Len(s)
          /\ \A i \in 1..4 : s[n + i - 1] = Stream!CloseTag[i]
    <3>1. Len(Stream!CloseTag) = 4 /\ Stream!CloseTag \in Seq(Stream!Chars)  BY TagsAre
    <3>2. Stream!Finds(s, Stream!CloseTag, n) <=> StandsAt(s, Stream!CloseTag, n)  BY <3>1, FindsIs
    <3> QED  BY <3>1, <3>2 DEF StandsAt
  <2>2. 1..4 = {1, 2, 3, 4}  OBVIOUS
  <2>3. n \in 1..Len(s) => /\ n + 1 - 1 = n /\ n + 2 - 1 = n + 1
                           /\ n + 3 - 1 = n + 2 /\ n + 4 - 1 = n + 3  BY <1>1
  <2> QED  BY <2>1, <2>2, <2>3, TagsAre
<1>4. Stream!Finds(s, less, n) <=> n \in 1..Len(s) /\ s[n] = "<"
  <2>1. less \in Seq(Stream!Chars) /\ Len(less) = 1 /\ less[1] = "<"  BY TagsAre
  <2> HIDE DEF less
  <2>2. Stream!Finds(s, less, n) <=>
          /\ n \in 1..Len(s) /\ n + 1 - 1 <= Len(s)
          /\ \A i \in 1..1 : s[n + i - 1] = less[i]
    <3>1. Len(less) = 1 /\ less \in Seq(Stream!Chars)  BY <2>1
    <3>2. Stream!Finds(s, less, n) <=> StandsAt(s, less, n)  BY <3>1, FindsIs
    <3> QED  BY <3>1, <3>2 DEF StandsAt
  <2>3. 1..1 = {1}  OBVIOUS
  <2>4. n \in 1..Len(s) => n + 1 - 1 = n /\ n <= Len(s)  BY <1>1
  <2> QED  BY <2>1, <2>2, <2>3, <2>4
<1> QED  BY <1>2, <1>3, <1>4

(* The first occurrence.                                                   *)
LEMMA FindIs ==
  ASSUME NEW S, NEW s \in Seq(S), NEW t
  PROVE  \/ Stream!Find(s, t) = 0 /\ \A n : ~Stream!Finds(s, t, n)
         \/ /\ Stream!Find(s, t) \in 1..Len(s) /\ Stream!Finds(s, t, Stream!Find(s, t))
            /\ \A n : Stream!Finds(s, t, n) => Stream!Find(s, t) <= n
<1> DEFINE found == {n \in DOMAIN s : Stream!Finds(s, t, n)}
<1>1. Len(s) \in Nat /\ DOMAIN s = 1..Len(s)  BY LenProperties
<1>2. \A n : Stream!Finds(s, t, n) => n \in found  BY DEF Stream!Finds
<1>3. ASSUME found # {}  PROVE \E n \in found : \A m \in found : n <= m
  <2>1. found \in SUBSET (1..Len(s)) /\ found \in SUBSET Nat  BY <1>1
  <2> HIDE DEF found
  <2>2. /\ Cardinality(found) \in Nat
        /\ \A i \in found : Rank(found, i) \in 1..Cardinality(found)
             /\ Stream!Nth(found, Rank(found, i)) = i
        /\ \A m, n \in 1..Cardinality(found) : m < n <=> Stream!Nth(found, m) < Stream!Nth(found, n)
        /\ \A n \in 1..Cardinality(found) : Stream!Nth(found, n) \in found
    BY <1>1, <2>1, NthIs
  <2>3. PICK j \in found : TRUE  BY <1>3
  <2>4. 1 \in 1..Cardinality(found)  BY <2>2, <2>3
  <2>5. ASSUME NEW m \in found  PROVE Stream!Nth(found, 1) <= m
    <3>1. PICK r \in 1..Cardinality(found) : Stream!Nth(found, r) = m  BY <2>2
    <3>2. r = 1 \/ 1 < r  BY <2>2
    <3>3. Stream!Nth(found, 1) \in Nat /\ m \in Nat  BY <2>1, <2>2, <2>4
    <3> QED  BY <2>2, <2>4, <3>1, <3>2, <3>3
  <2> QED  BY <2>2, <2>4, <2>5
<1> QED  BY <1>1, <1>2, <1>3 DEF Stream!Find

-----------------------------------------------------------------------------
(* Spans.  What is visible and what is not, run by run.                    *)
LEMMA SpanIs ==
  ASSUME NEW s, NEW n \in Int
  PROVE  /\ Stream!SpanOpen(s, n) <=>
              \E m \in 1..n :
                /\ Stream!Finds(s, Stream!OpenTag, m)
                /\ \A c \in m..(n - 3) : ~Stream!Finds(s, Stream!CloseTag, c)
         /\ n \in Stream!Visible(s) <=>
              /\ n \in DOMAIN s /\ ~Stream!Finds(s, Stream!OpenTag, n)
              /\ ~Stream!SpanOpen(s, n - 1)
<1>1. Len(Stream!CloseTag) = 4  BY TagsAre
<1>2. n - Len(Stream!CloseTag) + 1 = n - 3  BY <1>1
<1> QED  BY <1>2 DEF Stream!SpanOpen, Stream!Visible

(* Outside every span, what holds no open tag is visible, and leaves one   *)
(* outside.                                                                *)
LEMMA VisibleRun ==
  ASSUME NEW s \in Seq(Stream!Chars), NEW p \in Nat, NEW q \in Nat, p <= q, q <= Len(s),
         ~Stream!SpanOpen(s, p), \A m \in 1..p : Stream!Finds(s, Stream!OpenTag, m) => m + 2 <= p,
         \A m \in (p + 1)..q : ~Stream!Finds(s, Stream!OpenTag, m)
  PROVE  /\ (p + 1)..q \subseteq Stream!Visible(s) /\ ~Stream!SpanOpen(s, q)
         /\ \A m \in 1..q : Stream!Finds(s, Stream!OpenTag, m) => m + 2 <= q
<1>0. DOMAIN s = 1..Len(s) /\ Len(s) \in Nat  BY LenProperties
<1>1. \A m \in 1..p : Stream!Finds(s, Stream!OpenTag, m)
        => \E c \in m..(p - 3) : Stream!Finds(s, Stream!CloseTag, c)
  BY SpanIs
<1>2. ASSUME NEW n \in p..q  PROVE ~Stream!SpanOpen(s, n)
  <2>1. ASSUME NEW m \in 1..n, Stream!Finds(s, Stream!OpenTag, m)
        PROVE  \E c \in m..(n - 3) : Stream!Finds(s, Stream!CloseTag, c)
    <3>1. m \in 1..p  BY <2>1
    <3>2. PICK c \in m..(p - 3) : Stream!Finds(s, Stream!CloseTag, c)  BY <1>1, <2>1, <3>1
    <3>3. c \in m..(n - 3)  BY <3>2
    <3> QED  BY <3>2, <3>3
  <2>2. n \in Int  OBVIOUS
  <2> QED  BY <2>1, <2>2, SpanIs
<1>3. ASSUME NEW n \in (p + 1)..q  PROVE n \in Stream!Visible(s)
  <2>1. n \in Int /\ n - 1 \in p..q /\ n \in 1..Len(s)  BY <1>0
  <2>2. ~Stream!SpanOpen(s, n - 1) /\ ~Stream!Finds(s, Stream!OpenTag, n)  BY <1>2, <2>1
  <2> QED  BY <1>0, <2>1, <2>2, SpanIs
<1>4. ~Stream!SpanOpen(s, q)  BY <1>2
<1>5. ASSUME NEW m \in 1..q, Stream!Finds(s, Stream!OpenTag, m)  PROVE m + 2 <= q
  <2>1. m \in 1..p  BY <1>5
  <2> QED  BY <1>5, <2>1
<1> QED  BY <1>3, <1>4, <1>5

(* An open tag outside every span opens one, and is not visible itself.    *)
LEMMA SpanOpens ==
  ASSUME NEW s \in Seq(Stream!Chars), NEW p \in Nat, Stream!Finds(s, Stream!OpenTag, p + 1),
         \A m \in 1..p : Stream!Finds(s, Stream!OpenTag, m) => m + 2 <= p, ~Stream!SpanOpen(s, p)
  PROVE  /\ \A n \in (p + 1)..(p + 3) : n \notin Stream!Visible(s)
         /\ Stream!SpanOpen(s, p + 3)
         /\ \A m \in 1..(p + 3) : Stream!Finds(s, Stream!CloseTag, m) => m + 3 <= p + 3
<1>1. /\ p + 3 <= Len(s) /\ Len(s) \in Nat
      /\ s[p + 1] = "<" /\ s[p + 2] = "t" /\ s[p + 3] = ">"
  <2>1. p + 1 \in Int /\ (p + 1) + 1 = p + 2 /\ (p + 1) + 2 = p + 3  OBVIOUS
  <2> QED  BY <2>1, TagIs, LenProperties
<1>2. ASSUME NEW n \in (p + 1)..(p + 3)  PROVE Stream!SpanOpen(s, n)
  <2>1. p + 1 \in 1..n /\ n \in Int /\ \A c \in (p + 1)..(n - 3) : FALSE  OBVIOUS
  <2> QED  BY <2>1, SpanIs
<1>3. ASSUME NEW n \in (p + 1)..(p + 3)  PROVE n \notin Stream!Visible(s)
  <2>1. n \in Int  OBVIOUS
  <2>2. CASE n = p + 1  BY <2>1, <2>2, SpanIs
  <2>3. CASE n # p + 1
    <3>1. n - 1 \in (p + 1)..(p + 3)  BY <2>3
    <3> QED  BY <1>2, <2>1, <3>1, SpanIs
  <2> QED  BY <2>2, <2>3
<1>4. ASSUME NEW m \in 1..(p + 3), Stream!Finds(s, Stream!CloseTag, m)  PROVE m + 3 <= p + 3
  <2>1. m \in Int /\ s[m] = "<" /\ s[m + 1] = "/"  BY <1>4, TagIs
  <2>2. m # p + 1 /\ m # p + 2 /\ m # p + 3  BY <1>1, <2>1
  <2> QED  BY <2>2
<1> QED  BY <1>2, <1>3, <1>4

(* Inside a span nothing is visible as long as no close tag is found.      *)
LEMMA HiddenRun ==
  ASSUME NEW s \in Seq(Stream!Chars), NEW p \in Nat, NEW q \in Nat, p <= q, Stream!SpanOpen(s, p),
         \A m \in 1..p : Stream!Finds(s, Stream!CloseTag, m) => m + 3 <= p,
         \A m \in (p + 1)..q : ~Stream!Finds(s, Stream!CloseTag, m)
  PROVE  /\ \A n \in (p + 1)..(q + 4) : n \notin Stream!Visible(s)
         /\ Stream!SpanOpen(s, q)
         /\ \A m \in 1..q : Stream!Finds(s, Stream!CloseTag, m) => m + 3 <= q
<1>1. PICK o \in 1..p : Stream!Finds(s, Stream!OpenTag, o)
        /\ \A c \in o..(p - 3) : ~Stream!Finds(s, Stream!CloseTag, c)
  BY SpanIs
<1>2. ASSUME NEW c \in o..q  PROVE ~Stream!Finds(s, Stream!CloseTag, c)
  <2>1. CASE c \in o..(p - 3)  BY <1>1, <2>1
  <2>2. CASE c \in (p - 2)..p /\ c >= 1  BY <2>2
  <2>3. CASE c \in (p + 1)..q  BY <2>3
  <2> QED  BY <2>1, <2>2, <2>3
<1>3. ASSUME NEW n \in p..(q + 3)  PROVE Stream!SpanOpen(s, n)
  <2>1. o \in 1..n /\ n \in Int /\ \A c \in o..(n - 3) : c \in o..q  OBVIOUS
  <2> QED  BY <1>1, <1>2, <2>1, SpanIs
<1>4. ASSUME NEW n \in (p + 1)..(q + 4)  PROVE n \notin Stream!Visible(s)
  <2>1. n \in Int /\ n - 1 \in p..(q + 3)  OBVIOUS
  <2> QED  BY <1>3, <2>1, SpanIs
<1>5. ASSUME NEW m \in 1..q, Stream!Finds(s, Stream!CloseTag, m)  PROVE m + 3 <= q
  <2>1. m \in 1..p  BY <1>5
  <2> QED  BY <1>5, <2>1
<1> QED  BY <1>3, <1>4, <1>5

(* The first close tag ends the span, and is not visible itself.           *)
LEMMA SpanCloses ==
  ASSUME NEW s \in Seq(Stream!Chars), NEW p \in Nat, NEW k \in Nat, p < k, Stream!SpanOpen(s, p),
         \A m \in 1..p : Stream!Finds(s, Stream!CloseTag, m) => m + 3 <= p,
         \A m \in (p + 1)..(k - 1) : ~Stream!Finds(s, Stream!CloseTag, m),
         Stream!Finds(s, Stream!CloseTag, k)
  PROVE  /\ \A n \in (p + 1)..(k + 3) : n \notin Stream!Visible(s)
         /\ ~Stream!SpanOpen(s, k + 3)
         /\ \A m \in 1..(k + 3) : Stream!Finds(s, Stream!OpenTag, m) => m + 2 <= k + 3
<1>1. \A n \in (p + 1)..(k - 1 + 4) : n \notin Stream!Visible(s)
  <2>1. k - 1 \in Nat /\ p <= k - 1  OBVIOUS
  <2> QED  BY <2>1, HiddenRun
<1>2. s[k] = "<" /\ s[k + 1] = "/" /\ s[k + 2] = "t" /\ s[k + 3] = ">"  BY TagIs
<1>3. ASSUME NEW m \in 1..(k + 3), Stream!Finds(s, Stream!OpenTag, m)  PROVE m < k
  <2>1. m \in Int /\ s[m] = "<" /\ s[m + 1] = "t"  BY <1>3, TagIs
  <2>2. m # k /\ m # k + 1 /\ m # k + 2 /\ m # k + 3  BY <1>2, <2>1
  <2> QED  BY <2>2
<1>4. ~Stream!SpanOpen(s, k + 3)
  <2>1. \A m \in 1..(k + 3) : Stream!Finds(s, Stream!OpenTag, m) => k \in m..(k + 3 - 3)  BY <1>3
  <2>2. k + 3 \in Int  OBVIOUS
  <2> QED  BY <2>1, <2>2, SpanIs
<1>5. \A m \in 1..(k + 3) : Stream!Finds(s, Stream!OpenTag, m) => m + 2 <= k + 3  BY <1>3
<1>6. (k - 1) + 4 = k + 3  OBVIOUS
<1> QED  BY <1>1, <1>4, <1>5, <1>6

(* A text that goes on keeps its spans.                                    *)
Spans(s, e) ==
  /\ \A n \in 1..Len(s) :
       /\ Stream!Finds(s \o e, Stream!OpenTag, n) <=> Stream!Finds(s, Stream!OpenTag, n)
       /\ Stream!Finds(s \o e, Stream!CloseTag, n) <=> Stream!Finds(s, Stream!CloseTag, n)
  /\ \A n \in 0..Len(s) : Stream!SpanOpen(s \o e, n) <=> Stream!SpanOpen(s, n)
  /\ {n \in Stream!Visible(s \o e) : n <= Len(s)} = Stream!Visible(s)

(* A text that goes on does not change what is there.                      *)
LEMMA SpansStay ==
  ASSUME NEW s \in Seq(Stream!Chars), NEW e \in Seq(Stream!Chars),
         \A n \in DOMAIN s : s[n] = "<"
           => Stream!Finds(s, Stream!OpenTag, n) \/ Stream!Finds(s, Stream!CloseTag, n)
  PROVE  Spans(s, e)
<1>1. PICK t : t = s \o e  OBVIOUS
<1>2. /\ t \in Seq(Stream!Chars) /\ Len(t) = Len(s) + Len(e) /\ Len(s) \in Nat /\ Len(e) \in Nat
      /\ DOMAIN s = 1..Len(s) /\ DOMAIN t = 1..Len(t) /\ \A n \in 1..Len(s) : t[n] = s[n]
  BY <1>1, ConcatProperties, LenProperties
<1>3. ASSUME NEW n \in 1..Len(s)
      PROVE  /\ Stream!Finds(t, Stream!OpenTag, n) <=> Stream!Finds(s, Stream!OpenTag, n)
             /\ Stream!Finds(t, Stream!CloseTag, n) <=> Stream!Finds(s, Stream!CloseTag, n)
  <2>0. n \in Int  BY <1>2
  <2>1. Stream!Finds(s, Stream!OpenTag, n) =>
          /\ Stream!Finds(t, Stream!OpenTag, n) /\ ~Stream!Finds(t, Stream!CloseTag, n)
          /\ ~Stream!Finds(s, Stream!CloseTag, n)
    <3>1. ASSUME Stream!Finds(s, Stream!OpenTag, n)
          PROVE  n + 2 <= Len(s) /\ s[n] = "<" /\ s[n + 1] = "t" /\ s[n + 2] = ">"
      BY <2>0, <3>1, TagIs
    <3>2. ASSUME Stream!Finds(s, Stream!OpenTag, n)
          PROVE  /\ n + 2 <= Len(t) /\ t[n] = "<" /\ t[n + 1] = "t" /\ t[n + 2] = ">"
                 /\ n \in 1..Len(t)
      BY <1>2, <3>1, <3>2
    <3> QED  BY <1>2, <2>0, <3>1, <3>2, TagIs
  <2>2. Stream!Finds(s, Stream!CloseTag, n) =>
          /\ Stream!Finds(t, Stream!CloseTag, n) /\ ~Stream!Finds(t, Stream!OpenTag, n)
          /\ ~Stream!Finds(s, Stream!OpenTag, n)
    <3>1. ASSUME Stream!Finds(s, Stream!CloseTag, n)
          PROVE  /\ n + 3 <= Len(s) /\ s[n] = "<" /\ s[n + 1] = "/" /\ s[n + 2] = "t"
                 /\ s[n + 3] = ">"
      BY <2>0, <3>1, TagIs
    <3>2. ASSUME Stream!Finds(s, Stream!CloseTag, n)
          PROVE  /\ n + 3 <= Len(t) /\ t[n] = "<" /\ t[n + 1] = "/" /\ t[n + 2] = "t"
                 /\ t[n + 3] = ">" /\ n \in 1..Len(t)
      BY <1>2, <3>1, <3>2
    <3> QED  BY <1>2, <2>0, <3>1, <3>2, TagIs
  <2>3. Stream!Finds(t, Stream!OpenTag, n) \/ Stream!Finds(t, Stream!CloseTag, n) => s[n] = "<"
    BY <1>2, <2>0, TagIs
  <2> QED  BY <1>2, <2>1, <2>2, <2>3
<1>4. ASSUME NEW n \in 0..Len(s)  PROVE Stream!SpanOpen(t, n) <=> Stream!SpanOpen(s, n)
  <2>1. n \in Int /\ \A m \in 1..n : m \in 1..Len(s) /\ \A c \in m..(n - 3) : c \in 1..Len(s)
    BY <1>2
  <2> QED  BY <1>3, <2>1, SpanIs
<1>5. ASSUME NEW n \in 1..Len(s)  PROVE n \in Stream!Visible(t) <=> n \in Stream!Visible(s)
  <2>1. n \in Int /\ n - 1 \in 0..Len(s) /\ n \in DOMAIN t /\ n \in DOMAIN s  BY <1>2
  <2> QED  BY <1>3, <1>4, <2>1, SpanIs
<1>6. Stream!Visible(s) \subseteq 1..Len(s) /\ Stream!Visible(t) \subseteq 1..Len(t)
  BY <1>2 DEF Stream!Visible
<1>7. {n \in Stream!Visible(t) : n <= Len(s)} = Stream!Visible(s)
  <2>1. \A n \in 1..Len(t) : n <= Len(s) <=> n \in 1..Len(s)  BY <1>2
  <2>2. \A n \in 1..Len(s) : n <= Len(s)  BY <1>2
  <2> QED  BY <1>5, <1>6, <2>1, <2>2
<1>8. ASSUME NEW n \in 1..Len(s)
      PROVE  /\ Stream!Finds(s \o e, Stream!OpenTag, n) <=> Stream!Finds(s, Stream!OpenTag, n)
             /\ Stream!Finds(s \o e, Stream!CloseTag, n) <=> Stream!Finds(s, Stream!CloseTag, n)
  BY <1>1, <1>3
<1>9. ASSUME NEW n \in 0..Len(s)  PROVE Stream!SpanOpen(s \o e, n) <=> Stream!SpanOpen(s, n)
  BY <1>1, <1>4
<1>10. {n \in Stream!Visible(s \o e) : n <= Len(s)} = Stream!Visible(s)
  BY <1>1, <1>7
<1> QED  BY <1>8, <1>9, <1>10 DEF Spans

-----------------------------------------------------------------------------
(* What the filter holds, as a piece of the text.                          *)
LEMMA HeldIs ==
  ASSUME Stream!Types, Stream!HeldInv
  PROVE  /\ sent \in Nat /\ Len(text) \in Nat /\ sent <= Len(text) /\ Stream!Taken \in Nat
         /\ Stream!Taken + Len(buf) = sent /\ Len(buf) \in Nat
         /\ \A i \in 1..Len(buf) : buf[i] = text[Stream!Taken + i]
<1>1. /\ sent \in Nat /\ Len(text) \in Nat /\ sent <= Len(text) /\ Len(buf) \in Nat
      /\ Len(buf) <= sent /\ DOMAIN text = 1..Len(text)
  BY LenProperties DEF Stream!Types, Stream!HeldInv
<1>2. Stream!Taken \in Nat /\ Stream!Taken + Len(buf) = sent  BY <1>1 DEF Stream!Taken
<1> HIDE DEF Stream!Taken
<1>3. PICK p \in Nat : p = Stream!Taken  BY <1>2
<1>4. buf = SubSeq(text, p + 1, sent)  BY <1>3 DEF Stream!HeldInv
<1>5. \A i \in 1..(sent - p) : SubSeq(text, p + 1, sent)[i] = text[p + i]
  BY <1>1, <1>2, <1>3 DEF Stream!Types
<1>6. Len(buf) = sent - p  BY <1>1, <1>2, <1>3
<1> QED  BY <1>1, <1>2, <1>3, <1>4, <1>5, <1>6

(* A piece of a sequence, and sequences with the same elements.            *)
LEMMA PieceIs ==
  ASSUME NEW S, NEW s \in Seq(S), NEW m \in Int, NEW n \in Int, 1 <= m, n <= Len(s), m <= n + 1
  PROVE  /\ SubSeq(s, m, n) \in Seq(S) /\ Len(SubSeq(s, m, n)) = n - m + 1
         /\ \A i \in 1..(n - m + 1) : SubSeq(s, m, n)[i] = s[m + i - 1]
<1>1. Len(s) \in Nat /\ DOMAIN s = 1..Len(s)  BY LenProperties
<1>2. \A i \in m..n : s[i] \in S  BY <1>1
<1>3. /\ SubSeq(s, m, n) \in Seq(S)
      /\ Len(SubSeq(s, m, n)) = IF m <= n THEN n - m + 1 ELSE 0
      /\ \A i \in 1..n - m + 1 : SubSeq(s, m, n)[i] = s[m + i - 1]
  BY <1>2, SubSeqProperties
<1> QED  BY <1>3

(* Two sequences with the same elements are equal.                         *)
LEMMA SameSeq ==
  ASSUME NEW S, NEW s \in Seq(S), NEW t \in Seq(S), Len(s) = Len(t),
         \A i \in 1..Len(s) : s[i] = t[i]
  PROVE  s = t
OBVIOUS

(* The rest of it, and a beginning of it.                                  *)
LEMMA HeldFrom ==
  ASSUME Stream!Types, Stream!HeldInv, NEW n \in 1..Len(buf) + 1
  PROVE  /\ Stream!From(buf, n) = SubSeq(text, Stream!Taken + n, sent)
         /\ SubSeq(buf, 1, n - 1) = SubSeq(text, Stream!Taken + 1, Stream!Taken + n - 1)
<1>1. /\ sent \in Nat /\ Len(text) \in Nat /\ sent <= Len(text) /\ Stream!Taken \in Nat
      /\ Stream!Taken + Len(buf) = sent /\ Len(buf) \in Nat
      /\ \A i \in 1..Len(buf) : buf[i] = text[Stream!Taken + i]
  BY HeldIs
<1>2. PICK p \in Nat : p = Stream!Taken  BY <1>1
<1> HIDE DEF Stream!Taken
<1>3. buf \in Seq(Stream!Chars) /\ text \in Seq(Stream!Chars)  BY DEF Stream!Types
<1>4. n \in Nat /\ n - 1 \in Nat /\ n - 1 <= Len(buf) /\ n <= Len(buf) + 1  BY <1>1
<1>5. SubSeq(buf, n, Len(buf)) = SubSeq(text, p + n, sent)
  <2>1. PICK x : x = SubSeq(buf, n, Len(buf))  OBVIOUS
  <2>2. PICK y : y = SubSeq(text, p + n, sent)  OBVIOUS
  <2>3. /\ x \in Seq(Stream!Chars) /\ Len(x) = Len(buf) - n + 1
        /\ \A i \in 1..(Len(buf) - n + 1) : x[i] = buf[n + i - 1]
    <3>1. n \in Int /\ Len(buf) \in Int /\ 1 <= n /\ Len(buf) <= Len(buf) /\ n <= Len(buf) + 1
      BY <1>1, <1>4
    <3> QED  BY <1>3, <2>1, <3>1, PieceIs
  <2>4. /\ y \in Seq(Stream!Chars) /\ Len(y) = sent - (p + n) + 1
        /\ \A i \in 1..(sent - (p + n) + 1) : y[i] = text[(p + n) + i - 1]
    <3>1. PICK a : a = p + n  OBVIOUS
    <3>2. a \in Int /\ sent \in Int /\ 1 <= a /\ sent <= Len(text) /\ a <= sent + 1
      BY <1>1, <1>2, <1>4, <3>1
    <3>3. y = SubSeq(text, a, sent)  BY <2>2, <3>1
    <3>4. /\ y \in Seq(Stream!Chars) /\ Len(y) = sent - a + 1
          /\ \A i \in 1..(sent - a + 1) : y[i] = text[a + i - 1]
      BY <1>3, <3>2, <3>3, PieceIs
    <3> QED  BY <1>1, <1>2, <1>4, <3>1, <3>2, <3>4
  <2>5. Len(buf) - n + 1 = sent - (p + n) + 1
    <3>1. PICK b \in Nat : b = Len(buf)  BY <1>1
    <3>2. sent = p + b /\ n \in Nat  BY <1>1, <1>2, <1>4, <3>1
    <3>3. b - n + 1 = (p + b) - (p + n) + 1  BY <3>2
    <3> QED  BY <3>1, <3>2, <3>3
  <2>6. ASSUME NEW i \in 1..Len(x)  PROVE x[i] = y[i]
    <3>1. i \in 1..(Len(buf) - n + 1) /\ i \in 1..(sent - (p + n) + 1)  BY <2>3, <2>5
    <3>2. n + i - 1 \in 1..Len(buf) /\ p + (n + i - 1) = (p + n) + i - 1  BY <1>1, <1>4, <3>1
    <3>3. buf[n + i - 1] = text[p + (n + i - 1)]  BY <1>1, <1>2, <3>2
    <3> QED  BY <2>3, <2>4, <3>1, <3>2, <3>3
  <2>7. Len(x) = Len(y)  BY <2>3, <2>4, <2>5
  <2>8. x = y  BY <2>3, <2>4, <2>6, <2>7, SameSeq
  <2> QED  BY <2>1, <2>2, <2>8
<1>6. SubSeq(buf, 1, n - 1) = SubSeq(text, p + 1, p + n - 1)
  <2>1. PICK x : x = SubSeq(buf, 1, n - 1)  OBVIOUS
  <2>2. PICK y : y = SubSeq(text, p + 1, p + n - 1)  OBVIOUS
  <2>3. /\ x \in Seq(Stream!Chars) /\ Len(x) = n - 1 /\ \A i \in 1..(n - 1) : x[i] = buf[i]
    <3>1. 1 \in Int /\ n - 1 \in Int /\ 1 <= 1 /\ n - 1 <= Len(buf) /\ 1 <= (n - 1) + 1
      BY <1>4
    <3>2. /\ x \in Seq(Stream!Chars) /\ Len(x) = (n - 1) - 1 + 1
          /\ \A i \in 1..((n - 1) - 1 + 1) : x[i] = buf[1 + i - 1]
      BY <1>3, <2>1, <3>1, PieceIs
    <3>3. (n - 1) - 1 + 1 = n - 1 /\ \A i \in 1..(n - 1) : 1 + i - 1 = i  BY <1>4
    <3> QED  BY <3>2, <3>3
  <2>4. /\ y \in Seq(Stream!Chars) /\ Len(y) = n - 1 /\ \A i \in 1..(n - 1) : y[i] = text[p + i]
    <3>1. /\ p + 1 \in Int /\ p + n - 1 \in Int /\ 1 <= p + 1 /\ p + n - 1 <= Len(text)
          /\ p + 1 <= (p + n - 1) + 1
      BY <1>1, <1>2, <1>4
    <3>2. /\ y \in Seq(Stream!Chars) /\ Len(y) = (p + n - 1) - (p + 1) + 1
          /\ \A i \in 1..((p + n - 1) - (p + 1) + 1) : y[i] = text[(p + 1) + i - 1]
      BY <1>3, <2>2, <3>1, PieceIs
    <3>3. (p + n - 1) - (p + 1) + 1 = n - 1 /\ \A i \in 1..(n - 1) : (p + 1) + i - 1 = p + i
      BY <1>4
    <3> QED  BY <3>2, <3>3
  <2>5. \A i \in 1..(n - 1) : x[i] = y[i]
    <3>1. \A i \in 1..(n - 1) : i \in 1..Len(buf)  BY <1>1, <1>4
    <3> QED  BY <1>1, <1>2, <2>3, <2>4, <3>1
  <2>6. x = y  BY <2>3, <2>4, <2>5, SameSeq
  <2> QED  BY <2>1, <2>2, <2>6
<1> QED  BY <1>2, <1>5, <1>6 DEF Stream!From

(* A tag in it is a tag in the text, and the other way round if it has all *)
(* of it.                                                                  *)
LEMMA HeldFinds ==
  ASSUME Stream!Types, Stream!HeldInv, NEW n \in 1..Len(buf)
  PROVE  /\ Stream!Finds(buf, Stream!OpenTag, n)
              <=> Stream!Finds(text, Stream!OpenTag, Stream!Taken + n) /\ n + 2 <= Len(buf)
         /\ Stream!Finds(buf, Stream!CloseTag, n)
              <=> Stream!Finds(text, Stream!CloseTag, Stream!Taken + n) /\ n + 3 <= Len(buf)
         /\ Stream!Finds(buf, <<"<">>, n) <=> text[Stream!Taken + n] = "<"
<1>1. /\ sent \in Nat /\ Len(text) \in Nat /\ sent <= Len(text) /\ Stream!Taken \in Nat
      /\ Stream!Taken + Len(buf) = sent /\ Len(buf) \in Nat
      /\ \A i \in 1..Len(buf) : buf[i] = text[Stream!Taken + i]
  BY HeldIs
<1>2. PICK p \in Nat : p = Stream!Taken  BY <1>1
<1> HIDE DEF Stream!Taken
<1>3. buf \in Seq(Stream!Chars) /\ text \in Seq(Stream!Chars) /\ n \in Int /\ p + n \in Int
  BY <1>1 DEF Stream!Types
<1>4. p + n \in 1..Len(text) /\ buf[n] = text[p + n]  BY <1>1, <1>2
<1>5. ASSUME n + 1 <= Len(buf)  PROVE buf[n + 1] = text[p + n + 1]
  BY <1>1, <1>2, <1>5
<1>6. ASSUME n + 2 <= Len(buf)  PROVE buf[n + 2] = text[p + n + 2] /\ p + n + 2 <= Len(text)
  BY <1>1, <1>2, <1>6
<1>7. ASSUME n + 3 <= Len(buf)  PROVE buf[n + 3] = text[p + n + 3] /\ p + n + 3 <= Len(text)
  BY <1>1, <1>2, <1>7
<1>8. Stream!Finds(buf, Stream!OpenTag, n) <=>
        /\ n + 2 <= Len(buf)
        /\ buf[n] = "<" /\ buf[n + 1] = "t" /\ buf[n + 2] = ">"
  BY <1>3, TagIs
<1>9. Stream!Finds(text, Stream!OpenTag, p + n) <=>
        /\ p + n + 2 <= Len(text)
        /\ text[p + n] = "<" /\ text[p + n + 1] = "t" /\ text[p + n + 2] = ">"
  BY <1>3, <1>4, TagIs
<1>10. Stream!Finds(buf, Stream!CloseTag, n) <=>
         /\ n + 3 <= Len(buf) /\ buf[n] = "<" /\ buf[n + 1] = "/" /\ buf[n + 2] = "t"
         /\ buf[n + 3] = ">"
  BY <1>3, TagIs
<1>11. Stream!Finds(text, Stream!CloseTag, p + n) <=>
         /\ p + n + 3 <= Len(text) /\ text[p + n] = "<" /\ text[p + n + 1] = "/"
         /\ text[p + n + 2] = "t" /\ text[p + n + 3] = ">"
  BY <1>3, <1>4, TagIs
<1>12. n + 2 <= Len(buf) => n + 1 <= Len(buf)  BY <1>1
<1>13. n + 3 <= Len(buf) => n + 2 <= Len(buf)  BY <1>1
<1>14. Stream!Finds(buf, Stream!OpenTag, n)
         <=> Stream!Finds(text, Stream!OpenTag, p + n) /\ n + 2 <= Len(buf)
  BY <1>4, <1>5, <1>6, <1>8, <1>9, <1>12
<1>15. Stream!Finds(buf, Stream!CloseTag, n)
         <=> Stream!Finds(text, Stream!CloseTag, p + n) /\ n + 3 <= Len(buf)
  BY <1>4, <1>5, <1>6, <1>7, <1>10, <1>11, <1>12, <1>13
<1>16. Stream!Finds(buf, <<"<">>, n) <=> text[p + n] = "<"
  BY <1>3, <1>4, TagIs
<1> QED  BY <1>2, <1>14, <1>15, <1>16

(* The filter goes from Taken on to q, lets out what is visible as far as   *)
(* k, and nothing behind that.                                             *)
Shows(n) == Stream!Listed(text, {i \in Stream!Visible(text) : i <= n})

(* What is shown grows by the piece it goes past.                          *)
LEMMA ShowsMore ==
  ASSUME text \in Seq(Stream!Chars), NEW p \in Nat, NEW k \in Nat, NEW q \in Nat, p <= k, k <= q,
         q <= Len(text), (p + 1)..k \subseteq Stream!Visible(text),
         \A n \in (k + 1)..q : n \notin Stream!Visible(text)
  PROVE  Shows(q) = Shows(p) \o SubSeq(text, p + 1, k)
<1> DEFINE at == {i \in Stream!Visible(text) : i <= p}
<1>1. Stream!Visible(text) \subseteq DOMAIN text /\ DOMAIN text = 1..Len(text) /\ Len(text) \in Nat
  BY LenProperties DEF Stream!Visible
<1>2. {i \in Stream!Visible(text) : i <= q} = at \cup (p + 1)..k
  <2>1. ASSUME NEW i \in Stream!Visible(text), i <= q  PROVE i \in at \cup (p + 1)..k
    <3>1. i \in Nat /\ i \notin (k + 1)..q  BY <1>1, <2>1
    <3> QED  BY <2>1, <3>1
  <2>2. ASSUME NEW i \in at \cup (p + 1)..k  PROVE i \in Stream!Visible(text) /\ i <= q
    <3>1. i \in Stream!Visible(text) /\ i \in Nat /\ (i <= p \/ i <= k)  BY <1>1
    <3> QED  BY <3>1
  <2> QED  BY <2>1, <2>2
<1>3. at \in SUBSET DOMAIN text /\ \A i \in at : i <= p  BY <1>1
<1> HIDE DEF at
<1>4. k <= Len(text)  BY <1>1
<1>5. Stream!Listed(text, at \cup (p + 1)..k) = Stream!Listed(text, at) \o SubSeq(text, p + 1, k)
  BY <1>3, <1>4, ListedRun
<1> QED  BY <1>2, <1>5 DEF Shows, at

(* So it goes on: what it holds, and what it has let out, stay right.      *)
LEMMA MovesOn ==
  ASSUME Stream!StreamInv, NEW k, NEW q, k \in Stream!Taken..q, q \in Stream!Taken..sent,
         (Stream!Taken + 1)..k \subseteq Stream!Visible(text),
         \A n \in (k + 1)..q : n \notin Stream!Visible(text),
         buf' = SubSeq(text, q + 1, sent), parts' = parts \o SubSeq(text, Stream!Taken + 1, k),
         UNCHANGED <<Stream!textVars, sent, deltas, response>>,
         outcome' \in {"open", "response", "error"}, feeding' \in BOOLEAN,
         inThink' = Stream!SpanOpen(text, q), inThink' \in BOOLEAN,
         \A m \in 1..q : Stream!Finds(text, IF inThink' THEN Stream!CloseTag ELSE Stream!OpenTag, m)
                           => m + Len(IF inThink' THEN Stream!CloseTag ELSE Stream!OpenTag) - 1 <= q
  PROVE  Stream!Types' /\ Stream!TagsWhole' /\ Stream!HeldInv'
           /\ deltas' \o parts' = Shows(Stream!Taken)'
<1> USE DEF Stream!StreamInv
<1>1. /\ sent \in Nat /\ Len(text) \in Nat /\ sent <= Len(text) /\ Stream!Taken \in Nat
      /\ Stream!Taken + Len(buf) = sent /\ Len(buf) \in Nat
  BY HeldIs
<1>2. PICK p \in Nat : p = Stream!Taken  BY <1>1
<1>3. k \in Nat /\ q \in Nat /\ p <= k /\ k <= q /\ q <= sent  BY <1>1, <1>2
<1>4. text \in Seq(Stream!Chars) /\ DOMAIN text = 1..Len(text)
        /\ \A i \in DOMAIN text : text[i] \in Stream!Chars
  BY LenProperties DEF Stream!Types
<1>5. SubSeq(text, q + 1, sent) \in Seq(Stream!Chars) /\ Len(SubSeq(text, q + 1, sent)) = sent - q
  <2>1. \A i \in (q + 1)..sent : text[i] \in Stream!Chars  BY <1>1, <1>3, <1>4
  <2>2. q + 1 \in Int /\ sent \in Int  BY <1>1, <1>3
  <2>3. /\ SubSeq(text, q + 1, sent) \in Seq(Stream!Chars)
        /\ Len(SubSeq(text, q + 1, sent)) = IF q + 1 <= sent THEN sent - (q + 1) + 1 ELSE 0
    BY <2>1, <2>2, SubSeqProperties
  <2> QED  BY <1>1, <1>3, <2>3
<1>6. SubSeq(text, p + 1, k) \in Seq(Stream!Chars)
  <2>1. \A i \in (p + 1)..k : text[i] \in Stream!Chars  BY <1>1, <1>3, <1>4
  <2>2. p + 1 \in Int /\ k \in Int  BY <1>3
  <2> QED  BY <2>1, <2>2, SubSeqProperties
<1>7. Stream!Types'
  <2>1. buf' \in Seq(Stream!Chars)  BY <1>5
  <2>2. parts' \in Seq(Stream!Chars)
    <3>1. parts \in Seq(Stream!Chars)  BY DEF Stream!Types
    <3> QED  BY <1>2, <1>6, <3>1, ConcatProperties
  <2> QED  BY <2>1, <2>2 DEF Stream!Types, Stream!textVars
<1>8. Stream!TagsWhole'  BY DEF Stream!TagsWhole, Stream!textVars, Stream!Finds
<1>9. Stream!Taken' = q  BY <1>1, <1>3, <1>5 DEF Stream!Taken
<1>10. Stream!HeldInv'
  <2>1. Len(buf)' <= sent' /\ buf' = SubSeq(text', Stream!Taken' + 1, sent')
    BY <1>1, <1>3, <1>5, <1>9 DEF Stream!textVars
  <2>2. inThink' = Stream!SpanOpen(text', Stream!Taken')  BY <1>9 DEF Stream!textVars
  <2>3. IF inThink' THEN Stream!Whole(Stream!CloseTag)' ELSE Stream!Whole(Stream!OpenTag)'
    <3>1. Stream!Whole(Stream!CloseTag)' <=> \A m \in 1..q : Stream!Finds(text, Stream!CloseTag, m)
            => m + Len(Stream!CloseTag) - 1 <= q
      BY <1>9 DEF Stream!Whole, Stream!textVars, Stream!CloseTag
    <3>2. Stream!Whole(Stream!OpenTag)' <=> \A m \in 1..q : Stream!Finds(text, Stream!OpenTag, m)
            => m + Len(Stream!OpenTag) - 1 <= q
      BY <1>9 DEF Stream!Whole, Stream!textVars, Stream!OpenTag
    <3> QED  BY <3>1, <3>2
  <2> QED  BY <2>1, <2>2, <2>3 DEF Stream!HeldInv
<1>11. deltas \o parts = Shows(p)  BY <1>2 DEF Stream!ShownInv, Shows
<1>12. Shows(q) = Shows(p) \o SubSeq(text, p + 1, k)
  <2>1. (p + 1)..k \subseteq Stream!Visible(text)
          /\ \A n \in (k + 1)..q : n \notin Stream!Visible(text)
    BY <1>2
  <2>2. q <= Len(text)  BY <1>1, <1>3
  <2> QED  BY <1>3, <1>4, <2>1, <2>2, ShowsMore
<1>13. deltas \o (parts \o SubSeq(text, p + 1, k)) = (deltas \o parts) \o SubSeq(text, p + 1, k)
  <2>1. PICK x \in Seq(Stream!Chars) : x = SubSeq(text, p + 1, k)  BY <1>6
  <2>2. deltas \in Seq(Stream!Chars) /\ parts \in Seq(Stream!Chars)  BY DEF Stream!Types
  <2>3. (deltas \o parts) \o x = deltas \o (parts \o x)  BY <2>2, ConcatAssociative
  <2> QED  BY <2>1, <2>3
<1>14. deltas' \o parts' = Shows(q)  BY <1>2, <1>11, <1>12, <1>13
<1>15. Shows(Stream!Taken)' = Shows(q)
  BY <1>9 DEF Shows, Stream!textVars, Stream!Visible, Stream!SpanOpen, Stream!Finds
<1> QED  BY <1>7, <1>8, <1>10, <1>14, <1>15

(* The longest that is kept is no longer than the buffer.                  *)
LEMMA LongestIs ==
  ASSUME buf \in Seq(Stream!Chars)
  PROVE  /\ Stream!Longest(Stream!Kept(buf)) \in 0..3
         /\ Stream!Longest(Stream!Kept(buf)) <= Len(buf)
         /\ \A r \in Stream!Kept(buf) : r <= Stream!Longest(Stream!Kept(buf))
<1> DEFINE l == Stream!Longest(Stream!Kept(buf))
           b == Len(buf)
<1>0. b \in Nat  BY LenProperties
<1>1. Stream!Kept(buf) \in SUBSET (1..3) /\ \A r \in Stream!Kept(buf) : r <= b
  BY <1>0, TagsAre DEF Stream!Kept
<1>2. \E n \in Stream!Kept(buf) \cup {0} : \A m \in Stream!Kept(buf) : m <= n
  <2>1. CASE 3 \in Stream!Kept(buf)  BY <1>1, <2>1
  <2>2. CASE 3 \notin Stream!Kept(buf) /\ 2 \in Stream!Kept(buf)
    <3>1. \A m \in Stream!Kept(buf) : m <= 2  BY <1>1, <2>2
    <3> QED  BY <2>2, <3>1
  <2>3. CASE 3 \notin Stream!Kept(buf) /\ 2 \notin Stream!Kept(buf) /\ 1 \in Stream!Kept(buf)
    <3>1. \A m \in Stream!Kept(buf) : m <= 1  BY <1>1, <2>3
    <3> QED  BY <2>3, <3>1
  <2>4. CASE 3 \notin Stream!Kept(buf) /\ 2 \notin Stream!Kept(buf) /\ 1 \notin Stream!Kept(buf)
    <3>1. \A m \in Stream!Kept(buf) : m <= 0  BY <1>1, <2>4
    <3> QED  BY <3>1
  <2> QED  BY <2>1, <2>2, <2>3, <2>4
<1>3. l \in Stream!Kept(buf) \cup {0} /\ \A r \in Stream!Kept(buf) : r <= l
  BY <1>2 DEF Stream!Longest
<1> QED  BY <1>0, <1>1, <1>3

(* A step inside a span: what the filter has dealt with is dropped.        *)
LEMMA InsideMoves ==
  ASSUME Stream!StreamInv, Stream!StepInside
  PROVE  Stream!StreamInv'
<1> USE DEF Stream!StreamInv
<1>1. /\ sent \in Nat /\ Len(text) \in Nat /\ sent <= Len(text) /\ Stream!Taken \in Nat
      /\ Stream!Taken + Len(buf) = sent /\ Len(buf) \in Nat
  BY HeldIs
<1>2. PICK p \in Nat : p = Stream!Taken  BY <1>1
<1>3. PICK b \in Nat : b = Len(buf)  BY <1>1
<1>4. sent = p + b  BY <1>1, <1>2, <1>3
<1>5. /\ feeding /\ inThink /\ outcome = "open" /\ outcome' = "open"
      /\ UNCHANGED <<Stream!textVars, sent, parts, deltas, response, outcome>>
      /\ parts \in Seq(Stream!Chars) /\ text \in Seq(Stream!Chars) /\ buf \in Seq(Stream!Chars)
  BY DEF Stream!StepInside, Stream!ShownInv, Stream!Types
<1>6. Stream!SpanOpen(text, p) /\ \A m \in 1..p : Stream!Finds(text, Stream!CloseTag, m)
        => m + 3 <= p
  <2>1. Stream!Whole(Stream!CloseTag) /\ Stream!SpanOpen(text, p) /\ Len(Stream!CloseTag) = 4
    BY <1>2, <1>5, TagsAre DEF Stream!HeldInv
  <2> QED  BY <1>2, <2>1 DEF Stream!Whole
<1>7. \A n \in 1..b : Stream!Finds(buf, Stream!CloseTag, n)
        <=> Stream!Finds(text, Stream!CloseTag, p + n) /\ n + 3 <= b
  BY <1>2, <1>3, HeldFinds
<1>8. PICK close : close = Stream!Find(buf, Stream!CloseTag)  OBVIOUS
<1>9. parts' = parts \o SubSeq(text, p + 1, p)
  <2>1. SubSeq(text, p + 1, p) = <<>>
    <3>1. p + 1 \in Int /\ p \in Int /\ p < p + 1  OBVIOUS
    <3> QED  BY <3>1, SubSeqEmpty
  <2> QED  BY <1>5, <2>1
<1>10. CASE close = 0
  <2> DEFINE l == Stream!Longest(Stream!Kept(buf))
  <2>1. \A n \in 1..b : ~Stream!Finds(buf, Stream!CloseTag, n)
    <3>1. \/ close = 0 /\ \A n : ~Stream!Finds(buf, Stream!CloseTag, n)
          \/ close \in 1..Len(buf)
      BY <1>5, <1>8, FindIs
    <3>2. 0 \notin 1..Len(buf)  BY <1>1
    <3> QED  BY <1>10, <3>1, <3>2
  <2>2. l \in 0..3 /\ l <= b /\ \A r \in Stream!Kept(buf) : r <= l
    BY <1>3, <1>5, LongestIs
  <2> HIDE DEF l
  <2>3. PICK q \in Nat : q = p + b - l  BY <2>2
  <2>4. p <= q /\ q <= sent /\ p + (b - l + 1) = q + 1 /\ sent - q = l  BY <1>4, <2>2, <2>3
  <2>5. buf' = SubSeq(text, q + 1, sent)
    <3>1. buf' = Stream!From(buf, b - l + 1)  BY <1>3, <1>8, <1>10 DEF Stream!StepInside, l
    <3>2. b - l + 1 \in 1..Len(buf) + 1  BY <1>3, <2>2
    <3>3. Stream!From(buf, b - l + 1) = SubSeq(text, p + (b - l + 1), sent)  BY <1>2, <3>2, HeldFrom
    <3> QED  BY <2>4, <3>1, <3>3
  <2>6. ASSUME NEW m \in (p + 1)..q, Stream!Finds(text, Stream!CloseTag, m)  PROVE FALSE
    <3>1. PICK n \in 1..b : m = p + n  
      <4>1. m - p \in 1..b /\ m = p + (m - p)  BY <1>4, <2>4
      <4> QED  BY <4>1
    <3>2. ~(n + 3 <= b)  BY <1>7, <2>1, <2>6, <3>1
    <3>3. PICK r \in 1..3 : r = b - n + 1 /\ r <= b
      <4>1. b - n + 1 \in 1..3 /\ b - n + 1 <= b  BY <3>2
      <4> QED  BY <4>1
    <3>4. b - r + 1 = n  BY <3>3
    <3>5. Stream!IsPrefix(Stream!From(buf, n), Stream!CloseTag)
      <4>1. n \in 1..Len(buf) + 1  BY <1>3
      <4>2. PICK x : x = Stream!From(buf, n)  OBVIOUS
      <4>3. /\ x \in Seq(Stream!Chars) /\ Len(x) = Len(buf) - n + 1
            /\ \A i \in 1..Len(buf) - n + 1 : x[i] = buf[n + i - 1]
        BY <1>5, <4>1, <4>2, FromIs
      <4>4. Len(x) = r  BY <1>3, <3>3, <4>3
      <4>5. /\ text[m] = "<" /\ text[m + 1] = "/" /\ text[m + 2] = "t" /\ text[m + 3] = ">"
        BY <1>5, <2>6, TagIs
      <4>6. ASSUME NEW i \in 1..r  PROVE x[i] = text[m + i - 1]
        <5>1. n + i - 1 \in 1..b /\ p + (n + i - 1) = m + i - 1  BY <3>1, <3>3
        <5>2. \A j \in 1..b : buf[j] = text[p + j]  BY <1>2, <1>3, HeldIs
        <5>3. i \in 1..Len(buf) - n + 1  BY <1>3, <3>3
        <5> QED  BY <4>3, <5>1, <5>2, <5>3
      <4>7. ASSUME NEW i \in 1..r  PROVE x[i] = Stream!CloseTag[i]
        <5>1. i = 1 \/ i = 2 \/ i = 3  OBVIOUS
        <5>2. CASE i = 1
          <6>1. m + i - 1 = m  BY <3>1, <5>2
          <6> QED  BY <4>5, <4>6, <5>2, <6>1, TagsAre
        <5>3. CASE i = 2
          <6>1. m + i - 1 = m + 1  BY <3>1, <5>3
          <6> QED  BY <4>5, <4>6, <5>3, <6>1, TagsAre
        <5>4. CASE i = 3
          <6>1. m + i - 1 = m + 2  BY <3>1, <5>4
          <6> QED  BY <4>5, <4>6, <5>4, <6>1, TagsAre
        <5> QED  BY <5>1, <5>2, <5>3, <5>4
      <4>8. Begins(x, Stream!CloseTag)
        <5>1. Len(Stream!CloseTag) = 4  BY TagsAre
        <5> QED  BY <4>4, <4>7, <5>1 DEF Begins
      <4> QED  BY <4>2, <4>3, <4>8, PrefixIs, TagsAre
    <3>6. r \in Stream!Kept(buf)
      <4>1. Len(Stream!CloseTag) - 1 = 3  BY TagsAre
      <4> QED  BY <1>3, <3>3, <3>4, <3>5, <4>1 DEF Stream!Kept
    <3>7. r <= l  BY <2>2, <3>6
    <3> QED  BY <2>2, <2>3, <3>1, <3>3, <3>7
  <2>7. /\ \A n \in (p + 1)..(q + 4) : n \notin Stream!Visible(text)
        /\ Stream!SpanOpen(text, q)
        /\ \A m \in 1..q : Stream!Finds(text, Stream!CloseTag, m) => m + 3 <= q
    <3>1. \A m \in (p + 1)..q : ~Stream!Finds(text, Stream!CloseTag, m)  BY <2>6
    <3> QED  BY <1>5, <1>6, <2>4, <3>1, HiddenRun
  <2>8. feeding' = FALSE /\ inThink' = TRUE
    BY <1>5, <1>8, <1>10 DEF Stream!StepInside, Stream!Types
  <2>9. Stream!Types' /\ Stream!TagsWhole' /\ Stream!HeldInv'
          /\ deltas' \o parts' = Shows(Stream!Taken)'
    <3>1. p \in Stream!Taken..q /\ q \in Stream!Taken..sent  BY <1>2, <1>4, <2>4
    <3>2. /\ (Stream!Taken + 1)..p \subseteq Stream!Visible(text)
          /\ \A n \in (p + 1)..q : n \notin Stream!Visible(text)
      <4>1. \A n \in (p + 1)..q : n \in (p + 1)..(q + 4)  OBVIOUS
      <4>2. (p + 1)..p = {}  OBVIOUS
      <4> QED  BY <1>2, <2>7, <4>1, <4>2
    <3>3. parts' = parts \o SubSeq(text, Stream!Taken + 1, p)  BY <1>2, <1>9
    <3>4. inThink' = Stream!SpanOpen(text, q) /\ feeding' \in BOOLEAN /\ inThink' \in BOOLEAN
      <4>1. Stream!SpanOpen(text, q) \in BOOLEAN  BY DEF Stream!SpanOpen
      <4> QED  BY <2>7, <2>8, <4>1
    <3>5. \A m \in 1..q :
          Stream!Finds(text, IF inThink' THEN Stream!CloseTag ELSE Stream!OpenTag, m)
            => m + Len(IF inThink' THEN Stream!CloseTag ELSE Stream!OpenTag) - 1 <= q
      <4>1. (IF inThink' THEN Stream!CloseTag ELSE Stream!OpenTag) = Stream!CloseTag
              /\ Len(Stream!CloseTag) = 4
        BY <2>8, TagsAre
      <4>2. \A m \in 1..q : m + 4 - 1 = m + 3  OBVIOUS
      <4> QED  BY <2>7, <4>1, <4>2
    <3> QED  BY <1>5, <2>5, <3>1, <3>2, <3>3, <3>4, <3>5, MovesOn
  <2>10. Stream!WaitInv'
    <3>1. Len(buf') < 4
      <4>1. sent \in 0..Len(text) /\ q + 1 \in Int /\ 1 <= q + 1 /\ q + 1 <= sent + 1
              /\ sent \in Int
        BY <1>1, <2>4
      <4>2. Len(SubSeq(text, q + 1, sent)) = sent - (q + 1) + 1  BY <1>1, <1>5, <4>1, PieceIs
      <4> QED  BY <2>2, <2>4, <2>5, <4>1, <4>2
    <3>2. Len(Stream!CloseTag) = 4  BY TagsAre
    <3> QED  BY <2>8, <3>1, <3>2 DEF Stream!WaitInv, Stream!CloseTag
  <2>11. Stream!ShownInv'  BY <1>5, <2>9 DEF Stream!ShownInv, Shows
  <2> QED  BY <2>9, <2>10, <2>11 DEF Stream!Parameters
<1>11. CASE close # 0
  <2>1. close \in 1..b /\ Stream!Finds(buf, Stream!CloseTag, close)
          /\ \A n : Stream!Finds(buf, Stream!CloseTag, n) => close <= n
    BY <1>3, <1>5, <1>8, <1>11, FindIs
  <2>2. Stream!Finds(text, Stream!CloseTag, p + close) /\ close + 3 <= b  BY <1>7, <2>1
  <2>3. PICK k \in Nat : k = p + close  BY <2>1
  <2>4. PICK q \in Nat : q = k + 3  OBVIOUS
  <2>5. p < k /\ p <= q /\ q <= sent /\ p + (close + 4) = q + 1  BY <1>4, <2>1, <2>2, <2>3, <2>4
  <2>6. buf' = SubSeq(text, q + 1, sent)
    <3>1. buf' = Stream!From(buf, close + 4)
      <4>1. Len(Stream!CloseTag) = 4  BY TagsAre
      <4> QED  BY <1>8, <1>11, <4>1 DEF Stream!StepInside
    <3>2. close + 4 \in 1..Len(buf) + 1  BY <1>3, <2>1, <2>2
    <3>3. Stream!From(buf, close + 4) = SubSeq(text, p + (close + 4), sent)  BY <1>2, <3>2, HeldFrom
    <3> QED  BY <2>5, <3>1, <3>3
  <2>7. ASSUME NEW m \in (p + 1)..(k - 1), Stream!Finds(text, Stream!CloseTag, m)  PROVE FALSE
    <3>1. PICK n \in 1..b : m = p + n /\ n < close
      <4>1. m - p \in 1..b /\ m = p + (m - p) /\ m - p < close  BY <2>1, <2>3
      <4> QED  BY <4>1
    <3>2. n + 3 <= b  BY <2>1, <2>2, <3>1
    <3>3. Stream!Finds(buf, Stream!CloseTag, n)  BY <1>7, <2>7, <3>1, <3>2
    <3> QED  BY <2>1, <3>1, <3>3
  <2>8. /\ \A n \in (p + 1)..q : n \notin Stream!Visible(text)
        /\ ~Stream!SpanOpen(text, q)
        /\ \A m \in 1..q : Stream!Finds(text, Stream!OpenTag, m) => m + 2 <= q
    <3>1. \A m \in (p + 1)..(k - 1) : ~Stream!Finds(text, Stream!CloseTag, m)  BY <2>7
    <3>2. Stream!Finds(text, Stream!CloseTag, k)  BY <2>2, <2>3
    <3> QED  BY <1>5, <1>6, <2>4, <2>5, <3>1, <3>2, SpanCloses
  <2>9. feeding' = TRUE /\ inThink' = FALSE
    BY <1>5, <1>8, <1>11 DEF Stream!StepInside, Stream!Types
  <2>10. Stream!Types' /\ Stream!TagsWhole' /\ Stream!HeldInv'
           /\ deltas' \o parts' = Shows(Stream!Taken)'
    <3>1. p \in Stream!Taken..q /\ q \in Stream!Taken..sent  BY <1>2, <1>4, <2>5
    <3>2. /\ (Stream!Taken + 1)..p \subseteq Stream!Visible(text)
          /\ \A n \in (p + 1)..q : n \notin Stream!Visible(text)
      <4>1. (p + 1)..p = {}  OBVIOUS
      <4> QED  BY <1>2, <2>8, <4>1
    <3>3. parts' = parts \o SubSeq(text, Stream!Taken + 1, p)  BY <1>2, <1>9
    <3>4. inThink' = Stream!SpanOpen(text, q) /\ feeding' \in BOOLEAN /\ inThink' \in BOOLEAN
      <4>1. Stream!SpanOpen(text, q) \in BOOLEAN  BY DEF Stream!SpanOpen
      <4> QED  BY <2>8, <2>9, <4>1
    <3>5. \A m \in 1..q :
          Stream!Finds(text, IF inThink' THEN Stream!CloseTag ELSE Stream!OpenTag, m)
            => m + Len(IF inThink' THEN Stream!CloseTag ELSE Stream!OpenTag) - 1 <= q
      <4>1. (IF inThink' THEN Stream!CloseTag ELSE Stream!OpenTag) = Stream!OpenTag
              /\ Len(Stream!OpenTag) = 3
        BY <2>9, TagsAre
      <4>2. \A m \in 1..q : m + 3 - 1 = m + 2  OBVIOUS
      <4> QED  BY <2>8, <4>1, <4>2
    <3> QED  BY <1>5, <2>6, <3>1, <3>2, <3>3, <3>4, <3>5, MovesOn
  <2>11. Stream!WaitInv'  BY <2>9 DEF Stream!WaitInv
  <2>12. Stream!ShownInv'  BY <1>5, <2>10 DEF Stream!ShownInv, Shows
  <2> QED  BY <2>10, <2>11, <2>12 DEF Stream!Parameters
<1> QED  BY <1>10, <1>11

(* Outside a span it lets out everything up to the next tag.               *)
LEMMA OutsideIs ==
  ASSUME Stream!StreamInv, ~inThink, NEW p, p = Stream!Taken
  PROVE  ~Stream!SpanOpen(text, p) /\ \A m \in 1..p : Stream!Finds(text, Stream!OpenTag, m)
           => m + 2 <= p
<1>1. Stream!Whole(Stream!OpenTag) /\ ~Stream!SpanOpen(text, p) /\ Len(Stream!OpenTag) = 3
  BY TagsAre DEF Stream!StreamInv, Stream!HeldInv
<1>2. p \in Nat  BY HeldIs DEF Stream!StreamInv
<1>3. \A m \in 1..p : m + 3 - 1 = m + 2  BY <1>2
<1> QED  BY <1>1, <1>2, <1>3 DEF Stream!Whole

(* A step outside every span that lets out what it goes past.              *)
LEMMA OutsideStays ==
  ASSUME Stream!StreamInv, ~inThink, NEW q \in Stream!Taken..sent,
         \A m \in (Stream!Taken + 1)..q : ~Stream!Finds(text, Stream!OpenTag, m),
         buf' = SubSeq(text, q + 1, sent), parts' = parts \o SubSeq(text, Stream!Taken + 1, q),
         UNCHANGED <<Stream!textVars, sent, inThink, deltas, response, outcome>>,
         feeding' \in BOOLEAN
  PROVE  Stream!Types' /\ Stream!TagsWhole' /\ Stream!HeldInv'
           /\ deltas' \o parts' = Shows(Stream!Taken)'
<1> USE DEF Stream!StreamInv
<1>1. /\ sent \in Nat /\ Len(text) \in Nat /\ sent <= Len(text) /\ Stream!Taken \in Nat
      /\ Stream!Taken + Len(buf) = sent /\ Len(buf) \in Nat
  BY HeldIs
<1>2. PICK p \in Nat : p = Stream!Taken  BY <1>1
<1>3. q \in Nat /\ p <= q /\ q <= sent  BY <1>1, <1>2
<1>4. text \in Seq(Stream!Chars) /\ inThink' = FALSE /\ outcome' \in {"open", "response", "error"}
  BY DEF Stream!Types
<1>5. ~Stream!SpanOpen(text, p) /\ \A m \in 1..p : Stream!Finds(text, Stream!OpenTag, m)
        => m + 2 <= p
  BY <1>2, OutsideIs
<1>6. /\ (p + 1)..q \subseteq Stream!Visible(text) /\ ~Stream!SpanOpen(text, q)
      /\ \A m \in 1..q : Stream!Finds(text, Stream!OpenTag, m) => m + 2 <= q
  <2>1. \A m \in (p + 1)..q : ~Stream!Finds(text, Stream!OpenTag, m)  BY <1>2
  <2>2. q <= Len(text)  BY <1>1, <1>3
  <2> QED  BY <1>3, <1>4, <1>5, <2>1, <2>2, VisibleRun
<1>7. q \in Stream!Taken..q  BY <1>2, <1>3
<1>8. /\ (Stream!Taken + 1)..q \subseteq Stream!Visible(text)
      /\ \A n \in (q + 1)..q : n \notin Stream!Visible(text)
  <2>1. (q + 1)..q = {}  BY <1>3
  <2> QED  BY <1>2, <1>6, <2>1
<1>9. inThink' = Stream!SpanOpen(text, q) /\ inThink' \in BOOLEAN
  <2>1. Stream!SpanOpen(text, q) \in BOOLEAN  BY DEF Stream!SpanOpen
  <2> QED  BY <1>4, <1>6, <2>1
<1>10. \A m \in 1..q :
      Stream!Finds(text, IF inThink' THEN Stream!CloseTag ELSE Stream!OpenTag, m)
        => m + Len(IF inThink' THEN Stream!CloseTag ELSE Stream!OpenTag) - 1 <= q
  <2>1. (IF inThink' THEN Stream!CloseTag ELSE Stream!OpenTag) = Stream!OpenTag
          /\ Len(Stream!OpenTag) = 3
    BY <1>4, TagsAre
  <2>2. \A m \in 1..q : m + 3 - 1 = m + 2  BY <1>3
  <2> QED  BY <1>6, <2>1, <2>2
<1> QED  BY <1>4, <1>7, <1>8, <1>9, <1>10, MovesOn

(* What stands before the next "<" it holds, and what is left from there.  *)
Splits(lt, before, rest, p, k) ==
  /\ k \in Nat /\ p <= k /\ k <= sent /\ (lt = 0 <=> k = sent)
  /\ lt # 0 => lt \in 1..Len(buf) /\ p + lt = k + 1
  /\ before = SubSeq(text, p + 1, k) /\ rest = SubSeq(text, k + 1, sent)
  /\ \A m \in (p + 1)..k : ~Stream!Finds(text, Stream!OpenTag, m)
  /\ rest \in Seq(Stream!Chars) /\ Len(rest) = sent - k
  /\ \A i \in 1..(sent - k) : rest[i] = text[k + i]
  /\ k < sent => text[k + 1] = "<"

(* The buffer, cut at its first "<".                                       *)
LEMMA OutsideSplits ==
  ASSUME Stream!StreamInv, ~inThink, buf # <<>>,
         NEW lt, lt = Stream!Find(buf, <<"<">>),
         NEW before, before = IF lt = 0 THEN buf ELSE SubSeq(buf, 1, lt - 1),
         NEW rest, rest = IF lt = 0 THEN <<>> ELSE Stream!From(buf, lt),
         NEW p \in Nat, p = Stream!Taken, NEW k, k = IF lt = 0 THEN sent ELSE p + lt - 1
  PROVE  Splits(lt, before, rest, p, k)
<1> USE DEF Stream!StreamInv
<1>1. /\ sent \in Nat /\ Len(text) \in Nat /\ sent <= Len(text) /\ Stream!Taken \in Nat
      /\ Stream!Taken + Len(buf) = sent /\ Len(buf) \in Nat
  BY HeldIs
<1>2. PICK b \in Nat : b = Len(buf)  BY <1>1
<1>3. sent = p + b  BY <1>1, <1>2
<1>4. text \in Seq(Stream!Chars) /\ buf \in Seq(Stream!Chars)  BY DEF Stream!Types
<1>5. \A n \in 1..b : Stream!Finds(buf, <<"<">>, n) <=> text[p + n] = "<"  BY <1>2, HeldFinds
<1>6. \/ lt = 0 /\ \A n \in 1..b : text[p + n] # "<"
      \/ /\ lt \in 1..b /\ text[p + lt] = "<"
         /\ \A n \in 1..b : text[p + n] = "<" => lt <= n
  <2>1. \/ lt = 0 /\ \A n : ~Stream!Finds(buf, <<"<">>, n)
        \/ /\ lt \in 1..b /\ Stream!Finds(buf, <<"<">>, lt)
           /\ \A n : Stream!Finds(buf, <<"<">>, n) => lt <= n
    BY <1>2, <1>4, FindIs
  <2>2. CASE lt = 0 /\ \A n : ~Stream!Finds(buf, <<"<">>, n)  BY <1>5, <2>2
  <2>3. CASE /\ lt \in 1..b /\ Stream!Finds(buf, <<"<">>, lt)
             /\ \A n : Stream!Finds(buf, <<"<">>, n) => lt <= n
    BY <1>5, <2>3
  <2> QED  BY <2>1, <2>2, <2>3
<1>7. /\ k \in Nat /\ p <= k /\ k <= sent /\ (lt = 0 <=> k = sent)
      /\ lt # 0 => lt \in 1..b /\ p + lt = k + 1
  <2>1. CASE lt = 0  BY <1>1, <1>3, <2>1
  <2>2. CASE lt # 0
    <3>1. lt \in 1..b /\ k = p + lt - 1  BY <1>6, <2>2
    <3> QED  BY <1>3, <2>2, <3>1
  <2> QED  BY <2>1, <2>2
<1>8. k < sent => text[k + 1] = "<"  BY <1>6, <1>7
<1>9. \A m \in (p + 1)..k : ~Stream!Finds(text, Stream!OpenTag, m)
  <2>1. ASSUME NEW m \in (p + 1)..k, Stream!Finds(text, Stream!OpenTag, m)  PROVE FALSE
    <3>1. m \in Int /\ m - p \in 1..b /\ p + (m - p) = m  BY <1>3, <1>7
    <3>2. text[m] = "<"
      <4>1. text \in Seq(Stream!Chars) /\ m \in Int  BY <1>4, <3>1
      <4>2. Stream!Finds(text, Stream!OpenTag, m) => text[m] = "<"  BY ONLY <4>1, TagIs
      <4> QED  BY <2>1, <4>2
    <3>3. lt # 0 /\ lt <= m - p
      <4>1. PICK n \in 1..b : n = m - p /\ p + n = m  BY <3>1
      <4>2. text[p + n] = "<" /\ n # 0  BY <3>2, <4>1
      <4>3. lt \in 1..b /\ lt <= n  BY <1>6, <4>2
      <4> QED  BY <4>1, <4>3
    <3> QED  BY <1>6, <1>7, <3>1, <3>3
  <2> QED  BY <2>1
<1>10. before = SubSeq(text, p + 1, k) /\ rest = SubSeq(text, k + 1, sent)
  <2>1. CASE lt = 0
    <3>1. k = sent /\ before = buf /\ rest = <<>>  BY <1>7, <2>1
    <3>2. buf = SubSeq(text, p + 1, sent)  BY DEF Stream!HeldInv
    <3>3. SubSeq(text, sent + 1, sent) = <<>>
      <4>1. sent + 1 \in Int /\ sent \in Int /\ sent < sent + 1  BY <1>1
      <4> QED  BY <4>1, SubSeqEmpty
    <3> QED  BY <3>1, <3>2, <3>3
  <2>2. CASE lt # 0
    <3>1. before = SubSeq(buf, 1, lt - 1) /\ rest = Stream!From(buf, lt)  BY <2>2
    <3>2. lt \in 1..Len(buf) + 1 /\ p + lt - 1 = k /\ p + lt = k + 1  BY <1>2, <1>7, <2>2
    <3>3. /\ Stream!From(buf, lt) = SubSeq(text, p + lt, sent)
          /\ SubSeq(buf, 1, lt - 1) = SubSeq(text, p + 1, p + lt - 1)
      BY <3>2, HeldFrom
    <3> QED  BY <3>1, <3>2, <3>3
  <2> QED  BY <2>1, <2>2
<1>11. /\ rest \in Seq(Stream!Chars) /\ Len(rest) = sent - k
       /\ \A i \in 1..(sent - k) : rest[i] = text[k + i]
  <2>1. k + 1 \in Int /\ sent \in Int /\ 1 <= k + 1 /\ sent <= Len(text) /\ k + 1 <= sent + 1
    BY <1>1, <1>7
  <2>2. PICK r : r = rest  OBVIOUS
  <2>3. PICK n \in Nat : n = sent /\ k \in Nat /\ k <= n  BY <1>1, <1>7
  <2>4. PICK a \in Nat : a = k + 1  BY <1>7
  <2>5. r = SubSeq(text, a, n)  BY <1>10, <2>2, <2>3, <2>4
  <2>6. text \in Seq(Stream!Chars) /\ a \in Int /\ n \in Int /\ 1 <= a /\ n <= Len(text)
          /\ a <= n + 1
    BY <1>4, <2>1, <2>3, <2>4
  <2>7. /\ r \in Seq(Stream!Chars) /\ Len(r) = n - a + 1
        /\ \A i \in 1..(n - a + 1) : r[i] = text[a + i - 1]
    BY ONLY <2>5, <2>6, PieceIs
  <2>8. n - a + 1 = n - k /\ \A i \in 1..(n - k) : a + i - 1 = k + i
    BY ONLY <2>3, <2>4, k \in Nat, n \in Nat
  <2>9. /\ r \in Seq(Stream!Chars) /\ Len(r) = n - k
        /\ \A i \in 1..(n - k) : r[i] = text[k + i]
    BY ONLY <2>7, <2>8
  <2> QED  BY <2>2, <2>3, <2>9
<1> QED  BY <1>2, <1>7, <1>8, <1>9, <1>10, <1>11 DEF Splits

(* A step outside every span, whichever of the four it is.                 *)
LEMMA OutsideMoves ==
  ASSUME Stream!StreamInv, Stream!StepOutside
  PROVE  Stream!StreamInv'
<1> USE DEF Stream!StreamInv
<1>1. /\ sent \in Nat /\ Len(text) \in Nat /\ sent <= Len(text) /\ Stream!Taken \in Nat
      /\ Stream!Taken + Len(buf) = sent /\ Len(buf) \in Nat
  BY HeldIs
<1>2. PICK p \in Nat : p = Stream!Taken  BY <1>1
<1>3. PICK lt : lt = Stream!Find(buf, <<"<">>)  OBVIOUS
<1>4. PICK before : before = IF lt = 0 THEN buf ELSE SubSeq(buf, 1, lt - 1)  OBVIOUS
<1>5. PICK rest : rest = IF lt = 0 THEN <<>> ELSE Stream!From(buf, lt)  OBVIOUS
<1>6. PICK k : k = IF lt = 0 THEN sent ELSE p + lt - 1  OBVIOUS
<1>7. /\ feeding /\ ~inThink /\ buf # <<>>
      /\ UNCHANGED <<Stream!textVars, sent, deltas, response, outcome>>
  BY DEF Stream!StepOutside
<1>8. /\ k \in Nat /\ p <= k /\ k <= sent /\ (lt = 0 <=> k = sent)
      /\ lt # 0 => lt \in 1..Len(buf) /\ p + lt = k + 1
      /\ before = SubSeq(text, p + 1, k) /\ rest = SubSeq(text, k + 1, sent)
      /\ \A m \in (p + 1)..k : ~Stream!Finds(text, Stream!OpenTag, m)
      /\ rest \in Seq(Stream!Chars) /\ Len(rest) = sent - k
      /\ \A i \in 1..(sent - k) : rest[i] = text[k + i]
      /\ k < sent => text[k + 1] = "<"
  <2>1. Stream!StreamInv  OBVIOUS
  <2> HIDE DEF Stream!StreamInv
  <2>2. ~inThink /\ buf # <<>> /\ p = Stream!Taken  BY <1>2, <1>7
  <2>3. Splits(lt, before, rest, p, k)
    BY <1>3, <1>4, <1>5, <1>6, <2>1, <2>2, OutsideSplits
  <2> QED  BY <2>3 DEF Splits
<1>9. \/ /\ Len(rest) < 3 /\ Stream!IsPrefix(rest, Stream!OpenTag)
         /\ parts' = parts \o before /\ buf' = rest /\ feeding' = FALSE /\ inThink' = inThink
      \/ /\ Len(rest) < 3 /\ ~Stream!IsPrefix(rest, Stream!OpenTag)
         /\ parts' = parts \o before \o rest /\ buf' = <<>> /\ feeding' = FALSE
         /\ inThink' = inThink
      \/ /\ Stream!IsPrefix(Stream!OpenTag, rest)
         /\ parts' = parts \o before /\ buf' = Stream!From(rest, 4) /\ inThink' = TRUE
         /\ feeding' = feeding
      \/ /\ Len(rest) >= 3 /\ ~Stream!IsPrefix(Stream!OpenTag, rest)
         /\ parts' = parts \o before \o <<Head(rest)>> /\ buf' = Tail(rest)
         /\ inThink' = inThink /\ feeding' = feeding
  <2>1. Len(Stream!OpenTag) = 3 /\ 3 + 1 = 4  BY TagsAre
  <2> QED  BY <1>3, <1>4, <1>5, <2>1 DEF Stream!StepOutside, Stream!StartsWith
<1>10. /\ text \in Seq(Stream!Chars) /\ parts \in Seq(Stream!Chars) /\ feeding = TRUE
       /\ inThink = FALSE
       /\ outcome = "open"
  BY <1>7 DEF Stream!Types, Stream!ShownInv
<1>11. before \in Seq(Stream!Chars) /\ Len(before) = k - p
         /\ \A i \in 1..(k - p) : before[i] = text[p + i]
  <2>1. p + 1 \in Int /\ k \in Int /\ 1 <= p + 1 /\ k <= Len(text) /\ p + 1 <= k + 1
    BY <1>1, <1>8
  <2>2. /\ before \in Seq(Stream!Chars) /\ Len(before) = k - (p + 1) + 1
        /\ \A i \in 1..(k - (p + 1) + 1) : before[i] = text[(p + 1) + i - 1]
    BY <1>8, <1>10, <2>1, PieceIs
  <2>3. k - (p + 1) + 1 = k - p /\ \A i \in 1..(k - p) : (p + 1) + i - 1 = p + i  BY <1>8
  <2> QED  BY <2>2, <2>3
<1>17. rest \in Seq(Stream!Chars) /\ Len(rest) = sent - k  BY <1>8
<1>18. before \in Seq(Stream!Chars) /\ Len(before) = k - p  BY <1>11
<1>12. Stream!IsPrefix(Stream!OpenTag, rest)
         <=> Stream!Finds(text, Stream!OpenTag, k + 1) /\ k + 3 <= sent
  <2>1. Stream!IsPrefix(Stream!OpenTag, rest) <=> Begins(Stream!OpenTag, rest)
    BY <1>8, TagsAre, PrefixIs
  <2>2. Begins(Stream!OpenTag, rest)
          <=> 3 <= sent - k /\ \A i \in 1..3 : Stream!OpenTag[i] = rest[i]
    BY <1>8, TagsAre DEF Begins
  <2>3. 1..3 = {1, 2, 3}  OBVIOUS
  <2>4. 3 <= sent - k <=> k + 3 <= sent  BY <1>1, <1>8
  <2>5. ASSUME k + 3 <= sent
        PROVE rest[1] = text[k + 1] /\ rest[2] = text[k + 2] /\ rest[3] = text[k + 3]
    <3>1. 1 \in 1..(sent - k) /\ 2 \in 1..(sent - k) /\ 3 \in 1..(sent - k)  BY <1>1, <1>8, <2>5
    <3> QED  BY <1>8, <3>1
  <2>6. ASSUME k + 3 <= sent
        PROVE  Stream!Finds(text, Stream!OpenTag, k + 1) <=>
                 text[k + 1] = "<" /\ text[k + 2] = "t" /\ text[k + 3] = ">"
    <3>1. /\ k + 1 \in Int /\ k + 1 \in 1..Len(text) /\ (k + 1) + 2 <= Len(text)
          /\ (k + 1) + 1 = k + 2 /\ (k + 1) + 2 = k + 3
      BY <1>1, <1>8, <2>6
    <3>2. Stream!Finds(text, Stream!OpenTag, k + 1) <=>
            /\ k + 1 \in 1..Len(text) /\ (k + 1) + 2 <= Len(text)
            /\ text[k + 1] = "<" /\ text[(k + 1) + 1] = "t" /\ text[(k + 1) + 2] = ">"
      BY <1>10, <3>1, TagIs
    <3> QED  BY <3>1, <3>2
  <2> QED  BY <2>1, <2>2, <2>3, <2>4, <2>5, <2>6, TagsAre
<1>13. CASE /\ Len(rest) < 3 /\ Stream!IsPrefix(rest, Stream!OpenTag)
            /\ parts' = parts \o before /\ buf' = rest /\ feeding' = FALSE /\ inThink' = inThink
  <2>1. Stream!Types' /\ Stream!TagsWhole' /\ Stream!HeldInv'
          /\ deltas' \o parts' = Shows(Stream!Taken)'
    <3>1. k \in Stream!Taken..sent  BY <1>1, <1>2, <1>8
    <3>2. buf' = SubSeq(text, k + 1, sent) /\ parts' = parts \o SubSeq(text, Stream!Taken + 1, k)
      BY <1>2, <1>8, <1>13
    <3>3. \A m \in (Stream!Taken + 1)..k : ~Stream!Finds(text, Stream!OpenTag, m)  BY <1>2, <1>8
    <3> QED  BY <1>7, <1>13, <3>1, <3>2, <3>3, OutsideStays
  <2>2. Stream!WaitInv'  BY <1>10, <1>13, TagsAre DEF Stream!WaitInv, Stream!OpenTag
  <2>3. Stream!ShownInv'  BY <1>7, <1>10, <2>1 DEF Stream!ShownInv, Shows
  <2> QED  BY <1>7, <2>1, <2>2, <2>3 DEF Stream!Parameters
<1>14. CASE /\ Len(rest) < 3 /\ ~Stream!IsPrefix(rest, Stream!OpenTag)
            /\ parts' = parts \o before \o rest /\ buf' = <<>> /\ feeding' = FALSE
            /\ inThink' = inThink
  <2>1. Stream!IsPrefix(rest, Stream!OpenTag) <=> Begins(rest, Stream!OpenTag)
    BY <1>8, TagsAre, PrefixIs
  <2>2. k < sent
    <3>1. ASSUME k = sent  PROVE Begins(rest, Stream!OpenTag)
      <4>1. Len(rest) = 0 /\ 1..0 = {}  BY <1>1, <1>8, <3>1
      <4> QED  BY <4>1, TagsAre DEF Begins
    <3> QED  BY <1>1, <1>8, <1>14, <2>1, <3>1
  <2>3. text[k + 1] = "<" /\ k + 1 \in DOMAIN text /\ k + 1 \in Int  BY <1>1, <1>8, <1>10, <2>2
  <2>4. ASSUME Stream!Finds(text, Stream!OpenTag, k + 1)  PROVE FALSE
    <3>1. /\ text[k + 1] = "<" /\ text[k + 2] = "t"
      <4>1. (k + 1) + 1 = k + 2  BY <1>8
      <4> QED  BY <1>10, <2>3, <2>4, <4>1, TagIs
    <3>2. ASSUME NEW i \in 1..(sent - k)  PROVE rest[i] = Stream!OpenTag[i]
      <4>1. i = 1 \/ i = 2  BY <1>1, <1>8, <1>14
      <4>2. rest[i] = text[k + i]  BY <1>8
      <4> QED  BY <3>1, <4>1, <4>2, TagsAre
    <3>3. Begins(rest, Stream!OpenTag)  BY <1>1, <1>8, <1>14, <3>2, TagsAre DEF Begins
    <3> QED  BY <1>14, <2>1, <3>3
  <2>5. Stream!Finds(text, Stream!CloseTag, k + 1)  BY <2>3, <2>4 DEF Stream!TagsWhole
  <2>6. text[k + 2] = "/"
    <3>1. (k + 1) + 1 = k + 2  BY <1>8
    <3> QED  BY <1>10, <2>3, <2>5, <3>1, TagIs
  <2>7. ASSUME NEW m \in (p + 1)..sent, Stream!Finds(text, Stream!OpenTag, m)  PROVE FALSE
    <3>1. m \in Int /\ text[m] = "<"  BY <1>10, <2>7, TagIs
    <3>2. m \notin (p + 1)..k /\ m # k + 1  BY <1>8, <2>4, <2>7
    <3>3. m = k + 2  BY <1>1, <1>8, <1>14, <3>1, <3>2
    <3> QED  BY <2>6, <3>1, <3>3
  <2>8. before \o rest = SubSeq(text, p + 1, sent)
    <3>1. PICK x : x = before \o rest  OBVIOUS
    <3>2. PICK y : y = SubSeq(text, p + 1, sent)  OBVIOUS
    <3>3. /\ x \in Seq(Stream!Chars) /\ Len(x) = (k - p) + (sent - k)
          /\ \A i \in 1..((k - p) + (sent - k)) :
                x[i] = IF i <= k - p THEN before[i] ELSE rest[i - (k - p)]
      <4>1. /\ x \in Seq(Stream!Chars) /\ Len(x) = Len(before) + Len(rest)
            /\ \A i \in 1..(Len(before) + Len(rest)) :
                  x[i] = IF i <= Len(before) THEN before[i] ELSE rest[i - Len(before)]
        BY <1>17, <1>18, <3>1, ConcatProperties
      <4> QED  BY <1>17, <1>18, <4>1
    <3>4. /\ y \in Seq(Stream!Chars) /\ Len(y) = sent - (p + 1) + 1
          /\ \A i \in 1..(sent - (p + 1) + 1) : y[i] = text[(p + 1) + i - 1]
      <4>1. p + 1 \in Int /\ sent \in Int /\ 1 <= p + 1 /\ sent <= Len(text) /\ p + 1 <= sent + 1
        BY <1>1, <1>8
      <4> QED  BY <1>10, <3>2, <4>1, PieceIs
    <3>5. Len(x) = Len(y)  BY <1>1, <1>8, <3>3, <3>4
    <3>6. ASSUME NEW i \in 1..Len(x)  PROVE x[i] = y[i]
      <4>0. /\ i \in 1..((k - p) + (sent - k)) /\ i \in 1..(sent - (p + 1) + 1)
            /\ (p + 1) + i - 1 = p + i
        BY <1>1, <1>8, <3>3, <3>4, <3>5
      <4>1. CASE i <= k - p
        <5>1. i \in 1..(k - p)  BY <4>0, <4>1
        <5> QED  BY <1>11, <3>3, <3>4, <4>0, <4>1, <5>1
      <4>2. CASE ~(i <= k - p)
        <5>1. i - (k - p) \in 1..(sent - k) /\ k + (i - (k - p)) = p + i  BY <1>1, <1>8, <4>0, <4>2
        <5>2. rest[i - (k - p)] = text[k + (i - (k - p))]  BY <1>8, <5>1
        <5> QED  BY <3>3, <3>4, <4>0, <4>2, <5>1, <5>2
      <4> QED  BY <4>1, <4>2
    <3>7. x = y  BY <3>3, <3>4, <3>5, <3>6, SameSeq
    <3> QED  BY <3>1, <3>2, <3>7
  <2>9. parts \o before \o rest = parts \o (before \o rest)  
    <3>1. parts \in Seq(Stream!Chars)  BY <1>10
    <3> QED  BY <1>17, <1>18, <3>1, ConcatAssociative
  <2>10. Stream!Types' /\ Stream!TagsWhole' /\ Stream!HeldInv'
           /\ deltas' \o parts' = Shows(Stream!Taken)'
    <3>1. sent \in Stream!Taken..sent  BY <1>1
    <3>2. parts' = parts \o SubSeq(text, Stream!Taken + 1, sent)  BY <1>2, <1>14, <2>8, <2>9
    <3>3. buf' = SubSeq(text, sent + 1, sent)
      <4>1. sent + 1 \in Int /\ sent \in Int /\ sent < sent + 1  BY <1>1
      <4> QED  BY <1>14, <4>1, SubSeqEmpty
    <3>4. \A m \in (Stream!Taken + 1)..sent : ~Stream!Finds(text, Stream!OpenTag, m)  BY <1>2, <2>7
    <3> QED  BY <1>7, <1>14, <3>1, <3>2, <3>3, <3>4, OutsideStays
  <2>11. Stream!WaitInv'
    <3>1. Len(<<>>) = 0 /\ <<>> \in Seq(Stream!Chars) /\ 1..0 = {}  OBVIOUS
    <3>2. Begins(<<>>, Stream!OpenTag)  BY <3>1, TagsAre DEF Begins
    <3>3. Stream!IsPrefix(<<>>, Stream!OpenTag)  BY <3>1, <3>2, PrefixIs, TagsAre
    <3> QED  BY <1>10, <1>14, <3>1, <3>3, TagsAre DEF Stream!WaitInv, Stream!OpenTag
  <2>12. Stream!ShownInv'  BY <1>7, <1>10, <2>10 DEF Stream!ShownInv, Shows
  <2> QED  BY <1>7, <2>10, <2>11, <2>12 DEF Stream!Parameters
<1>15. CASE /\ Stream!IsPrefix(Stream!OpenTag, rest)
            /\ parts' = parts \o before /\ buf' = Stream!From(rest, 4) /\ inThink' = TRUE
            /\ feeding' = feeding
  <2>1. Stream!Finds(text, Stream!OpenTag, k + 1) /\ k + 3 <= sent  BY <1>12, <1>15
  <2>2. PICK q \in Nat : q = k + 3  BY <1>8
  <2>3. /\ ~Stream!SpanOpen(text, k) /\ (p + 1)..k \subseteq Stream!Visible(text)
        /\ \A m \in 1..k : Stream!Finds(text, Stream!OpenTag, m) => m + 2 <= k
    <3>1. ~Stream!SpanOpen(text, p) /\ \A m \in 1..p : Stream!Finds(text, Stream!OpenTag, m)
            => m + 2 <= p
      BY <1>2, <1>7, OutsideIs
    <3>2. k <= Len(text)  BY <1>1, <1>8
    <3> QED  BY <1>8, <1>10, <3>1, <3>2, VisibleRun
  <2>4. /\ \A n \in (k + 1)..q : n \notin Stream!Visible(text)
        /\ Stream!SpanOpen(text, q)
        /\ \A m \in 1..q : Stream!Finds(text, Stream!CloseTag, m) => m + 3 <= q
    BY <1>8, <1>10, <2>1, <2>2, <2>3, SpanOpens
  <2>5. buf' = SubSeq(text, q + 1, sent)
    <3>1. lt # 0 /\ lt \in 1..Len(buf) /\ p + lt = k + 1  BY <1>1, <1>8, <2>1
    <3>2. Stream!From(rest, 4) = Stream!From(buf, lt + 3)
      <4>1. rest = Stream!From(buf, lt)  BY <1>5, <3>1
      <4>2. PICK x : x = Stream!From(rest, 4)  OBVIOUS
      <4>3. PICK y : y = Stream!From(buf, lt + 3)  OBVIOUS
      <4>4. buf \in Seq(Stream!Chars) /\ lt + 3 \in 1..Len(buf) + 1 /\ 4 \in 1..Len(rest) + 1
        BY <1>1, <1>2, <1>8, <2>1, <3>1 DEF Stream!Types
      <4>5. /\ x \in Seq(Stream!Chars) /\ Len(x) = Len(rest) - 4 + 1
            /\ \A i \in 1..Len(rest) - 4 + 1 : x[i] = rest[4 + i - 1]
        BY <1>17, <4>2, <4>4, FromIs
      <4>6. /\ y \in Seq(Stream!Chars) /\ Len(y) = Len(buf) - (lt + 3) + 1
            /\ \A i \in 1..Len(buf) - (lt + 3) + 1 : y[i] = buf[(lt + 3) + i - 1]
        BY <4>3, <4>4, FromIs
      <4>7. Len(rest) - 4 + 1 = Len(buf) - (lt + 3) + 1
        <5>1. PICK b \in Nat : b = Len(buf)  BY <1>1
        <5>2. sent = p + b /\ lt \in Nat /\ k = p + lt - 1  BY <1>1, <1>2, <1>8, <3>1, <5>1
        <5>3. Len(rest) = b - lt + 1  BY <1>17, <5>2
        <5> QED  BY <5>1, <5>2, <5>3
      <4>8. ASSUME NEW i \in 1..Len(x)  PROVE x[i] = y[i]
        <5>1. i \in 1..Len(rest) - 4 + 1 /\ i \in 1..Len(buf) - (lt + 3) + 1  BY <4>5, <4>7
        <5>2. /\ i + 3 \in 1..(sent - k) /\ 4 + i - 1 = i + 3 /\ lt + i + 2 \in 1..Len(buf)
              /\ (lt + 3) + i - 1 = lt + i + 2 /\ p + (lt + i + 2) = k + (i + 3)
          BY <1>1, <1>2, <1>8, <3>1, <4>4, <5>1
        <5>3. rest[i + 3] = text[k + (i + 3)]  BY <1>8, <5>2
        <5>4. buf[lt + i + 2] = text[p + (lt + i + 2)]  BY <1>2, <5>2, HeldIs
        <5> QED  BY <4>5, <4>6, <5>1, <5>2, <5>3, <5>4
      <4>9. x = y  BY <4>5, <4>6, <4>7, <4>8, SameSeq
      <4> QED  BY <4>2, <4>3, <4>9
    <3>3. lt + 3 \in 1..Len(buf) + 1  BY <1>1, <1>2, <1>8, <2>1, <3>1
    <3>4. Stream!From(buf, lt + 3) = SubSeq(text, p + (lt + 3), sent)  BY <1>2, <3>3, HeldFrom
    <3>5. p + (lt + 3) = q + 1  BY <1>8, <2>2, <3>1
    <3> QED  BY <1>15, <3>2, <3>4, <3>5
  <2>6. Stream!Types' /\ Stream!TagsWhole' /\ Stream!HeldInv'
          /\ deltas' \o parts' = Shows(Stream!Taken)'
    <3>1. k \in Stream!Taken..q /\ q \in Stream!Taken..sent  BY <1>1, <1>2, <1>8, <2>1, <2>2
    <3>2. (Stream!Taken + 1)..k \subseteq Stream!Visible(text)
            /\ parts' = parts \o SubSeq(text, Stream!Taken + 1, k)
      BY <1>2, <1>8, <1>15, <2>3
    <3>3. inThink' = Stream!SpanOpen(text, q) /\ feeding' \in BOOLEAN /\ inThink' \in BOOLEAN
      <4>1. Stream!SpanOpen(text, q) \in BOOLEAN  BY DEF Stream!SpanOpen
      <4> QED  BY <1>10, <1>15, <2>4, <4>1
    <3>4. \A m \in 1..q :
          Stream!Finds(text, IF inThink' THEN Stream!CloseTag ELSE Stream!OpenTag, m)
            => m + Len(IF inThink' THEN Stream!CloseTag ELSE Stream!OpenTag) - 1 <= q
      <4>1. (IF inThink' THEN Stream!CloseTag ELSE Stream!OpenTag) = Stream!CloseTag
              /\ Len(Stream!CloseTag) = 4
        BY <1>15, TagsAre
      <4>2. \A m \in 1..q : m + 4 - 1 = m + 3  OBVIOUS
      <4> QED  BY <2>4, <4>1, <4>2
    <3>5. outcome' \in {"open", "response", "error"}  BY <1>7, <1>10
    <3> QED  BY <1>7, <2>4, <2>5, <3>1, <3>2, <3>3, <3>4, <3>5, MovesOn
  <2>7. Stream!WaitInv'  BY <1>10, <1>15 DEF Stream!WaitInv
  <2>8. Stream!ShownInv'  BY <1>7, <1>10, <2>6 DEF Stream!ShownInv, Shows
  <2> QED  BY <1>7, <2>6, <2>7, <2>8 DEF Stream!Parameters
<1>16. CASE /\ Len(rest) >= 3 /\ ~Stream!IsPrefix(Stream!OpenTag, rest)
            /\ parts' = parts \o before \o <<Head(rest)>> /\ buf' = Tail(rest)
            /\ inThink' = inThink /\ feeding' = feeding
  <2>1. k + 3 <= sent /\ ~Stream!Finds(text, Stream!OpenTag, k + 1)  BY <1>1, <1>8, <1>12, <1>16
  <2>2. PICK q \in Nat : q = k + 1  BY <1>8
  <2>3. \A m \in (p + 1)..q : ~Stream!Finds(text, Stream!OpenTag, m)
    <3>1. \A m \in (p + 1)..q : m \in (p + 1)..k \/ m = k + 1  BY <1>8, <2>2
    <3> QED  BY <1>8, <2>1, <3>1
  <2>4. Head(rest) = text[k + 1] /\ Head(rest) \in Stream!Chars
    <3>1. 1 \in 1..(sent - k)  BY <1>1, <1>8, <2>1
    <3>2. Head(rest) = rest[1] /\ rest[1] \in Stream!Chars  BY <1>17, <3>1
    <3> QED  BY <1>8, <3>1, <3>2
  <2>5. Tail(rest) = SubSeq(text, q + 1, sent)
    <3>1. PICK x : x = Tail(rest)  OBVIOUS
    <3>2. PICK y : y = SubSeq(text, q + 1, sent)  OBVIOUS
    <3>3. /\ x \in Seq(Stream!Chars) /\ Len(x) = Len(rest) - 1
          /\ \A i \in 1..(Len(rest) - 1) : x[i] = rest[i + 1]
      <4>1. rest # <<>>
        <5>1. Len(rest) # 0  BY <1>1, <1>8, <1>17, <2>1
        <5> QED  BY <5>1
      <4>2. PICK r : r = rest  OBVIOUS
      <4>3. /\ Tail(r) \in Seq(Stream!Chars) /\ Len(Tail(r)) = Len(r) - 1
            /\ \A i \in 1..(Len(r) - 1) : Tail(r)[i] = r[i + 1]
        BY <1>17, <4>1, <4>2, HeadTailProperties
      <4> QED  BY <3>1, <4>2, <4>3
    <3>4. /\ y \in Seq(Stream!Chars) /\ Len(y) = sent - (q + 1) + 1
          /\ \A i \in 1..(sent - (q + 1) + 1) : y[i] = text[(q + 1) + i - 1]
      <4>1. q + 1 \in Int /\ sent \in Int /\ 1 <= q + 1 /\ sent <= Len(text) /\ q + 1 <= sent + 1
        BY <1>1, <1>8, <2>1, <2>2
      <4> QED  BY <1>10, <3>2, <4>1, PieceIs
    <3>5. Len(x) = Len(y)  BY <1>1, <1>8, <2>2, <3>3, <3>4
    <3>6. ASSUME NEW i \in 1..Len(x)  PROVE x[i] = y[i]
      <4>1. /\ i \in 1..(Len(rest) - 1) /\ i \in 1..(sent - (q + 1) + 1)
            /\ i + 1 \in 1..(sent - k) /\ k + (i + 1) = (q + 1) + i - 1
        BY <1>1, <1>8, <2>2, <3>3, <3>4, <3>5
      <4>2. rest[i + 1] = text[k + (i + 1)]  BY <1>8, <4>1
      <4> QED  BY <3>3, <3>4, <4>1, <4>2
    <3>7. x = y  BY <3>3, <3>4, <3>5, <3>6, SameSeq
    <3> QED  BY <3>1, <3>2, <3>7
  <2>6. before \o <<Head(rest)>> = SubSeq(text, p + 1, q)
    <3>1. PICK h \in Stream!Chars : h = Head(rest)  BY <2>4
    <3>2. PICK z : z = <<h>>  OBVIOUS
    <3>3. z \in Seq(Stream!Chars) /\ Len(z) = 1 /\ z[1] = h  BY <3>2
    <3>4. PICK x : x = before \o z  OBVIOUS
    <3>5. PICK y : y = SubSeq(text, p + 1, q)  OBVIOUS
    <3>6. /\ x \in Seq(Stream!Chars) /\ Len(x) = (k - p) + 1
          /\ \A i \in 1..((k - p) + 1) : x[i] = IF i <= k - p THEN before[i] ELSE z[i - (k - p)]
      <4>1. /\ x \in Seq(Stream!Chars) /\ Len(x) = Len(before) + Len(z)
            /\ \A i \in 1..(Len(before) + Len(z)) :
                  x[i] = IF i <= Len(before) THEN before[i] ELSE z[i - Len(before)]
        BY <1>18, <3>3, <3>4, ConcatProperties
      <4> QED  BY <1>18, <3>3, <4>1
    <3>7. /\ y \in Seq(Stream!Chars) /\ Len(y) = q - (p + 1) + 1
          /\ \A i \in 1..(q - (p + 1) + 1) : y[i] = text[(p + 1) + i - 1]
      <4>1. p + 1 \in Int /\ q \in Int /\ 1 <= p + 1 /\ q <= Len(text) /\ p + 1 <= q + 1
        BY <1>1, <1>8, <2>1, <2>2
      <4> QED  BY <1>10, <3>5, <4>1, PieceIs
    <3>8. Len(x) = Len(y)  BY <1>8, <2>2, <3>6, <3>7
    <3>9. ASSUME NEW i \in 1..Len(x)  PROVE x[i] = y[i]
      <4>0. /\ i \in 1..((k - p) + 1) /\ i \in 1..(q - (p + 1) + 1) /\ (p + 1) + i - 1 = p + i
        BY <1>8, <2>2, <3>6, <3>7, <3>8
      <4>1. CASE i <= k - p
        <5>1. i \in 1..(k - p)  BY <4>0, <4>1
        <5> QED  BY <1>11, <3>6, <3>7, <4>0, <4>1, <5>1
      <4>2. CASE ~(i <= k - p)
        <5>1. i - (k - p) = 1 /\ p + i = k + 1  BY <1>8, <4>0, <4>2
        <5> QED  BY <2>4, <3>1, <3>3, <3>6, <3>7, <4>0, <4>2, <5>1
      <4> QED  BY <4>1, <4>2
    <3>10. x = y  BY <3>6, <3>7, <3>8, <3>9, SameSeq
    <3> QED  BY <3>1, <3>2, <3>4, <3>5, <3>10
  <2>7. parts \o before \o <<Head(rest)>> = parts \o (before \o <<Head(rest)>>)
    <3>1. <<Head(rest)>> \in Seq(Stream!Chars)  BY <2>4
    <3> QED  BY <1>10, <1>11, <3>1, ConcatAssociative
  <2>8. Stream!Types' /\ Stream!TagsWhole' /\ Stream!HeldInv'
          /\ deltas' \o parts' = Shows(Stream!Taken)'
    <3>1. q \in Stream!Taken..sent /\ feeding' \in BOOLEAN
      BY <1>1, <1>2, <1>8, <1>10, <1>16, <2>1, <2>2
    <3>2. parts' = parts \o SubSeq(text, Stream!Taken + 1, q) /\ buf' = SubSeq(text, q + 1, sent)
      BY <1>2, <1>16, <2>5, <2>6, <2>7
    <3>3. \A m \in (Stream!Taken + 1)..q : ~Stream!Finds(text, Stream!OpenTag, m)  BY <1>2, <2>3
    <3>4. UNCHANGED <<Stream!textVars, sent, inThink, deltas, response, outcome>>  BY <1>7, <1>16
    <3> QED  BY <1>7, <3>1, <3>2, <3>3, <3>4, OutsideStays
  <2>9. Stream!WaitInv'  BY <1>10, <1>16 DEF Stream!WaitInv
  <2>10. Stream!ShownInv'  BY <1>7, <1>10, <2>8 DEF Stream!ShownInv, Shows
  <2> QED  BY <1>7, <2>8, <2>9, <2>10 DEF Stream!Parameters
<1> QED  BY <1>9, <1>13, <1>14, <1>15, <1>16

(* A chunk is held, and nothing is dealt with yet.                         *)
LEMMA ArriveKeeps ==
  ASSUME Stream!StreamInv, Stream!Arrive
  PROVE  Stream!StreamInv'
<1> USE DEF Stream!StreamInv
<1>1. /\ sent \in Nat /\ Len(text) \in Nat /\ sent <= Len(text) /\ Stream!Taken \in Nat
      /\ Stream!Taken + Len(buf) = sent /\ Len(buf) \in Nat
  BY HeldIs
<1>2. PICK p \in Nat : p = Stream!Taken  BY <1>1
<1>3. PICK n \in 1..MaxChunk : /\ sent + n <= Len(text) /\ sent' = sent + n
                               /\ buf' = buf \o SubSeq(text, sent + 1, sent + n)
  BY DEF Stream!Arrive
<1>4. /\ outcome = "open" /\ ~feeding /\ feeding' = TRUE
      /\ UNCHANGED <<Stream!textVars, inThink, parts, deltas, response, outcome>>
      /\ n \in Nat /\ text \in Seq(Stream!Chars) /\ buf \in Seq(Stream!Chars)
  BY DEF Stream!Arrive, Stream!Parameters, Stream!Types
<1>5. PICK e : e = SubSeq(text, sent + 1, sent + n)  OBVIOUS
<1>6. PICK f : f = buf'  OBVIOUS
<1>7. e \in Seq(Stream!Chars) /\ Len(e) = n /\ \A i \in 1..n : e[i] = text[sent + i]
  <2>1. PICK a \in Nat, z \in Nat : a = sent + 1 /\ z = sent + n  BY <1>1, <1>4
  <2>2. /\ text \in Seq(Stream!Chars) /\ a \in Int /\ z \in Int /\ 1 <= a /\ z <= Len(text)
        /\ a <= z + 1
    BY <1>1, <1>3, <1>4, <2>1
  <2>3. /\ e \in Seq(Stream!Chars) /\ Len(e) = z - a + 1
        /\ \A i \in 1..(z - a + 1) : e[i] = text[a + i - 1]
    BY <1>5, <2>1, <2>2, PieceIs
  <2>4. z - a + 1 = n /\ \A i \in 1..n : a + i - 1 = sent + i  BY <1>1, <1>4, <2>1
  <2> QED  BY <2>3, <2>4
<1>8. PICK b \in Nat : b = Len(buf) /\ p + b = sent  BY <1>1, <1>2
<1>9. /\ f \in Seq(Stream!Chars) /\ Len(f) = b + n
      /\ \A i \in 1..(b + n) : f[i] = IF i <= b THEN buf[i] ELSE e[i - b]
  <2>1. /\ f \in Seq(Stream!Chars) /\ Len(f) = Len(buf) + Len(e)
        /\ \A i \in 1..(Len(buf) + Len(e)) :
             f[i] = IF i <= Len(buf) THEN buf[i] ELSE e[i - Len(buf)]
    BY <1>3, <1>4, <1>5, <1>6, <1>7, ConcatProperties
  <2> QED  BY <1>7, <1>8, <2>1
<1>10. Stream!Taken' = p /\ sent' = p + (b + n)
  <2>1. Stream!Taken' = sent' - Len(buf')  BY DEF Stream!Taken
  <2>2. Len(buf') = b + n /\ sent' = sent + n  BY <1>3, <1>6, <1>9
  <2>3. (sent + n) - (b + n) = p /\ sent + n = p + (b + n)  BY <1>1, <1>4, <1>8
  <2> QED  BY <2>1, <2>2, <2>3
<1>11. f = SubSeq(text, p + 1, sent + n)
  <2>1. PICK a \in Nat, z \in Nat : a = p + 1 /\ z = sent + n  BY <1>1, <1>4
  <2>2. PICK y : y = SubSeq(text, a, z)  OBVIOUS
  <2>3. /\ text \in Seq(Stream!Chars) /\ a \in Int /\ z \in Int /\ 1 <= a /\ z <= Len(text)
        /\ a <= z + 1
    BY <1>3, <1>4, <1>8, <2>1
  <2>4. /\ y \in Seq(Stream!Chars) /\ Len(y) = z - a + 1
        /\ \A i \in 1..(z - a + 1) : y[i] = text[a + i - 1]
    BY <2>2, <2>3, PieceIs
  <2>5. z - a + 1 = b + n /\ \A i \in 1..(b + n) : a + i - 1 = p + i  BY <1>4, <1>8, <2>1
  <2>6. ASSUME NEW i \in 1..(b + n)  PROVE f[i] = y[i]
    <3>1. y[i] = text[p + i]  BY <2>4, <2>5
    <3>2. CASE i <= b
      <4>1. i \in 1..Len(buf)  BY <1>8, <3>2
      <4>2. buf[i] = text[p + i]  BY <1>2, <4>1, HeldIs
      <4> QED  BY <1>9, <3>1, <3>2, <4>2
    <3>3. CASE ~(i <= b)
      <4>1. i - b \in 1..n /\ sent + (i - b) = p + i  BY <1>4, <1>8, <3>3
      <4>2. e[i - b] = text[sent + (i - b)]  BY <1>7, <4>1
      <4> QED  BY <1>9, <3>1, <3>3, <4>1, <4>2
    <3> QED  BY <3>2, <3>3
  <2>7. f = y  BY <1>9, <2>4, <2>5, <2>6, SameSeq
  <2> QED  BY <2>1, <2>2, <2>7
<1>12. Stream!Types'
  <2>1. sent' \in 0..Len(text)  BY <1>1, <1>3, <1>4
  <2> QED  BY <1>4, <1>6, <1>9, <2>1 DEF Stream!Types, Stream!textVars
<1>13. Stream!TagsWhole'  BY <1>4 DEF Stream!TagsWhole, Stream!textVars, Stream!Finds
<1>14. Stream!HeldInv'
  <2>1. Len(buf)' <= sent' /\ buf' = SubSeq(text', Stream!Taken' + 1, sent')
    <3>1. Len(buf)' <= sent'
      <4>1. Len(f) <= sent'  BY <1>4, <1>9, <1>10
      <4> QED  BY <1>6, <4>1
    <3>2. buf' = SubSeq(text', Stream!Taken' + 1, sent')
      BY <1>3, <1>4, <1>6, <1>10, <1>11 DEF Stream!textVars
    <3> QED  BY <3>1, <3>2
  <2>2. inThink' = Stream!SpanOpen(text', Stream!Taken')
    BY <1>2, <1>4, <1>10 DEF Stream!HeldInv, Stream!textVars
  <2>3. IF inThink' THEN Stream!Whole(Stream!CloseTag)' ELSE Stream!Whole(Stream!OpenTag)'
    <3>1. Stream!Taken' = Stream!Taken  BY <1>2, <1>10
    <3>2. Stream!Whole(Stream!CloseTag)' = Stream!Whole(Stream!CloseTag)
      BY <1>4, <3>1 DEF Stream!Whole, Stream!textVars, Stream!CloseTag
    <3>3. Stream!Whole(Stream!OpenTag)' = Stream!Whole(Stream!OpenTag)
      BY <1>4, <3>1 DEF Stream!Whole, Stream!textVars, Stream!OpenTag
    <3> QED  BY <1>4, <3>2, <3>3 DEF Stream!HeldInv
  <2> QED  BY <2>1, <2>2, <2>3 DEF Stream!HeldInv
<1>15. Stream!WaitInv'  BY <1>4 DEF Stream!WaitInv
<1>16. Stream!ShownInv'
  <2>1. Stream!Taken' = Stream!Taken  BY <1>2, <1>10
  <2> QED
    BY <1>4, <2>1 DEF Stream!ShownInv, Stream!textVars, Stream!Visible, Stream!SpanOpen,
       Stream!Finds
<1> QED  BY <1>12, <1>13, <1>14, <1>15, <1>16 DEF Stream!Parameters

(* What does not touch the filter.                                         *)
LEMMA FilterStays ==
  ASSUME Stream!StreamInv, UNCHANGED <<Stream!textVars, sent, buf, inThink>>
  PROVE  Stream!TagsWhole' /\ Stream!HeldInv' /\ Shows(Stream!Taken)' = Shows(Stream!Taken)
<1> USE DEF Stream!StreamInv
<1>1. Stream!Taken' = Stream!Taken  BY DEF Stream!Taken
<1>2. Stream!TagsWhole'  BY DEF Stream!TagsWhole, Stream!textVars, Stream!Finds
<1>3. Stream!HeldInv'
  <2>1. Stream!Whole(Stream!CloseTag)' = Stream!Whole(Stream!CloseTag)
    BY <1>1 DEF Stream!Whole, Stream!textVars, Stream!CloseTag
  <2>2. Stream!Whole(Stream!OpenTag)' = Stream!Whole(Stream!OpenTag)
    BY <1>1 DEF Stream!Whole, Stream!textVars, Stream!OpenTag
  <2>3. Stream!SpanOpen(text, Stream!Taken)' = Stream!SpanOpen(text, Stream!Taken)
    BY <1>1 DEF Stream!textVars
  <2>4. Len(buf)' = Len(buf)
          /\ SubSeq(text, Stream!Taken + 1, sent)' = SubSeq(text, Stream!Taken + 1, sent)
    BY <1>1 DEF Stream!textVars
  <2> QED  BY <2>1, <2>2, <2>3, <2>4 DEF Stream!HeldInv
<1>4. Shows(Stream!Taken)' = Shows(Stream!Taken)
  BY <1>1 DEF Shows, Stream!textVars, Stream!Visible, Stream!SpanOpen, Stream!Finds
<1> QED  BY <1>2, <1>3, <1>4

(* An empty buffer may become a tag.                                       *)
LEMMA EmptyBegins == Stream!IsPrefix(<<>>, Stream!OpenTag)
<1>1. Len(<<>>) = 0 /\ <<>> \in Seq(Stream!Chars) /\ 1..0 = {}  OBVIOUS
<1>2. Begins(<<>>, Stream!OpenTag)  BY <1>1, TagsAre DEF Begins
<1> QED  BY <1>1, <1>2, PrefixIs, TagsAre

(* A delta says what the parts were.                                       *)
LEMMA EmitKeeps ==
  ASSUME Stream!StreamInv, Stream!EmitDelta
  PROVE  Stream!StreamInv'
<1> USE DEF Stream!StreamInv
<1>1. /\ outcome = "open" /\ (~feeding \/ buf = <<>>)
      /\ deltas' = deltas \o parts /\ response' = response \o parts
      /\ parts' = <<>> /\ feeding' = FALSE
      /\ UNCHANGED <<Stream!textVars, sent, buf, inThink, outcome>>
  BY DEF Stream!EmitDelta, Stream!Fed
<1>2. Stream!TagsWhole' /\ Stream!HeldInv' /\ Shows(Stream!Taken)' = Shows(Stream!Taken)
  BY <1>1, FilterStays
<1>3. deltas \in Seq(Stream!Chars) /\ parts \in Seq(Stream!Chars) /\ response = deltas
  BY DEF Stream!Types
<1>4. deltas' \in Seq(Stream!Chars) /\ parts' \in Seq(Stream!Chars) /\ response' = deltas'
  <2>1. deltas \o parts \in Seq(Stream!Chars)  BY <1>3, ConcatProperties
  <2> QED  BY <1>1, <1>3, <2>1
<1>5. Stream!Types'  BY <1>1, <1>4 DEF Stream!Types, Stream!textVars
<1>6. Stream!WaitInv'
  <2>1. CASE ~feeding  BY <1>1, <2>1 DEF Stream!WaitInv, Stream!OpenTag, Stream!CloseTag
  <2>2. CASE buf = <<>>
    <3>1. Len(buf') = 0 /\ Stream!IsPrefix(buf', Stream!OpenTag)  BY <1>1, <2>2, EmptyBegins
    <3> QED  BY <3>1, TagsAre DEF Stream!WaitInv, Stream!OpenTag, Stream!CloseTag
  <2> QED  BY <1>1, <2>1, <2>2
<1>7. Stream!ShownInv'
  <2>1. deltas' \o parts' = deltas'  BY <1>1, <1>4
  <2>2. deltas \o parts = Shows(Stream!Taken)  BY DEF Stream!ShownInv, Shows
  <2>3. deltas' \o parts' = Shows(Stream!Taken)'  BY <1>1, <1>2, <2>1, <2>2
  <2> QED  BY <1>1, <2>3 DEF Stream!ShownInv, Shows
<1> QED  BY <1>1, <1>2, <1>5, <1>6, <1>7 DEF Stream!Parameters

(* A stream that fails has said nothing more.                              *)
LEMMA FailKeeps ==
  ASSUME Stream!StreamInv, Stream!Fail
  PROVE  Stream!StreamInv'
<1> USE DEF Stream!StreamInv
<1>1. /\ outcome' = "error" /\ ~feeding /\ parts = <<>>
      /\ UNCHANGED <<Stream!textVars, sent, buf, inThink, feeding, parts, deltas, response>>
  BY DEF Stream!Fail, Stream!filterVars
<1>2. Stream!TagsWhole' /\ Stream!HeldInv' /\ Shows(Stream!Taken)' = Shows(Stream!Taken)
  BY <1>1, FilterStays
<1>3. Stream!Types'  BY <1>1 DEF Stream!Types, Stream!textVars
<1>4. Stream!WaitInv'  BY <1>1 DEF Stream!WaitInv, Stream!OpenTag, Stream!CloseTag
<1>5. Stream!ShownInv'
  <2>1. deltas' \o parts' = Shows(Stream!Taken)'  BY <1>1, <1>2 DEF Stream!ShownInv, Shows
  <2> QED  BY <1>1, <2>1 DEF Stream!ShownInv, Shows
<1> QED  BY <1>1, <1>2, <1>3, <1>4, <1>5 DEF Stream!Parameters

(* At the end of the stream nothing visible is held back: flush() has       *)
(* nothing to let out.                                                     *)
LEMMA RespondKeeps ==
  ASSUME Stream!StreamInv, Stream!Respond
  PROVE  Stream!StreamInv'
<1> USE DEF Stream!StreamInv
<1>1. /\ sent \in Nat /\ Len(text) \in Nat /\ sent <= Len(text) /\ Stream!Taken \in Nat
      /\ Stream!Taken + Len(buf) = sent /\ Len(buf) \in Nat
  BY HeldIs
<1>2. PICK p \in Nat : p = Stream!Taken  BY <1>1
<1>3. PICK tail : tail = IF inThink THEN <<>> ELSE buf  OBVIOUS
<1>4. /\ ~feeding /\ parts = <<>> /\ sent = Len(text) /\ outcome = "open"
      /\ deltas' = deltas \o tail /\ response' = response \o tail
      /\ buf' = <<>> /\ outcome' = "response"
      /\ UNCHANGED <<Stream!textVars, sent, inThink, feeding, parts>>
  BY <1>3 DEF Stream!Respond
<1>5. /\ text \in Seq(Stream!Chars) /\ buf \in Seq(Stream!Chars) /\ deltas \in Seq(Stream!Chars)
      /\ response = deltas
      /\ inThink \in BOOLEAN /\ DOMAIN text = 1..Len(text)
  BY LenProperties DEF Stream!Types
<1>6. Stream!WaitInv'
  <2>1. Len(<<>>) = 0  OBVIOUS
  <2> QED  BY <1>4, <2>1, EmptyBegins, TagsAre DEF Stream!WaitInv, Stream!OpenTag, Stream!CloseTag
<1>7. ASSUME ~inThink  PROVE buf = <<>>
  <2>1. Len(buf) < 3 /\ Stream!IsPrefix(buf, Stream!OpenTag)
    BY <1>4, <1>7, TagsAre DEF Stream!WaitInv
  <2>2. Begins(buf, Stream!OpenTag)  BY <1>5, <2>1, PrefixIs, TagsAre
  <2>3. ASSUME Len(buf) # 0  PROVE FALSE
    <3>1. 1 \in 1..Len(buf)  BY <1>1, <2>3
    <3>2. buf[1] = "<" /\ buf[1] = text[p + 1]
      <4>1. buf[1] = "<"  BY <2>2, <3>1, TagsAre DEF Begins
      <4>2. buf[1] = text[p + 1]  BY <1>2, <3>1, HeldIs
      <4> QED  BY <4>1, <4>2
    <3>3. p + 1 \in DOMAIN text /\ p + 1 \in Int  BY <1>1, <1>2, <1>5, <2>3
    <3>4. Stream!Finds(text, Stream!OpenTag, p + 1) \/ Stream!Finds(text, Stream!CloseTag, p + 1)
      BY <3>2, <3>3 DEF Stream!TagsWhole
    <3>5. p + 1 + 2 <= Len(text)
      <4>1. Stream!Finds(text, Stream!OpenTag, p + 1) => p + 1 + 2 <= Len(text)
        BY <1>5, <3>3, TagIs
      <4>2. Stream!Finds(text, Stream!CloseTag, p + 1) => p + 1 + 3 <= Len(text)
        BY <1>5, <3>3, TagIs
      <4> QED  BY <1>1, <3>4, <4>1, <4>2
    <3> QED  BY <1>1, <1>2, <1>4, <2>1, <3>5
  <2> QED  BY <1>5, <2>3
<1>8. tail = <<>>  BY <1>3, <1>7
<1>9. deltas' = deltas /\ response' = response  BY <1>4, <1>5, <1>8
<1>10. CASE ~inThink
  <2>1. buf' = buf  BY <1>4, <1>7, <1>10
  <2>2. Stream!TagsWhole' /\ Stream!HeldInv' /\ Shows(Stream!Taken)' = Shows(Stream!Taken)
    BY <1>4, <2>1, FilterStays
  <2>3. Stream!Types'  BY <1>4, <1>9, <2>1 DEF Stream!Types, Stream!textVars
  <2>4. Stream!ShownInv'
    <3>1. deltas' \o parts' = Shows(Stream!Taken)'  BY <1>4, <1>9, <2>2 DEF Stream!ShownInv, Shows
    <3>2. sent' = Len(text')  BY <1>4 DEF Stream!textVars
    <3> QED  BY <1>4, <3>1, <3>2 DEF Stream!ShownInv, Shows
  <2> QED  BY <1>4, <1>6, <2>2, <2>3, <2>4 DEF Stream!Parameters
<1>11. CASE inThink
  <2>1. Stream!SpanOpen(text, p) /\ \A m \in 1..p : Stream!Finds(text, Stream!CloseTag, m)
          => m + 3 <= p
    <3>1. Stream!Whole(Stream!CloseTag) /\ Stream!SpanOpen(text, p) /\ Len(Stream!CloseTag) = 4
      BY <1>2, <1>11, TagsAre DEF Stream!HeldInv
    <3> QED  BY <1>2, <3>1 DEF Stream!Whole
  <2>2. Len(buf) < 4  BY <1>4, <1>11, TagsAre DEF Stream!WaitInv
  <2>3. ASSUME NEW m \in (p + 1)..sent, Stream!Finds(text, Stream!CloseTag, m)  PROVE FALSE
    <3>1. m \in Int  BY <1>1
    <3>2. m + 3 <= Len(text)  BY <1>5, <2>3, <3>1, TagIs
    <3> QED  BY <1>1, <1>2, <1>4, <2>2, <3>1, <3>2
  <2>4. /\ \A n \in (p + 1)..(sent + 4) : n \notin Stream!Visible(text)
        /\ Stream!SpanOpen(text, sent)
        /\ \A m \in 1..sent : Stream!Finds(text, Stream!CloseTag, m) => m + 3 <= sent
    <3>1. p <= sent /\ \A m \in (p + 1)..sent : ~Stream!Finds(text, Stream!CloseTag, m)
      BY <1>1, <1>2, <2>3
    <3> QED  BY <1>1, <1>5, <2>1, <3>1, HiddenRun
  <2>5. Stream!Types' /\ Stream!TagsWhole' /\ Stream!HeldInv'
          /\ deltas' \o parts' = Shows(Stream!Taken)'
    <3>1. p \in Stream!Taken..sent /\ sent \in Stream!Taken..sent  BY <1>1, <1>2
    <3>2. /\ (Stream!Taken + 1)..p \subseteq Stream!Visible(text)
          /\ \A n \in (p + 1)..sent : n \notin Stream!Visible(text)
      <4>1. \A n \in (p + 1)..sent : n \in (p + 1)..(sent + 4)  BY <1>1
      <4>2. (p + 1)..p = {}  OBVIOUS
      <4> QED  BY <1>2, <2>4, <4>1, <4>2
    <3>3. parts' = parts \o SubSeq(text, Stream!Taken + 1, p) /\ buf' = SubSeq(text, sent + 1, sent)
      <4>1. SubSeq(text, p + 1, p) = <<>>
        <5>1. p + 1 \in Int /\ p \in Int /\ p < p + 1  OBVIOUS
        <5> QED  BY <5>1, SubSeqEmpty
      <4>2. SubSeq(text, sent + 1, sent) = <<>>
        <5>1. sent + 1 \in Int /\ sent \in Int /\ sent < sent + 1  BY <1>1
        <5> QED  BY <5>1, SubSeqEmpty
      <4> QED  BY <1>2, <1>4, <4>1, <4>2
    <3>4. inThink' = Stream!SpanOpen(text, sent) /\ feeding' \in BOOLEAN /\ inThink' \in BOOLEAN
      <4>1. Stream!SpanOpen(text, sent) \in BOOLEAN  BY DEF Stream!SpanOpen
      <4> QED  BY <1>4, <1>5, <1>11, <2>4, <4>1 DEF Stream!Types
    <3>5. \A m \in 1..sent :
          Stream!Finds(text, IF inThink' THEN Stream!CloseTag ELSE Stream!OpenTag, m)
            => m + Len(IF inThink' THEN Stream!CloseTag ELSE Stream!OpenTag) - 1 <= sent
      <4>1. (IF inThink' THEN Stream!CloseTag ELSE Stream!OpenTag) = Stream!CloseTag
              /\ Len(Stream!CloseTag) = 4
        BY <1>4, <1>11, TagsAre
      <4>2. \A m \in 1..sent : m + 4 - 1 = m + 3  BY <1>1
      <4> QED  BY <2>4, <4>1, <4>2
    <3>6. /\ UNCHANGED <<Stream!textVars, sent, deltas, response>>
          /\ outcome' \in {"open", "response", "error"}
      BY <1>4, <1>9
    <3> QED  BY <3>1, <3>2, <3>3, <3>4, <3>5, <3>6, MovesOn
  <2>6. Stream!ShownInv'
    <3>1. sent' = Len(text')  BY <1>4 DEF Stream!textVars
    <3> QED  BY <1>4, <2>5, <3>1 DEF Stream!ShownInv, Shows
  <2> QED  BY <1>4, <1>6, <2>5, <2>6 DEF Stream!Parameters
<1> QED  BY <1>10, <1>11

(* What the model goes on to say changes nothing of what it has said.      *)
LEMMA SayKeeps ==
  ASSUME "less" \notin Pieces, Stream!StreamInv, Stream!Say
  PROVE  Stream!StreamInv'
<1> USE DEF Stream!StreamInv
<1>1. /\ sent \in Nat /\ Len(text) \in Nat /\ sent <= Len(text) /\ Stream!Taken \in Nat
      /\ Stream!Taken + Len(buf) = sent /\ Len(buf) \in Nat
  BY HeldIs
<1>2. PICK piece \in Pieces : text' = text \o Stream!Characters(piece)  BY DEF Stream!Say
<1>3. PICK e : e = Stream!Characters(piece)  OBVIOUS
<1>4. /\ outcome = "open" /\ pieces < MaxPieces /\ pieces' = pieces + 1
      /\ UNCHANGED <<sent, buf, inThink, feeding, parts, deltas, response, outcome>>
  BY DEF Stream!Say, Stream!filterVars
<1>5. piece \in {"open", "close", "word"}  BY DEF Stream!Parameters
<1>6. PICK l \in Nat : l = Len(text)  BY <1>1
<1>7. /\ e \in Seq(Stream!Chars) /\ text \in Seq(Stream!Chars) /\ DOMAIN text = 1..l
      /\ e = Stream!OpenTag \/ e = Stream!CloseTag \/ e = <<"w">>
  <2>1. text \in Seq(Stream!Chars) /\ DOMAIN text = 1..l  BY <1>6, LenProperties DEF Stream!Types
  <2>2. e = Stream!OpenTag \/ e = Stream!CloseTag \/ e = <<"w">>
    BY <1>3, <1>5 DEF Stream!Characters
  <2>3. <<"w">> \in Seq(Stream!Chars)  BY DEF Stream!Chars
  <2> QED  BY <2>1, <2>2, <2>3, TagsAre
<1>8. PICK t : t = text'  OBVIOUS
<1>9. /\ t = text \o e /\ t \in Seq(Stream!Chars) /\ Len(t) = l + Len(e) /\ Len(e) \in Nat
      /\ \A i \in 1..l : t[i] = text[i] /\ DOMAIN t = 1..(l + Len(e))
      /\ \A i \in 1..Len(e) : t[l + i] = e[i]
  <2>1. t = text \o e  BY <1>2, <1>3, <1>8
  <2>2. /\ t \in Seq(Stream!Chars) /\ Len(t) = Len(text) + Len(e) /\ Len(e) \in Nat
        /\ \A i \in 1..(Len(text) + Len(e)) :
             t[i] = IF i <= Len(text) THEN text[i] ELSE e[i - Len(text)]
    BY <1>7, <2>1, ConcatProperties, LenProperties
  <2>3. DOMAIN t = 1..(l + Len(e))  BY <1>6, <2>2, LenProperties
  <2>4. ASSUME NEW i \in 1..l  PROVE t[i] = text[i]
    <3>1. i \in 1..(Len(text) + Len(e)) /\ i <= Len(text)  BY <1>6, <2>2
    <3> QED  BY <2>2, <3>1
  <2>5. ASSUME NEW i \in 1..Len(e)  PROVE t[l + i] = e[i]
    <3>1. l + i \in 1..(Len(text) + Len(e)) /\ ~(l + i <= Len(text)) /\ (l + i) - Len(text) = i
      BY <1>6, <2>2
    <3> QED  BY <2>2, <3>1
  <2> QED  BY <1>6, <2>1, <2>2, <2>3, <2>4, <2>5
<1>10. /\ \A n \in 1..l : Stream!Finds(t, Stream!OpenTag, n)
            <=> Stream!Finds(text, Stream!OpenTag, n)
       /\ \A n \in 1..l : Stream!Finds(t, Stream!CloseTag, n)
            <=> Stream!Finds(text, Stream!CloseTag, n)
       /\ \A n \in 0..l : Stream!SpanOpen(t, n) <=> Stream!SpanOpen(text, n)
       /\ {n \in Stream!Visible(t) : n <= l} = Stream!Visible(text)
  <2>1. /\ text \in Seq(Stream!Chars) /\ e \in Seq(Stream!Chars)
        /\ \A n \in DOMAIN text : text[n] = "<"
             => Stream!Finds(text, Stream!OpenTag, n) \/ Stream!Finds(text, Stream!CloseTag, n)
    BY <1>7 DEF Stream!TagsWhole
  <2>2. Spans(text, e)  BY <2>1, SpansStay
  <2> QED  BY <1>6, <1>9, <2>2 DEF Spans
<1>11. Stream!Types'
  <2>1. sent' \in 0..Len(text')  BY <1>1, <1>4, <1>6, <1>8, <1>9
  <2>2. pieces' \in 0..MaxPieces  BY <1>4 DEF Stream!Types, Stream!Parameters
  <2> QED  BY <1>4, <1>8, <1>9, <2>1, <2>2 DEF Stream!Types
<1>12. Stream!TagsWhole'
  <2>1. ASSUME NEW n \in DOMAIN t, t[n] = "<"
        PROVE Stream!Finds(t, Stream!OpenTag, n) \/ Stream!Finds(t, Stream!CloseTag, n)
    <3>1. CASE n <= l
      <4>1. n \in 1..l /\ n \in DOMAIN text /\ text[n] = "<"
        <5>1. n \in 1..(l + Len(e)) /\ Len(e) \in Nat  BY <1>9, <2>1
        <5>2. n \in 1..l  BY <3>1, <5>1
        <5> QED  BY <1>7, <1>9, <2>1, <5>2
      <4> QED  BY <1>10, <4>1 DEF Stream!TagsWhole
    <3>2. CASE ~(n <= l)
      <4>1. PICK i \in 1..Len(e) : n = l + i
        <5>1. n - l \in 1..Len(e) /\ n = l + (n - l)  BY <1>9, <3>2
        <5> QED  BY <5>1
      <4>2. e[i] = "<"  BY <1>9, <2>1, <4>1
      <4>3. CASE e = Stream!OpenTag
        <5>1. i \in 1..3  BY <4>3, TagsAre
        <5>2. i # 2 /\ i # 3  BY <4>2, <4>3, TagsAre
        <5>3. i = 1  BY <5>1, <5>2
        <5>4. /\ n \in Int /\ n \in 1..Len(t) /\ n + 2 <= Len(t)
              /\ n + 1 = l + 2 /\ n + 2 = l + 3 /\ n = l + 1
          BY <1>9, <4>1, <4>3, <5>3, TagsAre
        <5>5. 1 \in 1..Len(e) /\ 2 \in 1..Len(e) /\ 3 \in 1..Len(e)  BY <4>3, TagsAre
        <5>6. t[n] = "<" /\ t[n + 1] = "t" /\ t[n + 2] = ">"
          BY <1>9, <4>3, <5>4, <5>5, TagsAre
        <5> QED  BY <1>9, <5>4, <5>6, TagIs
      <4>4. CASE e = Stream!CloseTag
        <5>1. i \in 1..4  BY <4>4, TagsAre
        <5>2. i # 2 /\ i # 3 /\ i # 4  BY <4>2, <4>4, TagsAre
        <5>3. i = 1  BY <5>1, <5>2
        <5>4. /\ n \in Int /\ n \in 1..Len(t) /\ n + 3 <= Len(t)
              /\ n + 1 = l + 2 /\ n + 2 = l + 3 /\ n + 3 = l + 4 /\ n = l + 1
          BY <1>9, <4>1, <4>4, <5>3, TagsAre
        <5>5. 1 \in 1..Len(e) /\ 2 \in 1..Len(e) /\ 3 \in 1..Len(e) /\ 4 \in 1..Len(e)
          BY <4>4, TagsAre
        <5>6. t[n] = "<" /\ t[n + 1] = "/" /\ t[n + 2] = "t" /\ t[n + 3] = ">"
          BY <1>9, <4>4, <5>4, <5>5, TagsAre
        <5> QED  BY <1>9, <5>4, <5>6, TagIs
      <4>5. CASE e = <<"w">>
        <5>1. i = 1 /\ e[1] = "w"  BY <4>1, <4>5
        <5> QED  BY <4>2, <5>1
      <4> QED  BY <1>7, <4>3, <4>4, <4>5
    <3> QED  BY <3>1, <3>2
  <2> QED  BY <1>8, <2>1 DEF Stream!TagsWhole
<1>13. PICK p \in Nat : p = Stream!Taken /\ p = Stream!Taken' /\ p <= l
  <2>1. Stream!Taken' = Stream!Taken  BY <1>4 DEF Stream!Taken
  <2> QED  BY <1>1, <1>6, <2>1
<1>14. Stream!HeldInv'
  <2>1. SubSeq(t, p + 1, sent) = SubSeq(text, p + 1, sent)
    <3>1. PICK a \in Nat, z \in Nat : a = p + 1 /\ z = sent  BY <1>1
    <3>2. PICK x : x = SubSeq(t, a, z)  OBVIOUS
    <3>3. PICK y : y = SubSeq(text, a, z)  OBVIOUS
    <3>4. /\ a \in Int /\ z \in Int /\ 1 <= a /\ z <= l /\ a <= z + 1 /\ z <= Len(t)
          /\ z <= Len(text)
      <4>1. Len(t) = l + Len(e) /\ Len(e) \in Nat  BY <1>9
      <4>2. z <= l /\ l = Len(text)  BY <1>1, <1>6, <3>1
      <4>3. p <= sent
        <5>1. p + Len(buf) = sent /\ Len(buf) \in Nat /\ sent \in Nat  BY <1>1, <1>13
        <5> QED  BY <5>1
      <4>4. 1 <= a /\ a <= z + 1  BY <1>1, <3>1, <4>3
      <4>5. z <= Len(t)  BY <4>1, <4>2
      <4> QED  BY <4>2, <4>4, <4>5
    <3>5. /\ x \in Seq(Stream!Chars) /\ Len(x) = z - a + 1
          /\ \A i \in 1..(z - a + 1) : x[i] = t[a + i - 1]
      <4>1. t \in Seq(Stream!Chars)  BY <1>9
      <4> QED  BY <3>2, <3>4, <4>1, PieceIs
    <3>6. /\ y \in Seq(Stream!Chars) /\ Len(y) = z - a + 1
          /\ \A i \in 1..(z - a + 1) : y[i] = text[a + i - 1]
      <4>1. text \in Seq(Stream!Chars)  BY <1>7
      <4> QED  BY <3>3, <3>4, <4>1, PieceIs
    <3>7. \A i \in 1..(z - a + 1) : a + i - 1 \in 1..l  BY <3>1, <3>4
    <3>8. \A i \in 1..(z - a + 1) : x[i] = y[i]  BY <1>9, <3>5, <3>6, <3>7
    <3>9. x = y  BY <3>5, <3>6, <3>8, SameSeq
    <3> QED  BY <3>1, <3>2, <3>3, <3>9
  <2>2. Len(buf)' <= sent' /\ buf' = SubSeq(text', Stream!Taken' + 1, sent')
    BY <1>4, <1>8, <1>13, <2>1 DEF Stream!HeldInv
  <2>3. inThink' = Stream!SpanOpen(text', Stream!Taken')
    <3>1. Stream!SpanOpen(t, p) \in BOOLEAN /\ Stream!SpanOpen(text, p) \in BOOLEAN
      BY DEF Stream!SpanOpen
    <3>2. p \in 0..l  BY <1>13
    <3>3. Stream!SpanOpen(t, p) = Stream!SpanOpen(text, p)  BY <1>10, <3>1, <3>2
    <3> QED  BY <1>4, <1>8, <1>13, <3>3 DEF Stream!HeldInv
  <2>4. \A m \in 1..p : m \in 1..l  BY <1>13
  <2>5. Stream!Whole(Stream!CloseTag)' <=> Stream!Whole(Stream!CloseTag)
    <3>1. Stream!Whole(Stream!CloseTag)' <=> \A m \in 1..p : Stream!Finds(t, Stream!CloseTag, m)
            => m + Len(Stream!CloseTag) - 1 <= p
      BY <1>8, <1>13 DEF Stream!Whole, Stream!CloseTag
    <3>2. Stream!Whole(Stream!CloseTag) <=> \A m \in 1..p : Stream!Finds(text, Stream!CloseTag, m)
            => m + Len(Stream!CloseTag) - 1 <= p
      BY <1>13 DEF Stream!Whole
    <3> QED  BY <1>10, <2>4, <3>1, <3>2
  <2>6. Stream!Whole(Stream!OpenTag)' <=> Stream!Whole(Stream!OpenTag)
    <3>1. Stream!Whole(Stream!OpenTag)' <=> \A m \in 1..p : Stream!Finds(t, Stream!OpenTag, m)
            => m + Len(Stream!OpenTag) - 1 <= p
      BY <1>8, <1>13 DEF Stream!Whole, Stream!OpenTag
    <3>2. Stream!Whole(Stream!OpenTag) <=> \A m \in 1..p : Stream!Finds(text, Stream!OpenTag, m)
            => m + Len(Stream!OpenTag) - 1 <= p
      BY <1>13 DEF Stream!Whole
    <3> QED  BY <1>10, <2>4, <3>1, <3>2
  <2> QED  BY <1>4, <2>2, <2>3, <2>5, <2>6 DEF Stream!HeldInv
<1>15. Stream!WaitInv'  BY <1>4 DEF Stream!WaitInv, Stream!OpenTag, Stream!CloseTag
<1>16. Stream!ShownInv'
  <2>1. PICK at : at = {n \in Stream!Visible(text) : n <= p}  OBVIOUS
  <2>2. at = {n \in Stream!Visible(t) : n <= p}
    <3>1. Stream!Visible(t) \subseteq 1..(l + Len(e))  BY <1>9 DEF Stream!Visible
    <3>2. \A n \in Stream!Visible(t) : n <= p => n <= l  BY <1>9, <1>13, <3>1
    <3>3. \A n \in Stream!Visible(text) : n \in Stream!Visible(t)  BY <1>10
    <3>4. \A n \in Stream!Visible(t) : n <= l => n \in Stream!Visible(text)  BY <1>10
    <3> QED  BY <2>1, <3>2, <3>3, <3>4
  <2>3. Stream!Listed(t, at) = Stream!Listed(text, at)
    <3>1. at \in SUBSET (1..l)  BY <1>7, <2>1 DEF Stream!Visible
    <3>2. \A n \in 1..Cardinality(at) : Stream!Nth(at, n) \in at  BY <3>1, NthIs
    <3>3. \A n \in 1..Cardinality(at) : t[Stream!Nth(at, n)] = text[Stream!Nth(at, n)]
      BY <1>9, <3>1, <3>2
    <3> QED  BY <3>3, StreamCardinality DEF Stream!Listed
  <2>4. deltas \o parts = Stream!Listed(text, at)  BY <1>13, <2>1 DEF Stream!ShownInv
  <2>5. deltas' \o parts' = Shows(Stream!Taken)'  BY <1>4, <1>8, <1>13, <2>2, <2>3, <2>4 DEF Shows
  <2> QED  BY <1>4, <2>5 DEF Stream!ShownInv, Shows
<1> QED  BY <1>11, <1>12, <1>14, <1>15, <1>16 DEF Stream!Parameters

(* Before the first chunk nothing was said, held or shown.                 *)
LEMMA StreamStarts ==
  ASSUME Stream!Parameters, Stream!Init
  PROVE  Stream!StreamInv
<1>1. /\ text = <<>> /\ pieces = 0 /\ sent = 0 /\ buf = <<>> /\ inThink = FALSE
      /\ feeding = FALSE /\ parts = <<>> /\ deltas = <<>> /\ response = <<>> /\ outcome = "open"
  BY DEF Stream!Init
<1>2. Len(<<>>) = 0 /\ <<>> \in Seq(Stream!Chars) /\ 1..0 = {} /\ DOMAIN <<>> = {}
  <2>1. Len(<<>>) = 0 /\ <<>> \in Seq(Stream!Chars) /\ 1..0 = {}  OBVIOUS
  <2> QED  BY <2>1, LenProperties
<1>3. Stream!Types
  <2>1. 0 \in 0..MaxPieces /\ 0 \in 0..0  BY DEF Stream!Parameters
  <2>2. sent \in 0..Len(text)  BY <1>1, <1>2, <2>1
  <2> QED  BY <1>1, <1>2, <2>1, <2>2 DEF Stream!Types
<1>4. Stream!TagsWhole
  <2>1. DOMAIN text = {}  BY <1>1, <1>2
  <2> QED  BY <2>1 DEF Stream!TagsWhole
<1>5. Stream!Taken = 0
  <2>1. Len(buf) = 0 /\ sent = 0  BY <1>1, <1>2
  <2> QED  BY <2>1 DEF Stream!Taken
<1>6. Stream!HeldInv
  <2>1. SubSeq(<<>>, 0 + 1, 0) = <<>>
    <3>1. 0 + 1 \in Int /\ 0 \in Int /\ 0 < 0 + 1  OBVIOUS
    <3> QED  BY <3>1, SubSeqEmpty
  <2>2. ~Stream!SpanOpen(text, 0)  BY <1>2 DEF Stream!SpanOpen
  <2>3. Stream!Whole(Stream!OpenTag)  BY <1>2, <1>5 DEF Stream!Whole
  <2>4. Stream!SpanOpen(text, 0) = FALSE
    <3>1. Stream!SpanOpen(text, 0) \in BOOLEAN  BY DEF Stream!SpanOpen
    <3> QED  BY <2>2, <3>1
  <2>5. buf = SubSeq(text, Stream!Taken + 1, sent)  BY <1>1, <1>5, <2>1
  <2>6. Len(buf) <= sent  BY <1>1, <1>2
  <2>7. inThink = Stream!SpanOpen(text, Stream!Taken)  BY <1>1, <1>5, <2>4
  <2> QED  BY <1>1, <2>3, <2>5, <2>6, <2>7 DEF Stream!HeldInv
<1>7. Stream!WaitInv  BY <1>1, <1>2, EmptyBegins, TagsAre DEF Stream!WaitInv
<1>8. Stream!ShownInv
  <2>1. {n \in Stream!Visible(text) : n <= Stream!Taken} = {}  BY <1>1, <1>2 DEF Stream!Visible
  <2>2. Stream!Listed(text, {}) = <<>>
    <3>1. Cardinality({}) = 0  BY FS_EmptySet
    <3> QED  BY <1>2, <3>1, StreamCardinality DEF Stream!Listed
  <2>3. deltas \o parts = <<>>  BY <1>1, ConcatEmptySeq
  <2>4. deltas \o parts = Stream!Listed(text, {n \in Stream!Visible(text) : n <= Stream!Taken})
    BY <1>1, <2>1, <2>2, <2>3
  <2>5. outcome = "open"  BY <1>1
  <2> QED  BY <2>4, <2>5 DEF Stream!ShownInv
<1> QED  BY <1>3, <1>4, <1>6, <1>7, <1>8 DEF Stream!StreamInv

(* What was shown is a beginning of the text without its reasoning.        *)
LEMMA StreamShows ==
  ASSUME Stream!StreamInv
  PROVE  Stream!NeverLeaks /\ Stream!TypeOK
<1> USE DEF Stream!StreamInv
<1>1. /\ sent \in Nat /\ Len(text) \in Nat /\ sent <= Len(text) /\ Stream!Taken \in Nat
      /\ Stream!Taken + Len(buf) = sent /\ Len(buf) \in Nat
  BY HeldIs
<1>2. PICK p \in Nat : p = Stream!Taken  BY <1>1
<1>3. PICK all : all = Stream!Stripped(text)  OBVIOUS
<1>4. PICK low : low = Stream!Listed(text, {i \in Stream!Visible(text) : i <= p})  OBVIOUS
<1>5. low \in Seq(Stream!Chars) /\ all \in Seq(Stream!Chars) /\ Stream!IsPrefix(low, all)
  <2>1. Stream!Visible(text) \in SUBSET DOMAIN text /\ text \in Seq(Stream!Chars)
    BY DEF Stream!Visible, Stream!Types
  <2> QED  BY <1>3, <1>4, <2>1, ListedBelow DEF Stream!Stripped
<1>6. low = deltas \o parts  BY <1>2, <1>4 DEF Stream!ShownInv
<1>7. deltas \in Seq(Stream!Chars) /\ parts \in Seq(Stream!Chars)  BY DEF Stream!Types
<1>8. Stream!IsPrefix(deltas, all)
  <2>1. Begins(low, all)  BY <1>5, PrefixIs
  <2>2. /\ Len(low) = Len(deltas) + Len(parts) /\ Len(deltas) \in Nat /\ Len(parts) \in Nat
        /\ \A i \in 1..Len(deltas) : low[i] = deltas[i]
    <3>1. /\ Len(low) = Len(deltas) + Len(parts) /\ Len(deltas) \in Nat /\ Len(parts) \in Nat
          /\ \A i \in 1..(Len(deltas) + Len(parts)) :
                low[i] = IF i <= Len(deltas) THEN deltas[i] ELSE parts[i - Len(deltas)]
      BY <1>6, <1>7, ConcatProperties, LenProperties
    <3>2. \A i \in 1..Len(deltas) : i \in 1..(Len(deltas) + Len(parts)) /\ i <= Len(deltas)
      BY <3>1
    <3> QED  BY <3>1, <3>2
  <2>3. Len(all) \in Nat  BY <1>5, LenProperties
  <2>4. Len(deltas) <= Len(all) /\ \A i \in 1..Len(deltas) : i \in 1..Len(low)
    BY <2>1, <2>2, <2>3 DEF Begins
  <2>5. Begins(deltas, all)  BY <2>1, <2>2, <2>4 DEF Begins
  <2> QED  BY <1>5, <1>7, <2>5, PrefixIs
<1>9. ASSUME outcome = "response"  PROVE response = all /\ deltas = response
  <2>1. sent = Len(text) /\ buf = <<>> /\ parts = <<>> /\ response = deltas
    BY <1>9 DEF Stream!ShownInv, Stream!Types
  <2>2. p = Len(text)
    <3>1. Len(buf) = 0  BY <2>1
    <3> QED  BY <1>1, <1>2, <2>1, <3>1
  <2>3. Stream!Visible(text) \subseteq 1..Len(text)
    BY LenProperties DEF Stream!Visible, Stream!Types
  <2>4. {i \in Stream!Visible(text) : i <= p} = Stream!Visible(text)  BY <1>1, <2>2, <2>3
  <2>5. low = all  BY <1>3, <1>4, <2>4 DEF Stream!Stripped
  <2> QED  BY <1>6, <1>7, <2>1, <2>5
<1>10. Stream!NeverLeaks  BY <1>3, <1>8, <1>9 DEF Stream!NeverLeaks
<1>11. Stream!TypeOK
  <2>1. Len(buf) <= Len(text)  BY <1>1
  <2> QED  BY <2>1 DEF Stream!TypeOK, Stream!Types
<1> QED  BY <1>10, <1>11

(* Nor does a step that leaves the stream alone disturb it.                *)
LEMMA StreamStutters ==
  ASSUME Stream!StreamInv, UNCHANGED Stream!vars
  PROVE  Stream!StreamInv'
<1> USE DEF Stream!StreamInv
<1>1. UNCHANGED <<Stream!textVars, sent, buf, inThink, feeding, parts, deltas, response, outcome>>
  BY DEF Stream!vars, Stream!filterVars
<1>2. Stream!TagsWhole' /\ Stream!HeldInv' /\ Shows(Stream!Taken)' = Shows(Stream!Taken)
  BY <1>1, FilterStays
<1>3. Stream!Types'  BY <1>1 DEF Stream!Types, Stream!textVars
<1>4. Stream!WaitInv'  BY <1>1 DEF Stream!WaitInv, Stream!OpenTag, Stream!CloseTag
<1>5. Stream!ShownInv'
  <2>1. deltas' \o parts' = Shows(Stream!Taken)'  BY <1>1, <1>2 DEF Stream!ShownInv, Shows
  <2> QED  BY <1>1, <2>1 DEF Stream!ShownInv, Shows, Stream!textVars
<1> QED  BY <1>2, <1>3, <1>4, <1>5 DEF Stream!Parameters

(* Without stray "<" the invariant always holds.                           *)
LEMMA StreamInvariance == "less" \notin Pieces => (Stream!Spec => []Stream!StreamInv)
<1> SUFFICES ASSUME "less" \notin Pieces  PROVE Stream!Spec => []Stream!StreamInv
  OBVIOUS
<1>1. Stream!Init => Stream!StreamInv  BY StreamStarts, StreamParameters
<1>2. Stream!StreamInv /\ [Stream!Next]_(Stream!vars) => Stream!StreamInv'
  BY SayKeeps, ArriveKeeps, InsideMoves, OutsideMoves, EmitKeeps, RespondKeeps, FailKeeps,
     StreamStutters DEF Stream!Next
<1> QED  BY <1>1, <1>2, PTL DEF Stream!Spec

(* The types alone, whatever the model says.                               *)
StreamTypes ==
  /\ text \in Seq(Stream!Chars) /\ buf \in Seq(Stream!Chars)
  /\ sent \in 0..Len(text) /\ Len(buf) <= sent
  /\ inThink \in BOOLEAN /\ feeding \in BOOLEAN
  /\ outcome \in {"open", "response", "error"}

(* What is left of a sequence is no longer than it.                        *)
LEMMA FromShrinks ==
  ASSUME NEW S, NEW s \in Seq(S), NEW n \in Int, 1 <= n
  PROVE  Stream!From(s, n) \in Seq(S) /\ Len(Stream!From(s, n)) <= Len(s)
<1>1. Len(s) \in Nat  BY LenProperties
<1>2. CASE n <= Len(s) + 1
  <2>1. n \in 1..Len(s) + 1  BY <1>1, <1>2
  <2>2. Stream!From(s, n) \in Seq(S) /\ Len(Stream!From(s, n)) = Len(s) - n + 1  BY <2>1, FromIs
  <2>3. Len(s) - n + 1 <= Len(s)  BY <1>1
  <2> QED  BY <2>2, <2>3
<1>3. CASE n > Len(s) + 1
  <2>1. Stream!From(s, n) = <<>>
    <3>1. n \in Int /\ Len(s) \in Int /\ Len(s) < n  BY <1>1, <1>3
    <3> QED  BY <3>1, SubSeqEmpty DEF Stream!From
  <2>2. <<>> \in Seq(S) /\ Len(<<>>) = 0  OBVIOUS
  <2> QED  BY <1>1, <2>1, <2>2
<1> QED  BY <1>1, <1>2, <1>3

(* A step keeps the types.                                                 *)
LEMMA StreamTypesKept ==
  ASSUME StreamTypes, [Stream!Next]_(Stream!vars)
  PROVE  StreamTypes'
<1> USE DEF StreamTypes
<1>1. /\ text \in Seq(Stream!Chars) /\ buf \in Seq(Stream!Chars)
      /\ sent \in Nat /\ Len(text) \in Nat /\ Len(buf) \in Nat /\ sent <= Len(text)
      /\ Len(buf) <= sent
  BY LenProperties
<1>2. ASSUME Stream!textVars' = Stream!textVars, sent' = sent, Len(buf') <= Len(buf),
             buf' \in Seq(Stream!Chars), inThink' \in BOOLEAN, feeding' \in BOOLEAN,
             outcome' \in {"open", "response", "error"}
      PROVE  StreamTypes'
  <2>1. Len(buf') \in Nat  BY <1>2, LenProperties
  <2> QED  BY <1>1, <1>2, <2>1 DEF Stream!textVars
<1>3. CASE Stream!Say
  <2>1. PICK piece \in Pieces : text' = text \o Stream!Characters(piece)  BY <1>3 DEF Stream!Say
  <2>2. PICK e : e = Stream!Characters(piece)  OBVIOUS
  <2>3. e \in Seq(Stream!Chars)
    <3>1. <<"w">> \in Seq(Stream!Chars)  BY DEF Stream!Chars
    <3> QED  BY <2>2, <3>1, TagsAre DEF Stream!Characters
  <2>4. text' \in Seq(Stream!Chars) /\ Len(text') = Len(text) + Len(e) /\ Len(e) \in Nat
    BY <1>1, <2>1, <2>2, <2>3, ConcatProperties, LenProperties
  <2>5. sent \in 0..Len(text')  BY <1>1, <2>4
  <2> QED  BY <1>3, <2>4, <2>5 DEF Stream!Say, Stream!filterVars
<1>4. CASE Stream!Arrive
  <2>1. PICK n \in 1..MaxChunk : /\ sent + n <= Len(text) /\ sent' = sent + n
                                 /\ buf' = buf \o SubSeq(text, sent + 1, sent + n)
    BY <1>4 DEF Stream!Arrive
  <2>2. n \in Nat /\ n >= 1  BY StreamParameters DEF Stream!Parameters
  <2>3. PICK e : e = SubSeq(text, sent + 1, sent + n)  OBVIOUS
  <2>4. e \in Seq(Stream!Chars) /\ Len(e) = n
    <3>1. PICK a \in Nat, z \in Nat : a = sent + 1 /\ z = sent + n  BY <1>1, <2>2
    <3>2. a \in Int /\ z \in Int /\ 1 <= a /\ z <= Len(text) /\ a <= z + 1 /\ z - a + 1 = n
      BY <1>1, <2>1, <2>2, <3>1
    <3> QED  BY <1>1, <2>3, <3>1, <3>2, PieceIs
  <2>5. buf' \in Seq(Stream!Chars) /\ Len(buf') = Len(buf) + n
    BY <1>1, <2>1, <2>3, <2>4, ConcatProperties
  <2>6. Len(buf) + n <= sent + n /\ sent + n \in 0..Len(text)  BY <1>1, <2>1, <2>2
  <2> QED  BY <1>4, <2>1, <2>5, <2>6 DEF Stream!Arrive, Stream!textVars
<1>5. CASE Stream!StepInside
  <2>1. /\ Stream!textVars' = Stream!textVars /\ sent' = sent /\ outcome' = outcome
        /\ inThink' \in BOOLEAN /\ feeding' \in BOOLEAN
    BY <1>5 DEF Stream!StepInside
  <2>2. PICK close : close = Stream!Find(buf, Stream!CloseTag)  OBVIOUS
  <2>3. close = 0 \/ close \in 1..Len(buf)  BY <1>1, <2>2, FindIs
  <2>4. CASE close = 0
    <3>1. Stream!Longest(Stream!Kept(buf)) \in 0..3 /\ Stream!Longest(Stream!Kept(buf)) <= Len(buf)
      BY <1>1, LongestIs
    <3>2. PICK n \in Int : n = Len(buf) - Stream!Longest(Stream!Kept(buf)) + 1  BY <1>1, <3>1
    <3>3. 1 <= n  BY <1>1, <3>1, <3>2
    <3>4. buf' = Stream!From(buf, n)  BY <1>5, <2>2, <2>4, <3>2 DEF Stream!StepInside
    <3> QED  BY <1>1, <1>2, <2>1, <3>3, <3>4, FromShrinks
  <2>5. CASE close # 0
    <3>1. PICK n \in Int : n = close + Len(Stream!CloseTag)  BY <1>1, <2>3, TagsAre
    <3>2. 1 <= n  BY <1>1, <2>3, <2>5, <3>1, TagsAre
    <3>3. buf' = Stream!From(buf, n)  BY <1>5, <2>2, <2>5, <3>1 DEF Stream!StepInside
    <3> QED  BY <1>1, <1>2, <2>1, <3>2, <3>3, FromShrinks
  <2> QED  BY <2>4, <2>5
<1>6. CASE Stream!StepOutside
  <2>1. PICK lt : lt = Stream!Find(buf, <<"<">>)  OBVIOUS
  <2>2. PICK rest : rest = IF lt = 0 THEN <<>> ELSE Stream!From(buf, lt)  OBVIOUS
  <2>3. /\ Stream!textVars' = Stream!textVars /\ sent' = sent /\ outcome' = outcome
        /\ inThink' \in BOOLEAN /\ feeding' \in BOOLEAN
    BY <1>6 DEF Stream!StepOutside
  <2>4. rest \in Seq(Stream!Chars) /\ Len(rest) <= Len(buf) /\ Len(rest) \in Nat
    <3>1. lt = 0 \/ lt \in 1..Len(buf)  BY <1>1, <2>1, FindIs
    <3>2. CASE lt = 0
      <4>1. <<>> \in Seq(Stream!Chars) /\ Len(<<>>) = 0  OBVIOUS
      <4> QED  BY <1>1, <2>2, <3>2, <4>1
    <3>3. CASE lt # 0
      <4>1. lt \in Int /\ 1 <= lt  BY <1>1, <3>1, <3>3
      <4>2. rest = Stream!From(buf, lt)  BY <2>2, <3>3
      <4> QED  BY <1>1, <4>1, <4>2, FromShrinks, LenProperties
    <3> QED  BY <3>2, <3>3
  <2>5. \/ buf' = rest
        \/ buf' = <<>>
        \/ buf' = Stream!From(rest, 4)
        \/ Len(rest) >= 3 /\ buf' = Tail(rest)
    <3>1. Len(Stream!OpenTag) = 3 /\ 3 + 1 = 4  BY TagsAre
    <3> QED  BY <1>6, <2>1, <2>2, <3>1 DEF Stream!StepOutside
  <2>6. buf' \in Seq(Stream!Chars) /\ Len(buf') <= Len(buf)
    <3>1. CASE buf' = rest  BY <2>4, <3>1
    <3>2. CASE buf' = <<>>
      <4>1. <<>> \in Seq(Stream!Chars) /\ Len(<<>>) = 0  OBVIOUS
      <4> QED  BY <1>1, <3>2, <4>1
    <3>3. CASE buf' = Stream!From(rest, 4)
      <4>1. PICK x : x = Stream!From(rest, 4)  OBVIOUS
      <4>2. x \in Seq(Stream!Chars) /\ Len(x) <= Len(rest) /\ Len(x) \in Nat
        <5>1. 4 \in Int /\ 1 <= 4  OBVIOUS
        <5> QED  BY <2>4, <4>1, <5>1, FromShrinks, LenProperties
      <4>3. Len(x) <= Len(buf)  BY <1>1, <2>4, <4>2
      <4> QED  BY <3>3, <4>1, <4>2, <4>3
    <3>4. CASE Len(rest) >= 3 /\ buf' = Tail(rest)
      <4>1. rest # <<>>  BY <3>4
      <4>2. PICK x : x = Tail(rest)  OBVIOUS
      <4>3. x \in Seq(Stream!Chars) /\ Len(x) = Len(rest) - 1
        BY <2>4, <4>1, <4>2, HeadTailProperties
      <4>4. Len(x) <= Len(buf)  BY <1>1, <2>4, <4>3
      <4> QED  BY <3>4, <4>2, <4>3, <4>4
    <3> QED  BY <2>5, <3>1, <3>2, <3>3, <3>4
  <2> QED  BY <1>2, <2>3, <2>6
<1>7. CASE Stream!EmitDelta
  <2>1. /\ Stream!textVars' = Stream!textVars /\ sent' = sent /\ buf' = buf /\ inThink' = inThink
        /\ outcome' = outcome /\ feeding' = FALSE
    BY <1>7 DEF Stream!EmitDelta
  <2>2. Len(buf') <= Len(buf) /\ buf' \in Seq(Stream!Chars)
    <3>1. Len(buf) <= Len(buf)  BY <1>1
    <3> QED  BY <1>1, <2>1, <3>1
  <2>3. inThink' \in BOOLEAN /\ feeding' \in BOOLEAN
    BY <2>1
  <2>4. outcome' \in {"open", "response", "error"}
    BY <2>1
  <2> QED  BY <1>2, <2>1, <2>2, <2>3, <2>4
<1>8. CASE Stream!Respond
  <2>1. Len(<<>>) = 0 /\ <<>> \in Seq(Stream!Chars)  OBVIOUS
  <2>2. buf' = <<>> /\ outcome' = "response"
          /\ UNCHANGED <<Stream!textVars, sent, inThink, feeding>>
    BY <1>8 DEF Stream!Respond
  <2> QED  BY <1>1, <1>2, <2>1, <2>2
<1>9. CASE Stream!Fail
  <2>1. outcome' = "error" /\ UNCHANGED <<Stream!textVars, sent, buf, inThink, feeding>>
    BY <1>9 DEF Stream!Fail, Stream!filterVars
  <2> QED  BY <1>1, <1>2, <2>1
<1>10. CASE UNCHANGED Stream!vars
  <2>1. UNCHANGED <<Stream!textVars, sent, buf, inThink, feeding, outcome>>
    BY <1>10 DEF Stream!vars, Stream!filterVars
  <2> QED  BY <1>1, <1>2, <2>1
<1> HIDE DEF StreamTypes
<1> QED  BY <1>3, <1>4, <1>5, <1>6, <1>7, <1>8, <1>9, <1>10 DEF Stream!Next

(* They hold in every reachable state.                                     *)
LEMMA StreamTypesInvariance == Stream!Spec => []StreamTypes
<1>1. Stream!Init => StreamTypes
  <2> SUFFICES ASSUME Stream!Init  PROVE StreamTypes
    OBVIOUS
  <2>1. Len(<<>>) = 0 /\ <<>> \in Seq(Stream!Chars) /\ 0 \in 0..0 /\ 0 <= 0  OBVIOUS
  <2>2. /\ text = <<>> /\ sent = 0 /\ buf = <<>> /\ inThink = FALSE
        /\ feeding = FALSE /\ outcome = "open"
    BY DEF Stream!Init
  <2>3. sent \in 0..Len(text) /\ Len(buf) <= sent  BY <2>1, <2>2
  <2> QED  BY <2>1, <2>2, <2>3 DEF StreamTypes
<1>2. StreamTypes /\ [Stream!Next]_(Stream!vars) => StreamTypes'  BY StreamTypesKept
<1> QED  BY <1>1, <1>2, PTL DEF Stream!Spec

(* They are the types the run checks.                                      *)
LEMMA StreamTypesSay == StreamTypes => Stream!TypeOK
<1> SUFFICES ASSUME StreamTypes  PROVE Stream!TypeOK
  OBVIOUS
<1>1. Len(text) \in Nat /\ Len(buf) \in Nat /\ sent \in 0..Len(text) /\ Len(buf) <= sent
  BY LenProperties DEF StreamTypes
<1>2. Len(buf) <= Len(text)  BY <1>1
<1> QED  BY <1>1, <1>2 DEF StreamTypes, Stream!TypeOK

(* A step of the run is one of the stream.                                 *)
LEMMA StreamAlone == GateSpec => Stream!Spec
<1>1. [GateNext]_<<vars, side, gateVars, streamVars>> => [Stream!Next]_(Stream!vars)
  BY DEF GateNext, streamVars, Stream!vars, Stream!textVars, Stream!filterVars
<1> QED  BY <1>1, PTL DEF GateSpec, TurnsInit, Stream!Spec

(* The tables of the runtime, the state of every dispatch and that of the  *)
(* filter keep their types.                                                *)
THEOREM TurnTypeCorrectness == GateSpec => []TurnTypes
<1>1. GateInv /\ StreamTypes => TurnTypes  BY StreamTypesSay DEF GateInv, TurnTypes
<1> QED  BY GateInvariance, StreamTypesInvariance, <1>1, GateAlone, StreamAlone, PTL

(* However long the text is and wherever the chunks are cut: if every "<"  *)
(* begins a tag, the deltas only ever show a beginning of the text without *)
(* its reasoning, and the response is that text and what the deltas showed *)
(* (llm_openai/plugin.py:343-475, 529-653).                                *)
THEOREM StreamsNeverLeak ==
  ASSUME "less" \notin Pieces
  PROVE  GateSpec => []NeverLeaks
<1>1. Stream!StreamInv => NeverLeaks  BY StreamShows DEF NeverLeaks
<1> QED  BY <1>1, StreamAlone, StreamInvariance, PTL
=============================================================================
