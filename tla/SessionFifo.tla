----------------------------- MODULE SessionFifo -----------------------------
(***************************************************************************)
(* What the event bus promises, without its queues and workers (the        *)
(* docstring of bus.py, lines 1-31, and publish's): each session is a FIFO *)
(* served one event at a time; publish returns when every subscriber has   *)
(* finished with the event; a closed bus takes no more.                    *)
(***************************************************************************)
EXTENDS Integers

CONSTANTS
  Sessions, KernelSession, Publishers,
  Lossy,     \* TRUE: a handler may let CancelledError out
  Nothing

VARIABLES
  closed,
  accepted,  \* per session: events taken so far
  drawn,     \* per session: the last event that left the queue
  busy,      \* sessions whose event drawn[s] is with its subscribers
  wait       \* per publisher: the event it waits for

vars == <<closed, accepted, drawn, busy, wait>>

Init ==
  /\ closed = FALSE
  /\ accepted = [s \in Sessions |-> 0] /\ drawn = [s \in Sessions |-> 0]
  /\ busy = {}
  /\ wait = [p \in Publishers |-> Nothing]

Taken(s) == ~closed /\ accepted' = [accepted EXCEPT ![s] = @ + 1]

(* A publisher waits for its event; a handler does not.                    *)
Accept(s) ==
  /\ Taken(s)
  /\ \/ UNCHANGED wait
     \/ \E p \in Publishers :
          /\ wait[p] = Nothing
          /\ wait' = [wait EXCEPT ![p] = [sess |-> s, num |-> accepted[s] + 1]]
  /\ UNCHANGED <<closed, drawn, busy>>

Returned(s, n) ==
  [p \in Publishers |-> IF wait[p] = [sess |-> s, num |-> n] THEN Nothing ELSE wait[p]]

(* The next event in line; without subscribers it is done at once.         *)
Begin(s) ==
  /\ s \notin busy /\ drawn[s] < accepted[s]
  /\ drawn' = [drawn EXCEPT ![s] = @ + 1]
  /\ \/ busy' = busy \cup {s} /\ UNCHANGED wait
     \/ wait' = Returned(s, drawn[s] + 1) /\ UNCHANGED busy
  /\ UNCHANGED <<closed, accepted>>

(* All subscribers are done; the failure of the last one is reported.      *)
End(s) ==
  /\ s \in busy
  /\ busy' = busy \ {s}
  /\ wait' = Returned(s, drawn[s])
  /\ UNCHANGED accepted \/ Taken(KernelSession)
  /\ UNCHANGED <<closed, drawn>>

(* A handler lets CancelledError out: what is behind the event is lost.    *)
Drop(s) ==
  /\ Lossy /\ s \in busy
  /\ busy' = busy \ {s}
  /\ wait' = Returned(s, drawn[s])
  /\ drawn' = [drawn EXCEPT ![s] = accepted[s]]
  /\ UNCHANGED <<closed, accepted>>

(* The caller of publish is cancelled.                                     *)
Cancel(p) ==
  /\ wait[p] # Nothing
  /\ wait' = [wait EXCEPT ![p] = Nothing]
  /\ UNCHANGED <<closed, accepted, drawn, busy>>

Close == closed' = TRUE /\ UNCHANGED <<accepted, drawn, busy, wait>>

Next ==
  \/ \E s \in Sessions : Accept(s) \/ Begin(s) \/ End(s) \/ Drop(s)
  \/ \E p \in Publishers : Cancel(p)
  \/ Close

Spec == Init /\ [][Next]_vars
=============================================================================
