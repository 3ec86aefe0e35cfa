------------------------------ MODULE Approval ------------------------------
(***************************************************************************)
(* The tool dispatcher (src/yaya/kernel/tool.py) and the approval runtime  *)
(* that gates it (src/yaya/kernel/approval.py).                            *)
(*                                                                         *)
(* The dispatcher handles one tool.call.request at a time per session: it  *)
(* runs inside the session's bus worker, under the bus's handler timeout.  *)
(* For a tool that requires approval it asks the runtime, which publishes  *)
(* approval.request, parks a future under the approval id and waits for    *)
(* approval.response, its own timeout or the shutdown of the kernel.       *)
(*                                                                         *)
(* The two timeouts start together: the dispatcher reaches the runtime     *)
(* without suspending, and publish returns at once inside a worker.  They  *)
(* are set independently: the runtime's is an argument of its constructor  *)
(* (60 s as shipped, 0.05 s and 5 s in the tests), the bus's is 30 s.  A   *)
(* behaviour has any of ApprovalTimeouts, the shorter and the longer.      *)
(*                                                                         *)
(* A behaviour starts with the runtime installed: the only publisher of    *)
(* tool.call.request, the agent loop, starts after the registry.  At       *)
(* shutdown it stops first, but requests it published may still be queued. *)
(***************************************************************************)
EXTENDS Integers, FiniteSets

CONSTANTS
  Calls,            \* tool.call.request events; also their approval ids
  SessionOf,        \* the session a call belongs to
  KeyOf,            \* its tool name and parameter fingerprint
  ApprovalTimeouts, \* what ApprovalRuntime may be constructed with, in ticks
  HandlerTimeout,   \* the bus's DEFAULT_HANDLER_TIMEOUT_S, in ticks
  NoCall

(* What the proofs need of the constants.                                  *)
Parameters ==
  /\ NoCall \notin Calls
  /\ ApprovalTimeouts \subseteq Nat \ {0} /\ HandlerTimeout \in Nat \ {0}

VARIABLES
  timeout_s,  \* what this runtime was constructed with
  pc,         \* where the dispatch of a call is
  age,        \* ticks since the dispatch of a call began
  phase,      \* the runtime: installed, in stop(), stopped
  pending,    \* _pending: ids with a parked future
  fut,        \* the futures
  allow,      \* _session_allowlist
  todo,       \* stop(): the snapshot it still has to cancel
  emitting,   \* stop(): the id whose approval.cancelled is being published
  out,        \* the event that ended a call: tool.call.result, tool.error or none
  withdrawn,  \* history: approval.cancelled events of a call, by reason
  accepted,   \* history: the response accepted for a call, or "late"
  gated,      \* history: calls of tools that require approval
  unguarded,  \* history: gated calls dispatched while no runtime was registered
  ran         \* history: calls whose tool ran

vars == <<timeout_s, pc, age, phase, pending, fut, allow, todo, emitting, out, withdrawn,
          accepted, gated, unguarded, ran>>
runtimeVars == <<phase, pending, fut, allow, todo, emitting, withdrawn, accepted>>
stopVars == <<phase, todo, emitting>>
historyVars == <<gated, unguarded>>

Responses == {"approve", "approve_for_session", "reject"}
KeyIn(c) == <<SessionOf[c], KeyOf[c]>>

Init ==
  /\ timeout_s \in ApprovalTimeouts
  /\ pc = [c \in Calls |-> "queued"]
  /\ age = [c \in Calls |-> 0]
  /\ phase = "on"
  /\ pending = {} /\ allow = {} /\ todo = {}
  /\ emitting = NoCall
  /\ fut = [c \in Calls |-> "none"]
  /\ out = [c \in Calls |-> "none"]
  /\ withdrawn = [c \in Calls |-> {}]
  /\ accepted = [c \in Calls |-> "none"]
  /\ gated = {} /\ unguarded = {} /\ ran = {}

-----------------------------------------------------------------------------
(* The dispatcher.                                                         *)

Active(c) == pc[c] \in {"asked", "running"}

(* The bus hands the call to the dispatcher: its session has no other.     *)
Dispatched(c) ==
  /\ pc[c] = "queued"
  /\ \A d \in Calls : SessionOf[d] = SessionOf[c] => ~Active(d)

(* The dispatch ends with one event on the bus.                            *)
EndWith(c, event) ==
  /\ pc' = [pc EXCEPT ![c] = "over"]
  /\ out' = [out EXCEPT ![c] = event]

Run(c) ==
  /\ pc' = [pc EXCEPT ![c] = "running"]
  /\ ran' = ran \cup {c}

(* No v1 payload: left to the legacy plugins.                              *)
DispatchIgnored(c) ==
  /\ Dispatched(c)
  /\ EndWith(c, "none")
  /\ UNCHANGED <<age, runtimeVars, historyVars, ran>>

(* Unknown tool, invalid arguments, or a tool's own pre_approve that says  *)
(* no or raises.                                                           *)
DispatchRefused(c) ==
  /\ Dispatched(c)
  /\ EndWith(c, "error")
  /\ UNCHANGED <<age, runtimeVars, historyVars, ran>>

DispatchUngated(c) ==
  /\ Dispatched(c)
  /\ Run(c)
  /\ UNCHANGED <<age, runtimeVars, historyVars, out>>

(* pre_approve and request: without a registered runtime everything is     *)
(* allowed; a key on the session's allowlist is approved at once; anything *)
(* else parks a future and prompts.                                        *)
DispatchGated(c) ==
  /\ Dispatched(c)
  /\ gated' = gated \cup {c}
  /\ \/ /\ phase # "on"
        /\ unguarded' = unguarded \cup {c}
        /\ Run(c)
        /\ UNCHANGED <<pending, fut>>
     \/ /\ phase = "on" /\ KeyIn(c) \in allow
        /\ Run(c)
        /\ UNCHANGED <<pending, fut, unguarded>>
     \/ /\ phase = "on" /\ KeyIn(c) \notin allow
        /\ pc' = [pc EXCEPT ![c] = "asked"]
        /\ pending' = pending \cup {c}
        /\ fut' = [fut EXCEPT ![c] = "open"]
        /\ UNCHANGED <<ran, unguarded>>
  /\ UNCHANGED <<age, phase, allow, todo, emitting, withdrawn, accepted, out>>

(* The future is resolved and request returns or raises.                   *)
AllowEverywhere(c) ==
  /\ pc[c] = "asked" /\ fut[c] \notin {"open", "none"}
  /\ allow' = IF fut[c] = "approve_for_session"
              THEN allow \cup {<<SessionOf[d], KeyOf[c]>> : d \in Calls} ELSE allow
  /\ \/ fut[c] \in {"approve", "approve_for_session"} /\ Run(c) /\ UNCHANGED out
     \/ fut[c] \in {"reject", "shutdown"} /\ EndWith(c, "error") /\ UNCHANGED ran
  /\ UNCHANGED <<age, stopVars, pending, fut, withdrawn, accepted, historyVars>>
AllowBareKey(c) ==
  /\ pc[c] = "asked" /\ fut[c] \notin {"open", "none"}
  /\ allow' = IF fut[c] = "approve_for_session" THEN allow \cup {KeyOf[c]} ELSE allow
  /\ \/ fut[c] \in {"approve", "approve_for_session"} /\ Run(c) /\ UNCHANGED out
     \/ fut[c] \in {"reject", "shutdown"} /\ EndWith(c, "error") /\ UNCHANGED ran
  /\ UNCHANGED <<age, stopVars, pending, fut, withdrawn, accepted, historyVars>>
RejectSilently(c) ==
  /\ pc[c] = "asked" /\ fut[c] \notin {"open", "none"}
  /\ allow' = IF fut[c] = "approve_for_session" THEN allow \cup {KeyIn(c)} ELSE allow
  /\ \/ fut[c] \in {"approve", "approve_for_session"} /\ Run(c) /\ UNCHANGED out
     \/ fut[c] \in {"reject", "shutdown"} /\ EndWith(c, "none") /\ UNCHANGED ran
  /\ UNCHANGED <<age, stopVars, pending, fut, withdrawn, accepted, historyVars>>
RequestResumes(c) ==
  /\ pc[c] = "asked" /\ fut[c] \notin {"open", "none"}
  /\ allow' = IF fut[c] = "approve_for_session" THEN allow \cup {KeyIn(c)} ELSE allow
  /\ \/ fut[c] \in {"approve", "approve_for_session"} /\ Run(c) /\ UNCHANGED out
     \/ fut[c] \in {"reject", "shutdown"} /\ EndWith(c, "error") /\ UNCHANGED ran
  /\ UNCHANGED <<age, stopVars, pending, fut, withdrawn, accepted, historyVars>>

(* wait_for gives up, also on a future resolved a moment ago: the id is    *)
(* popped, the prompt withdrawn, the call refused.                         *)
TimeoutKeepsKey(c) ==
  /\ pc[c] = "asked" /\ age[c] >= timeout_s
  /\ withdrawn' = [withdrawn EXCEPT ![c] = @ \cup {"timeout"}]
  /\ fut' = [fut EXCEPT ![c] = "cancelled"]
  /\ EndWith(c, "error")
  /\ UNCHANGED <<age, stopVars, pending, allow, accepted, historyVars, ran>>
TimeoutQuietly(c) ==
  /\ pc[c] = "asked" /\ age[c] >= timeout_s
  /\ pending' = pending \ {c}
  /\ fut' = [fut EXCEPT ![c] = "cancelled"]
  /\ EndWith(c, "error")
  /\ UNCHANGED <<age, stopVars, withdrawn, allow, accepted, historyVars, ran>>
RequestTimesOut(c) ==
  /\ pc[c] = "asked" /\ age[c] >= timeout_s
  /\ pending' = pending \ {c}
  /\ withdrawn' = [withdrawn EXCEPT ![c] = @ \cup {"timeout"}]
  /\ fut' = [fut EXCEPT ![c] = "cancelled"]
  /\ EndWith(c, "error")
  /\ UNCHANGED <<age, stopVars, allow, accepted, historyVars, ran>>

(* run returns or raises: tool.call.result either way.                     *)
ToolReturns(c) ==
  /\ pc[c] = "running"
  /\ EndWith(c, "result")
  /\ UNCHANGED <<age, runtimeVars, historyVars, ran>>

(* The bus cancels the dispatcher.  Nothing catches it: the id stays in    *)
(* _pending, and the bus does not report failures of kernel handlers.      *)
HandlerTimesOut(c) ==
  /\ Active(c) /\ age[c] >= HandlerTimeout
  /\ EndWith(c, "none")
  /\ fut' = [fut EXCEPT ![c] = IF pc[c] = "asked" THEN "cancelled" ELSE @]
  /\ UNCHANGED <<age, stopVars, pending, allow, withdrawn, accepted, historyVars, ran>>

-----------------------------------------------------------------------------
(* The runtime.                                                            *)

(* _on_approval_response: the id is popped; the response counts if the     *)
(* future is still open (an unknown response word is a reject), and is     *)
(* dropped if it comes too late.  A delivery that began before stop()      *)
(* unsubscribed may end after it.                                          *)
OnApprovalResponse(c, r) ==
  /\ phase \in {"on", "stopping"}
  /\ c \in pending
  /\ pending' = pending \ {c}
  /\ IF fut[c] = "open"
     THEN /\ fut' = [fut EXCEPT ![c] = r]
          /\ accepted' = [accepted EXCEPT ![c] = r]
     ELSE /\ accepted' = [accepted EXCEPT ![c] = "late"]
          /\ UNCHANGED fut
  /\ UNCHANGED <<pc, age, stopVars, allow, out, withdrawn, historyVars, ran>>

(* uninstall_approval_runtime: unregister, then stop(): unsubscribe and    *)
(* snapshot what is pending.                                               *)
Uninstall ==
  /\ phase = "on"
  /\ phase' = "stopping"
  /\ todo' = pending
  /\ UNCHANGED <<pc, age, pending, fut, allow, emitting, out, withdrawn, accepted,
                 historyVars, ran>>

StopEmitsCancelled(c) ==
  /\ phase = "stopping" /\ emitting = NoCall /\ c \in todo
  /\ emitting' = c
  /\ withdrawn' = [withdrawn EXCEPT ![c] = @ \cup {"shutdown"}]
  /\ UNCHANGED <<pc, age, phase, pending, fut, allow, todo, out, accepted, historyVars, ran>>

StopSkipsFuture ==
  /\ emitting # NoCall
  /\ fut' = fut
  /\ todo' = todo \ {emitting}
  /\ emitting' = NoCall
  /\ UNCHANGED <<pc, age, phase, pending, allow, out, withdrawn, accepted, historyVars, ran>>

StopFailsFuture ==
  /\ emitting # NoCall
  /\ fut' = [fut EXCEPT ![emitting] = IF @ = "open" THEN "shutdown" ELSE @]
  /\ todo' = todo \ {emitting}
  /\ emitting' = NoCall
  /\ UNCHANGED <<pc, age, phase, pending, allow, out, withdrawn, accepted, historyVars, ran>>

StopReturns ==
  /\ phase = "stopping" /\ emitting = NoCall /\ todo = {}
  /\ phase' = "stopped"
  /\ pending' = {}
  /\ UNCHANGED <<pc, age, fut, allow, todo, emitting, out, withdrawn, accepted,
                 historyVars, ran>>

(* One unit of time; a timer that is due fires first.                      *)
Due(c) ==
  \/ Active(c) /\ age[c] >= HandlerTimeout
  \/ pc[c] = "asked" /\ age[c] >= timeout_s

Tick ==
  /\ \E c \in Calls : Active(c)
  /\ \A c \in Calls : ~Due(c)
  /\ age' = [c \in Calls |-> IF Active(c) THEN age[c] + 1 ELSE age[c]]
  /\ UNCHANGED <<pc, runtimeVars, historyVars, out, ran>>

CallStep(c) ==
  \/ DispatchIgnored(c) \/ DispatchRefused(c) \/ DispatchUngated(c) \/ DispatchGated(c)
  \/ RequestResumes(c) \/ RequestTimesOut(c) \/ HandlerTimesOut(c)

StopStep == (\E c \in Calls : StopEmitsCancelled(c)) \/ StopFailsFuture \/ StopReturns

Next ==
  /\ UNCHANGED timeout_s
  /\ \/ \E c \in Calls : CallStep(c) \/ ToolReturns(c)
     \/ \E c \in Calls, r \in Responses : OnApprovalResponse(c, r)
     \/ Uninstall \/ StopStep \/ Tick

Spec == Init /\ [][Next]_vars
-----------------------------------------------------------------------------
(* Types of the runtime's tables and of the dispatch (approval.py:243-265, *)
(* tool.py:510-592).                                                       *)
TypeOK ==
  /\ timeout_s \in ApprovalTimeouts
  /\ pc \in [Calls -> {"queued", "asked", "running", "over"}]
  /\ age \in [Calls -> Nat]
  /\ phase \in {"on", "stopping", "stopped"}
  /\ pending \subseteq Calls /\ todo \subseteq Calls
  /\ emitting \in Calls \cup {NoCall}
  /\ fut \in [Calls -> Responses \cup {"none", "open", "shutdown", "cancelled"}]
  /\ allow \subseteq {KeyIn(c) : c \in Calls}
  /\ out \in [Calls -> {"none", "result", "error"}]
  /\ withdrawn \in [Calls -> SUBSET {"timeout", "shutdown"}]
  /\ accepted \in [Calls -> Responses \cup {"none", "late"}]
  /\ gated \subseteq Calls /\ unguarded \subseteq Calls /\ ran \subseteq Calls

Waiting(c) == pc[c] = "asked" /\ fut[c] = "open"

(* The bus cancelled the dispatch while it was asked: it can only when the *)
(* runtime's timeout is not the shorter one, as shipped (bus.py:282).      *)
Cut(c) ==
  /\ timeout_s >= HandlerTimeout /\ age[c] >= HandlerTimeout
  /\ pc[c] = "over" /\ out[c] = "none" /\ fut[c] = "cancelled"

(* No way out of an approval (answer, late answer, timeout, shutdown)      *)
(* leaves a key behind but the bus's cut, and nobody waits on a future     *)
(* that no answer can find (approval.py:385-402, 427).                     *)
PendingIsAwaited ==
  /\ \A c \in Calls : Waiting(c) => c \in pending
  /\ phase # "stopping" => \A c \in pending : Waiting(c) \/ Cut(c)

Approved(c) ==
  \/ accepted[c] \in {"approve", "approve_for_session"}
  \/ \E d \in Calls : accepted[d] = "approve_for_session" /\ KeyIn(d) = KeyIn(c)

(* While a runtime is registered, a gated tool runs only if the user       *)
(* accepted this call, or the same tool and parameters for the same        *)
(* session: no rejected, timed out or cancelled call runs, and no approval *)
(* leaks to another session (approval.py:351-408, tool.py:563, 621-666).   *)
RunsOnlyApproved == \A c \in ran \cap gated : c \in unguarded \/ Approved(c)

(* A prompt is answered or withdrawn by the time its call is over; that of *)
(* a call the bus cut is still pending, where a late answer, or else       *)
(* stop(), settles it.  So no prompt is lost on both sides, whichever      *)
(* timeout is the shorter one (approval.py:308-317, 387-390, 427).         *)
PromptSettled ==
  \A c \in Calls : (pc[c] = "over" /\ fut[c] # "none")
                     => \/ accepted[c] # "none" \/ withdrawn[c] # {}
                        \/ Cut(c) /\ c \in pending

(* A refused or unanswered gated call is reported to its originator: the   *)
(* call of a tool that did not run ends with tool.error, unless the bus    *)
(* cut it (tool.py:595-666).                                               *)
RefusalReported ==
  \A c \in gated \ ran : pc[c] = "over" => out[c] = "error" \/ Cut(c)

(* docs/dev/plugin-protocol.md:563-570 says of a prompt nobody answers     *)
(* that its id leaves _pending, that approval.cancelled is published and   *)
(* that the call ends with tool.error.  Asked here is one of the three:    *)
(* where it fails, the call is over and none of them has happened.         *)
UnansweredIsHandled ==
  \A c \in Calls : (pc[c] = "over" /\ fut[c] # "none" /\ accepted[c] = "none")
                     => c \notin pending \/ withdrawn[c] # {} \/ out[c] = "error"

(* When stop() has returned, nobody waits for an answer any more           *)
(* (approval.py:293-318).                                                  *)
NoneWaitsAfterStop == phase = "stopped" => pending = {} /\ \A c \in Calls : ~Waiting(c)
=============================================================================
