------------------------------- MODULE MCTurns -------------------------------
(* The gate of a turn's tools and the stream of a completion, beside the    *)
(* agent loop.  The three share no state: the loop is checked by itself     *)
(* (AgentLoop), the other two here, one in each behaviour ("side"), with    *)
(* the rest standing still.  Three calls of one tool with the same          *)
(* parameters are gated: two in one session, one in another.                *)
EXTENDS AgentLoop

CONSTANTS Calls, SessionOf, KeyOf, ApprovalTimeouts, HandlerTimeout, NoCall,
          Pieces, MaxPieces, MaxChunk

VARIABLES side, timeout_s, pc, age, phase, parked, fut, allow, todo, emitting, out, withdrawn,
          accepted, gated, unguarded, ran, text, pieces, sent, buf, inThink, feeding, parts, deltas,
          response, outcome

Gate == INSTANCE Approval WITH pending <- parked
Stream == INSTANCE LlmStream

ASSUME GateParameters == Gate!Parameters
ASSUME StreamParameters == Stream!Parameters

gateVars == <<timeout_s, pc, age, phase, parked, fut, allow, todo, emitting, out, withdrawn,
              accepted, gated, unguarded, ran>>
streamVars == <<text, pieces, sent, buf, inThink, feeding, parts, deltas, response, outcome>>

GateCalls == {"c1", "c2", "c3"}
GateSessionOf == [c \in GateCalls |-> IF c = "c3" THEN "s2" ELSE "s1"]
GateKeyOf == [c \in GateCalls |-> "k"]

(* Every call is over and the runtime has stopped, or the stream has ended: *)
(* the one place where they may stand still.                                *)
GateIsOver == phase = "stopped" /\ \A c \in Calls : pc[c] = "over"
StreamIsOver == outcome # "open"

GateNext ==
  /\ UNCHANGED <<vars, side>>
  /\ \/ side = "gate" /\ Gate!Next /\ UNCHANGED streamVars
     \/ side = "stream" /\ Stream!Next /\ UNCHANGED gateVars
     \/ side = "gate" /\ GateIsOver /\ UNCHANGED <<gateVars, streamVars>>
     \/ side = "stream" /\ StreamIsOver /\ UNCHANGED <<gateVars, streamVars>>

TurnsInit == side \in {"gate", "stream"} /\ Init /\ Gate!Init /\ Stream!Init

GateSpec == TurnsInit /\ [][GateNext]_<<vars, side, gateVars, streamVars>>

-----------------------------------------------------------------------------
(* Types of the runtime's tables, of the dispatch and of the stream        *)
(* (approval.py:243-265, tool.py:510-592, llm_openai/plugin.py:529-653).    *)
TurnTypes == Gate!TypeOK /\ Stream!TypeOK

(* Whoever waits for an approval can be answered, and no key is left       *)
(* behind but that of a call the bus cut (approval.py:385-402, 427).       *)
PendingIsAwaited == Gate!PendingIsAwaited

(* While a runtime is registered a gated tool runs only if the user        *)
(* accepted it (approval.py:351-408, tool.py:563, 621-666).                *)
RunsOnlyApproved == Gate!RunsOnlyApproved

(* A prompt is answered or withdrawn by the time its call is over, or, if  *)
(* the bus cut the call, still pending (approval.py:308-317, 387-390, 427) *)
PromptSettled == Gate!PromptSettled

(* A gated call that did not run ends with tool.error, unless the bus cut  *)
(* it (tool.py:595-666).                                                   *)
RefusalReported == Gate!RefusalReported

(* A call that nobody answered is over with its id popped, its prompt      *)
(* withdrawn or a tool.error: one at least of the three things that        *)
(* docs/dev/plugin-protocol.md:563-570 lists.                              *)
UnansweredIsHandled == Gate!UnansweredIsHandled

(* When stop() has returned nobody waits for an answer, and no key is left *)
(* (approval.py:293-318).                                                  *)
NoneWaitsAfterStop == Gate!NoneWaitsAfterStop

(* Deltas and response are the text without its reasoning                  *)
(* (llm_openai/plugin.py:343-475, 529-653).                                *)
NeverLeaks == Stream!NeverLeaks
=============================================================================
