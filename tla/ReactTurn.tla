------------------------------ MODULE ReactTurn ------------------------------
(***************************************************************************)
(* The contents of one turn: what strategy_react decides from the loop's   *)
(* messages and what the loop does to them (AgentLoop has the events of a  *)
(* turn, its timeouts and its interrupts).  A decision and its reply are   *)
(* one step; a reply is what _parse_assistant makes of it.                 *)
(***************************************************************************)
EXTENDS Integers, Sequences, FiniteSets, Functions

CONSTANTS
  Providers,       \* provider instances, in the order list_instances has them
  MaxIterations,   \* LoopConfig.max_iterations
  None

(* What is assumed of the constants.                                       *)
Parameters ==
  /\ Providers \in Seq(STRING) /\ None \notin Range(Providers) \cup {"echo"}
  /\ MaxIterations \in Nat

VARIABLES
  instances,  \* the instances the operator has configured
  active,     \* ProvidersView.active_id
  step,       \* decisions taken
  messages,   \* _TurnState.messages
  lastText,   \* _TurnState.last_llm_text: the number of a reply, 0 for ""
  says,       \* history: what each reply was
  calls,      \* history: the replies whose action was run
  anchor,     \* the provider of the turn/provider anchor
  servedBy,   \* history: the provider of each reply
  outcome     \* running, the reply published as the answer, or an error

providerVars == <<instances, active>>
turnVars == <<step, messages, lastText>>
historyVars == <<says, calls, servedBy>>
vars == <<providerVars, turnVars, anchor, historyVars, outcome>>

Reply == {"final", "action", "bad", "empty"}
Message(role, reply) == [role |-> role, reply |-> reply]
Question == Message("question", 0)
Told == Message("assistant", 0)     \* the answer of an earlier turn, from the tape
Latest == messages[Len(messages)]

Init ==
  /\ instances = Range(Providers) /\ active \in instances \cup {None}
  /\ step = 0
  /\ messages \in {<<Question>>, <<Question, Told, Question>>}
  /\ lastText = 0 /\ anchor = None
  /\ says = <<>> /\ calls = <<>> /\ servedBy = <<>>
  /\ outcome = "running"

-----------------------------------------------------------------------------
(* _provider_and_model: the active instance, else the first one, else echo *)
Target ==
  IF active \in instances THEN active
  ELSE IF instances = {} THEN "echo"
  ELSE Providers[CHOOSE i \in DOMAIN Providers :
         /\ Providers[i] \in instances
         /\ \A j \in DOMAIN Providers : Providers[j] \in instances => i <= j]

(* _parse_assistant; a turn without any text yet parses "" *)
Parsed(n) == IF n = 0 THEN "bad" ELSE says[n]

FromAssistant(m) == m.role = "assistant"
LastSays(what) ==
  /\ FromAssistant(Latest)
  /\ Parsed(Latest.reply) = what

RecentTwo(ms) == \E i \in DOMAIN ms : i > Len(ms) - 2 /\ ms[i].role = "nudge"

(* _has_recent_retry_marker *)
Recent(ms) == \E i \in DOMAIN ms : i > Len(ms) - 4 /\ ms[i].role = "nudge"

Decides == outcome = "running" /\ step < MaxIterations /\ step' = step + 1

(* the llm branch of _apply_decision: an empty text leaves the last one in *)
(* its place, and it is appended once more                                 *)
LlmCall(outgoing) ==
  \/ \E what \in Reply :
       /\ says' = Append(says, what)
       /\ servedBy' = Append(servedBy, Target)
       /\ lastText' = IF what = "empty" THEN lastText ELSE Len(says')
       /\ messages' = Append(outgoing, Message("assistant", lastText'))
       /\ anchor' = IF anchor = None THEN Target ELSE anchor
       /\ UNCHANGED <<calls, outcome, providerVars>>
  \/ /\ outcome' = "error"     \* llm.call.error, or nobody answers in time
     /\ messages' = outgoing
     /\ UNCHANGED <<providerVars, lastText, anchor, historyVars>>

Ask ==
  /\ Decides
  /\ ~FromAssistant(Latest)
  /\ LlmCall(messages)

Nudge ==
  /\ Decides
  /\ LastSays("bad") /\ ~Recent(messages)
  /\ LlmCall(Append(messages, Message("nudge", 0)))

GiveUp ==
  /\ Decides
  /\ LastSays("bad") /\ Recent(messages)
  /\ outcome' = "answered"
  /\ UNCHANGED <<providerVars, messages, lastText, anchor, historyVars>>

Answer ==
  /\ Decides
  /\ LastSays("final")
  /\ outcome' = "answered"
  /\ UNCHANGED <<providerVars, messages, lastText, anchor, historyVars>>

(* the tool branch: rx-<step> is called, an observation is appended *)
Act ==
  /\ Decides
  /\ LastSays("action")
  /\ calls' = Append(calls, Latest.reply)
  /\ messages' = Append(messages, Message("observation", Latest.reply))
  /\ UNCHANGED <<providerVars, lastText, anchor, says, servedBy, outcome>>

(* the call times out: step_timeout *)
ActFails ==
  /\ Decides
  /\ LastSays("action")
  /\ calls' = Append(calls, Latest.reply)
  /\ outcome' = "error"
  /\ UNCHANGED <<providerVars, messages, lastText, anchor, says, servedBy>>

Exhausted ==
  /\ outcome = "running" /\ step = MaxIterations
  /\ outcome' = "error"
  /\ UNCHANGED <<providerVars, turnVars, anchor, historyVars>>

(* the operator switches, or deletes an instance that is not active *)
Configure ==
  /\ outcome = "running"
  /\ \/ active' \in instances \ {active} /\ UNCHANGED instances
     \/ \E p \in instances \ {active} : instances' = instances \ {p} /\ UNCHANGED active
  /\ UNCHANGED <<turnVars, anchor, historyVars, outcome>>

Next == Ask \/ Nudge \/ GiveUp \/ Answer \/ Act \/ ActFails \/ Exhausted \/ Configure

Spec == Init /\ [][Next]_vars

-----------------------------------------------------------------------------
(* Types of the turn's state (loop.py:180-215).                            *)
TypeOK ==
  /\ instances \subseteq Range(Providers) /\ active \in instances \cup {None}
  /\ step \in 0..MaxIterations
  /\ messages \in Seq([role : {"question", "assistant", "nudge", "observation"}, reply : Nat])
  /\ messages # <<>>
  /\ says \in Seq(Reply) /\ lastText \in 0..Len(says)
  /\ calls \in Seq(Nat) /\ servedBy \in Seq(Range(Providers) \cup {"echo"})
  /\ outcome \in {"running", "answered", "error"}

Nudges == {i \in DOMAIN messages : messages[i].role = "nudge"}

(* Tools run what the model wrote, in its order, and a reply's action runs *)
(* a second time only when the model answered the first with nothing.      *)
RunsWhatWasSaid ==
  \A i, j \in DOMAIN calls : i < j =>
    /\ calls[i] <= calls[j]
    /\ calls[i] = calls[j] => \E n \in calls[i] + 1..Len(says) : says[n] = "empty"

(* A turn that is over without an error has published its last text: a     *)
(* final answer, or a text that could not be parsed and came within three  *)
(* messages of a nudge.  No two nudges come so close.                      *)
NudgedOnce ==
  /\ outcome = "answered" =>
       /\ lastText = Latest.reply
       /\ \/ Parsed(lastText) = "final"
          \/ Parsed(lastText) = "bad" /\ \E i \in Nudges : i >= Len(messages) - 3
  /\ \A i, j \in Nudges : i < j => j - i > 4

(* The anchor a resumed session is judged by names the provider that gave  *)
(* the first reply; that every later one came from it as well is not so.   *)
AnchorIsFirst == anchor = IF servedBy = <<>> THEN None ELSE Head(servedBy)

TurnAccounted == RunsWhatWasSaid /\ NudgedOnce /\ AnchorIsFirst

(* What keeps it so: the last text is the last reply with one, the model's *)
(* message is that text, and an action that was run is not decided on      *)
(* again before an empty reply.                                            *)
LastTextIsLast ==
  /\ lastText # 0 => says[lastText] # "empty"
  /\ \A n \in lastText + 1..Len(says) : says[n] = "empty"
  /\ FromAssistant(Latest) => Latest.reply = lastText
RunOnce ==
  \A i \in DOMAIN calls :
    /\ calls[i] <= lastText
    /\ (outcome = "running" /\ FromAssistant(Latest) /\ calls[i] = lastText)
         => lastText < Len(says)
ReactInv == Parameters /\ TypeOK /\ LastTextIsLast /\ RunOnce /\ TurnAccounted
=============================================================================
