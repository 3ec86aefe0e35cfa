-------------------------- MODULE MCServicesProofs --------------------------
(***************************************************************************)
(* Proofs about the components that share a run: a behaviour of the sum is *)
(* one of a component alone, of that component's variables (v1, v2, ... in *)
(* the order in which MCServices lists them), or never about it.           *)
(***************************************************************************)
EXTENDS MCServices, Sequences, TLAPS

(* A behaviour is the registry's alone, or not the registry's at all.      *)
LEMMA RegistryAlone == Spec => Reg!Spec \/ [](part # "registry")
<1>1. Init => (part = "registry" /\ Reg!Init) \/ part # "registry"
  BY DEF Init
<1>2. part = "registry" /\ [Next]_vars => [Reg!Next]_(Reg!vars) /\ (part = "registry")'
  BY DEF Next, vars, Reg!vars, Reg!tableVars, Reg!stopVars, Reg!handlerVars
<1>3. part # "registry" /\ [Next]_vars => (part # "registry")'
  BY DEF Next, vars
<1> QED  BY <1>1, <1>2, <1>3, PTL DEF Spec, Reg!Spec

(* No load keeps its subscriptions when the registry has forgotten it, and *)
(* snapshot() has one row for each registered plugin, as long as the       *)
(* operator's requests do not overlap a load (registry.py:376-396,         *)
(* 503-523, 661-725).                                                      *)
THEOREM ServicesLoadsAreAccounted == Reg!Serial /\ Spec => []Accounted
<1>1. Reg!Accounted \/ part # "registry" => Accounted
  BY DEF Accounted
<1> QED  BY <1>1, RegistryAlone, RegistryParameters, Reg!LoadsAreAccounted, PTL

-----------------------------------------------------------------------------
(* The bash tool.                                                          *)
(* A behaviour is the bash tool's alone, or not the bash tool's at all.    *)
LEMMA BashAlone == Spec => Bash!Spec \/ [](part # "bash")
<1>1. Init => (part = "bash" /\ Bash!Init) \/ part # "bash"
  BY DEF Init
<1>2. part = "bash" /\ [Next]_vars => [Bash!Next]_(Bash!vars) /\ (part = "bash")'
  BY DEF Next, vars, Bash!vars, Bash!timers, Bash!procVars
<1>3. part # "bash" /\ [Next]_vars => (part # "bash")'
  BY DEF Next, vars
<1> QED  BY <1>1, <1>2, <1>3, PTL DEF Spec, Bash!Spec

(* The inductive invariant of BashTool: it holds at first, and every step  *)
(* keeps it.                                                               *)
LEMMA BashInit == Bash!Parameters /\ Bash!Init => Bash!BashInv
BY DEF Bash!Parameters, Bash!Init, Bash!BashInv, Bash!TypeOK, Bash!Timed, Bash!Unborn,
       Bash!ChildReaped

(* The step of it: each action moves one handler or one child.             *)
LEMMA BashStep == Bash!BashInv /\ [Bash!Next]_(Bash!vars) => Bash!BashInv'
<1> SUFFICES ASSUME Bash!BashInv, [Bash!Next]_(Bash!vars)  PROVE Bash!BashInv'
  OBVIOUS
<1> USE DEF Bash!BashInv, Bash!TypeOK, Bash!Timed, Bash!Unborn, Bash!ChildReaped, Bash!Parameters,
            Bash!Collected, Bash!procVars, Bash!timers
<1>1. CASE Bash!Unload  BY <1>1 DEF Bash!Unload
<1>2. ASSUME NEW c \in Spawns, Bash!BadCommand(c)  PROVE Bash!BashInv'
  BY <1>2 DEF Bash!BadCommand, Bash!Answers, Bash!Goes
<1>3. ASSUME NEW c \in Spawns, Bash!OnEvent(c)  PROVE Bash!BashInv'
  BY <1>3 DEF Bash!OnEvent, Bash!Goes
<1>4. ASSUME NEW c \in Spawns, Bash!SpawnFails(c)  PROVE Bash!BashInv'
  BY <1>4 DEF Bash!SpawnFails, Bash!Goes
<1>5. ASSUME NEW c \in Spawns, Bash!Run(c)  PROVE Bash!BashInv'
  BY <1>5 DEF Bash!Run, Bash!Goes
<1>6. ASSUME NEW c \in Spawns, Bash!Communicated(c)  PROVE Bash!BashInv'
  BY <1>6 DEF Bash!Communicated, Bash!Answers, Bash!Goes
<1>7. ASSUME NEW c \in Spawns, Bash!TimesOut(c)  PROVE Bash!BashInv'
  BY <1>7 DEF Bash!TimesOut, Bash!Goes, Bash!ToolDue, Bash!BusDue
<1>8. ASSUME NEW c \in Spawns, Bash!Killed(c)  PROVE Bash!BashInv'
  BY <1>8 DEF Bash!Killed, Bash!Answers, Bash!Goes
<1>9. ASSUME NEW c \in Spawns, Bash!BusCancels(c)  PROVE Bash!BashInv'
  BY <1>9 DEF Bash!BusCancels, Bash!Goes, Bash!Runs
<1>10. ASSUME NEW c \in Spawns, Bash!Tick(c)  PROVE Bash!BashInv'
  BY <1>10 DEF Bash!Tick, Bash!BusDue
<1>11. ASSUME NEW c \in Spawns, Bash!ChildExits(c)  PROVE Bash!BashInv'
  BY <1>11 DEF Bash!ChildExits
<1>12. ASSUME NEW c \in Spawns, Bash!OutputCloses(c)  PROVE Bash!BashInv'
  BY <1>12 DEF Bash!OutputCloses
<1>13. CASE UNCHANGED Bash!vars  BY <1>13 DEF Bash!vars
<1> QED
  BY <1>1, <1>2, <1>3, <1>4, <1>5, <1>6, <1>7, <1>8, <1>9, <1>10, <1>11, <1>12, <1>13
  DEF Bash!Next

-----------------------------------------------------------------------------
(* The agent tool.                                                         *)
(* A behaviour is the agent tool's alone, or not the agent tool's at all.  *)
LEMMA AgentAlone == Spec => Agent!Spec \/ [](part # "agent")
<1>1. Init => (part = "agent" /\ Agent!Init) \/ part # "agent"
  BY DEF Init
<1>2. part = "agent" /\ [Next]_vars => [Agent!Next]_(Agent!vars) /\ (part = "agent")'
  BY DEF Next, vars, Agent!vars, Agent!pluginVars, Agent!listenVars, Agent!childVars
<1>3. part # "agent" /\ [Next]_vars => (part # "agent")'
  BY DEF Next, vars
<1> QED  BY <1>1, <1>2, <1>3, PTL DEF Spec, Agent!Spec

(* The inductive invariant of AgentTool holds at first.                    *)
LEMMA AgentInit == Agent!Parameters /\ Agent!Init => Agent!AgentInv
BY DEF Agent!Parameters, Agent!Init, Agent!AgentInv, Agent!TypeOK, Agent!CallInv, Agent!PlaceTells,
       Agent!ChildInOrder, Agent!HitsInOrder, Agent!Announced, Agent!Live, Agent!Forbidden,
       Agent!Listeners,
       Agent!Asks

(* A call that a step leaves alone keeps its invariant.                    *)
Unmoved(d) ==
  /\ v4'[d] = v4[d] /\ v5'[d] = v5[d] /\ v7'[d] = v7[d] /\ v8'[d] = v8[d] /\ v9'[d] = v9[d]
  /\ v10'[d] = v10[d] /\ v11'[d] = v11[d] /\ v12'[d] = v12[d] /\ (d \in v13' <=> d \in v13)
  /\ v6' \cap Agent!Listeners(d) = v6 \cap Agent!Listeners(d)

(* What a step does to one call, it does not do to another.                *)
LEMMA AgentFrame == ASSUME NEW d \in Spawns, Agent!CallInv(d), Unmoved(d)  PROVE Agent!CallInv(d)'
<1>1. Agent!PlaceTells(d)'
  BY DEF Unmoved, Agent!CallInv, Agent!PlaceTells, Agent!Listeners, Agent!Live
<1>2. Agent!ChildInOrder(d)' /\ Agent!Announced(d)'
  BY DEF Unmoved, Agent!CallInv, Agent!ChildInOrder, Agent!Announced, Agent!Asks, Agent!Event
<1>3. Agent!HitsInOrder(d)'
  BY DEF Unmoved, Agent!CallInv, Agent!HitsInOrder, Agent!Asks, Agent!Forbidden, Agent!Live
<1> QED  BY <1>1, <1>2, <1>3 DEF Agent!CallInv

(* Sequences are their entries.                                            *)
LEMMA SameSequence ==
  ASSUME NEW S, NEW s \in Seq(S), NEW t \in Seq(S), Len(s) = Len(t),
         \A i \in 1..Len(s) : s[i] = t[i]
  PROVE  s = t
OBVIOUS

(* What a call has told is a short list.                                   *)
LEMMA ToldTwo == ASSUME NEW a, NEW b  PROVE Append(<<a>>, b) = <<a, b>>
<1> DEFINE S == {a, b}
<1>1. <<a>> \in Seq(S) /\ <<a, b>> \in Seq(S) /\ b \in S  OBVIOUS
<1>2. Append(<<a>>, b) \in Seq(S) /\ Len(Append(<<a>>, b)) = 2 /\ Len(<<a, b>>) = 2  BY <1>1
<1>3. Append(<<a>>, b)[1] = a /\ Append(<<a>>, b)[2] = b  BY <1>1
<1>4. \A i \in 1..2 : Append(<<a>>, b)[i] = <<a, b>>[i]  BY <1>3
<1> QED  BY <1>1, <1>2, <1>4, SameSequence

(* A list of three.                                                        *)
LEMMA ToldThree == ASSUME NEW a, NEW b, NEW c  PROVE Append(<<a, b>>, c) = <<a, b, c>>
<1> DEFINE S == {a, b, c}  s == Append(<<a, b>>, c)
<1>1. <<a, b>> \in Seq(S) /\ <<a, b, c>> \in Seq(S) /\ c \in S  OBVIOUS
<1>2. s \in Seq(S) /\ Len(s) = 3 /\ Len(<<a, b, c>>) = 3  BY <1>1
<1>3. s[1] = a /\ s[2] = b /\ s[3] = c  BY <1>1
<1>4. \A i \in 1..3 : s[i] = <<a, b, c>>[i]  BY <1>3
<1> QED  BY <1>1, <1>2, <1>4, SameSequence

(* The head of a list is the first that was appended.                      *)
LEMMA ToldFirst ==
  ASSUME NEW a, NEW b, NEW c, NEW d
  PROVE  /\ Append(<<>>, a) = <<a>>
         /\ Head(<<a>>) = a /\ Head(<<a, b>>) = a /\ Head(<<a, b, c>>) = a
         /\ Head(Append(<<a, b, c>>, d)) = a
<1> DEFINE S == {a, b, c, d}  s == Append(<<a, b, c>>, d)
<1>1. <<a, b, c>> \in Seq(S) /\ d \in S  OBVIOUS
<1>2. s \in Seq(S) /\ Len(s) = 4 /\ s[1] = a  BY <1>1
<1>3. Head(s) = a  BY <1>2
<1> QED  BY <1>3

(* A step of the call itself that leaves the child and its events alone:   *)
(* it may only begin to count hits when nothing has been called.           *)
LEMMA ChildStays ==
  ASSUME Agent!AgentInv, NEW c \in Spawns,
         v7'[c] = v7[c], v8'[c] = v8[c], v10'[c] = v10[c], v11'[c] = v11[c], v12'[c] = v12[c],
         v4'[c] \in Agent!Live \/ v5'[c] = c =>
            v4[c] \in Agent!Live \/ v5[c] = c \/ v12[c] = <<>>
  PROVE  Agent!ChildInOrder(c)' /\ Agent!HitsInOrder(c)'
<1>1. Agent!ChildInOrder(c) /\ Agent!HitsInOrder(c)
  BY DEF Agent!AgentInv, Agent!CallInv
<1>2. Agent!ChildInOrder(c)'
  BY <1>1 DEF Agent!ChildInOrder, Agent!Asks, Agent!Event
<1>3. Agent!HitsInOrder(c)'
  BY <1>1 DEF Agent!HitsInOrder, Agent!Asks, Agent!Forbidden
<1> QED  BY <1>2, <1>3

(* The steps of the call itself move its place, its listeners and what it  *)
(* has told: the child and its events stay.                                *)
LEMMA CallStep ==
  ASSUME Agent!AgentInv, NEW c \in Spawns,
         \/ Agent!Lookup(c) \/ Agent!RunUnbound(c) \/ Agent!Run(c)
         \/ Agent!Completed(c) \/ Agent!Narrowed(c) \/ Agent!Returns(c) \/ Agent!TimesOut(c)
         \/ Agent!TimedOut(c) \/ Agent!Cancelled(c) \/ Agent!CancelledEarly(c)
  PROVE  Agent!AgentInv'
<1> USE DEF Agent!pluginVars, Agent!childVars, Agent!listenVars, Agent!Tell, Agent!Leaves
<1>0. /\ Agent!Parameters /\ Agent!TypeOK /\ Agent!CallInv(c) /\ \A d \in Spawns : Agent!CallInv(d)
      /\ Agent!PlaceTells(c) /\ Agent!Announced(c) /\ Agent!ChildInOrder(c)
  BY DEF Agent!AgentInv, Agent!CallInv
<1>a. \A d \in Spawns \ {c} : /\ <<d, "done">> # <<c, "done">>
        /\ <<d, "request">> # <<c, "request">>
                             /\ <<d, "done">> # <<c, "request">> /\ <<d, "request">> # <<c, "done">>
  OBVIOUS
<1>c. Agent!Listeners(c) \subseteq Spawns \X {"done", "request"}
  BY DEF Agent!Listeners
<1>b. /\ v4 \in [Spawns -> {"idle", "approval", "announcing", "waiting", "completing", "narrowing",
                         "timing out", "returned"}]
      /\ DOMAIN v4 = Spawns /\ DOMAIN v5 = Spawns /\ DOMAIN v9 = Spawns
      /\ v5 \in [Spawns -> Spawns \cup {None, "internal", "timeout", "cancelled"}]
      /\ \A d \in Spawns : v5[d] # None <=> v4[d] = "returned"
      /\ {None, "internal", "timeout", "cancelled"} \cap Spawns = {}
      /\ None \notin {"internal", "timeout", "cancelled"}
  BY <1>0 DEF Agent!TypeOK, Agent!Parameters
<1>1. CASE Agent!Lookup(c)
  <2>0. v4[c] = "idle" /\ v4'[c] = "approval" /\ v5' = v5 /\ v6' = v6 /\ v9' = v9 /\ v13' = v13
    BY <1>0, <1>b, <1>1 DEF Agent!PlaceTells, Agent!Lookup
  <2>1. Agent!TypeOK'
    BY <1>0, <1>b, <1>c, <2>0, <1>1 DEF Agent!TypeOK, Agent!ChildEvent, Agent!Parameters,
          Agent!Lookup
  <2>2. \A d \in Spawns \ {c} : Unmoved(d)
    BY <1>a, <1>b, <2>0, <1>1 DEF Unmoved, Agent!Lookup, Agent!Listeners
  <2>3. Agent!PlaceTells(c)' /\ Agent!Announced(c)'
    <3>1. Agent!PlaceTells(c)'
      BY <1>0, <1>a, <1>b, <2>0, <1>1 DEF Agent!PlaceTells, Agent!Live, Agent!Listeners,
            Agent!Lookup
    <3>2. Agent!Announced(c)'
      BY <1>0, <1>b, <2>0, <1>1, ToldFirst DEF Agent!PlaceTells, Agent!Announced, Agent!Lookup
    <3> QED  BY <3>1, <3>2
  <2>4. v4'[c] \in Agent!Live \/ v5'[c] = c => v4[c] \in Agent!Live \/ v5[c] = c \/ v12[c] = <<>>
    BY <1>0, <1>b, <2>0 DEF Agent!PlaceTells, Agent!ChildInOrder, Agent!Live
  <2>5. Agent!ChildInOrder(c)' /\ Agent!HitsInOrder(c)'
    BY <2>4, <1>1, ChildStays DEF Agent!Lookup
  <2> QED
    BY <1>0, <2>1, <2>2, <2>3, <2>5, AgentFrame DEF Agent!AgentInv, Agent!CallInv, Agent!Parameters
<1>2. CASE Agent!RunUnbound(c)
  <2>0. /\ v4[c] = "approval" /\ v4'[c] = "returned" /\ v5'[c] = "internal" /\ v6' = v6
        /\ v9' = v9 /\ v13' = v13
    BY <1>0, <1>b, <1>2 DEF Agent!PlaceTells, Agent!RunUnbound
  <2>1. Agent!TypeOK'
    BY <1>0, <1>b, <1>c, <2>0, <1>2 DEF Agent!TypeOK, Agent!ChildEvent, Agent!Parameters,
          Agent!RunUnbound
  <2>2. \A d \in Spawns \ {c} : Unmoved(d)
    BY <1>a, <1>b, <2>0, <1>2 DEF Unmoved, Agent!RunUnbound, Agent!Listeners
  <2>3. Agent!PlaceTells(c)' /\ Agent!Announced(c)'
    <3>1. Agent!PlaceTells(c)'
      BY <1>0, <1>a, <1>b, <2>0, <1>2 DEF Agent!PlaceTells, Agent!Live, Agent!Listeners,
            Agent!RunUnbound
    <3>2. Agent!Announced(c)'
      BY <1>0, <1>b, <2>0, <1>2, ToldFirst DEF Agent!PlaceTells, Agent!Announced, Agent!RunUnbound
    <3> QED  BY <3>1, <3>2
  <2>4. v4'[c] \in Agent!Live \/ v5'[c] = c => v4[c] \in Agent!Live \/ v5[c] = c \/ v12[c] = <<>>
    BY <1>0, <1>b, <2>0 DEF Agent!PlaceTells, Agent!ChildInOrder, Agent!Live
  <2>5. Agent!ChildInOrder(c)' /\ Agent!HitsInOrder(c)'
    BY <2>4, <1>2, ChildStays DEF Agent!RunUnbound
  <2> QED
    BY <1>0, <2>1, <2>2, <2>3, <2>5, AgentFrame DEF Agent!AgentInv, Agent!CallInv, Agent!Parameters
<1>3. CASE Agent!Run(c)
  <2>0. /\ v4[c] = "approval" /\ v4'[c] = "announcing" /\ v5' = v5
        /\ v6' = v6 \cup Agent!Listeners(c) /\ v9'[c] = <<"started">> /\ v13' = v13
    <3>1. v9[c] = <<>> /\ v9'[c] = Append(v9[c], "started")
      BY <1>0, <1>b, <1>3 DEF Agent!PlaceTells, Agent!Run
    <3>2. v9'[c] = Append(<<>>, "started")
      BY <3>1
    <3>3. Append(<<>>, "started") = <<"started">>
      BY ToldFirst
    <3> QED
      BY <1>0, <1>b, <1>3, <3>2, <3>3 DEF Agent!PlaceTells, Agent!Run
  <2>1. Agent!TypeOK'
    BY <1>0, <1>b, <1>c, <2>0, <1>3 DEF Agent!TypeOK, Agent!ChildEvent, Agent!Parameters, Agent!Run
  <2>2. \A d \in Spawns \ {c} : Unmoved(d)
    BY <1>a, <1>b, <2>0, <1>3 DEF Unmoved, Agent!Run, Agent!Listeners
  <2>3. Agent!PlaceTells(c)' /\ Agent!Announced(c)'
    <3>1. Agent!PlaceTells(c)'
      BY <1>0, <1>a, <1>b, <2>0, <1>3 DEF Agent!PlaceTells, Agent!Live, Agent!Listeners, Agent!Run
    <3>2. Agent!Announced(c)'
      BY <1>0, <1>b, <2>0, <1>3, ToldFirst DEF Agent!PlaceTells, Agent!Announced, Agent!Run
    <3> QED  BY <3>1, <3>2
  <2>4. v4'[c] \in Agent!Live \/ v5'[c] = c => v4[c] \in Agent!Live \/ v5[c] = c \/ v12[c] = <<>>
    BY <1>0, <1>b, <2>0 DEF Agent!PlaceTells, Agent!ChildInOrder, Agent!Live
  <2>5. Agent!ChildInOrder(c)' /\ Agent!HitsInOrder(c)'
    BY <2>4, <1>3, ChildStays DEF Agent!Run
  <2> QED
    BY <1>0, <2>1, <2>2, <2>3, <2>5, AgentFrame DEF Agent!AgentInv, Agent!CallInv, Agent!Parameters
<1>4. CASE Agent!Completed(c)
  <2>0. /\ v4[c] = "waiting" /\ v4'[c] = "completing" /\ v5' = v5 /\ v6' = v6
        /\ v9'[c] = <<"started", "completed">> /\ v13' = v13 /\ v7[c] = c
    <3>1. v9[c] = <<"started">> /\ v9'[c] = Append(v9[c], "completed")
      BY <1>0, <1>b, <1>4 DEF Agent!PlaceTells, Agent!Completed
    <3>2. v9'[c] = Append(<<"started">>, "completed")
      BY <3>1
    <3>3. Append(<<"started">>, "completed") = <<"started", "completed">>
      BY ToldTwo
    <3> QED
      BY <1>0, <1>b, <1>4, <3>2, <3>3 DEF Agent!PlaceTells, Agent!Completed, Agent!ChildInOrder
  <2>1. Agent!TypeOK'
    BY <1>0, <1>b, <1>c, <2>0, <1>4 DEF Agent!TypeOK, Agent!ChildEvent, Agent!Parameters,
          Agent!Completed
  <2>2. \A d \in Spawns \ {c} : Unmoved(d)
    BY <1>a, <1>b, <2>0, <1>4 DEF Unmoved, Agent!Completed, Agent!Listeners
  <2>3. Agent!PlaceTells(c)' /\ Agent!Announced(c)'
    <3>1. Agent!PlaceTells(c)'
      BY <1>0, <1>a, <1>b, <2>0, <1>4 DEF Agent!PlaceTells, Agent!Live, Agent!Listeners,
            Agent!Completed
    <3>a. Head(<<"started", "completed">>) = "started"  BY ToldFirst
    <3>2. Agent!Announced(c)'
      BY <3>a, <2>0 DEF Agent!Announced
    <3> QED  BY <3>1, <3>2
  <2>4. v4'[c] \in Agent!Live \/ v5'[c] = c => v4[c] \in Agent!Live \/ v5[c] = c \/ v12[c] = <<>>
    BY <1>0, <1>b, <2>0 DEF Agent!PlaceTells, Agent!ChildInOrder, Agent!Live
  <2>5. Agent!ChildInOrder(c)' /\ Agent!HitsInOrder(c)'
    BY <2>4, <1>4, ChildStays DEF Agent!Completed
  <2> QED
    BY <1>0, <2>1, <2>2, <2>3, <2>5, AgentFrame DEF Agent!AgentInv, Agent!CallInv, Agent!Parameters
<1>5. CASE Agent!Narrowed(c)
  <2>0. /\ v4[c] = "completing" /\ v4'[c] = "narrowing" /\ v5' = v5 /\ v6' = v6
        /\ v9'[c] = <<"started", "completed", v8[c]>> /\ v13' = v13 /\ v8[c] # <<>>
    <3>1. v9[c] = <<"started", "completed">> /\ v9'[c] = Append(v9[c], v8[c])
      BY <1>0, <1>b, <1>5 DEF Agent!PlaceTells, Agent!Narrowed
    <3>2. v9'[c] = Append(<<"started", "completed">>, v8[c])
      BY <3>1
    <3>3. Append(<<"started", "completed">>, v8[c]) = <<"started", "completed", v8[c]>>
      BY ToldThree
    <3> QED
      BY <1>0, <1>b, <1>5, <3>2, <3>3 DEF Agent!PlaceTells, Agent!Narrowed
  <2>1. Agent!TypeOK'
    BY <1>0, <1>b, <1>c, <2>0, <1>5 DEF Agent!TypeOK, Agent!ChildEvent, Agent!Parameters,
          Agent!Narrowed
  <2>2. \A d \in Spawns \ {c} : Unmoved(d)
    BY <1>a, <1>b, <2>0, <1>5 DEF Unmoved, Agent!Narrowed, Agent!Listeners
  <2>3. Agent!PlaceTells(c)' /\ Agent!Announced(c)'
    <3>1. Agent!PlaceTells(c)'
      BY <1>0, <1>a, <1>b, <2>0, <1>5 DEF Agent!PlaceTells, Agent!Live, Agent!Listeners,
            Agent!Narrowed
    <3>a. Head(<<"started", "completed", v8[c]>>) = "started"  BY ToldFirst
    <3>2. Agent!Announced(c)'
      BY <3>a, <2>0 DEF Agent!Announced
    <3> QED  BY <3>1, <3>2
  <2>4. v4'[c] \in Agent!Live \/ v5'[c] = c => v4[c] \in Agent!Live \/ v5[c] = c \/ v12[c] = <<>>
    BY <1>0, <1>b, <2>0 DEF Agent!PlaceTells, Agent!ChildInOrder, Agent!Live
  <2>5. Agent!ChildInOrder(c)' /\ Agent!HitsInOrder(c)'
    BY <2>4, <1>5, ChildStays DEF Agent!Narrowed
  <2> QED
    BY <1>0, <2>1, <2>2, <2>3, <2>5, AgentFrame DEF Agent!AgentInv, Agent!CallInv, Agent!Parameters
<1>6. CASE Agent!Returns(c)
  <2>0. /\ v4'[c] = "returned" /\ v5'[c] = c /\ v6' = v6 \ Agent!Listeners(c) /\ v9' = v9
        /\ v13' = v13 /\ v7[c] = c
        /\ (v4[c] = "completing" /\ v8[c] = <<>>) \/ v4[c] = "narrowing"
    BY <1>0, <1>b, <1>6 DEF Agent!PlaceTells, Agent!Returns
  <2>a. /\ v4' = [v4 EXCEPT ![c] = "returned"] /\ v5' = [v5 EXCEPT ![c] = v7[c]] /\ v9' = v9
        /\ v13' = v13
        /\ v6' = v6 \ Agent!Listeners(c) /\ v1' = v1 /\ v2' = v2 /\ v3' = v3 /\ v7' = v7
        /\ v8' = v8 /\ v10' = v10 /\ v11' = v11 /\ v12' = v12
    BY <1>6 DEF Agent!Returns
  <2>b. v4' \in [Spawns -> {"idle", "approval", "announcing", "waiting", "completing", "narrowing",
                         "timing out", "returned"}]
        /\ v5' \in [Spawns -> Spawns \cup {None, "internal", "timeout", "cancelled"}]
        /\ \A d \in Spawns : v5'[d] # None <=> v4'[d] = "returned"
    BY <1>b, <2>a, <2>0
  <2>1. Agent!TypeOK'
    <3>1. Agent!TypeOK  BY <1>0
    <3> QED  BY <3>1, <2>a, <2>b DEF Agent!TypeOK
  <2>2. \A d \in Spawns \ {c} : Unmoved(d)
    BY <1>a, <1>b, <2>0, <1>6 DEF Unmoved, Agent!Returns, Agent!Listeners
  <2>3. Agent!PlaceTells(c)' /\ Agent!Announced(c)'
    <3>1. Agent!PlaceTells(c)'
      BY <1>0, <1>a, <1>b, <2>0, <1>6 DEF Agent!PlaceTells, Agent!Live, Agent!Listeners,
            Agent!Returns
    <3>2. Agent!Announced(c)'
      BY <1>0, <1>b, <2>0, <1>6, ToldFirst DEF Agent!PlaceTells, Agent!Announced, Agent!Returns
    <3> QED  BY <3>1, <3>2
  <2>4. v4'[c] \in Agent!Live \/ v5'[c] = c => v4[c] \in Agent!Live \/ v5[c] = c \/ v12[c] = <<>>
    BY <1>0, <1>b, <2>0 DEF Agent!PlaceTells, Agent!ChildInOrder, Agent!Live
  <2>5. Agent!ChildInOrder(c)' /\ Agent!HitsInOrder(c)'
    BY <2>4, <1>6, ChildStays DEF Agent!Returns
  <2> QED
    BY <1>0, <2>1, <2>2, <2>3, <2>5, AgentFrame DEF Agent!AgentInv, Agent!CallInv, Agent!Parameters
<1>7. CASE Agent!TimesOut(c)
  <2>0. /\ v4[c] = "waiting" /\ v4'[c] = "timing out" /\ v5' = v5 /\ v6' = v6
        /\ v9'[c] = <<"started", "failed">> /\ v13' = v13
    <3>1. v9[c] = <<"started">> /\ v9'[c] = Append(v9[c], "failed")
      BY <1>0, <1>b, <1>7 DEF Agent!PlaceTells, Agent!TimesOut
    <3>2. v9'[c] = Append(<<"started">>, "failed")
      BY <3>1
    <3>3. Append(<<"started">>, "failed") = <<"started", "failed">>
      BY ToldTwo
    <3> QED
      BY <1>0, <1>b, <1>7, <3>2, <3>3 DEF Agent!PlaceTells, Agent!TimesOut
  <2>1. Agent!TypeOK'
    BY <1>0, <1>b, <1>c, <2>0, <1>7 DEF Agent!TypeOK, Agent!ChildEvent, Agent!Parameters,
          Agent!TimesOut
  <2>2. \A d \in Spawns \ {c} : Unmoved(d)
    BY <1>a, <1>b, <2>0, <1>7 DEF Unmoved, Agent!TimesOut, Agent!Listeners
  <2>3. Agent!PlaceTells(c)' /\ Agent!Announced(c)'
    <3>1. Agent!PlaceTells(c)'
      BY <1>0, <1>a, <1>b, <2>0, <1>7 DEF Agent!PlaceTells, Agent!Live, Agent!Listeners,
            Agent!TimesOut
    <3>a. Head(<<"started", "failed">>) = "started"  BY ToldFirst
    <3>2. Agent!Announced(c)'
      BY <3>a, <2>0 DEF Agent!Announced
    <3> QED  BY <3>1, <3>2
  <2>4. v4'[c] \in Agent!Live \/ v5'[c] = c => v4[c] \in Agent!Live \/ v5[c] = c \/ v12[c] = <<>>
    BY <1>0, <1>b, <2>0 DEF Agent!PlaceTells, Agent!ChildInOrder, Agent!Live
  <2>5. Agent!ChildInOrder(c)' /\ Agent!HitsInOrder(c)'
    BY <2>4, <1>7, ChildStays DEF Agent!TimesOut
  <2> QED
    BY <1>0, <2>1, <2>2, <2>3, <2>5, AgentFrame DEF Agent!AgentInv, Agent!CallInv, Agent!Parameters
<1>8. CASE Agent!TimedOut(c)
  <2>0. /\ v4[c] = "timing out" /\ v4'[c] = "returned" /\ v5'[c] = "timeout"
        /\ v6' = v6 \ Agent!Listeners(c) /\ v9' = v9 /\ v13' = v13
    BY <1>0, <1>b, <1>8 DEF Agent!PlaceTells, Agent!TimedOut
  <2>1. Agent!TypeOK'
    BY <1>0, <1>b, <1>c, <2>0, <1>8 DEF Agent!TypeOK, Agent!ChildEvent, Agent!Parameters,
          Agent!TimedOut
  <2>2. \A d \in Spawns \ {c} : Unmoved(d)
    BY <1>a, <1>b, <2>0, <1>8 DEF Unmoved, Agent!TimedOut, Agent!Listeners
  <2>3. Agent!PlaceTells(c)' /\ Agent!Announced(c)'
    <3>1. Agent!PlaceTells(c)'
      BY <1>0, <1>a, <1>b, <2>0, <1>8 DEF Agent!PlaceTells, Agent!Live, Agent!Listeners,
            Agent!TimedOut
    <3>2. Agent!Announced(c)'
      BY <1>0, <1>b, <2>0, <1>8, ToldFirst DEF Agent!PlaceTells, Agent!Announced, Agent!TimedOut
    <3> QED  BY <3>1, <3>2
  <2>4. v4'[c] \in Agent!Live \/ v5'[c] = c => v4[c] \in Agent!Live \/ v5[c] = c \/ v12[c] = <<>>
    BY <1>0, <1>b, <2>0 DEF Agent!PlaceTells, Agent!ChildInOrder, Agent!Live
  <2>5. Agent!ChildInOrder(c)' /\ Agent!HitsInOrder(c)'
    BY <2>4, <1>8, ChildStays DEF Agent!TimedOut
  <2> QED
    BY <1>0, <2>1, <2>2, <2>3, <2>5, AgentFrame DEF Agent!AgentInv, Agent!CallInv, Agent!Parameters
<1>9. CASE Agent!Cancelled(c)
  <2>0. /\ v4'[c] = "returned" /\ v5'[c] = "cancelled" /\ v6' = v6 \ Agent!Listeners(c)
        /\ v13' = v13
        /\ v4[c] \in {"waiting", "completing", "narrowing", "timing out"}
        /\ Head(v9'[c]) = "started"
    <3>1. /\ v9[c] \in {<<"started">>, <<"started", "completed">>,
               <<"started", "completed", v8[c]>>, <<"started", "failed">>}
          /\ v9'[c] = Append(v9[c], "failed")
      BY <1>0, <1>b, <1>9 DEF Agent!PlaceTells, Agent!Cancelled, Agent!Suspended
    <3>2. Head(v9'[c]) = "started"
      BY <3>1, ToldTwo, ToldThree, ToldFirst
    <3> QED
      BY <1>0, <1>b, <1>9, <3>2 DEF Agent!PlaceTells, Agent!Cancelled, Agent!Suspended
  <2>1. Agent!TypeOK'
    BY <1>0, <1>b, <1>c, <2>0, <1>9 DEF Agent!TypeOK, Agent!ChildEvent, Agent!Parameters,
          Agent!Cancelled, Agent!Suspended
  <2>2. \A d \in Spawns \ {c} : Unmoved(d)
    BY <1>a, <1>b, <2>0, <1>9 DEF Unmoved, Agent!Cancelled, Agent!Suspended, Agent!Listeners
  <2>3. Agent!PlaceTells(c)' /\ Agent!Announced(c)'
    <3>1. Agent!PlaceTells(c)'
      BY <1>0, <1>a, <1>b, <2>0, <1>9 DEF Agent!PlaceTells, Agent!Live, Agent!Listeners,
            Agent!Cancelled, Agent!Suspended
    <3>2. Agent!Announced(c)'
      BY <1>0, <1>b, <2>0, <1>9, ToldFirst DEF Agent!PlaceTells, Agent!Announced, Agent!Cancelled,
            Agent!Suspended
    <3> QED  BY <3>1, <3>2
  <2>4. v4'[c] \in Agent!Live \/ v5'[c] = c => v4[c] \in Agent!Live \/ v5[c] = c \/ v12[c] = <<>>
    BY <1>0, <1>b, <2>0 DEF Agent!PlaceTells, Agent!ChildInOrder, Agent!Live
  <2>5. Agent!ChildInOrder(c)' /\ Agent!HitsInOrder(c)'
    BY <2>4, <1>9, ChildStays DEF Agent!Cancelled, Agent!Suspended
  <2> QED
    BY <1>0, <2>1, <2>2, <2>3, <2>5, AgentFrame DEF Agent!AgentInv, Agent!CallInv, Agent!Parameters
<1>10. CASE Agent!CancelledEarly(c)
  <2>0. /\ v4[c] = "announcing" /\ v4'[c] = "returned" /\ v5'[c] = "cancelled" /\ v6' = v6
        /\ v9' = v9 /\ v13' = v13 \cup {c}
    BY <1>0, <1>b, <1>10 DEF Agent!PlaceTells, Agent!CancelledEarly
  <2>1. Agent!TypeOK'
    BY <1>0, <1>b, <1>c, <2>0, <1>10 DEF Agent!TypeOK, Agent!ChildEvent, Agent!Parameters,
          Agent!CancelledEarly
  <2>2. \A d \in Spawns \ {c} : Unmoved(d)
    BY <1>a, <1>b, <2>0, <1>10 DEF Unmoved, Agent!CancelledEarly, Agent!Listeners
  <2>3. Agent!PlaceTells(c)' /\ Agent!Announced(c)'
    <3>1. Agent!PlaceTells(c)'
      BY <1>0, <1>a, <1>b, <2>0, <1>10 DEF Agent!PlaceTells, Agent!Live, Agent!Listeners,
            Agent!CancelledEarly
    <3>2. Agent!Announced(c)'
      BY <1>0, <1>b, <2>0, <1>10, ToldFirst DEF Agent!PlaceTells, Agent!Announced,
            Agent!CancelledEarly
    <3> QED  BY <3>1, <3>2
  <2>4. v4'[c] \in Agent!Live \/ v5'[c] = c => v4[c] \in Agent!Live \/ v5[c] = c \/ v12[c] = <<>>
    BY <1>0, <1>b, <2>0 DEF Agent!PlaceTells, Agent!ChildInOrder, Agent!Live
  <2>5. Agent!ChildInOrder(c)' /\ Agent!HitsInOrder(c)'
    BY <2>4, <1>10, ChildStays DEF Agent!CancelledEarly
  <2> QED
    BY <1>0, <2>1, <2>2, <2>3, <2>5, AgentFrame DEF Agent!AgentInv, Agent!CallInv, Agent!Parameters
<1> QED  BY <1>1, <1>2, <1>3, <1>4, <1>5, <1>6, <1>7, <1>8, <1>9, <1>10

(* A queue of its own for each call, longer by one.                        *)
LEMMA Queued ==
  ASSUME NEW S, NEW T, NEW q \in [S -> Seq(T)], NEW c \in S, NEW e \in T
  PROVE  [q EXCEPT ![c] = Append(@, e)] \in [S -> Seq(T)]
OBVIOUS

(* The goal is the first event of the child's session.                     *)
LEMMA GoalStep ==
  ASSUME Agent!AgentInv, NEW c \in Spawns, Agent!SendGoal(c)
  PROVE  Agent!AgentInv'
<1>0. PICK goal : goal = Agent!Event("user.message.received", 0)  OBVIOUS
<1>1. /\ Agent!Parameters /\ Agent!TypeOK /\ \A d \in Spawns : Agent!CallInv(d)
      /\ Agent!PlaceTells(c) /\ Agent!ChildInOrder(c) /\ Agent!HitsInOrder(c)
  BY DEF Agent!AgentInv, Agent!CallInv
<1>2. /\ v4[c] = "announcing" /\ v4' = [v4 EXCEPT ![c] = "waiting"]
      /\ v11' = [v11 EXCEPT ![c] = Append(@, goal)]
      /\ v1' = v1 /\ v2' = v2 /\ v3' = v3 /\ v5' = v5 /\ v6' = v6 /\ v7' = v7 /\ v8' = v8
      /\ v9' = v9
      /\ v10' = v10 /\ v12' = v12 /\ v13' = v13
  BY <1>0 DEF Agent!SendGoal, Agent!pluginVars, Agent!listenVars
<1>3. v11[c] = <<>> /\ v10[c] = "idle" /\ v12[c] = <<>> /\ v9[c] = <<"started">> /\ v5[c] = None
  BY <1>1, <1>2 DEF Agent!PlaceTells, Agent!ChildInOrder, Agent!TypeOK
<1>4. goal \in Agent!ChildEvent /\ goal.kind = "user.message.received"
  BY <1>0 DEF Agent!Event, Agent!ChildEvent
<1>5. Agent!TypeOK'
  <2>1. v11' \in [Spawns -> Seq(Agent!ChildEvent)]
    <3>1. v11 \in [Spawns -> Seq(Agent!ChildEvent)]  BY <1>1 DEF Agent!TypeOK
    <3> QED  BY <3>1, <1>2, <1>4, Queued
  <2>2. v4' \in [Spawns -> {"idle", "approval", "announcing", "waiting", "completing", "narrowing",
                           "timing out", "returned"}]
    BY <1>1, <1>2 DEF Agent!TypeOK
  <2>3. \A d \in Spawns : v5'[d] # None <=> v4'[d] = "returned"
    BY <1>1, <1>2, <1>3 DEF Agent!TypeOK
  <2> QED  BY <1>1, <1>2, <2>1, <2>2, <2>3 DEF Agent!TypeOK
<1>6. \A d \in Spawns \ {c} : Unmoved(d)
  BY <1>1, <1>2 DEF Unmoved, Agent!TypeOK
<1>7. v4'[c] = "waiting" /\ v11'[c] = <<goal>> /\ Len(<<goal>>) = 1 /\ DOMAIN <<goal>> = {1}
      /\ <<goal>>[1].kind = "user.message.received" /\ v5[c] # c /\ v4'[c] \in Agent!Live
      /\ v7[c] = None
  <2>1. v4'[c] = "waiting" /\ v5[c] # c /\ v7[c] = None
    BY <1>1, <1>2, <1>3 DEF Agent!TypeOK, Agent!Parameters, Agent!ChildInOrder
  <2>2. v11'[c] = Append(<<>>, goal)
    BY <1>1, <1>2, <1>3 DEF Agent!TypeOK
  <2>3. Append(<<>>, goal) = <<goal>>
    BY ToldFirst
  <2> QED  BY <1>4, <2>1, <2>2, <2>3 DEF Agent!Live
<1>8. Agent!PlaceTells(c)' /\ Agent!Announced(c)'
  <2>1. Agent!PlaceTells(c)'
    BY <1>1, <1>2, <1>3, <1>7 DEF Agent!PlaceTells, Agent!Live, Agent!TypeOK
  <2>2. Head(<<"started">>) = "started"  OBVIOUS
  <2> QED  BY <2>1, <2>2, <1>2, <1>3 DEF Agent!Announced
<1>9. Agent!ChildInOrder(c)'
  BY <1>0, <1>1, <1>2, <1>3, <1>7 DEF Agent!ChildInOrder, Agent!Asks
<1>10. Agent!HitsInOrder(c)'
  <2>1. Agent!Forbidden(c)' = {} /\ Agent!Forbidden(c) = {}
    BY <1>2, <1>3 DEF Agent!Forbidden
  <2> QED
    BY <2>1, <1>1, <1>2, <1>3, <1>7 DEF Agent!HitsInOrder, Agent!Asks
<1> QED
  BY <1>1, <1>5, <1>6, <1>8, <1>9, <1>10, AgentFrame DEF Agent!AgentInv, Agent!CallInv,
        Agent!Parameters

(* The child's turn publishes behind what is queued.                       *)
LEMMA ChildStep ==
  ASSUME Agent!AgentInv, NEW c \in Spawns, Agent!ChildCalls(c) \/ Agent!ChildEnds(c)
  PROVE  Agent!AgentInv'
<1>1. /\ Agent!Parameters /\ Agent!TypeOK /\ \A d \in Spawns : Agent!CallInv(d)
      /\ Agent!PlaceTells(c) /\ Agent!ChildInOrder(c) /\ Agent!HitsInOrder(c) /\ Agent!Announced(c)
  BY DEF Agent!AgentInv, Agent!CallInv
<1>2. /\ v10[c] = "running" /\ DOMAIN v10 = Spawns /\ DOMAIN v11 = Spawns /\ DOMAIN v12 = Spawns
      /\ v1' = v1 /\ v2' = v2 /\ v3' = v3 /\ v4' = v4 /\ v5' = v5 /\ v6' = v6 /\ v7' = v7
      /\ v8' = v8 /\ v9' = v9
      /\ v13' = v13
  BY <1>1 DEF Agent!ChildCalls, Agent!ChildEnds, Agent!pluginVars, Agent!listenVars, Agent!TypeOK
<1>3. /\ v11[c] \in Seq(Agent!ChildEvent) /\ v12[c] \in Seq(Tools) /\ v8[c] \in Seq(Nat)
      /\ v4[c] \notin {"idle", "approval", "announcing"} /\ v7[c] = None /\ v5[c] # c
      /\ Head(v9[c]) = "started"
      /\ \A i \in DOMAIN v11[c] : v11[c][i].kind # "assistant.message.done"
  BY <1>1, <1>2 DEF Agent!TypeOK, Agent!PlaceTells, Agent!ChildInOrder, Agent!Announced,
        Agent!Parameters
<1>4. Agent!PlaceTells(c)'
  BY <1>1, <1>2, <1>3 DEF Agent!PlaceTells, Agent!Listeners
<1>5. Agent!Announced(c)'
  BY <1>2, <1>3 DEF Agent!Announced
<1>6. CASE Agent!ChildCalls(c)
  <2> DEFINE n == Len(v12[c]) + 1
             ev == Agent!Event("tool.call.request", n)
  <2>1. PICK t \in Tools : /\ v12' = [v12 EXCEPT ![c] = Append(@, t)]
                           /\ v11' = [v11 EXCEPT ![c] = Append(@, ev)] /\ v10' = v10
    BY <1>6 DEF Agent!ChildCalls
  <2>2. ev \in Agent!ChildEvent /\ ev.kind = "tool.call.request" /\ ev.call = n /\ n \in Nat
    BY <1>3 DEF Agent!Event, Agent!ChildEvent
  <2>3. Agent!TypeOK'
    <3>1. v11 \in [Spawns -> Seq(Agent!ChildEvent)] /\ v12 \in [Spawns -> Seq(Tools)]
      BY <1>1 DEF Agent!TypeOK
    <3>2. v11' \in [Spawns -> Seq(Agent!ChildEvent)]  BY <3>1, <2>1, <2>2, Queued
    <3>3. v12' \in [Spawns -> Seq(Tools)]  BY <3>1, <2>1, Queued
    <3> QED  BY <1>1, <1>2, <2>1, <3>2, <3>3 DEF Agent!TypeOK
  <2>4. \A d \in Spawns \ {c} : Unmoved(d)
    BY <1>2, <2>1 DEF Unmoved
  <2>5. PICK q : q = v11'[c]  OBVIOUS
  <2>6. PICK k : k = v12'[c]  OBVIOUS
  <2>7. /\ q \in Seq(Agent!ChildEvent) /\ DOMAIN q = 1..(Len(v11[c]) + 1)
        /\ Len(q) = Len(v11[c]) + 1
        /\ \A i \in DOMAIN v11[c] : i \in DOMAIN q /\ i < Len(q) /\ q[i] = v11[c][i]
        /\ \A i \in DOMAIN q : i \in DOMAIN v11[c] \/ i = Len(q)
        /\ q[Len(q)] = ev /\ Len(q) \in DOMAIN q
    BY <1>2, <1>3, <2>1, <2>2, <2>5
  <2>8. /\ DOMAIN k = DOMAIN v12[c] \cup {n} /\ k[n] = t /\ DOMAIN v12[c] = 1..(n - 1)
        /\ \A i \in DOMAIN v12[c] : k[i] = v12[c][i]
    BY <1>2, <1>3, <2>1, <2>6
  <2>9. Agent!ChildInOrder(c)'
    <3>1. /\ \A i \in DOMAIN q : q[i].kind # "user.message.received"
               /\ q[i].kind # "assistant.message.done"
          /\ \A i \in DOMAIN q : q[i].kind = "tool.call.request" => q[i].call \in DOMAIN k
      BY <1>1, <1>2, <1>3, <2>2, <2>7, <2>8 DEF Agent!ChildInOrder, Agent!Asks
    <3>2. ASSUME NEW i \in DOMAIN q, NEW j \in DOMAIN q, i < j, q[i].kind = "tool.call.request",
                 q[j].kind = "tool.call.request"
          PROVE  q[i].call < q[j].call
      <4>1. i \in DOMAIN v11[c] /\ q[i] = v11[c][i] /\ v11[c][i].call \in 1..(n - 1)
        BY <1>1, <1>3, <2>7, <2>8, <3>2 DEF Agent!ChildInOrder, Agent!Asks
      <4>2. CASE j \in DOMAIN v11[c]
        BY <1>1, <2>7, <3>2, <4>1, <4>2 DEF Agent!ChildInOrder, Agent!Asks
      <4>3. CASE j = Len(q)
        BY <2>2, <2>7, <4>1, <4>3
      <4> QED  BY <2>7, <4>2, <4>3
    <3> QED
      BY <1>1, <1>2, <1>3, <2>1, <2>5, <2>6, <3>1, <3>2 DEF Agent!ChildInOrder, Agent!Asks
  <2>10. Agent!HitsInOrder(c)'
    <3>1. PICK h : h = v8[c]  OBVIOUS
    <3>2. PICK F : F = {m \in DOMAIN v12[c] : v12[c][m] \notin Allowed}  OBVIOUS
    <3>3. /\ \A i \in DOMAIN h : h[i] \in F /\ h[i] \in 1..(n - 1)
          /\ \A i, j \in DOMAIN h : i < j => h[i] < h[j]
          /\ \A i \in DOMAIN h, j \in DOMAIN v11[c] :
               v11[c][j].kind = "tool.call.request" => h[i] < v11[c][j].call
          /\ v4[c] \in Agent!Live => \A m \in F : \/ \E i \in DOMAIN h : h[i] = m
               \/ \E j \in DOMAIN v11[c] : v11[c][j].kind = "tool.call.request"
                    /\ v11[c][j].call = m
      BY <1>1, <2>8, <3>1, <3>2 DEF Agent!HitsInOrder, Agent!Asks, Agent!Forbidden
    <3>4. PICK G : G = {m \in DOMAIN k : k[m] \notin Allowed}  OBVIOUS
    <3>5. F \subseteq G /\ G \subseteq F \cup {n}
      BY <2>8, <3>2, <3>4
    <3>6. \A i \in DOMAIN h, j \in DOMAIN q : q[j].kind = "tool.call.request" => h[i] < q[j].call
      BY <2>2, <2>7, <3>3
    <3>7. v4[c] \in Agent!Live => \A m \in G : \/ \E i \in DOMAIN h : h[i] = m
               \/ \E j \in DOMAIN q : q[j].kind = "tool.call.request" /\ q[j].call = m
      BY <2>2, <2>7, <3>3, <3>5
    <3>8. Agent!Forbidden(c)' = G /\ v8'[c] = h /\ v11'[c] = q /\ v4'[c] = v4[c] /\ v5'[c] = v5[c]
      BY <1>2, <2>5, <2>6, <3>1, <3>4 DEF Agent!Forbidden
    <3> QED
      BY <1>3, <3>3, <3>5, <3>6, <3>7, <3>8 DEF Agent!HitsInOrder, Agent!Asks
  <2> QED
    BY <1>1, <1>4, <1>5, <2>3, <2>4, <2>9, <2>10, AgentFrame
    DEF Agent!AgentInv, Agent!CallInv, Agent!Parameters
<1>7. CASE Agent!ChildEnds(c)
  <2> DEFINE ev == Agent!Event("assistant.message.done", 0)
  <2>1. /\ v10' = [v10 EXCEPT ![c] = "over"] /\ v12' = v12
        /\ v11' = [v11 EXCEPT ![c] = Append(@, ev)] \/ v11' = v11
    BY <1>7 DEF Agent!ChildEnds
  <2>2. ev \in Agent!ChildEvent /\ ev.kind = "assistant.message.done"
    BY DEF Agent!Event, Agent!ChildEvent
  <2>3. Agent!TypeOK'
    <3>1. v10' \in [Spawns -> {"idle", "running", "over"}]
      BY <1>1, <2>1 DEF Agent!TypeOK
    <3>2. v11' \in [Spawns -> Seq(Agent!ChildEvent)]
      <4>1. v11 \in [Spawns -> Seq(Agent!ChildEvent)]  BY <1>1 DEF Agent!TypeOK
      <4>2. CASE v11' = v11  BY <4>1, <4>2
      <4>3. CASE v11' = [v11 EXCEPT ![c] = Append(@, ev)]  BY <4>1, <4>3, <2>2, Queued
      <4> QED  BY <4>2, <4>3, <2>1
    <3> QED  BY <1>1, <1>2, <2>1, <3>1, <3>2 DEF Agent!TypeOK
  <2>4. \A d \in Spawns \ {c} : Unmoved(d)
    BY <1>2, <2>1 DEF Unmoved
  <2>5. PICK q : q = v11'[c]  OBVIOUS
  <2>6. /\ q \in Seq(Agent!ChildEvent) /\ DOMAIN q = 1..Len(q)
        /\ \A i \in DOMAIN v11[c] : i \in DOMAIN q /\ q[i] = v11[c][i]
        /\ \A i \in DOMAIN q : \/ i \in DOMAIN v11[c] /\ q[i] = v11[c][i]
                               \/ i = Len(q) /\ q[i] = ev
    <3>1. q = v11[c] \/ q = Append(v11[c], ev)  BY <1>2, <2>1, <2>5
    <3>2. CASE q = v11[c]  BY <1>3, <3>2
    <3>3. CASE q = Append(v11[c], ev)
      <4>1. PICK e \in Agent!ChildEvent : e = ev  BY <2>2
      <4> HIDE DEF ev
      <4> QED  BY <1>3, <3>3, <4>1
    <3> QED  BY <3>1, <3>2, <3>3
  <2>7. \A i \in DOMAIN q : q[i].kind = "tool.call.request"
          => i \in DOMAIN v11[c] /\ q[i] = v11[c][i]
    BY <2>2, <2>6
  <2>8. Agent!ChildInOrder(c)'
    <3>1. v10'[c] = "over"  BY <1>2, <2>1
    <3>2. \A i \in DOMAIN q : /\ q[i].kind # "user.message.received"
                              /\ q[i].kind = "assistant.message.done" => i = Len(q)
      BY <1>1, <1>2, <1>3, <2>2, <2>6 DEF Agent!ChildInOrder
    <3> QED
      BY <1>1, <1>2, <1>3, <2>1, <2>5, <2>7, <3>1, <3>2 DEF Agent!ChildInOrder, Agent!Asks
  <2>9. Agent!HitsInOrder(c)'
    BY <1>1, <1>2, <2>1, <2>5, <2>6, <2>7 DEF Agent!HitsInOrder, Agent!Asks, Agent!Forbidden
  <2> QED
    BY <1>1, <1>4, <1>5, <2>3, <2>4, <2>8, <2>9, AgentFrame
    DEF Agent!AgentInv, Agent!CallInv, Agent!Parameters
<1> QED  BY <1>6, <1>7

(* An event reaches the listeners, and the child when it is the goal.      *)
LEMMA DeliverStep ==
  ASSUME Agent!AgentInv, NEW c \in Spawns, Agent!Deliver(c)
  PROVE  Agent!AgentInv'
<1>1. /\ Agent!Parameters /\ Agent!TypeOK /\ \A d \in Spawns : Agent!CallInv(d)
      /\ Agent!PlaceTells(c) /\ Agent!ChildInOrder(c) /\ Agent!HitsInOrder(c) /\ Agent!Announced(c)
  BY DEF Agent!AgentInv, Agent!CallInv
<1>2. PICK q0, q, ev :
        /\ q0 = v11[c] /\ q0 # <<>> /\ ev = Head(q0) /\ q = Tail(q0)
        /\ v11' = [v11 EXCEPT ![c] = Tail(@)]
        /\ v10' = IF ev.kind = "user.message.received" THEN [v10 EXCEPT ![c] = "running"] ELSE v10
        /\ v7' = IF ev.kind = "assistant.message.done" /\ <<c, "done">> \in v6
                 THEN [v7 EXCEPT ![c] = c] ELSE v7
        /\ v8' = IF ev.kind = "tool.call.request" /\ <<c, "request">> \in v6
             /\ v12[c][ev.call] \notin Allowed
                 THEN [v8 EXCEPT ![c] = Append(@, ev.call)] ELSE v8
  BY DEF Agent!Deliver
<1>3. /\ v1' = v1 /\ v2' = v2 /\ v3' = v3 /\ v4' = v4 /\ v5' = v5 /\ v6' = v6 /\ v9' = v9
      /\ v12' = v12 /\ v13' = v13
  BY DEF Agent!Deliver, Agent!pluginVars
<1>4. /\ v11 \in [Spawns -> Seq(Agent!ChildEvent)]
      /\ v10 \in [Spawns -> {"idle", "running", "over"}]
      /\ v7 \in [Spawns -> Spawns \cup {None}] /\ v8 \in [Spawns -> Seq(Nat)]
      /\ v12[c] \in Seq(Tools)
  BY <1>1 DEF Agent!TypeOK
<1>5. /\ q0 \in Seq(Agent!ChildEvent) /\ q \in Seq(Agent!ChildEvent) /\ v11'[c] = q
      /\ ev = q0[1] /\ 1 \in DOMAIN q0 /\ ev \in Agent!ChildEvent /\ Len(q) = Len(q0) - 1
      /\ DOMAIN q = 1..Len(q)
      /\ \A i \in DOMAIN q : i + 1 \in DOMAIN q0 /\ q[i] = q0[i + 1] /\ 1 < i + 1
      /\ v11' \in [Spawns -> Seq(Agent!ChildEvent)]
  <2>1. q0 \in Seq(Agent!ChildEvent)  BY <1>2, <1>4
  <2>2. /\ q \in Seq(Agent!ChildEvent) /\ ev = q0[1] /\ 1 \in DOMAIN q0 /\ ev \in Agent!ChildEvent
        /\ Len(q) = Len(q0) - 1 /\ DOMAIN q = 1..Len(q)
        /\ \A i \in DOMAIN q : i + 1 \in DOMAIN q0 /\ q[i] = q0[i + 1] /\ 1 < i + 1
    BY <1>2, <2>1
  <2>3. v11' = [v11 EXCEPT ![c] = q]  BY <1>2
  <2> QED  BY <1>4, <2>1, <2>2, <2>3
<1>6. /\ v4[c] \notin {"idle", "approval", "announcing"} /\ Head(v9[c]) = "started"
      /\ v7[c] = None /\ v5[c] # c
      /\ ev.kind \in {"user.message.received", "tool.call.request", "assistant.message.done"}
      /\ ev.call \in Nat
  BY <1>1, <1>2, <1>4, <1>5 DEF Agent!PlaceTells, Agent!ChildInOrder, Agent!Announced,
        Agent!Parameters, Agent!ChildEvent
<1>7. \A d \in Spawns \ {c} : Unmoved(d)
  BY <1>2, <1>3, <1>4 DEF Unmoved
<1>8. Agent!Announced(c)'
  BY <1>3, <1>6 DEF Agent!Announced
<1>9. CASE ev.kind = "user.message.received"
  <2>1. /\ v10[c] = "idle" /\ q0 = <<ev>> /\ v12[c] = <<>>
        /\ v10' = [v10 EXCEPT ![c] = "running"] /\ v7' = v7 /\ v8' = v8
    BY <1>1, <1>2, <1>5, <1>9 DEF Agent!ChildInOrder
  <2>2. q = <<>>  BY <1>2, <2>1
  <2>3. Agent!Forbidden(c) = {} /\ Agent!Forbidden(c)' = {}  BY <1>3, <2>1 DEF Agent!Forbidden
  <2>4. Agent!TypeOK'
    BY <1>1, <1>3, <1>4, <1>5, <2>1 DEF Agent!TypeOK
  <2>5. /\ v10'[c] = "running" /\ v11'[c] = <<>> /\ v12'[c] = v12[c] /\ v7'[c] = v7[c]
        /\ v8'[c] = v8[c]
    BY <1>3, <1>4, <1>5, <2>1, <2>2
  <2>6. Agent!PlaceTells(c)'
    BY <1>1, <1>3, <1>6, <2>5 DEF Agent!PlaceTells, Agent!Listeners
  <2>7. Agent!ChildInOrder(c)'
    BY <1>6, <2>5 DEF Agent!ChildInOrder, Agent!Asks
  <2>8. Agent!HitsInOrder(c)'
    BY <1>1, <1>3, <2>3, <2>5 DEF Agent!HitsInOrder, Agent!Asks
  <2> QED
    BY <1>1, <1>7, <1>8, <2>4, <2>6, <2>7, <2>8, AgentFrame DEF Agent!AgentInv, Agent!CallInv,
          Agent!Parameters
<1>10. CASE ev.kind = "assistant.message.done"
  <2>1. Len(q0) = 1 /\ v10[c] = "over" /\ v10' = v10 /\ v8' = v8
        /\ v7' \in {v7, [v7 EXCEPT ![c] = c]}
    BY <1>1, <1>2, <1>5, <1>10 DEF Agent!ChildInOrder
  <2>2. q = <<>> /\ \A i \in DOMAIN q0 : i = 1 /\ q0[i].kind # "tool.call.request"
    <3>1. Len(q) = 0 /\ DOMAIN q0 = 1..1  BY <1>5, <2>1
    <3> QED  BY <1>5, <1>10, <3>1
  <2>3. v7' \in [Spawns -> Spawns \cup {None}]
    BY <1>4, <2>1
  <2>4. Agent!TypeOK'
    BY <1>1, <1>3, <1>4, <1>5, <2>1, <2>3 DEF Agent!TypeOK
  <2>5. /\ v10'[c] = "over" /\ v11'[c] = <<>> /\ v12'[c] = v12[c] /\ v7'[c] \in {None, c}
        /\ v8'[c] = v8[c]
    BY <1>3, <1>4, <1>5, <1>6, <2>1, <2>2
  <2>6. Agent!PlaceTells(c)'
    BY <1>1, <1>3, <1>6, <2>5 DEF Agent!PlaceTells, Agent!Listeners, Agent!ChildInOrder
  <2>7. Agent!ChildInOrder(c)'
    BY <1>6, <2>5 DEF Agent!ChildInOrder, Agent!Asks
  <2>8. Agent!HitsInOrder(c)'
    <3>1. Agent!Forbidden(c)' = Agent!Forbidden(c)  BY <1>3 DEF Agent!Forbidden
    <3>2. \A j \in DOMAIN v11[c] : ~Agent!Asks(c, j)  BY <1>2, <2>2 DEF Agent!Asks
    <3> QED  BY <1>1, <1>3, <2>5, <3>1, <3>2 DEF Agent!HitsInOrder
  <2> QED
    BY <1>1, <1>7, <1>8, <2>4, <2>6, <2>7, <2>8, AgentFrame DEF Agent!AgentInv, Agent!CallInv,
          Agent!Parameters
<1>11. CASE ev.kind = "tool.call.request"
  <2>1. PICK n : n = ev.call  OBVIOUS
  <2>2. v10' = v10 /\ v7' = v7 /\ v10[c] # "idle" /\ n \in DOMAIN v12[c] /\ n \in Nat
        /\ v8' = IF <<c, "request">> \in v6
             /\ v12[c][n] \notin Allowed THEN [v8 EXCEPT ![c] = Append(@, n)] ELSE v8
    <3>1. v10[c] # "idle"
      <4>1. SUFFICES ASSUME v10[c] = "idle"  PROVE FALSE  OBVIOUS
      <4>2. PICK goal : goal = Agent!Event("user.message.received", 0)  OBVIOUS
      <4>3. goal.kind = "user.message.received"  BY <4>2 DEF Agent!Event
      <4>4. q0 = <<goal>>  BY <1>1, <1>2, <4>1, <4>2 DEF Agent!ChildInOrder
      <4> QED  BY <1>5, <1>11, <4>3, <4>4
    <3> QED
      BY <1>1, <1>2, <1>5, <1>6, <1>11, <2>1, <3>1 DEF Agent!ChildInOrder, Agent!Asks
  <2>3. PICK F : F = {m \in DOMAIN v12[c] : v12[c][m] \notin Allowed}  OBVIOUS
  <2>4. Agent!Forbidden(c) = F /\ Agent!Forbidden(c)' = F
    BY <1>3, <2>3 DEF Agent!Forbidden
  <2>5. PICK h : h = v8[c]  OBVIOUS
  <2>6. PICK g : g = v8'[c]  OBVIOUS
  <2>7. /\ h \in Seq(Nat) /\ \A i \in DOMAIN h : h[i] \in F /\ h[i] < n
        /\ \A i, j \in DOMAIN h : i < j => h[i] < h[j]
        /\ \A i \in DOMAIN h, j \in DOMAIN q : q[j].kind = "tool.call.request" => h[i] < q[j].call
        /\ \A j \in DOMAIN q : q[j].kind = "tool.call.request" => n < q[j].call
        /\ v4[c] \in Agent!Live => \A m \in F : \/ \E i \in DOMAIN h : h[i] = m
             \/ m = n
             \/ \E j \in DOMAIN q : q[j].kind = "tool.call.request" /\ q[j].call = m
    <3>1. h \in Seq(Nat)  BY <1>4, <2>5
    <3>2. /\ \A i \in DOMAIN h : h[i] \in F
          /\ \A i, j \in DOMAIN h : i < j => h[i] < h[j]
          /\ \A i \in DOMAIN h, j \in DOMAIN q0 : q0[j].kind = "tool.call.request"
               => h[i] < q0[j].call
          /\ v4[c] \in Agent!Live => \A m \in F : \/ \E i \in DOMAIN h : h[i] = m
               \/ \E j \in DOMAIN q0 : q0[j].kind = "tool.call.request" /\ q0[j].call = m
      BY <1>1, <1>2, <2>4, <2>5 DEF Agent!HitsInOrder, Agent!Asks
    <3>3. \A j \in DOMAIN q : q[j].kind = "tool.call.request" => n < q[j].call
      <4>1. \A i, j \in DOMAIN q0 : i < j /\ q0[i].kind = "tool.call.request"
              /\ q0[j].kind = "tool.call.request"
                                      => q0[i].call < q0[j].call
        BY <1>1, <1>2 DEF Agent!ChildInOrder, Agent!Asks
      <4> QED  BY <1>5, <1>11, <2>1, <4>1
    <3>4. \A j \in DOMAIN q0 : j = 1 \/ (j - 1 \in DOMAIN q /\ q[j - 1] = q0[j])
      <4>1. DOMAIN q0 = 1..Len(q0) /\ Len(q0) \in Nat  BY <1>5
      <4> QED  BY <1>5, <4>1
    <3>5. \A i \in DOMAIN h : h[i] < n  BY <1>5, <1>11, <2>1, <3>2
    <3>6. \A i \in DOMAIN h, j \in DOMAIN q : q[j].kind = "tool.call.request" => h[i] < q[j].call
      BY <1>5, <3>2
    <3>7. ASSUME v4[c] \in Agent!Live, NEW m \in F
          PROVE  \/ \E i \in DOMAIN h : h[i] = m
                 \/ m = n
                 \/ \E j \in DOMAIN q : q[j].kind = "tool.call.request" /\ q[j].call = m
      BY <1>5, <2>1, <3>2, <3>4, <3>7
    <3> QED  BY <3>1, <3>2, <3>3, <3>5, <3>6, <3>7
  <2>8. \/ g = h /\ v8' = v8 /\ (v4[c] \in Agent!Live => n \notin F)
        \/ g = Append(h, n) /\ v8' = [v8 EXCEPT ![c] = Append(@, n)] /\ n \in F
    <3>1. v4[c] \in Agent!Live => <<c, "request">> \in v6
      BY <1>1 DEF Agent!PlaceTells, Agent!Listeners
    <3> QED  BY <1>4, <2>2, <2>3, <2>5, <2>6, <3>1
  <2>9. Agent!TypeOK'
    <3>1. v8' \in [Spawns -> Seq(Nat)]  BY <1>4, <2>2, <2>8, Queued
    <3> QED  BY <1>1, <1>3, <1>4, <1>5, <2>2, <3>1 DEF Agent!TypeOK
  <2>10. /\ \A i \in DOMAIN g : g[i] \in F
         /\ \A i, j \in DOMAIN g : i < j => g[i] < g[j]
         /\ \A i \in DOMAIN g, j \in DOMAIN q : q[j].kind = "tool.call.request" => g[i] < q[j].call
         /\ v4[c] \in Agent!Live => \A m \in F : \/ \E i \in DOMAIN g : g[i] = m
              \/ \E j \in DOMAIN q : q[j].kind = "tool.call.request" /\ q[j].call = m
    <3>1. CASE g = h /\ (v4[c] \in Agent!Live => n \notin F)
      BY <2>7, <3>1
    <3>2. CASE g = Append(h, n) /\ n \in F
      <4>1. /\ DOMAIN g = 1..(Len(h) + 1) /\ Len(h) \in Nat /\ g[Len(h) + 1] = n
            /\ DOMAIN h = 1..Len(h)
            /\ \A i \in DOMAIN h : g[i] = h[i]
        BY <2>2, <2>7, <3>2
      <4>2. \A i \in DOMAIN g : i \in DOMAIN h \/ i = Len(h) + 1  BY <4>1
      <4>3. \A i, j \in DOMAIN g : i < j => i \in DOMAIN h /\ g[i] = h[i]  BY <4>1
      <4>4. \A i, j \in DOMAIN g : i < j => g[i] < g[j]  BY <2>7, <4>1, <4>2, <4>3
      <4>5. \A i \in DOMAIN h : i \in DOMAIN g /\ g[i] = h[i]  BY <4>1
      <4>6. Len(h) + 1 \in DOMAIN g  BY <4>1
      <4> QED  BY <2>7, <3>2, <4>1, <4>2, <4>4, <4>5, <4>6
    <3> QED  BY <2>8, <3>1, <3>2
  <2>11. Agent!PlaceTells(c)'
    <3>1. v4[c] \notin {"completing", "narrowing"}
      BY <1>1, <1>6 DEF Agent!PlaceTells, Agent!Parameters
    <3> QED
      BY <1>1, <1>3, <1>6, <2>2, <3>1 DEF Agent!PlaceTells, Agent!Listeners
  <2>12. Agent!ChildInOrder(c)'
    <3>1. \A i \in DOMAIN q : i + 1 \in DOMAIN q0 /\ q[i] = q0[i + 1]
            /\ (i + 1 = Len(q0) => i = Len(q))
      BY <1>5
    <3>2. \A i \in DOMAIN q : /\ q[i].kind # "user.message.received"
                              /\ q[i].kind = "assistant.message.done"
                                   => i = Len(q) /\ v10[c] = "over"
                              /\ q[i].kind = "tool.call.request" => q[i].call \in DOMAIN v12[c]
      BY <1>1, <1>2, <2>2, <3>1 DEF Agent!ChildInOrder, Agent!Asks
    <3>3. ASSUME NEW i \in DOMAIN q, NEW j \in DOMAIN q, i < j, q[i].kind = "tool.call.request",
                 q[j].kind = "tool.call.request"
          PROVE  q[i].call < q[j].call
      <4>1. i + 1 < j + 1  BY <1>5, <3>3
      <4> QED  BY <1>1, <1>2, <3>1, <3>3, <4>1 DEF Agent!ChildInOrder, Agent!Asks
    <3>4. v7'[c] = None /\ v10'[c] # "idle" /\ v10'[c] = v10[c] /\ v12'[c] = v12[c]
      BY <1>3, <1>6, <2>2
    <3> QED
      BY <1>5, <3>2, <3>3, <3>4 DEF Agent!ChildInOrder, Agent!Asks
  <2>13. Agent!HitsInOrder(c)'
    BY <1>3, <1>5, <1>6, <2>4, <2>6, <2>10 DEF Agent!HitsInOrder, Agent!Asks
  <2> QED
    BY <1>1, <1>7, <1>8, <2>9, <2>11, <2>12, <2>13, AgentFrame DEF Agent!AgentInv, Agent!CallInv,
          Agent!Parameters
<1> QED  BY <1>6, <1>9, <1>10, <1>11

(* Every step keeps the invariant of AgentTool.                            *)
LEMMA AgentStep == Agent!AgentInv /\ [Agent!Next]_(Agent!vars) => Agent!AgentInv'
<1> SUFFICES ASSUME Agent!AgentInv, [Agent!Next]_(Agent!vars)  PROVE Agent!AgentInv'
  OBVIOUS
<1>1. ASSUME v3' = v3, v4' = v4, v5' = v5, v6' = v6, v7' = v7, v8' = v8, v9' = v9, v10' = v10,
             v11' = v11,
             v12' = v12, v13' = v13, v1' \in BOOLEAN, v2' \in BOOLEAN
      PROVE  Agent!AgentInv'
  <2>1. Agent!TypeOK'  BY <1>1 DEF Agent!AgentInv, Agent!TypeOK
  <2>2. \A d \in Spawns : Unmoved(d)  BY <1>1 DEF Unmoved
  <2> QED  BY <2>1, <2>2, AgentFrame DEF Agent!AgentInv, Agent!Parameters
<1>2. CASE Agent!Unload
  BY <1>1, <1>2 DEF Agent!Unload, Agent!childVars, Agent!listenVars
<1>3. CASE UNCHANGED Agent!vars
  BY <1>1, <1>3 DEF Agent!vars, Agent!childVars, Agent!listenVars, Agent!pluginVars,
        Agent!AgentInv, Agent!TypeOK
<1> QED
  BY <1>2, <1>3, CallStep, GoalStep, ChildStep, DeliverStep DEF Agent!Next

(* The report that a call has told of is that of its forbidden calls.      *)
LEMMA AgentAccounts == Agent!AgentInv => Agent!ChildAccounted /\ Agent!ListenersGo
<1> SUFFICES ASSUME Agent!AgentInv  PROVE Agent!ChildAccounted /\ Agent!ListenersGo
  OBVIOUS
<1>1. Agent!ListenersGo
  BY DEF Agent!AgentInv, Agent!ListenersGo, Agent!CallInv, Agent!PlaceTells, Agent!Announced
<1>2. ASSUME NEW c \in Spawns  PROVE v5[c] = "timeout" => v9[c] = <<"started", "failed">>
  BY DEF Agent!AgentInv, Agent!CallInv, Agent!PlaceTells
<1>3. ASSUME NEW c \in Spawns, v5[c] \in Spawns
      PROVE  /\ v5[c] = c
             /\ \/ v9[c] = <<"started", "completed">> /\ Agent!Forbidden(c) = {}
                \/ \E report \in {v8[c]} : /\ v9[c] = <<"started", "completed", report>>
                                          /\ report # <<>> /\ Agent!Reports(report, c)
  <2>1. /\ Agent!PlaceTells(c) /\ Agent!ChildInOrder(c) /\ Agent!HitsInOrder(c)
        /\ c # None /\ v8[c] \in Seq(Nat)
    BY DEF Agent!AgentInv, Agent!CallInv, Agent!TypeOK, Agent!Parameters
  <2>2. /\ v5[c] = c /\ v7[c] = c /\ v11[c] = <<>>
        /\ \/ v9[c] = <<"started", "completed">> /\ v8[c] = <<>>
           \/ v9[c] = <<"started", "completed", v8[c]>> /\ v8[c] # <<>>
    BY <1>3, <2>1 DEF Agent!PlaceTells, Agent!ChildInOrder
  <2>3. \A n \in Agent!Forbidden(c) : \E i \in DOMAIN v8[c] : v8[c][i] = n
    BY <2>1, <2>2 DEF Agent!HitsInOrder
  <2>4. Agent!Reports(v8[c], c)
    BY <2>1, <2>3 DEF Agent!HitsInOrder, Agent!Reports, Agent!Range
  <2>5. v8[c] = <<>> => Agent!Forbidden(c) = {}
    BY <2>3
  <2> QED  BY <2>2, <2>4, <2>5
<1> QED
  BY <1>1, <1>2, <1>3 DEF Agent!ChildAccounted

(* A sub-agent's result is its own child's, its operators were told of the *)
(* completion and of every forbidden call or of the failure, and it leaves *)
(* no listener behind; a child process outlives its request only when the  *)
(* bus cancelled it (agent_tool/plugin.py:128-352, tool_bash/plugin.py:    *)
(* 148-196).                                                               *)
THEOREM ChildrenAreAccounted == Spec => []ChildAccounted
<1>1. Agent!AgentInv /\ Bash!BashInv => ChildAccounted
  BY AgentAccounts DEF ChildAccounted, Bash!BashInv
<1>2. Agent!AgentInv /\ part # "bash" => ChildAccounted
  BY AgentAccounts DEF ChildAccounted
<1>3. Bash!BashInv /\ part # "agent" => ChildAccounted
  BY DEF ChildAccounted, Bash!BashInv
<1>4. part # "agent" /\ part # "bash" => ChildAccounted
  BY DEF ChildAccounted
<1>5. Agent!Spec => []Agent!AgentInv
  BY AgentParameters, AgentInit, AgentStep, PTL DEF Agent!Spec
<1>6. Bash!Spec => []Bash!BashInv
  BY BashParameters, BashInit, BashStep, PTL DEF Bash!Spec
<1> QED  BY <1>1, <1>2, <1>3, <1>4, <1>5, <1>6, AgentAlone, BashAlone, PTL

-----------------------------------------------------------------------------
(* The contents of a turn.                                                 *)
(* A behaviour is the turn's alone, or not the turn's at all.              *)
LEMMA ReactAlone == Spec => React!Spec \/ [](part # "react")
<1>1. Init => (part = "react" /\ React!Init) \/ part # "react"
  BY DEF Init
<1>2. part = "react" /\ [Next]_vars => [React!Next]_(React!vars) /\ (part = "react")'
  BY DEF Next, vars, React!vars, React!providerVars, React!turnVars, React!historyVars
<1>3. part # "react" /\ [Next]_vars => (part # "react")'
  BY DEF Next, vars
<1> QED  BY <1>1, <1>2, <1>3, PTL DEF Spec, React!Spec

(* The inductive invariant of ReactTurn holds at first.                    *)
LEMMA ReactInit == React!Parameters /\ React!Init => React!ReactInv
<1> SUFFICES ASSUME React!Parameters, React!Init  PROVE React!ReactInv
  OBVIOUS
<1>1. /\ v1 = React!Range(<<"a", "b">>) /\ v2 \in v1 \cup {None} /\ v3 = 0 /\ v5 = 0
      /\ v6 = <<>> /\ v7 = <<>>
      /\ v8 = None /\ v9 = <<>> /\ v10 = "running" /\ MaxIterations \in Nat
  BY DEF React!Init, React!Parameters
<1>2. /\ v4 \in Seq([role : {"question", "assistant", "nudge", "observation"}, reply : Nat])
      /\ v4 # <<>> /\ v4[Len(v4)].role = "question" /\ \A i \in DOMAIN v4 : v4[i].role # "nudge"
  <2> DEFINE M == [role : {"question", "assistant", "nudge", "observation"}, reply : Nat]
  <2>1. PICK q : q = React!Question  OBVIOUS
  <2>2. PICK a : a = React!Told  OBVIOUS
  <2>3. q \in M /\ a \in M /\ q.role = "question" /\ a.role = "assistant"
    BY <2>1, <2>2 DEF React!Question, React!Told, React!Message
  <2>4. v4 = <<q>> \/ v4 = <<q, a, q>>
    BY <2>1, <2>2 DEF React!Init
  <2> HIDE DEF M
  <2>5. CASE v4 = <<q>>
    BY <2>3, <2>5 DEF M
  <2>6. CASE v4 = <<q, a, q>>
    <3>1. v4 \in Seq(M) /\ Len(v4) = 3 /\ v4[1] = q /\ v4[2] = a /\ v4[3] = q /\ DOMAIN v4 = 1..3
      BY <2>3, <2>6
    <3>2. /\ v4[Len(v4)].role = "question" /\ \A i \in DOMAIN v4 : v4[i].role # "nudge"
          /\ v4 # <<>>
      <4>1. v4[Len(v4)] = q /\ v4 # <<>>  BY <3>1
      <4>2. ASSUME NEW i \in DOMAIN v4  PROVE v4[i] \in {q, a}
        <5>1. i = 1 \/ i = 2 \/ i = 3  BY <3>1
        <5> QED  BY <3>1, <5>1
      <4>3. q.role # "nudge" /\ a.role # "nudge"  BY <2>3
      <4> QED  BY <2>3, <4>1, <4>2, <4>3
    <3> QED  BY <3>1, <3>2 DEF M
  <2> QED  BY <2>4, <2>5, <2>6
<1>3. React!TypeOK
  BY <1>1, <1>2 DEF React!TypeOK
<1>4. React!LastTextIsLast /\ React!RunOnce
  BY <1>1, <1>2 DEF React!LastTextIsLast, React!RunOnce, React!FromAssistant, React!Latest
<1>5. React!TurnAccounted
  BY <1>1, <1>2 DEF React!TurnAccounted, React!RunsWhatWasSaid, React!NudgedOnce, React!Nudges,
        React!AnchorIsFirst
<1> QED  BY <1>3, <1>4, <1>5 DEF React!ReactInv

(* A reply comes from a provider: the active one, the first one, or echo.  *)
LEMMA TargetIs ==
  ASSUME React!Parameters, React!TypeOK
  PROVE  React!Target \in React!Range(<<"a", "b">>) \cup {"echo"} /\ React!Target # None
<1>1. None # "a" /\ None # "b" /\ None # "echo" /\ React!Range(<<"a", "b">>) = {"a", "b"}
  BY DEF React!Parameters, React!Range
<1>2. v1 \subseteq {"a", "b"}
  BY <1>1 DEF React!TypeOK
<1>3. CASE v2 \in v1
  BY <1>1, <1>2, <1>3 DEF React!Target
<1>4. CASE v2 \notin v1 /\ v1 = {}
  BY <1>1, <1>4 DEF React!Target
<1>5. CASE v2 \notin v1 /\ v1 # {}
  <2> DEFINE Ok(i) == /\ <<"a", "b">>[i] \in v1
                      /\ \A j \in DOMAIN <<"a", "b">> : <<"a", "b">>[j] \in v1 => i <= j
  <2>1. DOMAIN <<"a", "b">> = {1, 2} /\ <<"a", "b">>[1] = "a" /\ <<"a", "b">>[2] = "b"
    OBVIOUS
  <2>2. \E i \in DOMAIN <<"a", "b">> : Ok(i)
    <3>1. CASE "a" \in v1  BY <2>1, <3>1
    <3>2. CASE "a" \notin v1
      <4>1. "b" \in v1  BY <1>2, <1>5, <3>2
      <4>2. Ok(2)  BY <2>1, <3>2, <4>1
      <4> QED  BY <2>1, <4>2
    <3> QED  BY <3>1, <3>2
  <2>3. PICK i : i = CHOOSE k \in DOMAIN <<"a", "b">> : Ok(k)  OBVIOUS
  <2>4. i \in DOMAIN <<"a", "b">>
    BY <2>2, <2>3, Zenon
  <2>5. React!Target = <<"a", "b">>[i]
    BY <1>5, <2>3 DEF React!Target
  <2> QED  BY <1>1, <2>1, <2>4, <2>5
<1> QED  BY <1>3, <1>4, <1>5

(* The messages grow by one; nudges stay where they are.                   *)
TurnMessage == [role : {"question", "assistant", "nudge", "observation"}, reply : Nat]
(* What a sequence is when one element more is at its end.                 *)
LEMMA Longer ==
  ASSUME NEW T, NEW s \in Seq(T), NEW e \in T
  PROVE  /\ Append(s, e) \in Seq(T) /\ Append(s, e) # <<>> /\ Len(Append(s, e)) = Len(s) + 1
         /\ Append(s, e)[Len(s) + 1] = e /\ DOMAIN Append(s, e) = DOMAIN s \cup {Len(s) + 1}
         /\ \A i \in DOMAIN s : Append(s, e)[i] = s[i] /\ i \in 1..Len(s)
         /\ Len(s) \in Nat
OBVIOUS

(* A reply is the last text, or leaves it where it was when it is empty;   *)
(* the messages sent out are those of before, with or without a nudge.     *)
LEMMA ReplyStep ==
  ASSUME React!ReactInv, NEW out, React!LlmCall(out), v10 = "running", v3' \in 0..MaxIterations,
         \/ out = v4
         \/ out = Append(v4, React!Message("nudge", 0)) /\ ~React!Recent(v4)
  PROVE  React!ReactInv'
<1>1. /\ React!Parameters /\ React!TypeOK /\ React!LastTextIsLast /\ React!RunOnce
      /\ React!RunsWhatWasSaid /\ React!NudgedOnce /\ React!AnchorIsFirst
  BY DEF React!ReactInv, React!TurnAccounted
<1>2. /\ out \in Seq(TurnMessage) /\ out # <<>>
      /\ \A i, j \in DOMAIN out : out[i].role = "nudge" /\ out[j].role = "nudge" /\ i < j
           => j - i > 4
      /\ out[Len(out)].role = "assistant" => out[Len(out)].reply = v5
  <2>1. v4 \in Seq(TurnMessage) /\ v4 # <<>>
    BY <1>1 DEF React!TypeOK, TurnMessage
  <2>2. \A i, j \in DOMAIN v4 : v4[i].role = "nudge" /\ v4[j].role = "nudge" /\ i < j => j - i > 4
    BY <1>1 DEF React!NudgedOnce, React!Nudges
  <2>3. CASE out = v4
    BY <1>1, <2>1, <2>2, <2>3 DEF React!LastTextIsLast, React!FromAssistant, React!Latest
  <2>4. CASE out = Append(v4, React!Message("nudge", 0)) /\ ~React!Recent(v4)
    <3>1. PICK e : e = React!Message("nudge", 0)  OBVIOUS
    <3>2. e \in TurnMessage /\ e.role = "nudge"  BY <3>1 DEF TurnMessage, React!Message
    <3>3. /\ out \in Seq(TurnMessage) /\ out # <<>> /\ Len(v4) \in Nat /\ Len(out) = Len(v4) + 1
          /\ DOMAIN out = DOMAIN v4 \cup {Len(v4) + 1} /\ \A i \in DOMAIN v4 : out[i] = v4[i]
               /\ i \in 1..Len(v4)
          /\ out[Len(v4) + 1] = e
      BY <2>1, <2>4, <3>1, <3>2, Longer
    <3>4. \A i \in DOMAIN v4 : v4[i].role = "nudge" => i <= Len(v4) - 4
      BY <2>4, <3>3 DEF React!Recent
    <3>5. ASSUME NEW i \in DOMAIN out, NEW j \in DOMAIN out,
                 out[i].role = "nudge", out[j].role = "nudge", i < j
          PROVE  j - i > 4
      <4>1. i \in DOMAIN v4 /\ out[i] = v4[i]  BY <3>3, <3>5
      <4>2. CASE j \in DOMAIN v4  BY <2>2, <3>3, <3>5, <4>1, <4>2
      <4>3. CASE j = Len(v4) + 1
        <5>1. i <= Len(v4) - 4 /\ i \in Nat  BY <3>3, <3>4, <3>5, <4>1
        <5> QED  BY <3>3, <4>3, <5>1
      <4> QED  BY <3>3, <4>2, <4>3
    <3> QED  BY <3>2, <3>3, <3>5
  <2> QED  BY <2>3, <2>4
<1>3. v1' = v1 /\ v2' = v2 /\ v7' = v7
  BY DEF React!LlmCall, React!providerVars, React!historyVars
<1>4. CASE /\ v10' = "error" /\ v4' = out
           /\ UNCHANGED <<React!providerVars, v5, v8, React!historyVars>>
  <2>1. v10' = "error" /\ v4' = out /\ v5' = v5 /\ v8' = v8 /\ v6' = v6 /\ v9' = v9
    BY <1>4 DEF React!providerVars, React!historyVars
  <2>2. React!TypeOK'
    BY <1>1, <1>2, <1>3, <2>1 DEF React!TypeOK, TurnMessage
  <2>3. React!LastTextIsLast' /\ React!RunOnce'
    BY <1>1, <1>2, <1>3, <2>1 DEF React!LastTextIsLast, React!RunOnce, React!FromAssistant,
          React!Latest
  <2>4. React!RunsWhatWasSaid' /\ React!AnchorIsFirst'
    BY <1>1, <1>3, <2>1 DEF React!RunsWhatWasSaid, React!AnchorIsFirst
  <2>5. React!NudgedOnce'
    BY <1>2, <2>1 DEF React!NudgedOnce, React!Nudges
  <2> QED
    BY <1>1, <2>2, <2>3, <2>4, <2>5 DEF React!ReactInv, React!TurnAccounted, React!Parameters
<1>5. CASE \E what \in React!Reply :
             /\ v6' = Append(v6, what) /\ v9' = Append(v9, React!Target)
             /\ v5' = IF what = "empty" THEN v5 ELSE Len(v6')
             /\ v4' = Append(out, React!Message("assistant", v5'))
             /\ v8' = IF v8 = None THEN React!Target ELSE v8
             /\ UNCHANGED <<v7, v10, React!providerVars>>
  <2>1. PICK what \in React!Reply :
             /\ v6' = Append(v6, what) /\ v9' = Append(v9, React!Target)
             /\ v5' = IF what = "empty" THEN v5 ELSE Len(v6')
             /\ v4' = Append(out, React!Message("assistant", v5'))
             /\ v8' = IF v8 = None THEN React!Target ELSE v8
             /\ v10' = v10
    BY <1>5
  <2>2. v6 \in Seq(React!Reply) /\ v5 \in 0..Len(v6)
        /\ v9 \in Seq(React!Range(<<"a", "b">>) \cup {"echo"})
    BY <1>1 DEF React!TypeOK
  <2>3. /\ v6' \in Seq(React!Reply) /\ Len(v6') = Len(v6) + 1 /\ Len(v6) \in Nat
        /\ v6'[Len(v6) + 1] = what /\ \A n \in 1..Len(v6) : v6'[n] = v6[n]
    <3>1. DOMAIN v6 = 1..Len(v6)  BY <2>2
    <3> QED  BY <2>1, <2>2, <3>1, Longer
  <2>4. v5' \in 0..Len(v6') /\ v5' \in Nat
    BY <2>1, <2>2, <2>3
  <2>5. PICK e : e = React!Message("assistant", v5')  OBVIOUS
  <2>6. e \in TurnMessage /\ e.role = "assistant" /\ e.reply = v5'
    BY <2>4, <2>5 DEF TurnMessage, React!Message
  <2>7. /\ v4' \in Seq(TurnMessage) /\ v4' # <<>> /\ Len(v4') = Len(out) + 1 /\ v4'[Len(v4')] = e
        /\ DOMAIN v4' = DOMAIN out \cup {Len(out) + 1} /\ v4'[Len(out) + 1] = e
        /\ \A i \in DOMAIN out : v4'[i] = out[i]
    BY <1>2, <2>1, <2>5, <2>6, Longer
  <2>8. React!Target \in React!Range(<<"a", "b">>) \cup {"echo"} /\ React!Target # None
    BY <1>1, TargetIs
  <2>9. v9' \in Seq(React!Range(<<"a", "b">>) \cup {"echo"}) /\ v9' # <<>>
        /\ Head(v9') = IF v9 = <<>> THEN React!Target ELSE Head(v9)
    <3>1. PICK t : t = React!Target  OBVIOUS
    <3> QED  BY <2>1, <2>2, <2>8, <3>1
  <2>10. React!TypeOK'
    BY <1>1, <1>3, <2>1, <2>3, <2>4, <2>7, <2>9 DEF React!TypeOK, TurnMessage
  <2>11. React!LastTextIsLast'
    <3>1. v5' # 0 => v6'[v5'] # "empty"
      BY <1>1, <2>1, <2>2, <2>3 DEF React!LastTextIsLast
    <3>2. \A n \in v5' + 1..Len(v6') : v6'[n] = "empty"
      <4>1. CASE what = "empty"
        <5>1. \A n \in v5 + 1..Len(v6) : v6[n] = "empty"  BY <1>1 DEF React!LastTextIsLast
        <5>2. v5' = v5  BY <2>1, <4>1
        <5>3. ASSUME NEW n \in v5 + 1..Len(v6) + 1  PROVE v6'[n] = "empty"
          <6>1. CASE n = Len(v6) + 1  BY <2>3, <4>1, <6>1
          <6>2. CASE n # Len(v6) + 1
            <7>1. n \in v5 + 1..Len(v6) /\ n \in 1..Len(v6)  BY <2>2, <2>3, <6>2
            <7> QED  BY <2>3, <5>1, <7>1
          <6> QED  BY <6>1, <6>2
        <5> QED  BY <2>3, <5>2, <5>3
      <4>2. CASE what # "empty"  BY <2>1, <2>3, <4>2
      <4> QED  BY <4>1, <4>2
    <3> QED  BY <2>6, <2>7, <3>1, <3>2 DEF React!LastTextIsLast, React!FromAssistant, React!Latest
  <2>12. \A i \in DOMAIN v7 : v7[i] <= v5 /\ v7[i] \in Nat
    BY <1>1 DEF React!RunOnce, React!TypeOK
  <2>13. React!RunOnce'
    <3>1. ASSUME NEW i \in DOMAIN v7  PROVE v7[i] <= v5' /\ (v7[i] = v5' => v5' < Len(v6'))
      BY <2>1, <2>2, <2>3, <2>12
    <3> QED  BY <1>3, <3>1 DEF React!RunOnce
  <2>14. React!RunsWhatWasSaid'
    <3>1. ASSUME NEW i \in DOMAIN v7, NEW j \in DOMAIN v7, i < j
          PROVE  /\ v7[i] <= v7[j]
                 /\ v7[i] = v7[j] => \E n \in v7[i] + 1..Len(v6') : v6'[n] = "empty"
      <4>1. /\ v7[i] <= v7[j]
            /\ v7[i] = v7[j] => \E n \in v7[i] + 1..Len(v6) : v6[n] = "empty"
        BY <1>1, <3>1 DEF React!RunsWhatWasSaid
      <4>2. \A n \in v7[i] + 1..Len(v6) : n \in v7[i] + 1..Len(v6') /\ v6'[n] = v6[n]
        BY <2>3, <2>12
      <4> QED  BY <4>1, <4>2
    <3> QED  BY <1>3, <3>1 DEF React!RunsWhatWasSaid
  <2>15. React!NudgedOnce'
    <3>1. \A i, j \in DOMAIN v4' : v4'[i].role = "nudge" /\ v4'[j].role = "nudge" /\ i < j
            => j - i > 4
      BY <1>2, <2>6, <2>7
    <3>2. v10' = "running"  BY <2>1
    <3> QED  BY <3>1, <3>2 DEF React!NudgedOnce, React!Nudges
  <2>16. React!AnchorIsFirst'
    <3>1. v9 # <<>> => Head(v9) # None
      <4>1. None \notin React!Range(<<"a", "b">>) \cup {"echo"}  BY <1>1 DEF React!Parameters
      <4>2. v9 # <<>> => Head(v9) \in React!Range(<<"a", "b">>) \cup {"echo"}  BY <2>2
      <4> QED  BY <4>1, <4>2
    <3> QED  BY <1>1, <2>1, <2>8, <2>9, <3>1 DEF React!AnchorIsFirst
  <2> QED
    BY <1>1, <2>10, <2>11, <2>13, <2>14, <2>15, <2>16 DEF React!ReactInv, React!TurnAccounted,
          React!Parameters
<1> QED  BY <1>4, <1>5 DEF React!LlmCall

(* The other steps: nothing is said.                                       *)
LEMMA ReactStep == React!ReactInv /\ [React!Next]_(React!vars) => React!ReactInv'
<1> SUFFICES ASSUME React!ReactInv, [React!Next]_(React!vars)  PROVE React!ReactInv'
  OBVIOUS
<1> USE DEF React!providerVars, React!turnVars, React!historyVars
<1>1. /\ React!Parameters /\ React!TypeOK /\ React!LastTextIsLast /\ React!RunOnce
      /\ React!RunsWhatWasSaid /\ React!NudgedOnce /\ React!AnchorIsFirst /\ v3 \in Nat
      /\ MaxIterations \in Nat
  BY DEF React!ReactInv, React!TurnAccounted, React!TypeOK, React!Parameters
<1>2. CASE React!Ask
  BY <1>1, <1>2, ReplyStep DEF React!Ask, React!Decides, React!TypeOK
<1>3. CASE React!Nudge
  <2>1. PICK out : out = Append(v4, React!Message("nudge", 0))  OBVIOUS
  <2>2. /\ React!LlmCall(out) /\ v10 = "running" /\ v3' \in 0..MaxIterations /\ ~React!Recent(v4)
    BY <1>1, <1>3, <2>1 DEF React!Nudge, React!Decides, React!TypeOK
  <2> QED  BY <2>1, <2>2, ReplyStep
<1>4. ASSUME v1' = v1, v2' = v2, v4' = v4, v5' = v5, v6' = v6, v7' = v7, v8' = v8, v9' = v9,
             v3' \in 0..MaxIterations, v10' \in {"running", "answered", "error"},
             v10' = v10 \/ (v10 = "running" /\ v10' # "running"),
             v10' = "answered" => React!NudgedOnce'
      PROVE  React!ReactInv'
  <2>1. React!TypeOK'  BY <1>1, <1>4 DEF React!TypeOK
  <2>2. React!LastTextIsLast'
    BY <1>1, <1>4 DEF React!LastTextIsLast, React!FromAssistant, React!Latest
  <2>3. React!RunOnce' /\ React!RunsWhatWasSaid'
    BY <1>1, <1>4 DEF React!RunOnce, React!RunsWhatWasSaid, React!FromAssistant, React!Latest
  <2>4. React!NudgedOnce' /\ React!AnchorIsFirst'
    BY <1>1, <1>4 DEF React!NudgedOnce, React!Nudges, React!AnchorIsFirst, React!Parsed,
          React!Latest
  <2> QED
    BY <1>1, <2>1, <2>2, <2>3, <2>4 DEF React!ReactInv, React!TurnAccounted, React!Parameters
<1>5. CASE React!GiveUp \/ React!Answer
  <2>1. /\ v1' = v1 /\ v2' = v2 /\ v4' = v4 /\ v5' = v5 /\ v6' = v6 /\ v7' = v7 /\ v8' = v8
        /\ v9' = v9
        /\ v3' \in 0..MaxIterations /\ v10 = "running" /\ v10' = "answered"
    BY <1>1, <1>5 DEF React!GiveUp, React!Answer, React!Decides, React!TypeOK
  <2>2. /\ v5 = React!Latest.reply
        /\ \/ React!Parsed(v5) = "final"
           \/ React!Parsed(v5) = "bad" /\ React!Recent(v4)
    BY <1>1, <1>5 DEF React!GiveUp, React!Answer, React!LastSays, React!LastTextIsLast
  <2>3. React!Recent(v4) => \E i \in React!Nudges : i >= Len(v4) - 3
    <3>1. DOMAIN v4 = 1..Len(v4) /\ Len(v4) \in Nat  BY <1>1 DEF React!TypeOK
    <3> QED  BY <3>1 DEF React!Recent, React!Nudges
  <2>4. React!NudgedOnce'
    BY <1>1, <2>1, <2>2, <2>3 DEF React!NudgedOnce, React!Nudges, React!Parsed, React!Latest
  <2> QED  BY <1>4, <2>1, <2>4
<1>6. CASE React!Exhausted
  BY <1>1, <1>4, <1>6 DEF React!Exhausted, React!TypeOK
<1>7. CASE React!Act \/ React!ActFails
  <2>1. PICK m, n : m = React!Latest /\ n = m.reply  OBVIOUS
  <2>2. /\ m.role = "assistant" /\ n = v5 /\ React!Parsed(n) = "action" /\ v10 = "running"
        /\ v7' = Append(v7, n) /\ v5' = v5 /\ v6' = v6 /\ v1' = v1 /\ v2' = v2 /\ v8' = v8
        /\ v9' = v9
        /\ v3' \in 0..MaxIterations
        /\ \/ v4' = Append(v4, React!Message("observation", n)) /\ v10' = v10
           \/ v4' = v4 /\ v10' = "error"
    BY <1>1, <1>7, <2>1 DEF React!Act, React!ActFails, React!LastSays, React!FromAssistant,
          React!LastTextIsLast,
       React!Decides, React!TypeOK
  <2>3. /\ v4 \in Seq(TurnMessage) /\ v4 # <<>> /\ v5 \in Nat /\ v7 \in Seq(Nat)
        /\ v6 \in Seq(React!Reply)
    BY <1>1 DEF React!TypeOK, TurnMessage
  <2>4. /\ v4' \in Seq(TurnMessage) /\ v4' # <<>>
        /\ \A i \in DOMAIN v4' : v4'[i].role = "nudge" => i \in DOMAIN v4 /\ v4[i].role = "nudge"
        /\ v10' = "running" => v4'[Len(v4')].role # "assistant"
        /\ v4'[Len(v4')].role = "assistant" => v4'[Len(v4')].reply = v5
    <3>1. CASE v4' = v4 /\ v10' = "error"
      BY <1>1, <2>1, <2>2, <2>3, <3>1 DEF React!Latest
    <3>2. CASE v4' = Append(v4, React!Message("observation", n))
      <4>1. PICK e : e = React!Message("observation", n)  OBVIOUS
      <4>2. e \in TurnMessage /\ e.role = "observation"
        BY <2>2, <2>3, <4>1 DEF TurnMessage, React!Message
      <4>3. /\ v4' \in Seq(TurnMessage) /\ v4' # <<>> /\ Len(v4') = Len(v4) + 1
            /\ v4'[Len(v4) + 1] = e
            /\ DOMAIN v4' = DOMAIN v4 \cup {Len(v4) + 1} /\ \A i \in DOMAIN v4 : v4'[i] = v4[i]
        BY <2>3, <3>2, <4>1, <4>2, Longer
      <4> QED  BY <4>2, <4>3
    <3> QED  BY <2>2, <3>1, <3>2
  <2>5. /\ v7' \in Seq(Nat) /\ DOMAIN v7' = DOMAIN v7 \cup {Len(v7) + 1} /\ v7'[Len(v7) + 1] = n
        /\ \A i \in DOMAIN v7 : v7'[i] = v7[i] /\ i \in 1..Len(v7)
        /\ Len(v7) \in Nat
    BY <2>2, <2>3, Longer
  <2>6. React!TypeOK'
    BY <1>1, <2>2, <2>4, <2>5 DEF React!TypeOK, TurnMessage
  <2>7. React!LastTextIsLast'
    BY <1>1, <2>2, <2>4 DEF React!LastTextIsLast, React!FromAssistant, React!Latest
  <2>8. \A i \in DOMAIN v7 : v7[i] <= n /\ v7[i] \in Nat /\ (v7[i] = n => v5 < Len(v6))
    BY <1>1, <2>1, <2>2, <2>3 DEF React!RunOnce, React!FromAssistant
  <2>9. React!RunOnce'
    BY <2>2, <2>3, <2>4, <2>5, <2>8 DEF React!RunOnce, React!FromAssistant, React!Latest
  <2>10. React!RunsWhatWasSaid'
    <3>1. Len(v6) \in Nat /\ \A k \in v5 + 1..Len(v6) : v6[k] = "empty"
      BY <1>1, <2>3 DEF React!LastTextIsLast
    <3>2. ASSUME NEW i \in DOMAIN v7', NEW j \in DOMAIN v7', i < j
          PROVE  /\ v7'[i] <= v7'[j]
                 /\ v7'[i] = v7'[j] => \E k \in v7'[i] + 1..Len(v6) : v6[k] = "empty"
      <4>1. i \in DOMAIN v7 /\ v7'[i] = v7[i]  BY <2>5, <3>2
      <4>2. CASE j \in DOMAIN v7
        BY <1>1, <2>5, <3>2, <4>1, <4>2 DEF React!RunsWhatWasSaid
      <4>3. CASE j = Len(v7) + 1
        <5>1. v7'[j] = n /\ v7[i] <= n  BY <2>5, <2>8, <4>1, <4>3
        <5>2. ASSUME v7[i] = n  PROVE v5 + 1 \in v5 + 1..Len(v6)
          BY <2>3, <2>8, <3>1, <4>1, <5>2
        <5> QED  BY <2>2, <3>1, <4>1, <5>1, <5>2
      <4> QED  BY <2>5, <4>2, <4>3
    <3> QED  BY <2>2, <3>2 DEF React!RunsWhatWasSaid
  <2>11. React!NudgedOnce'
    <3>1. v10' # "answered"  BY <2>2
    <3> QED  BY <1>1, <2>4, <3>1 DEF React!NudgedOnce, React!Nudges
  <2>12. React!AnchorIsFirst'
    BY <1>1, <2>2 DEF React!AnchorIsFirst
  <2> QED
    BY <1>1, <2>6, <2>7, <2>9, <2>10, <2>11, <2>12 DEF React!ReactInv, React!TurnAccounted,
          React!Parameters
<1>8. CASE React!Configure
  <2>1. /\ v1' \subseteq v1 /\ v2' \in v1' \cup {None}
        /\ v3' = v3 /\ v4' = v4 /\ v5' = v5 /\ v6' = v6 /\ v7' = v7 /\ v8' = v8 /\ v9' = v9
        /\ v10' = v10
    BY <1>1, <1>8 DEF React!Configure, React!TypeOK
  <2>2. React!TypeOK'  BY <1>1, <2>1 DEF React!TypeOK
  <2>3. React!LastTextIsLast' /\ React!RunOnce' /\ React!RunsWhatWasSaid'
    BY <1>1, <2>1 DEF React!LastTextIsLast, React!RunOnce, React!RunsWhatWasSaid,
          React!FromAssistant, React!Latest
  <2>4. React!NudgedOnce' /\ React!AnchorIsFirst'
    BY <1>1, <2>1 DEF React!NudgedOnce, React!Nudges, React!AnchorIsFirst, React!Parsed,
          React!Latest
  <2> QED
    BY <1>1, <2>2, <2>3, <2>4 DEF React!ReactInv, React!TurnAccounted, React!Parameters
<1>9. CASE UNCHANGED React!vars
  <2>1. /\ v1' = v1 /\ v2' = v2 /\ v4' = v4 /\ v5' = v5 /\ v6' = v6 /\ v7' = v7 /\ v8' = v8
        /\ v9' = v9
        /\ v3' = v3 /\ v10' = v10
    BY <1>9 DEF React!vars
  <2>2. v10' = "answered" => React!NudgedOnce'
    BY <1>1, <2>1 DEF React!NudgedOnce, React!Nudges, React!Parsed, React!Latest
  <2>3. v3' \in 0..MaxIterations /\ v10' \in {"running", "answered", "error"}
    BY <1>1, <2>1 DEF React!TypeOK
  <2> QED  BY <1>4, <2>1, <2>2, <2>3
<1> QED
  BY <1>2, <1>3, <1>5, <1>6, <1>7, <1>8, <1>9 DEF React!Next

(* A tool runs what the model wrote, in its order and once; one nudge is   *)
(* given before the turn gives up; the anchor names the turn's first       *)
(* provider (strategy_react/plugin.py:189-276, loop.py:657-750).           *)
THEOREM TurnsAreAccounted == Spec => []TurnAccounted
<1>1. React!ReactInv \/ part # "react" => TurnAccounted
  BY DEF TurnAccounted, React!ReactInv
<1>2. React!Spec => []React!ReactInv
  BY ReactParameters, ReactInit, ReactStep, PTL DEF React!Spec
<1> QED  BY <1>1, <1>2, ReactAlone, PTL


-----------------------------------------------------------------------------
(* yaya serve.                                                             *)
(* A behaviour is run_serve's alone, or not run_serve's at all.            *)
LEMMA ServeAlone == Spec => Server!Spec \/ [](part # "server")
<1>1. Init => (part = "server" /\ Server!Init) \/ part # "server"
  BY DEF Init
<1>2. part = "server" /\ [Next]_vars => [Server!Next]_(Server!vars) /\ (part = "server")'
  BY DEF Next, vars, Server!vars, Server!runVars, Server!browserVars, Server!sessionVars,
        Server!historyVars
<1>3. part # "server" /\ [Next]_vars => (part # "server")'
  BY DEF Next, vars
<1> QED  BY <1>1, <1>2, <1>3, PTL DEF Spec, Server!Spec

(* What a queue holds, when it grows and when it is popped.                *)
LEMMA Held ==
  ASSUME NEW T, NEW s \in Seq(T)
  PROVE  /\ Server!Range(s) \subseteq T /\ Server!Range(<<>>) = {}
         /\ \A e \in T : /\ Append(s, e) \in Seq(T)
                         /\ Server!Range(Append(s, e)) = Server!Range(s) \cup {e}
         /\ s # <<>> => /\ Head(s) \in Server!Range(s) /\ Tail(s) \in Seq(T)
                        /\ Server!Range(Tail(s)) \subseteq Server!Range(s)
         /\ \A t \in Seq(T) : /\ s \o t \in Seq(T)
                              /\ Server!Range(s \o t) = Server!Range(s) \cup Server!Range(t)
                              /\ s # <<>> => s \o t # <<>> /\ Head(s \o t) = Head(s)
<1> USE DEF Server!Range
<1>1. Server!Range(s) \subseteq T /\ Server!Range(<<>>) = {}  OBVIOUS
<1>2. ASSUME NEW e \in T
      PROVE  Append(s, e) \in Seq(T) /\ Server!Range(Append(s, e)) = Server!Range(s) \cup {e}
  <2>1. PICK a : a = Append(s, e)  OBVIOUS
  <2>2. /\ a \in Seq(T) /\ Len(s) \in Nat /\ a[Len(s) + 1] = e
        /\ DOMAIN a = DOMAIN s \cup {Len(s) + 1}
        /\ \A i \in DOMAIN s : a[i] = s[i]
    BY <2>1
  <2>3. Server!Range(a) = Server!Range(s) \cup {e}  BY <2>2
  <2> QED  BY <2>1, <2>2, <2>3
<1>3. s # <<>> => /\ Head(s) \in Server!Range(s) /\ Tail(s) \in Seq(T)
                  /\ Server!Range(Tail(s)) \subseteq Server!Range(s)
  <2>1. SUFFICES ASSUME s # <<>>  PROVE /\ Head(s) \in Server!Range(s) /\ Tail(s) \in Seq(T)
                                        /\ Server!Range(Tail(s)) \subseteq Server!Range(s)
    OBVIOUS
  <2>2. PICK t : t = Tail(s)  OBVIOUS
  <2>3. /\ t \in Seq(T) /\ Head(s) = s[1] /\ 1 \in DOMAIN s
        /\ \A i \in DOMAIN t : i + 1 \in DOMAIN s /\ t[i] = s[i + 1]
    BY <2>1, <2>2
  <2>4. Server!Range(t) \subseteq Server!Range(s)  BY <2>3
  <2> QED  BY <2>2, <2>3, <2>4
<1>4. ASSUME NEW t \in Seq(T)
      PROVE  /\ s \o t \in Seq(T)
             /\ Server!Range(s \o t) = Server!Range(s) \cup Server!Range(t)
             /\ s # <<>> => s \o t # <<>> /\ Head(s \o t) = Head(s)
  <2>1. PICK a : a = s \o t  OBVIOUS
  <2>2. /\ a \in Seq(T) /\ Len(a) = Len(s) + Len(t) /\ Len(s) \in Nat /\ Len(t) \in Nat
        /\ DOMAIN s = 1..Len(s) /\ DOMAIN t = 1..Len(t) /\ DOMAIN a = 1..Len(a)
        /\ \A i \in DOMAIN s : a[i] = s[i] /\ i \in DOMAIN a
        /\ \A i \in DOMAIN t : a[Len(s) + i] = t[i] /\ Len(s) + i \in DOMAIN a
    BY <2>1
  <2>3. \A i \in DOMAIN a : i \in DOMAIN s \/ (i - Len(s) \in DOMAIN t /\ a[i] = t[i - Len(s)])
    <3>1. ASSUME NEW i \in DOMAIN a, i \notin DOMAIN s
          PROVE i - Len(s) \in DOMAIN t /\ a[i] = t[i - Len(s)]
      <4>1. i - Len(s) \in DOMAIN t /\ Len(s) + (i - Len(s)) = i  BY <2>2, <3>1
      <4> QED  BY <2>2, <4>1
    <3> QED  BY <3>1
  <2>4. Server!Range(a) = Server!Range(s) \cup Server!Range(t)
    <3>1. Server!Range(a) \subseteq Server!Range(s) \cup Server!Range(t)  BY <2>2, <2>3
    <3>2. Server!Range(s) \cup Server!Range(t) \subseteq Server!Range(a)  BY <2>2
    <3> QED  BY <3>1, <3>2
  <2>5. s # <<>> => a # <<>> /\ Head(a) = Head(s)
    <3>1. SUFFICES ASSUME s # <<>>  PROVE a # <<>> /\ Head(a) = Head(s)  OBVIOUS
    <3>2. 1 \in DOMAIN s /\ Head(s) = s[1]  BY <3>1
    <3> QED  BY <2>2, <3>2
  <2> QED  BY <2>1, <2>2, <2>4, <2>5
<1> QED  BY <1>1, <1>2, <1>3, <1>4

(* The inductive invariant of Serve holds at first.                        *)
LEMMA ServeInit == Server!Parameters /\ Server!Init => Server!ServeInv
<1> SUFFICES ASSUME Server!Parameters, Server!Init  PROVE Server!ServeInv
  OBVIOUS
<1>1. Server!Types
  <2>1. v10 \in BOOLEAN \cup {None}  BY Zenon DEF Server!Init
  <2>2. v7 \in Seq([kind : {"user"}, n : Nat])
    <3>1. PICK M : M = [kind : {"user"}, n : Nat]  OBVIOUS
    <3> QED  BY <3>1 DEF Server!Init
  <2>3. v9 \in Seq(Server!SessionEvent) /\ v13 \in Seq(Server!SessionEvent)
    BY DEF Server!Init
  <2>4. v5 \in {None, 0, 1}  BY DEF Server!Init
  <2> QED  BY <2>1, <2>2, <2>3, <2>4 DEF Server!Init, Server!Types
<1>a. Server!PlaceTells
  BY DEF Server!Init, Server!PlaceTells
<1>b. Server!TurnInPlace
  BY DEF Server!Init, Server!TurnInPlace
<1>2. Server!UntilAsked /\ Server!TapeKnowsTheTurns
  BY DEF Server!Init, Server!UntilAsked, Server!TapeKnowsTheTurns, Server!Entries, Server!Range
<1> QED  BY <1>1, <1>2, <1>a, <1>b DEF Server!ServeInv

(* An entry more on the tape.                                              *)
LEMMA TapeGrows ==
  ASSUME NEW ev \in Server!SessionEvent, v13 \in Seq(Server!SessionEvent), v13' = Append(v13, ev),
         NEW k
  PROVE  Server!Entries(k)' = IF ev.kind = k THEN Server!Entries(k) \cup {ev.n} ELSE Server!Entries(k)
<1>1. Server!Range(v13') = Server!Range(v13) \cup {ev}
  BY Held
<1>2. Server!Range(v13)' = Server!Range(v13')
  BY DEF Server!Range
<1> QED  BY <1>1, <1>2 DEF Server!Entries

(* run_serve moves on: the session and the browser's queue stay.           *)
LEMMA ServeRuns ==
  ASSUME Server!ServeInv,
         \/ Server!BootFails \/ Server!LoadPlugins \/ Server!StartRaises
              \/ (\E c \in BOOLEAN : Server!Wire(c))
         \/ Server!Signal \/ Server!TearDown \/ Server!LoopStopped \/ Server!RegistryStopped
         \/ Server!BusCloses \/ Server!Returns
  PROVE  Server!ServeInv'
<1>1. /\ Server!Parameters /\ Server!Types /\ Server!PlaceTells /\ Server!TurnInPlace
      /\ Server!UntilAsked
      /\ Server!TapeKnowsTheTurns
  BY DEF Server!ServeInv
<1> USE DEF Server!browserVars, Server!sessionVars, Server!historyVars
<1>2. /\ v9' = v9 /\ v10' = v10 /\ v11' \in {v11, "none"} /\ v12' = v12 /\ v13' = v13
      /\ v14' = v14 /\ v15' = v15
      /\ v7' = v7 /\ v8' = v8 /\ v6' \in {v6, FALSE}
      /\ v4' = v4 \/ v4' = TRUE
  BY DEF Server!BootFails, Server!LoadPlugins, Server!StartRaises, Server!Wire, Server!Signal,
        Server!TearDown,
     Server!LoopStopped, Server!RegistryStopped, Server!BusCloses, Server!Returns
<1>3. Server!Types' /\ Server!PlaceTells' /\ (v11' # "none" => v1' \in {"live", "loop.stop"})
      /\ (~v4' => v1' = v1 \/ v1 # "live")
  <2> USE DEF Server!Types, Server!PlaceTells, Server!TurnInPlace
  <2>1. CASE Server!BootFails  BY <1>1, <2>1 DEF Server!BootFails
  <2>2. CASE Server!LoadPlugins  BY <1>1, <2>2 DEF Server!LoadPlugins
  <2>3. CASE Server!StartRaises  BY <1>1, <2>3 DEF Server!StartRaises
  <2>4. ASSUME NEW c \in BOOLEAN, Server!Wire(c)
        PROVE  Server!Types' /\ Server!PlaceTells'
                 /\ (v11' # "none" => v1' \in {"live", "loop.stop"})
               /\ (~v4' => v1' = v1 \/ v1 # "live")
    BY <1>1, <2>4 DEF Server!Wire
  <2>5. CASE Server!Signal  BY <1>1, <2>5 DEF Server!Signal
  <2>6. CASE Server!TearDown  BY <1>1, <2>6 DEF Server!TearDown
  <2>7. CASE Server!LoopStopped  BY <1>1, <2>7 DEF Server!LoopStopped
  <2>8. CASE Server!RegistryStopped  BY <1>1, <2>8 DEF Server!RegistryStopped
  <2>9. CASE Server!BusCloses  BY <1>1, <2>9 DEF Server!BusCloses
  <2>10. CASE Server!Returns  BY <1>1, <2>10 DEF Server!Returns
  <2> QED  BY <2>1, <2>2, <2>3, <2>4, <2>5, <2>6, <2>7, <2>8, <2>9, <2>10
<1>4. Server!TurnInPlace'
  BY <1>1, <1>2, <1>3 DEF Server!TurnInPlace
<1>5. \A k : Server!Entries(k)' = Server!Entries(k)
  BY <1>2 DEF Server!Entries, Server!Range
<1>6. ~v4' => ~v4
  BY <1>1, <1>2 DEF Server!Types
<1>7. Server!UntilAsked'
  <2>1. Server!Range(v9)' = Server!Range(v9)  BY <1>2 DEF Server!Range
  <2>2. ~v4' => v1' = v1 \/ v1 # "live"  BY <1>3
  <2> QED  BY <1>1, <1>2, <1>5, <1>6, <2>1, <2>2 DEF Server!UntilAsked
<1>8. Server!TapeKnowsTheTurns'
  BY <1>1, <1>2, <1>5, <1>6 DEF Server!TapeKnowsTheTurns
<1> QED  BY <1>1, <1>3, <1>4, <1>7, <1>8 DEF Server!ServeInv, Server!Parameters

(* Events are queued behind the others, or nowhere when the bus is closed: *)
(* they are the user's, or those of a turn.                                *)
LEMMA ServePublishes ==
  ASSUME Server!ServeInv, NEW es \in Seq(Server!SessionEvent),
         v9' = (IF "bus" \in v3 THEN v9 ELSE v9 \o es),
         v1' = v1, v2' = v2, v3' = v3, v4' = v4, v5' = v5, v10' = v10, v13' = v13, v14' = v14,
         v15' = v15,
         v6' \in BOOLEAN, v7' \in Seq([kind : {"user"}, n : Nat]), v8' \in Nat, v12' \in Nat,
         v11' \in {"none", "thinking", "calling"}, v11 = "none" => v11' = "none",
         \A ev \in Server!Range(es) : ev.kind # "result" /\ (ev.kind # "user" => v11 # "none")
  PROVE  Server!ServeInv'
<1>1. /\ Server!Parameters /\ Server!Types /\ Server!PlaceTells /\ Server!TurnInPlace
      /\ Server!UntilAsked
      /\ Server!TapeKnowsTheTurns
  BY DEF Server!ServeInv
<1>2. /\ v9 \in Seq(Server!SessionEvent)
      /\ v9' \in Seq(Server!SessionEvent)
      /\ Server!Range(v9') \subseteq Server!Range(v9) \cup Server!Range(es)
      /\ v9 # <<>> => v9' # <<>> /\ Head(v9') = Head(v9)
  <2>1. v9 \in Seq(Server!SessionEvent)  BY <1>1 DEF Server!Types
  <2>2. CASE v9' = v9  BY <2>1, <2>2
  <2>3. CASE v9' = v9 \o es  BY <2>1, <2>3, Held
  <2> QED  BY <2>1, <2>2, <2>3
<1>3. Server!Types'
  BY <1>1, <1>2 DEF Server!Types
<1>4. Server!PlaceTells'
  BY <1>1 DEF Server!PlaceTells
<1>5. Server!TurnInPlace'
  BY <1>1, <1>2 DEF Server!TurnInPlace
<1>6. (\A k : Server!Entries(k)' = Server!Entries(k)) /\ Server!Range(v9)' = Server!Range(v9')
  BY DEF Server!Entries, Server!Range
<1>7. Server!UntilAsked' /\ Server!TapeKnowsTheTurns'
  BY <1>1, <1>2, <1>6 DEF Server!UntilAsked, Server!TapeKnowsTheTurns
<1> QED  BY <1>1, <1>3, <1>4, <1>5, <1>7 DEF Server!ServeInv, Server!Parameters

(* A sequence over a set is one over every larger set.                     *)
LEMMA Wider == ASSUME NEW S, NEW T, S \subseteq T, NEW s \in Seq(S)  PROVE s \in Seq(T)
<1>1. s \in [1..Len(s) -> S] /\ Len(s) \in Nat  OBVIOUS
<1>2. s \in [1..Len(s) -> T]  BY <1>1
<1> QED  BY <1>1, <1>2

(* What the browser and the turn publish.                                  *)
LEMMA ServeSends ==
  ASSUME Server!ServeInv,
         Server!Send \/ Server!Connect \/ Server!TurnCalls \/ Server!TurnEnds \/ Server!TurnTimesOut
  PROVE  Server!ServeInv'
<1>1. Server!Types /\ Server!TurnInPlace
  BY DEF Server!ServeInv
<1>2. /\ v8 \in Nat /\ v12 \in Nat /\ v9 \in Seq(Server!SessionEvent) /\ v6 \in BOOLEAN
      /\ v7 \in Seq([kind : {"user"}, n : Nat])
      /\ v11 \in {"none", "thinking", "calling"}
  BY <1>1 DEF Server!Types
<1> USE DEF Server!runVars, Server!historyVars
<1>3. v7 \in Seq(Server!SessionEvent) /\ \A ev \in Server!Range(v7) : ev.kind = "user"
  <2>1. [kind : {"user"}, n : Nat] \subseteq Server!SessionEvent
    BY DEF Server!SessionEvent
  <2>2. v7 \in Seq(Server!SessionEvent)
    BY <1>2, <2>1, Wider
  <2>3. Server!Range(v7) \subseteq [kind : {"user"}, n : Nat]
    <3>1. PICK M : M = [kind : {"user"}, n : Nat]  OBVIOUS
    <3>2. v7 \in Seq(M)  BY <1>2, <3>1
    <3>3. Server!Range(v7) \subseteq M  BY <3>2, Held
    <3> QED  BY <3>1, <3>3
  <2> QED  BY <2>2, <2>3
<1>4. \A e \in Server!SessionEvent : <<e>> \in Seq(Server!SessionEvent) /\ Server!Range(<<e>>) = {e}
  BY DEF Server!Range
<1>5. <<>> \in Seq(Server!SessionEvent) /\ Server!Range(<<>>) = {} /\ v9 \o <<>> = v9
  <2>1. v9 \o <<>> = v9  BY <1>2
  <2> QED  BY <2>1 DEF Server!Range
<1>6. CASE Server!Send
  <2>1. PICK e : e = Server!Event("user", v8 + 1)  OBVIOUS
  <2>2. e \in [kind : {"user"}, n : Nat] /\ e \in Server!SessionEvent /\ e.kind = "user"
    BY <1>2, <2>1 DEF Server!Event, Server!SessionEvent
  <2>3. /\ v8' = v8 + 1 /\ v1' = v1 /\ v2' = v2 /\ v3' = v3 /\ v4' = v4 /\ v5' = v5 /\ v6' = v6
        /\ v10' = v10 /\ v11' = v11 /\ v12' = v12 /\ v13' = v13 /\ v14' = v14 /\ v15' = v15
        /\ \/ v9' = (IF "bus" \in v3 THEN v9 ELSE v9 \o <<e>>) /\ v7' = v7
           \/ v9' = v9 /\ v7' = Append(v7, e)
    BY <1>6, <2>1 DEF Server!Send, Server!Publish
  <2>4. CASE v9' = (IF "bus" \in v3 THEN v9 ELSE v9 \o <<e>>) /\ v7' = v7
    <3>1. PICK es : es = <<e>>  OBVIOUS
    <3>2. es \in Seq(Server!SessionEvent) /\ \A ev \in Server!Range(es) : ev.kind = "user"
      BY <1>4, <2>2, <3>1
    <3>3. v9' = (IF "bus" \in v3 THEN v9 ELSE v9 \o es)  BY <2>4, <3>1
    <3>4. v8' \in Nat  BY <1>2, <2>3
    <3> QED  BY <1>2, <2>3, <2>4, <3>2, <3>3, <3>4, ServePublishes
  <2>5. CASE v9' = v9 /\ v7' = Append(v7, e)
    <3>1. v7' \in Seq([kind : {"user"}, n : Nat])  BY <1>2, <2>2, <2>5
    <3>2. v9' = (IF "bus" \in v3 THEN v9 ELSE v9 \o <<>>)  BY <1>5, <2>5
    <3>3. PICK es : es = <<>>  OBVIOUS
    <3>4. es \in Seq(Server!SessionEvent) /\ Server!Range(es) = {}  BY <1>5, <3>3
    <3>5. v9' = (IF "bus" \in v3 THEN v9 ELSE v9 \o es)  BY <3>2, <3>3
    <3>6. v8' \in Nat  BY <1>2, <2>3
    <3> QED  BY <1>2, <2>3, <3>1, <3>4, <3>5, <3>6, ServePublishes
  <2> QED  BY <2>3, <2>4, <2>5
<1>7. CASE Server!Connect
  <2>1. /\ v9' = (IF "bus" \in v3 THEN v9 ELSE v9 \o v7) /\ v7' = <<>> /\ v6' = TRUE
        /\ v1' = v1 /\ v2' = v2 /\ v3' = v3 /\ v4' = v4 /\ v5' = v5 /\ v8' = v8
        /\ v10' = v10 /\ v11' = v11 /\ v12' = v12 /\ v13' = v13 /\ v14' = v14 /\ v15' = v15
    BY <1>7 DEF Server!Connect, Server!Publish
  <2>2. v7' \in Seq([kind : {"user"}, n : Nat])  BY <2>1
  <2> QED  BY <1>2, <1>3, <2>1, <2>2, ServePublishes
<1>8. CASE Server!TurnCalls
  <2>1. PICK e : e = Server!Event("request", v12 + 1)  OBVIOUS
  <2>2. e \in Server!SessionEvent /\ e.kind = "request"
    BY <1>2, <2>1 DEF Server!Event, Server!SessionEvent
  <2>3. /\ v9' = (IF "bus" \in v3 THEN v9 ELSE v9 \o <<e>>) /\ v11 = "thinking" /\ v11' = "calling"
             /\ v12' = v12 + 1
        /\ v1' = v1 /\ v2' = v2 /\ v3' = v3 /\ v4' = v4 /\ v5' = v5 /\ v6' = v6 /\ v7' = v7
        /\ v8' = v8
        /\ v10' = v10 /\ v13' = v13 /\ v14' = v14 /\ v15' = v15
    BY <1>8, <2>1 DEF Server!TurnCalls, Server!Publish, Server!browserVars
  <2>4. PICK es : es = <<e>>  OBVIOUS
  <2>5. es \in Seq(Server!SessionEvent) /\ \A ev \in Server!Range(es) : ev.kind = "request"
    BY <1>4, <2>2, <2>4
  <2>6. v9' = (IF "bus" \in v3 THEN v9 ELSE v9 \o es)  BY <2>3, <2>4
  <2>7. v12' \in Nat  BY <1>2, <2>3
  <2> QED  BY <1>2, <2>3, <2>5, <2>6, <2>7, ServePublishes
<1>9. CASE Server!TurnEnds
  <2>1. PICK e : e = Server!Event("done", Server!Current)  OBVIOUS
  <2>2. Server!Current \in Nat
    <3>1. \E n \in v15 : \A m \in v15 : m <= n
      BY <1>1, <1>9 DEF Server!TurnInPlace, Server!TurnEnds
    <3>2. Server!Current \in v15
      BY <3>1, Zenon DEF Server!Current
    <3> QED  BY <1>1, <3>2 DEF Server!Types
  <2>3. e \in Server!SessionEvent /\ e.kind = "done"
    BY <2>1, <2>2 DEF Server!Event, Server!SessionEvent
  <2>4. /\ v9' = (IF "bus" \in v3 THEN v9 ELSE v9 \o <<e>>) /\ v11 = "thinking" /\ v11' = "none"
             /\ v12' = v12
        /\ v1' = v1 /\ v2' = v2 /\ v3' = v3 /\ v4' = v4 /\ v5' = v5 /\ v6' = v6 /\ v7' = v7
        /\ v8' = v8
        /\ v10' = v10 /\ v13' = v13 /\ v14' = v14 /\ v15' = v15
    BY <1>9, <2>1 DEF Server!TurnEnds, Server!Publish, Server!browserVars
  <2> QED  BY <1>2, <1>4, <2>3, <2>4, ServePublishes
<1>10. CASE Server!TurnTimesOut
  <2>1. /\ v9' = (IF "bus" \in v3 THEN v9 ELSE v9 \o <<>>) /\ v11 = "calling" /\ v11' = "none"
             /\ v12' = v12
        /\ v1' = v1 /\ v2' = v2 /\ v3' = v3 /\ v4' = v4 /\ v5' = v5 /\ v6' = v6 /\ v7' = v7
        /\ v8' = v8
        /\ v10' = v10 /\ v13' = v13 /\ v14' = v14 /\ v15' = v15
    BY <1>5, <1>10 DEF Server!TurnTimesOut, Server!browserVars
  <2> QED  BY <1>2, <1>5, <2>1, ServePublishes
<1> QED  BY <1>6, <1>7, <1>8, <1>9, <1>10

(* The event at the head is taken off, and taped when the persister is     *)
(* there.                                                                  *)
LEMMA ServePops ==
  ASSUME Server!ServeInv, v10 = None, v9 # <<>>, NEW ev, ev = Head(v9), v9' = Tail(v9),
         v13' = (IF "persister" \in v2 THEN Append(v13, ev) ELSE v13),
         v1' = v1, v2' = v2, v3' = v3, v4' = v4, v5' = v5, v6' = v6, v7' = v7, v8' = v8,
         v10' = v10, v12' = v12,
         v11' \in {v11, "thinking"}, v11' # v11 => v1 = "live" /\ v15' # {},
         ev.kind = "user"
           => v15' = (IF "persister" \in v2 THEN v15 \cup {ev.n} ELSE v15) /\ v14' = v14,
         ev.kind # "user" => v15' = v15,
         ev.kind = "done" => v14' \in {v14, v14 \cup {ev.n}},
         ev.kind \in {"request", "result"} => v14' = v14
  PROVE  Server!ServeInv'
<1>1. /\ Server!Parameters /\ Server!Types /\ Server!PlaceTells /\ Server!TurnInPlace
      /\ Server!UntilAsked
      /\ Server!TapeKnowsTheTurns
  BY DEF Server!ServeInv
<1>2. /\ v9 \in Seq(Server!SessionEvent) /\ v13 \in Seq(Server!SessionEvent)
      /\ v14 \subseteq Nat /\ v15 \subseteq Nat
  BY <1>1 DEF Server!Types
<1>3. /\ ev \in Server!Range(v9) /\ v9' \in Seq(Server!SessionEvent)
      /\ Server!Range(v9') \subseteq Server!Range(v9)
      /\ ev \in Server!SessionEvent
  BY <1>2, Held
<1>4. ev.kind \in {"user", "request", "result", "done"} /\ ev.n \in Nat
  BY <1>3 DEF Server!SessionEvent
<1>5. v14' \subseteq Nat /\ v15' \subseteq Nat /\ v13' \in Seq(Server!SessionEvent)
      /\ v11' \in {"none", "thinking", "calling"}
  <2>1. v13' \in Seq(Server!SessionEvent)  BY <1>2, <1>3, Held
  <2>2. v11' \in {"none", "thinking", "calling"}  BY <1>1 DEF Server!Types
  <2>3. v14' \subseteq Nat  BY <1>2, <1>4
  <2>4. v15' \subseteq Nat  BY <1>2, <1>4
  <2> QED  BY <2>1, <2>2, <2>3, <2>4
<1>6. Server!Types'
  BY <1>1, <1>3, <1>5 DEF Server!Types
<1>7. Server!PlaceTells'
  BY <1>1 DEF Server!PlaceTells
<1>8. Server!TurnInPlace'
  <2>1. v11' # "none" => v1' \in {"live", "loop.stop"} /\ v15' # {}
    BY <1>1, <1>4 DEF Server!TurnInPlace
  <2>2. v15' # {} => \E n \in v15' : \A m \in v15' : m <= n
    <3>1. CASE v15' = v15  BY <1>1, <3>1 DEF Server!TurnInPlace
    <3>2. CASE v15' = v15 \cup {ev.n} /\ v15 = {}  BY <1>4, <3>2
    <3>3. CASE v15' = v15 \cup {ev.n} /\ v15 # {}
      <4>1. PICK n \in v15 : \A m \in v15 : m <= n  BY <1>1, <3>3 DEF Server!TurnInPlace
      <4>2. CASE ev.n <= n  BY <3>3, <4>1, <4>2
      <4>3. CASE ~(ev.n <= n)
        <5>1. \A m \in v15' : m <= ev.n  BY <1>2, <1>4, <3>3, <4>1, <4>3
        <5> QED  BY <3>3, <5>1
      <4> QED  BY <4>2, <4>3
    <3> QED  BY <1>4, <3>1, <3>2, <3>3
  <2>3. v10' = None  OBVIOUS
  <2> QED  BY <2>1, <2>2, <2>3 DEF Server!TurnInPlace
<1>9. /\ "persister" \in v2 => \A k : Server!Entries(k)' =
           IF ev.kind = k THEN Server!Entries(k) \cup {ev.n} ELSE Server!Entries(k)
      /\ "persister" \notin v2 => \A k : Server!Entries(k)' = Server!Entries(k)
  <2>1. CASE "persister" \in v2
    <3>1. v13' = Append(v13, ev)  BY <2>1
    <3> QED  BY <1>2, <1>3, <2>1, <3>1, TapeGrows
  <2>2. CASE "persister" \notin v2
    <3>1. v13' = v13  BY <2>2
    <3> QED  BY <2>2, <3>1 DEF Server!Entries, Server!Range
  <2> QED  BY <2>1, <2>2
<1>10. Server!Range(v9)' = Server!Range(v9')
  BY DEF Server!Range
<1>11. Server!UntilAsked'
  BY <1>1, <1>3, <1>9, <1>10 DEF Server!UntilAsked
<1>12. Server!TapeKnowsTheTurns'
  <2>1. v15' = Server!Entries("user")'
    BY <1>1, <1>4, <1>9 DEF Server!TapeKnowsTheTurns
  <2>2. ASSUME ~v4, ev.kind # "user"
        PROVE  "persister" \in v2 /\ (ev.kind = "result" => ev.n \in Server!Entries("request"))
    BY <1>1, <1>3, <2>2 DEF Server!UntilAsked, Server!PlaceTells
  <2>3. ~v4
          => v14' \subseteq Server!Entries("done")'
            /\ Server!Entries("result")' \subseteq Server!Entries("request")'
    BY <1>1, <1>4, <1>9, <2>2 DEF Server!TapeKnowsTheTurns
  <2> QED  BY <2>1, <2>3 DEF Server!TapeKnowsTheTurns
<1> QED  BY <1>1, <1>6, <1>7, <1>8, <1>11, <1>12 DEF Server!ServeInv, Server!Parameters

(* The worker delivers what is at the head, when no tool runs.             *)
LEMMA ServeDelivers ==
  ASSUME Server!ServeInv, Server!DeliverMessage \/ Server!DeliverResult \/ Server!DeliverDone
  PROVE  Server!ServeInv'
<1>1. Server!PlaceTells /\ Server!TurnInPlace /\ Server!Types
  BY DEF Server!ServeInv
<1>2. PICK ev : ev = Head(v9)  OBVIOUS
<1> USE DEF Server!runVars, Server!browserVars, Server!historyVars
<1>3. /\ v10 = None /\ v9 # <<>> /\ v9' = Tail(v9)
      /\ v13' = (IF "persister" \in v2 THEN Append(v13, ev) ELSE v13)
      /\ v1' = v1 /\ v2' = v2 /\ v3' = v3 /\ v4' = v4 /\ v5' = v5 /\ v6' = v6 /\ v7' = v7
      /\ v8' = v8
      /\ v10' = v10 /\ v12' = v12 /\ ev.kind \in {"user", "result", "done"}
  BY <1>2 DEF Server!DeliverMessage, Server!DeliverResult, Server!DeliverDone, Server!Idle,
        Server!Pop, Server!Taped
<1>4. "loop" \in v2 => v1 = "live" /\ "persister" \in v2
  BY <1>1 DEF Server!PlaceTells
<1>5. "persister" \in v2 => v1 = "live" /\ "loop" \in v2
  BY <1>1 DEF Server!PlaceTells
<1>6. CASE Server!DeliverMessage
  <2>1. /\ ev.kind = "user" /\ v14' = v14
        /\ IF "loop" \in v2 THEN v11' = "thinking" /\ v15' = v15 \cup {ev.n} ELSE v11' = v11
             /\ v15' = v15
    BY <1>2, <1>6 DEF Server!DeliverMessage
  <2>2. v11' \in {v11, "thinking"} /\ (v11' # v11 => v1 = "live" /\ v15' # {})
        /\ v15' = (IF "persister" \in v2 THEN v15 \cup {ev.n} ELSE v15)
    BY <2>1, <1>4, <1>5
  <2> QED  BY <1>2, <1>3, <2>1, <2>2, ServePops
<1>7. CASE Server!DeliverResult
  <2>1. /\ ev.kind = "result" /\ v14' = v14 /\ v15' = v15
        /\ v11' = IF "loop" \in v2 /\ v11 = "calling" /\ ev.n = v12 THEN "thinking" ELSE v11
    BY <1>2, <1>7 DEF Server!DeliverResult
  <2>2. v11' \in {v11, "thinking"} /\ (v11' # v11 => v1 = "live" /\ v15' # {})
    BY <2>1, <1>1, <1>4 DEF Server!TurnInPlace
  <2> QED  BY <1>2, <1>3, <2>1, <2>2, ServePops
<1>8. CASE Server!DeliverDone
  <2>1. ev.kind = "done" /\ v14' \in {v14, v14 \cup {ev.n}} /\ v15' = v15 /\ v11' = v11
    BY <1>2, <1>8 DEF Server!DeliverDone
  <2> QED  BY <1>2, <1>3, <2>1, ServePops
<1> QED  BY <1>6, <1>7, <1>8

(* A tool is started with the request still at the head of the queue.      *)
LEMMA ServeDispatches == ASSUME Server!ServeInv, Server!Dispatch  PROVE Server!ServeInv'
<1>1. /\ Server!Parameters /\ Server!Types /\ Server!PlaceTells /\ Server!TurnInPlace
      /\ Server!UntilAsked
      /\ Server!TapeKnowsTheTurns
  BY DEF Server!ServeInv
<1> USE DEF Server!runVars, Server!browserVars, Server!historyVars
<1>2. /\ v10 = None /\ v9 # <<>> /\ Head(v9).kind = "request"
      /\ v1' = v1 /\ v2' = v2 /\ v3' = v3 /\ v4' = v4 /\ v5' = v5 /\ v6' = v6 /\ v7' = v7
      /\ v8' = v8 /\ v9' = v9
      /\ v11' = v11 /\ v12' = v12 /\ v13' = v13 /\ v14' = v14 /\ v15' = v15
  BY DEF Server!Dispatch, Server!Idle
<1>3. v10' \in BOOLEAN \cup {None} /\ ("persister" \in v2 => v10' = TRUE)
  <2>1. v10' = ("persister" \in v2)  BY DEF Server!Dispatch
  <2>2. v10' \in BOOLEAN  BY <2>1
  <2>3. "persister" \in v2 => v10' = TRUE  BY <2>1
  <2> QED  BY <2>2, <2>3, Zenon
<1>4. Head(v9) \in Server!Range(v9)
  BY <1>1, <1>2, Held DEF Server!Types
<1>5. ~v4 => v1 = "live" /\ "persister" \in v2
  BY <1>1, <1>2, <1>4 DEF Server!UntilAsked, Server!PlaceTells
<1>6. v1 # "done"
  BY <1>1, <1>2 DEF Server!PlaceTells
<1>7. Server!Types'
  BY <1>1, <1>2, <1>3 DEF Server!Types
<1>8. Server!PlaceTells'
  BY <1>1, <1>2, <1>6 DEF Server!PlaceTells
<1>9. Server!TurnInPlace'
  BY <1>1, <1>2 DEF Server!TurnInPlace
<1>10. (\A k : Server!Entries(k)' = Server!Entries(k)) /\ Server!Range(v9)' = Server!Range(v9)
  BY <1>2 DEF Server!Entries, Server!Range
<1>11. Server!UntilAsked'
  BY <1>1, <1>2, <1>3, <1>5, <1>10 DEF Server!UntilAsked
<1>12. Server!TapeKnowsTheTurns'
  BY <1>1, <1>2, <1>10 DEF Server!TapeKnowsTheTurns
<1> QED  BY <1>1, <1>7, <1>8, <1>9, <1>11, <1>12 DEF Server!ServeInv, Server!Parameters

(* When the tool returns, its request is taped before its answer is queued.*)
LEMMA ServeTools == ASSUME Server!ServeInv, Server!ToolEnds  PROVE Server!ServeInv'
<1>1. /\ Server!Parameters /\ Server!Types /\ Server!PlaceTells /\ Server!TurnInPlace
      /\ Server!UntilAsked
      /\ Server!TapeKnowsTheTurns
  BY DEF Server!ServeInv
<1> USE DEF Server!runVars, Server!browserVars, Server!historyVars
<1>2. PICK ev, answer : ev = Head(v9) /\ answer = Server!Event("result", ev.n)  OBVIOUS
<1>3. /\ v10 # None /\ v10' = None
      /\ v9' = Tail(v9) \/ v9' = Tail(v9) \o <<answer>>
      /\ v13' = IF v10 /\ "store" \notin v3 THEN Append(v13, ev) ELSE v13
      /\ v1' = v1 /\ v2' = v2 /\ v3' = v3 /\ v4' = v4 /\ v5' = v5 /\ v6' = v6 /\ v7' = v7
      /\ v8' = v8
      /\ v11' = v11 /\ v12' = v12 /\ v14' = v14 /\ v15' = v15
  BY <1>2 DEF Server!ToolEnds, Server!Pop
<1>4. /\ v9 # <<>> /\ ev.kind = "request" /\ v9 \in Seq(Server!SessionEvent)
      /\ v13 \in Seq(Server!SessionEvent)
  BY <1>1, <1>2, <1>3 DEF Server!TurnInPlace, Server!Types
<1>5. ev \in Server!Range(v9) /\ ev \in Server!SessionEvent /\ Tail(v9) \in Seq(Server!SessionEvent)
      /\ Server!Range(Tail(v9)) \subseteq Server!Range(v9)
  BY <1>2, <1>4, Held
<1>6. answer \in Server!SessionEvent /\ answer.kind = "result" /\ answer.n = ev.n
  BY <1>2, <1>5 DEF Server!SessionEvent, Server!Event
<1>7. v9' \in Seq(Server!SessionEvent) /\ Server!Range(v9') \subseteq Server!Range(v9) \cup {answer}
  <2>1. PICK es : es = <<answer>>  OBVIOUS
  <2>2. es \in Seq(Server!SessionEvent) /\ Server!Range(es) = {answer}
    BY <1>6, <2>1 DEF Server!Range
  <2>3. PICK t : t = Tail(v9)  OBVIOUS
  <2>4. t \in Seq(Server!SessionEvent) /\ Server!Range(t) \subseteq Server!Range(v9)  BY <1>5, <2>3
  <2>5. /\ t \o es \in Seq(Server!SessionEvent)
        /\ Server!Range(t \o es) = Server!Range(t) \cup {answer}
    BY <2>2, <2>4, Held
  <2>6. v9' = t \/ v9' = t \o es  BY <1>3, <2>1, <2>3
  <2> QED  BY <2>4, <2>5, <2>6
<1>8. ~v4 => v1 = "live" /\ v10 = TRUE /\ "store" \notin v3
  BY <1>1, <1>3 DEF Server!UntilAsked, Server!PlaceTells
<1>9. v13' = v13 \/ v13' = Append(v13, ev)
  BY <1>3
<1>10. ~v4 => v13' = Append(v13, ev)
  BY <1>3, <1>8
<1>11. /\ v13' \in Seq(Server!SessionEvent)
       /\ \A k : k # "request" => Server!Entries(k)' = Server!Entries(k)
       /\ ~v4 => Server!Entries("request")' = Server!Entries("request") \cup {ev.n}
  <2>1. CASE v13' = Append(v13, ev)
    <3>1. \A k : Server!Entries(k)' = IF ev.kind = k THEN Server!Entries(k) \cup {ev.n} ELSE Server!Entries(k)
      BY <1>4, <1>5, <2>1, TapeGrows
    <3>2. v13' \in Seq(Server!SessionEvent)  BY <1>4, <1>5, <2>1
    <3> QED  BY <1>4, <3>1, <3>2
  <2>2. CASE v13' = v13 /\ v4
    BY <1>4, <2>2 DEF Server!Entries, Server!Range
  <2> QED  BY <1>9, <1>10, <2>1, <2>2
<1>12. Server!Types'
  <2>1. v10' \in BOOLEAN \cup {None}  BY <1>3, Zenon
  <2> QED  BY <1>1, <1>3, <1>7, <1>11, <2>1 DEF Server!Types
<1>13. Server!PlaceTells'
  BY <1>1, <1>3, <1>4 DEF Server!PlaceTells
<1>14. Server!TurnInPlace'
  BY <1>1, <1>3 DEF Server!TurnInPlace
<1>15. Server!UntilAsked'
  <2>1. Server!Range(v9)' = Server!Range(v9')  BY DEF Server!Range
  <2> QED  BY <1>1, <1>3, <1>6, <1>7, <1>8, <1>11, <2>1 DEF Server!UntilAsked
<1>16. Server!TapeKnowsTheTurns'
  BY <1>1, <1>3, <1>11 DEF Server!TapeKnowsTheTurns
<1> QED  BY <1>1, <1>12, <1>13, <1>14, <1>15, <1>16 DEF Server!ServeInv, Server!Parameters

(* What is queued behind, alone, and when the head is taken off.           *)
LEMMA MessagesAre ==
  ASSUME NEW s \in Seq(Server!SessionEvent)
  PROVE  /\ \A t \in Seq(Server!SessionEvent) :
              /\ Server!Messages(s \o t) = Server!Messages(s) \cup Server!Messages(t)
              /\ Server!Once(s) /\ Server!Once(t)
                   /\ Server!Messages(s) \cap Server!Messages(t) = {} => Server!Once(s \o t)
         /\ s # <<>> => /\ Server!Messages(s) = Server!Messages(Tail(s)) \cup
                              (IF Head(s).kind = "user" THEN {Head(s).n} ELSE {})
                        /\ Server!Once(s)
                             => /\ Server!Once(Tail(s))
                                /\ Head(s).kind = "user"
                                     => Head(s).n \notin Server!Messages(Tail(s))
<1>1. ASSUME NEW t \in Seq(Server!SessionEvent)
      PROVE  /\ Server!Messages(s \o t) = Server!Messages(s) \cup Server!Messages(t)
             /\ Server!Once(s) /\ Server!Once(t)
                  /\ Server!Messages(s) \cap Server!Messages(t) = {} => Server!Once(s \o t)
  <2>1. PICK a : a = s \o t  OBVIOUS
  <2>2. Server!Messages(a) = Server!Messages(s) \cup Server!Messages(t)
    <3>1. Server!Range(a) = Server!Range(s) \cup Server!Range(t)
      BY <2>1, Held
    <3> QED  BY <3>1 DEF Server!Messages
  <2>3. /\ Len(s) \in Nat /\ Len(t) \in Nat
        /\ DOMAIN s = 1..Len(s) /\ DOMAIN t = 1..Len(t) /\ DOMAIN a = 1..(Len(s) + Len(t))
        /\ \A i \in DOMAIN s : a[i] = s[i]
        /\ \A i \in DOMAIN a : i \notin DOMAIN s => i - Len(s) \in DOMAIN t /\ a[i] = t[i - Len(s)]
    <3>1. /\ Len(s) \in Nat /\ Len(t) \in Nat
          /\ DOMAIN s = 1..Len(s) /\ DOMAIN t = 1..Len(t) /\ DOMAIN a = 1..(Len(s) + Len(t))
          /\ \A i \in 1..(Len(s) + Len(t)) :
               a[i] = IF i <= Len(s) THEN s[i] ELSE t[i - Len(s)]
      BY <2>1
    <3>2. \A i \in DOMAIN a : i \notin DOMAIN s => i - Len(s) \in DOMAIN t
      BY <3>1
    <3> QED  BY <3>1, <3>2
  <2>4. ASSUME Server!Once(s), Server!Once(t), Server!Messages(s) \cap Server!Messages(t) = {},
               NEW i \in DOMAIN a, NEW j \in DOMAIN a,
               a[i].kind = "user", a[j].kind = "user", a[i].n = a[j].n
        PROVE  i = j
    <3>1. ASSUME NEW k \in DOMAIN s, NEW l \in DOMAIN t, s[k].kind = "user", t[l].kind = "user"
          PROVE  s[k].n # t[l].n
      BY <2>4, <3>1 DEF Server!Messages, Server!Range
    <3>2. CASE i \in DOMAIN s /\ j \in DOMAIN s
      BY <2>3, <2>4, <3>2 DEF Server!Once
    <3>3. CASE i \notin DOMAIN s /\ j \notin DOMAIN s
      <4>1. i - Len(s) = j - Len(s)
        BY <2>3, <2>4, <3>3 DEF Server!Once
      <4> QED  BY <2>3, <4>1
    <3>4. CASE i \in DOMAIN s /\ j \notin DOMAIN s
      BY <2>3, <2>4, <3>1, <3>4
    <3>5. CASE i \notin DOMAIN s /\ j \in DOMAIN s
      BY <2>3, <2>4, <3>1, <3>5
    <3> QED  BY <3>2, <3>3, <3>4, <3>5
  <2> QED  BY <2>1, <2>2, <2>4 DEF Server!Once
<1>2. ASSUME s # <<>>
      PROVE  /\ Server!Messages(s) = Server!Messages(Tail(s)) \cup
                   (IF Head(s).kind = "user" THEN {Head(s).n} ELSE {})
             /\ Server!Once(s)
                  => /\ Server!Once(Tail(s))
                     /\ Head(s).kind = "user" => Head(s).n \notin Server!Messages(Tail(s))
  <2>1. PICK t, h : t = Tail(s) /\ h = Head(s)  OBVIOUS
  <2>2. /\ t \in Seq(Server!SessionEvent) /\ h = s[1] /\ 1 \in DOMAIN s
        /\ DOMAIN s \subseteq Nat /\ DOMAIN t \subseteq Nat \ {0}
        /\ \A i \in DOMAIN t : i + 1 \in DOMAIN s /\ t[i] = s[i + 1]
        /\ \A i \in DOMAIN s : i # 1 => i - 1 \in DOMAIN t /\ t[i - 1] = s[i]
    <3>1. /\ t \in Seq(Server!SessionEvent) /\ h = s[1] /\ Len(s) \in Nat /\ Len(s) >= 1
          /\ DOMAIN s = 1..Len(s) /\ DOMAIN t = 1..(Len(s) - 1)
          /\ \A i \in 1..(Len(s) - 1) : t[i] = s[i + 1]
      BY <1>2, <2>1
    <3>2. \A i \in 1..Len(s) : i # 1 => i - 1 \in 1..(Len(s) - 1) /\ (i - 1) + 1 = i
      BY <3>1
    <3> QED  BY <3>1, <3>2
  <2>3. Server!Range(s) = Server!Range(t) \cup {h}
    <3>1. ASSUME NEW i \in DOMAIN s  PROVE s[i] \in Server!Range(t) \cup {h}
      BY <2>2 DEF Server!Range
    <3>2. Server!Range(t) \cup {h} \subseteq Server!Range(s)  BY <2>2 DEF Server!Range
    <3> QED  BY <3>1, <3>2 DEF Server!Range
  <2>4. Server!Messages(s)
          = Server!Messages(t) \cup (IF h.kind = "user" THEN {h.n} ELSE {})
    BY <2>3 DEF Server!Messages
  <2>5. ASSUME Server!Once(s)
        PROVE  Server!Once(t) /\ (h.kind = "user" => h.n \notin Server!Messages(t))
    <3>1. ASSUME NEW i \in DOMAIN t, NEW j \in DOMAIN t,
                 t[i].kind = "user", t[j].kind = "user", t[i].n = t[j].n
          PROVE  i = j
      <4>1. i + 1 = j + 1  BY <2>2, <2>5, <3>1 DEF Server!Once
      <4> QED  BY <2>2, <4>1
    <3>2. ASSUME h.kind = "user", NEW i \in DOMAIN t, t[i].kind = "user"  PROVE t[i].n # h.n
      <4>1. i + 1 # 1  BY <2>2
      <4> QED  BY <2>2, <2>5, <3>2, <4>1 DEF Server!Once
    <3>3. h.kind = "user" => h.n \notin Server!Messages(t)
      BY <3>2 DEF Server!Messages, Server!Range
    <3> QED  BY <3>1, <3>3 DEF Server!Once
  <2> QED  BY <2>1, <2>4, <2>5
<1> QED  BY <1>1, <1>2

(* Nothing queued, one event queued, and one behind the others.            *)
LEMMA FewMessages ==
  /\ Server!Messages(<<>>) = {} /\ Server!Once(<<>>)
  /\ \A e \in Server!SessionEvent :
       /\ Server!Messages(<<e>>) = (IF e.kind = "user" THEN {e.n} ELSE {}) /\ Server!Once(<<e>>)
       /\ \A s \in Seq(Server!SessionEvent) : Append(s, e) = s \o <<e>>
<1>1. Server!Messages(<<>>) = {} /\ Server!Once(<<>>)
  BY DEF Server!Messages, Server!Once, Server!Range
<1>2. ASSUME NEW e \in Server!SessionEvent
      PROVE  /\ Server!Messages(<<e>>) = (IF e.kind = "user" THEN {e.n} ELSE {})
             /\ Server!Once(<<e>>)
  <2>1. Server!Range(<<e>>) = {e}  BY DEF Server!Range
  <2>2. Server!Once(<<e>>)  BY DEF Server!Once
  <2> QED  BY <2>1, <2>2 DEF Server!Messages
<1>3. ASSUME NEW e \in Server!SessionEvent, NEW s \in Seq(Server!SessionEvent)
      PROVE  Append(s, e) = s \o <<e>>
  OBVIOUS
<1> QED  BY <1>1, <1>2, <1>3

(* Every step of run_serve, the browser, the worker and the turn keeps it. *)
LEMMA ServeStep == Server!ServeInv /\ [Server!Next]_(Server!vars) => Server!ServeInv'
<1> SUFFICES ASSUME Server!ServeInv, [Server!Next]_(Server!vars)  PROVE Server!ServeInv'
  OBVIOUS
<1>1. CASE UNCHANGED Server!vars
  <2>1. /\ v1' = v1 /\ v2' = v2 /\ v3' = v3 /\ v4' = v4 /\ v5' = v5 /\ v6' = v6 /\ v7' = v7
        /\ v8' = v8 /\ v9' = v9
        /\ v10' = v10 /\ v11' = v11 /\ v12' = v12 /\ v13' = v13 /\ v14' = v14 /\ v15' = v15
    BY <1>1 DEF Server!vars, Server!runVars, Server!browserVars, Server!sessionVars,
          Server!historyVars
  <2>2. (\A k : Server!Entries(k)' = Server!Entries(k)) /\ Server!Range(v9)' = Server!Range(v9)
    BY <2>1 DEF Server!Entries, Server!Range
  <2>3. Server!Types' /\ Server!PlaceTells' /\ Server!TurnInPlace'
    BY <2>1 DEF Server!ServeInv, Server!Types, Server!PlaceTells, Server!TurnInPlace
  <2>4. Server!UntilAsked' /\ Server!TapeKnowsTheTurns'
    BY <2>1, <2>2 DEF Server!ServeInv, Server!UntilAsked, Server!TapeKnowsTheTurns
  <2> QED  BY <2>3, <2>4 DEF Server!ServeInv, Server!Parameters
<1>2. CASE Server!Next
  BY <1>2, ServeRuns, ServeSends, ServeDelivers, ServeDispatches, ServeTools DEF Server!Next
<1> QED  BY <1>1, <1>2

(* The browser opens its socket or sends: what it had queued and what it   *)
(* sends is on the bus, or lost when that is closed.                       *)
LEMMA SendsOnce ==
  ASSUME Server!ServeInv, Server!InOnePlace, Server!Send \/ Server!Connect
  PROVE  Server!InOnePlace'
<1>1. /\ v8 \in Nat /\ v9 \in Seq(Server!SessionEvent)
      /\ v7 \in Seq([kind : {"user"}, n : Nat])
  BY DEF Server!ServeInv, Server!Types
<1>2. /\ v7 \in Seq(Server!SessionEvent)
      /\ Server!Messages(v7) = {ev.n : ev \in Server!Range(v7)}
  <2>1. PICK M : M = [kind : {"user"}, n : Nat]  OBVIOUS
  <2>2. M \subseteq Server!SessionEvent  BY <2>1 DEF Server!SessionEvent
  <2>3. v7 \in Seq(M)  BY <1>1, <2>1
  <2>4. v7 \in Seq(Server!SessionEvent)  BY <2>2, <2>3, Wider
  <2>5. Server!Range(v7) \subseteq M  BY <2>3, Held
  <2>6. \A ev \in Server!Range(v7) : ev.kind = "user"  BY <2>1, <2>5
  <2> QED  BY <2>4, <2>6 DEF Server!Messages
<1>3. /\ 1..v8 = Server!Messages(v7) \cup Server!Messages(v9) \cup v15 \cup v16
      /\ Server!Once(v7) /\ Server!Once(v9) /\ Server!Messages(v7) \cap Server!Messages(v9) = {}
      /\ (Server!Messages(v7) \cup Server!Messages(v9)) \cap (v15 \cup v16) = {}
      /\ v15 \cap v16 = {}
  BY DEF Server!InOnePlace
<1> SUFFICES
      /\ 1..v8' = Server!Messages(v7') \cup Server!Messages(v9') \cup v15' \cup v16'
      /\ Server!Once(v7') /\ Server!Once(v9')
      /\ Server!Messages(v7') \cap Server!Messages(v9') = {}
      /\ (Server!Messages(v7') \cup Server!Messages(v9')) \cap (v15' \cup v16') = {}
      /\ v15' \cap v16' = {}
  BY DEF Server!InOnePlace, Server!Messages, Server!Once, Server!Range
<1>4. CASE Server!Send
  <2>1. PICK e, es : e = Server!Event("user", v8 + 1) /\ es = <<e>>  OBVIOUS
  <2>2. e \in Server!SessionEvent /\ e.kind = "user" /\ e.n = v8 + 1
    BY <1>1, <2>1 DEF Server!Event, Server!SessionEvent
  <2>3. /\ es \in Seq(Server!SessionEvent) /\ Server!Range(es) = {e}
        /\ Server!Messages(es) = {v8 + 1} /\ Server!Once(es)
        /\ Append(v7, e) = v7 \o es
    <3>1. es \in Seq(Server!SessionEvent) /\ Server!Range(es) = {e}
      BY <2>1, <2>2 DEF Server!Range
    <3> QED  BY <1>2, <2>1, <2>2, <3>1, FewMessages
  <2>4. /\ v8' = v8 + 1 /\ v15' = v15
        /\ \/ /\ v9' = (IF "bus" \in v3 THEN v9 ELSE v9 \o es) /\ v7' = v7
              /\ v16' = v16 \cup Server!Gone(es)
           \/ v7' = v7 \o es /\ v9' = v9 /\ v16' = v16
    BY <1>4, <2>1, <2>3 DEF Server!Send, Server!Publish
  <2>5. Server!Gone(es) = IF "bus" \in v3 THEN {v8 + 1} ELSE {}
    BY <2>2, <2>3 DEF Server!Gone
  <2>6. v8 + 1 \notin 1..v8 /\ 1..v8' = 1..v8 \cup {v8 + 1}
    BY <1>1, <2>4
  <2>7. v8 + 1 \notin Server!Messages(v7) \cup Server!Messages(v9) \cup v15 \cup v16
    BY <1>3, <2>6
  <2>8. CASE "bus" \in v3 /\ v9' = v9 /\ v7' = v7 /\ v16' = v16 \cup {v8 + 1}
    BY <1>3, <2>4, <2>6, <2>7, <2>8
  <2>9. CASE v9' = v9 \o es /\ v7' = v7 /\ v16' = v16
    <3>1. Server!Messages(v9') = Server!Messages(v9) \cup {v8 + 1} /\ Server!Once(v9')
      BY <1>1, <1>3, <2>3, <2>7, <2>9, MessagesAre
    <3> QED  BY <1>3, <2>4, <2>6, <2>7, <2>9, <3>1
  <2>10. CASE v7' = v7 \o es /\ v9' = v9 /\ v16' = v16
    <3>1. Server!Messages(v7') = Server!Messages(v7) \cup {v8 + 1} /\ Server!Once(v7')
      BY <1>2, <1>3, <2>3, <2>7, <2>10, MessagesAre
    <3> QED  BY <1>3, <2>4, <2>6, <2>7, <2>10, <3>1
  <2> QED  BY <2>4, <2>5, <2>8, <2>9, <2>10
<1>5. CASE Server!Connect
  <2>1. /\ v9' = (IF "bus" \in v3 THEN v9 ELSE v9 \o v7) /\ v7' = <<>> /\ v8' = v8 /\ v15' = v15
        /\ v16' = v16 \cup Server!Gone(v7)
    BY <1>5 DEF Server!Connect, Server!Publish
  <2>2. Server!Gone(v7) = IF "bus" \in v3 THEN Server!Messages(v7) ELSE {}
    BY <1>2 DEF Server!Gone
  <2>3. Server!Messages(v7') = {} /\ Server!Once(v7')
    BY <2>1, FewMessages
  <2>4. CASE "bus" \in v3
    <3>1. v9' = v9 /\ v16' = v16 \cup Server!Messages(v7)
      BY <2>1, <2>2, <2>4
    <3> QED  BY <1>3, <2>1, <2>3, <3>1
  <2>5. CASE "bus" \notin v3
    <3>1. v9' = v9 \o v7 /\ v16' = v16
      BY <2>1, <2>2, <2>5
    <3>2. Server!Messages(v9') = Server!Messages(v9) \cup Server!Messages(v7) /\ Server!Once(v9')
      BY <1>1, <1>2, <1>3, <3>1, MessagesAre
    <3> QED  BY <1>3, <2>1, <2>3, <3>1, <3>2
  <2> QED  BY <2>4, <2>5
<1> QED  BY <1>4, <1>5

(* The worker takes a message off the bus for a turn, or for nobody; other *)
(* events come and go.                                                     *)
LEMMA DeliversOnce ==
  ASSUME Server!ServeInv, Server!InOnePlace,
         \/ Server!DeliverMessage \/ Server!DeliverResult \/ Server!DeliverDone
         \/ Server!ToolEnds \/ Server!TurnCalls \/ Server!TurnEnds
  PROVE  Server!InOnePlace'
<1> USE DEF Server!runVars, Server!browserVars, Server!historyVars
<1>1. v9 \in Seq(Server!SessionEvent) /\ v12 \in Nat /\ Server!TurnInPlace /\ Server!Types
  BY DEF Server!ServeInv, Server!Types
<1>2. /\ 1..v8 = Server!Messages(v7) \cup Server!Messages(v9) \cup v15 \cup v16
      /\ Server!Once(v7) /\ Server!Once(v9) /\ Server!Messages(v7) \cap Server!Messages(v9) = {}
      /\ (Server!Messages(v7) \cup Server!Messages(v9)) \cap (v15 \cup v16) = {}
      /\ v15 \cap v16 = {}
  BY DEF Server!InOnePlace
<1>3. v7' = v7 /\ v8' = v8
  BY DEF Server!DeliverMessage, Server!DeliverResult, Server!DeliverDone, Server!ToolEnds,
         Server!TurnCalls, Server!TurnEnds
<1> SUFFICES
      /\ 1..v8 = Server!Messages(v7) \cup Server!Messages(v9') \cup v15' \cup v16'
      /\ Server!Once(v7) /\ Server!Once(v9')
      /\ Server!Messages(v7) \cap Server!Messages(v9') = {}
      /\ (Server!Messages(v7) \cup Server!Messages(v9')) \cap (v15' \cup v16') = {}
      /\ v15' \cap v16' = {}
  BY <1>3 DEF Server!InOnePlace, Server!Messages, Server!Once, Server!Range
<1>4. PICK h, t : h = Head(v9) /\ t = Tail(v9)  OBVIOUS
<1>5. v9 # <<>> => t \in Seq(Server!SessionEvent) /\ h \in Server!SessionEvent
  BY <1>1, <1>4, Held
<1>6. v9 # <<>> =>
        /\ Server!Messages(v9)
             = Server!Messages(t) \cup (IF h.kind = "user" THEN {h.n} ELSE {})
        /\ Server!Once(t) /\ (h.kind = "user" => h.n \notin Server!Messages(t))
  BY <1>1, <1>2, <1>4, MessagesAre
<1>7. CASE Server!DeliverMessage
  <2>1. /\ v9 # <<>> /\ h.kind = "user" /\ v9' = t
        /\ \/ v15' = v15 \cup {h.n} /\ v16' = v16
           \/ v16' = v16 \cup {h.n} /\ v15' = v15
    BY <1>4, <1>7 DEF Server!DeliverMessage, Server!Idle, Server!Pop
  <2>2. Server!Messages(v9) = Server!Messages(t) \cup {h.n} /\ h.n \notin Server!Messages(t)
          /\ Server!Once(t)
    BY <1>6, <2>1
  <2>3. Server!Messages(v9') = Server!Messages(t) /\ Server!Once(v9')
    BY <2>1, <2>2
  <2>4. h.n \notin Server!Messages(v7) \cup v15 \cup v16
    BY <1>2, <2>2
  <2> QED  BY <1>2, <2>1, <2>2, <2>3, <2>4
<1>8. ASSUME Server!Messages(v9') = Server!Messages(v9), Server!Once(v9'), v15' = v15, v16' = v16
      PROVE  /\ 1..v8 = Server!Messages(v7) \cup Server!Messages(v9') \cup v15' \cup v16'
             /\ Server!Once(v7) /\ Server!Once(v9')
             /\ Server!Messages(v7) \cap Server!Messages(v9') = {}
             /\ (Server!Messages(v7) \cup Server!Messages(v9')) \cap (v15' \cup v16') = {}
             /\ v15' \cap v16' = {}
  BY <1>2, <1>8
<1>9. ASSUME NEW s \in Seq(Server!SessionEvent), Server!Once(s),
             NEW e \in Server!SessionEvent, e.kind # "user"
      PROVE  Server!Messages(s \o <<e>>) = Server!Messages(s) /\ Server!Once(s \o <<e>>)
  <2>1. PICK es : es = <<e>>  OBVIOUS
  <2>2. es \in Seq(Server!SessionEvent)  BY <2>1
  <2>3. Server!Messages(es) = {} /\ Server!Once(es)
    BY <1>9, <2>1, FewMessages
  <2>4. /\ Server!Messages(s \o es) = Server!Messages(s) \cup Server!Messages(es)
        /\ Server!Messages(s) \cap Server!Messages(es) = {} => Server!Once(s \o es)
    BY <1>9, <2>2, <2>3, MessagesAre
  <2> QED  BY <2>1, <2>3, <2>4
<1>10. CASE Server!DeliverResult \/ Server!DeliverDone
  <2>1. v9 # <<>> /\ h.kind # "user" /\ v9' = t /\ v15' = v15 /\ v16' = v16
    BY <1>4, <1>10 DEF Server!DeliverResult, Server!DeliverDone, Server!Idle, Server!Pop
  <2>2. Server!Messages(v9') = Server!Messages(v9) /\ Server!Once(v9')
    BY <1>6, <2>1
  <2> QED  BY <1>8, <2>1, <2>2
<1>11. CASE Server!ToolEnds
  <2>1. PICK e : e = Server!Event("result", h.n)  OBVIOUS
  <2>2. /\ v9 # <<>> /\ h.kind = "request" /\ v15' = v15 /\ v16' = v16
        /\ v9' = t \/ v9' = t \o <<e>>
    BY <1>1, <1>4, <1>11, <2>1 DEF Server!ToolEnds, Server!Pop, Server!TurnInPlace
  <2>3. e \in Server!SessionEvent /\ e.kind # "user"
    BY <1>5, <2>1, <2>2 DEF Server!SessionEvent, Server!Event
  <2>4. Server!Messages(t) = Server!Messages(v9) /\ Server!Once(t)
    BY <1>6, <2>2
  <2>5. Server!Messages(v9') = Server!Messages(v9) /\ Server!Once(v9')
    BY <1>5, <1>9, <2>2, <2>3, <2>4
  <2> QED  BY <1>8, <2>2, <2>5
<1>12. CASE Server!TurnCalls \/ Server!TurnEnds
  <2>1. Server!TurnEnds => Server!Current \in Nat
    <3>1. Server!TurnEnds => \E n \in v15 : \A m \in v15 : m <= n
      BY <1>1 DEF Server!TurnInPlace, Server!TurnEnds
    <3>2. Server!TurnEnds => Server!Current \in v15
      BY <3>1, Zenon DEF Server!Current
    <3> QED  BY <1>1, <3>2 DEF Server!Types
  <2>2. PICK e : e = IF Server!TurnCalls THEN Server!Event("request", v12 + 1)
                     ELSE Server!Event("done", Server!Current)
    OBVIOUS
  <2>3. e \in Server!SessionEvent /\ e.kind # "user"
    BY <1>1, <1>12, <2>1, <2>2 DEF Server!SessionEvent, Server!Event
  <2>4. /\ v9' = (IF "bus" \in v3 THEN v9 ELSE v9 \o <<e>>) /\ v15' = v15 /\ v16' = v16
    <3>1. CASE Server!TurnCalls
      BY <2>2, <3>1 DEF Server!TurnCalls, Server!Publish
    <3>2. CASE ~Server!TurnCalls
      BY <1>12, <2>2, <3>2 DEF Server!TurnEnds, Server!Publish
    <3> QED  BY <3>1, <3>2
  <2>5. Server!Messages(v9') = Server!Messages(v9) /\ Server!Once(v9')
    BY <1>1, <1>2, <1>9, <2>3, <2>4
  <2> QED  BY <1>8, <2>4, <2>5
<1> QED  BY <1>7, <1>10, <1>11, <1>12

(* Every message typed stays in one place.                                 *)
LEMMA CountsOnce ==
  Server!ServeInv /\ Server!InOnePlace /\ [Server!Next]_(Server!vars) => Server!InOnePlace'
<1> SUFFICES ASSUME Server!ServeInv, Server!InOnePlace, [Server!Next]_(Server!vars)
             PROVE  Server!InOnePlace'
  OBVIOUS
<1>1. CASE UNCHANGED <<v7, v8, v9, v15, v16>>
  BY <1>1 DEF Server!InOnePlace, Server!Messages, Server!Once, Server!Range
<1>2. CASE \/ Server!BootFails \/ Server!LoadPlugins \/ Server!StartRaises
           \/ (\E c \in BOOLEAN : Server!Wire(c)) \/ Server!Signal \/ Server!TearDown
           \/ Server!LoopStopped \/ Server!RegistryStopped \/ Server!BusCloses \/ Server!Returns
           \/ Server!Dispatch \/ Server!TurnTimesOut
  <2>1. UNCHANGED <<v7, v8, v9, v15, v16>>
    BY <1>2 DEF Server!BootFails, Server!LoadPlugins, Server!StartRaises, Server!Wire,
       Server!Signal, Server!TearDown, Server!LoopStopped, Server!RegistryStopped,
       Server!BusCloses, Server!Returns, Server!Dispatch, Server!TurnTimesOut,
       Server!browserVars, Server!sessionVars, Server!historyVars
  <2> QED  BY <1>1, <2>1
<1>3. CASE UNCHANGED Server!vars
  BY <1>1, <1>3 DEF Server!vars, Server!browserVars, Server!sessionVars, Server!historyVars
<1>4. CASE Server!Next
  BY <1>2, <1>4, SendsOnce, DeliversOnce DEF Server!Next
<1> QED  BY <1>3, <1>4

(* What run_serve does keeps every message in one place.                   *)
LEMMA ServeInvariance == Server!Spec => [](Server!ServeInv /\ Server!InOnePlace)
<1>1. Server!Init => Server!InOnePlace
  BY FewMessages DEF Server!Init, Server!InOnePlace
<1> QED  BY <1>1, ServerParameters, ServeInit, ServeStep, CountsOnce, PTL DEF Server!Spec

(* When run_serve has returned, what it promises follows.                  *)
LEMMA ServeEnds == Server!ServeInv /\ Server!InOnePlace => Server!Served /\ Server!TypeOK
<1>1. Server!InOnePlace => v16 \subseteq 1..v8
  BY DEF Server!InOnePlace
<1> QED
  BY <1>1 DEF Server!ServeInv, Server!Served, Server!StopLeavesNothing, Server!PlaceTells,
     Server!TurnInPlace, Server!Types, Server!TypeOK

(* When stop() has returned nothing is subscribed, and every plugin that   *)
(* was loaded has had its on_unload, as long as the operator's requests do *)
(* not overlap a load; when run_serve has, no turn and no event is left.   *)
(* The tape knows every message a turn was started for, and until the      *)
(* signal every answer shown and the request of every result; a message    *)
(* the user typed is queued, on the bus, heard by one turn or lost         *)
(* (registry.py:340-348, serve.py:338-445).                                *)
THEOREM StopsLeaveNothing == Reg!Serial /\ Spec => []StopLeavesNothing
<1>1. (Reg!StopLeavesNothing \/ part # "registry") /\ (Server!Served \/ part # "server")
        => StopLeavesNothing
  BY DEF StopLeavesNothing
<1> QED
  BY <1>1, ServeEnds, ServeInvariance, RegistryAlone, ServeAlone, RegistryParameters,
     Reg!StopUnloadsAll, PTL

-----------------------------------------------------------------------------
(* The configuration.                                                      *)
(* A behaviour is the configuration's alone, or not the configuration's.   *)
LEMMA ConfigAlone == Spec => Config!Spec \/ [](part # "config")
<1>1. Init => (part = "config" /\ Config!Init) \/ part # "config"
  BY DEF Init
<1>2. part = "config" /\ [Next]_vars => [Config!Next]_(Config!vars) /\ (part = "config")'
  BY DEF Next, vars, Config!vars, Config!storeVars, Config!countVars
<1>3. part # "config" /\ [Next]_vars => (part # "config")'
  BY DEF Next, vars
<1> QED  BY <1>1, <1>2, <1>3, PTL DEF Spec, Config!Spec

(* A key that nobody is writing has one value in the cache and in the      *)
(* database, whatever requests overlap and wherever the server goes down,  *)
(* unless it was unset while its first write was on its way                *)
(* (config_store.py:321-374).                                              *)
THEOREM ServicesCacheIsTheDatabase == Spec => []CacheTellsDb
<1>1. Config!CacheTellsDb \/ part # "config" => CacheTellsDb
  BY DEF CacheTellsDb
<1> QED  BY <1>1, ConfigAlone, ConfigParameters, Config!CacheIsTheDatabase, PTL

(* The clients of an instance are those its rows call for, once the plugin *)
(* was told of every change; a boot that gets through, after however many  *)
(* that did not, leaves the whole bundled instance                         *)
(* (llm_openai/plugin.py:286-341, registry.py:556-618).                    *)
THEOREM ServicesClientsAreCurrent == Spec => []ClientsFollow
<1>1. (Config!ClientsFollow /\ Config!SeedsWhole) \/ part # "config" => ClientsFollow
  BY DEF ClientsFollow
<1> QED
  BY <1>1, ConfigAlone, ConfigParameters, Config!ClientsAreCurrent, Config!BootsSeedTheWhole, PTL
-----------------------------------------------------------------------------
(* The MCP bridge, with one server and with two.                           *)
(* A behaviour is the bridge's alone, or not the bridge's.                 *)
LEMMA BridgeAlone == Spec => Bridge!Spec \/ [](part # "bridge")
<1>1. Init => (part = "bridge" /\ Bridge!Init) \/ part # "bridge"
  BY DEF Init
<1>2. part = "bridge" /\ [Next]_vars => [Bridge!Next]_(Bridge!vars) /\ (part = "bridge")'
  BY DEF Next, vars, Bridge!vars, Bridge!pluginVars, Bridge!clientVars, Bridge!processVars,
         Bridge!historyVars
<1>3. part # "bridge" /\ [Next]_vars => (part # "bridge")'
  BY DEF Next, vars
<1> QED  BY <1>1, <1>2, <1>3, PTL DEF Spec, Bridge!Spec

(* The same with two servers.                                              *)
LEMMA BridgesAlone == Spec => Bridges!Spec \/ [](part # "bridges")
<1>1. Init => (part = "bridges" /\ Bridges!Init) \/ part # "bridges"
  BY DEF Init
<1>2. part = "bridges" /\ [Next]_vars => [Bridges!Next]_(Bridges!vars) /\ (part = "bridges")'
  BY DEF Next, vars, Bridges!vars, Bridges!pluginVars, Bridges!clientVars, Bridges!processVars,
         Bridges!historyVars
<1>3. part # "bridges" /\ [Next]_vars => (part # "bridges")'
  BY DEF Next, vars
<1> QED  BY <1>1, <1>2, <1>3, PTL DEF Spec, Bridges!Spec

(* A call over the pipe returns its own answer or none, and waits for      *)
(* nobody who has left; no tool without an open client, no process without *)
(* a server, and no configured server unannounced (client.py:312-417,      *)
(* mcp_bridge/plugin.py:107-320).                                          *)
THEOREM ServicesBridgesAreAccounted == Spec => []BridgeAccounted
<1>1. /\ (Bridge!OwnAnswer /\ Bridge!NobodyHangs /\ Bridge!NothingLeft /\ Bridge!NoneSilent)
           \/ part # "bridge"
      /\ (Bridges!OwnAnswer /\ Bridges!NobodyHangs /\ Bridges!NothingLeft /\ Bridges!NoneSilent)
           \/ part # "bridges"
      => BridgeAccounted
  BY DEF BridgeAccounted
<1> QED
  BY <1>1, BridgeAlone, BridgesAlone, BridgeParameters, Bridge!BridgeIsAccounted,
     Bridges!BridgeIsAccounted, PTL
-----------------------------------------------------------------------------
(* The browser tab.                                                        *)
(* v1 said, v2 opened, v3 clients, v4 gen, v5 loads, v6 banner, v7 current,*)
(* v8 shown, v9 url, v10 ws, v11 conn, v12 wanted, v13 mixed, v14 strays.  *)
(* What the frames of a session are, and how a message is appended.        *)
LEMMA FramesAre ==
  ASSUME NEW s \in Sessions, NEW n \in Nat
  PROVE  /\ Chat!Frames(s, n) \in Seq(Chat!Ids \X Nat) /\ DOMAIN Chat!Frames(s, n) = 1..n
         /\ \A i \in 1..n : Chat!Frames(s, n)[i] = <<s, i>>
BY DEF Chat!Frames, Chat!Ids

(* A message put behind the ones shown.                                    *)
LEMMA OneMore ==
  ASSUME NEW q \in Seq(Chat!Ids \X Nat), NEW e \in Chat!Ids \X Nat
  PROVE  /\ Append(q, e) \in Seq(Chat!Ids \X Nat)
         /\ DOMAIN Append(q, e) = DOMAIN q \cup {Len(q) + 1}
         /\ Append(q, e)[Len(q) + 1] = e
         /\ \A i \in DOMAIN q : Append(q, e)[i] = q[i] /\ i < Len(q) + 1 /\ i \in Nat
         /\ Len(q) \in Nat
OBVIOUS

(* Frames put behind the ones shown.                                       *)
LEMMA Joined ==
  ASSUME NEW q \in Seq(Chat!Ids \X Nat), NEW f \in Seq(Chat!Ids \X Nat)
  PROVE  \A i \in DOMAIN (q \o f) :
           \/ i \in DOMAIN q /\ (q \o f)[i] = q[i]
           \/ \E j \in DOMAIN f : (q \o f)[i] = f[j]
<1>1. /\ Len(q) \in Nat /\ Len(f) \in Nat /\ DOMAIN q = 1..Len(q) /\ DOMAIN f = 1..Len(f)
      /\ DOMAIN (q \o f) = 1..(Len(q) + Len(f))
      /\ \A i \in 1..(Len(q) + Len(f)) :
           (q \o f)[i] = IF i <= Len(q) THEN q[i] ELSE f[i - Len(q)]
  OBVIOUS
<1>2. ASSUME NEW i \in 1..(Len(q) + Len(f)), ~(i <= Len(q))
      PROVE  i - Len(q) \in 1..Len(f)
  BY <1>1, <1>2
<1>3. ASSUME NEW i \in 1..(Len(q) + Len(f))
      PROVE  \/ i \in DOMAIN q /\ (q \o f)[i] = q[i]
             \/ \E j \in DOMAIN f : (q \o f)[i] = f[j]
  <2>1. CASE i <= Len(q)
    BY <1>1, <2>1
  <2>2. CASE ~(i <= Len(q))
    BY <1>1, <1>2, <2>2
  <2> QED  BY <2>1, <2>2
<1> QED  BY <1>1, <1>3

(* A reset chat.                                                           *)
LEMMA EmptyChat ==
  /\ <<>> \in Seq(Chat!Ids \X Nat) /\ DOMAIN <<>> = {}
OBVIOUS

(* The inductive invariant of WebChat holds at first.                      *)
LEMMA ChatInit == Chat!Init => Chat!ChatInv
<1>1. SUFFICES ASSUME Chat!Init  PROVE Chat!ChatInv
  OBVIOUS
<1>2. Chat!Types
  <2>1. \A s \in Sessions : Chat!Load(1, s) \in Chat!ResumeCalls
    BY DEF Chat!Load, Chat!ResumeCalls
  <2> QED
    BY <1>1, <2>1, ChatParameters, EmptyChat DEF Chat!Init, Chat!Types, Chat!Parameters, Chat!Ids,
       Chat!Sockets
<1>3. Chat!GenerationInv /\ Chat!OutcomeInv
  BY <1>1 DEF Chat!Init, Chat!GenerationInv, Chat!OutcomeInv, Chat!Load
<1>4. Chat!SocketInv
  BY <1>1 DEF Chat!Init, Chat!SocketInv
<1>5. Chat!SaidInv /\ Chat!OneTranscript
  BY <1>1, EmptyChat DEF Chat!Init, Chat!SaidInv, Chat!OneTranscript, Chat!Load
<1> QED  BY <1>2, <1>3, <1>4, <1>5 DEF Chat!ChatInv

(* The adapter.                                                            *)
LEMMA ChatDeliver ==
  ASSUME Chat!ChatInv, NEW x \in Chat!Ids, Chat!Deliver(x)
  PROVE  Chat!ChatInv'
<1>1. /\ v1' = [v1 EXCEPT ![x] = @ + 1]
      /\ \/ /\ v11 = "open" /\ \E c \in Chat!Targets(x) : c[2] = v10
            /\ v8' = Append(v8, <<x, v1'[x]>>)
         \/ v8' = v8
      /\ IF \E c \in v3 : c[1] = x THEN v14' = v14 ELSE v14' = v14 \cup {x}
      /\ UNCHANGED <<v3, v4, v5, v6, v7, v9, v10, v11, v12, v13>>
  BY DEF Chat!Deliver, Chat!socketVars
<1>2. /\ Chat!Types /\ Chat!GenerationInv /\ Chat!OutcomeInv /\ Chat!SocketInv /\ Chat!SaidInv
      /\ Chat!OneTranscript
  BY DEF Chat!ChatInv
<1>3. /\ v1 \in [Chat!Ids -> Nat \ {0}] /\ v1' \in [Chat!Ids -> Nat \ {0}]
      /\ v1'[x] = v1[x] + 1 /\ v1'[x] \in Nat
      /\ \A y \in Chat!Ids : v1[y] <= v1'[y] /\ v1[y] \in Nat /\ v1'[y] \in Nat
  BY <1>1, <1>2 DEF Chat!Types
<1>4. /\ v14 \subseteq v14' /\ v14' \in SUBSET Chat!Ids
      /\ (\A c \in v3 : c[1] # x) => x \in v14'
  BY <1>1, <1>2 DEF Chat!Types
<1>5. /\ v8 \in Seq(Chat!Ids \X Nat) /\ <<x, v1'[x]>> \in Chat!Ids \X Nat
      /\ \A i \in DOMAIN v8 : v8[i] \in Chat!Ids \X Nat
  BY <1>2, <1>3 DEF Chat!Types
<1>6. Chat!GenerationInv' /\ Chat!OutcomeInv' /\ Chat!SocketInv'
  BY <1>1, <1>2 DEF Chat!GenerationInv, Chat!OutcomeInv, Chat!SocketInv, Chat!Accepted
<1>7. /\ \A l \in v5 : l.frames # None => l.frames \in Nat /\ l.frames <= v1'[l.session]
      /\ v6 # None => v6.frames <= v1'[v6.session]
      /\ \A i \in DOMAIN v8 : v8[i][2] <= v1'[v8[i][1]]
  <2>1. \A l \in Chat!ResumeCalls : l.session \in Chat!Ids /\ (l.frames # None => l.frames \in Nat)
    BY DEF Chat!ResumeCalls, Chat!Ids
  <2>2. /\ \A l \in v5 : l.session \in Chat!Ids /\ (l.frames # None => l.frames \in Nat)
        /\ v6 # None => v6.session \in Chat!Ids /\ v6.frames \in Nat
    BY <1>2, <2>1 DEF Chat!Types
  <2>3. \A i \in DOMAIN v8 : v8[i][1] \in Chat!Ids /\ v8[i][2] \in Nat
    BY <1>5
  <2> QED  BY <1>2, <1>3, <2>2, <2>3 DEF Chat!SaidInv
<1>8. CASE v8' = v8
  <2>1. Chat!Types'
    BY <1>1, <1>2, <1>3, <1>4, <1>8 DEF Chat!Types
  <2>2. Chat!SaidInv' /\ Chat!OneTranscript'
    BY <1>1, <1>2, <1>4, <1>7, <1>8 DEF Chat!SaidInv, Chat!OneTranscript
  <2> QED  BY <1>6, <2>1, <2>2 DEF Chat!ChatInv
<1>9. CASE /\ v11 = "open" /\ \E c \in Chat!Targets(x) : c[2] = v10
           /\ v8' = Append(v8, <<x, v1'[x]>>)
  <2>1. PICK q : q = Append(v8, <<x, v1'[x]>>)
    OBVIOUS
  <2>2. PICK n : n = Len(v8) + 1
    OBVIOUS
  <2>3. /\ v8' = q /\ q \in Seq(Chat!Ids \X Nat) /\ DOMAIN q = DOMAIN v8 \cup {n}
        /\ q[n] = <<x, v1'[x]>> /\ n \in Nat
        /\ \A i \in DOMAIN v8 : q[i] = v8[i] /\ i < n /\ i \in Nat
    BY <1>5, <1>9, <2>1, <2>2, OneMore
  <2>4. q[n][1] = x /\ q[n][2] = v1'[x]
    BY <2>3
  <2>5. Chat!Types'
    BY <1>1, <1>2, <1>3, <1>4, <2>3 DEF Chat!Types
  <2>6. Chat!SaidInv'
    <3>1. \A i \in DOMAIN q : q[i][2] <= v1'[q[i][1]]
      BY <1>3, <1>7, <2>3, <2>4
    <3> QED  BY <1>1, <1>7, <2>3, <3>1 DEF Chat!SaidInv
  <2>7. x = v7 \/ x \in v14' \/ (v7 = None /\ x \notin Sessions)
    <3>1. PICK c \in Chat!Targets(x) : c[2] = v10
      BY <1>9
    <3>2. CASE \E d \in v3 : d[1] = x
      <4>1. c \in v3 /\ c[1] = x
        BY <3>1, <3>2 DEF Chat!Targets
      <4>2. x = Chat!Accepted /\ v9 = v7 /\ v10 \in Chat!Sockets
        BY <1>2, <3>1, <4>1 DEF Chat!SocketInv, Chat!Types
      <4> QED  BY <4>2, ChatParameters DEF Chat!Accepted, Chat!Parameters
    <3> QED  BY <1>4, <3>2
  <2>8. Chat!OneTranscript'
    <3>1. SUFFICES ASSUME ~v13
          PROVE  /\ \A i, j \in DOMAIN q : i < j /\ q[i][1] = q[j][1] => q[i][2] < q[j][2]
                 /\ \A i \in DOMAIN q : \/ q[i][1] = v7 \/ q[i][1] \in v14'
                                        \/ v7 = None /\ q[i][1] \notin Sessions
      BY <1>1, <2>3 DEF Chat!OneTranscript
    <3>2. ASSUME NEW i \in DOMAIN q, NEW j \in DOMAIN q, i < j, q[i][1] = q[j][1]
          PROVE  q[i][2] < q[j][2]
      <4>1. i \in DOMAIN v8 /\ i < n
        BY <2>3, <3>2
      <4>2. CASE j = n
        <5>1. q[i] = v8[i] /\ v8[i][1] = x /\ v8[i][2] <= v1[x] /\ v8[i][2] \in Nat
          BY <1>2, <1>5, <2>3, <2>4, <3>2, <4>1, <4>2 DEF Chat!SaidInv
        <5> QED  BY <1>3, <2>4, <4>2, <5>1
      <4>3. CASE j \in DOMAIN v8
        BY <1>2, <2>3, <3>1, <3>2, <4>1, <4>3 DEF Chat!OneTranscript
      <4> QED  BY <2>3, <4>2, <4>3
    <3>3. ASSUME NEW i \in DOMAIN q
          PROVE  \/ q[i][1] = v7 \/ q[i][1] \in v14'
                 \/ v7 = None /\ q[i][1] \notin Sessions
      BY <1>2, <1>4, <2>3, <2>4, <2>7, <3>1 DEF Chat!OneTranscript
    <3> QED  BY <3>2, <3>3
  <2> QED  BY <1>6, <2>5, <2>6, <2>8 DEF Chat!ChatInv
<1> QED  BY <1>1, <1>8, <1>9

(* The adapter accepts the latest socket, under its own session.           *)
LEMMA ChatAccept ==
  ASSUME Chat!ChatInv, Chat!Accept
  PROVE  Chat!ChatInv'
<1>1. /\ v11 = "connecting" /\ v11' = "open" /\ v3' = v3 \cup {<<Chat!Accepted, v10>>}
      /\ UNCHANGED <<v1, v4, v5, v6, v7, v8, v9, v10, v12, v13, v14>>
  BY DEF Chat!Accept, Chat!tabVars, Chat!historyVars
<1>2. /\ Chat!Types /\ Chat!GenerationInv /\ Chat!OutcomeInv /\ Chat!SocketInv /\ Chat!SaidInv
      /\ Chat!OneTranscript
  BY DEF Chat!ChatInv
<1>3. Chat!Accepted \in Chat!Ids /\ Chat!Accepted' = Chat!Accepted
  BY <1>1, <1>2 DEF Chat!Types, Chat!Accepted, Chat!Ids
<1>4. Chat!Types'
  BY <1>1, <1>2, <1>3 DEF Chat!Types
<1>5. Chat!SocketInv'
  <2>1. v10 \in Nat
    BY <1>2, ChatParameters DEF Chat!Types, Chat!Sockets, Chat!Parameters
  <2> QED  BY <1>1, <1>2, <1>3, <2>1 DEF Chat!SocketInv
<1>6. Chat!GenerationInv' /\ Chat!OutcomeInv' /\ Chat!SaidInv' /\ Chat!OneTranscript'
  BY <1>1, <1>2 DEF Chat!GenerationInv, Chat!OutcomeInv, Chat!SaidInv, Chat!OneTranscript
<1> QED  BY <1>4, <1>5, <1>6 DEF Chat!ChatInv

(* The sockets: what they leave alone is the rest.                         *)
LEMMA SocketMoves ==
  ASSUME Chat!ChatInv, Chat!Disconnected \/ Chat!Drop \/ Chat!Reconnect
  PROVE  Chat!ChatInv'
<1>1. /\ v3' \subseteq v3
      /\ \/ /\ UNCHANGED <<v11, v10>>
            /\ \A c \in v3 \ v3' : v11 # "open" \/ c[2] # v10
         \/ v11' = "down" /\ v11 = "open" /\ UNCHANGED <<v3, v10>>
         \/ /\ v11' = "connecting" /\ v10' = v10 + 1 /\ v10 < MaxSockets /\ UNCHANGED v3
      /\ UNCHANGED <<v1, v4, v5, v6, v7, v8, v9, v12, v13, v14>>
  BY DEF Chat!Disconnected, Chat!Drop, Chat!Reconnect, Chat!tabVars, Chat!historyVars,
         Chat!serverVars, Chat!socketVars
<1>2. /\ Chat!Types /\ Chat!GenerationInv /\ Chat!OutcomeInv /\ Chat!SocketInv /\ Chat!SaidInv
      /\ Chat!OneTranscript
  BY DEF Chat!ChatInv
<1>3. /\ v10 \in Nat /\ MaxSockets \in Nat /\ v10 >= 1 /\ v10 \in Chat!Sockets
      /\ v10 < MaxSockets => v10 + 1 \in Chat!Sockets
      /\ \A c \in v3 : c[2] \in Nat
  BY <1>2, ChatParameters DEF Chat!Types, Chat!Sockets, Chat!Parameters
<1>4. Chat!Types'
  BY <1>1, <1>2, <1>3 DEF Chat!Types
<1>5. Chat!SocketInv'
  <2>1. CASE UNCHANGED <<v11, v10>> /\ \A c \in v3 \ v3' : v11 # "open" \/ c[2] # v10
    BY <1>1, <1>2, <2>1 DEF Chat!SocketInv, Chat!Accepted
  <2>2. CASE v11' = "down" /\ v11 = "open" /\ UNCHANGED <<v3, v10>>
    BY <1>1, <1>2, <2>2 DEF Chat!SocketInv, Chat!Accepted
  <2>3. CASE v11' = "connecting" /\ v10' = v10 + 1 /\ v10 < MaxSockets /\ UNCHANGED v3
    <3>1. \A c \in v3' : c[2] < v10'
      BY <1>2, <1>3, <2>3 DEF Chat!SocketInv
    <3> QED  BY <1>1, <1>2, <1>3, <2>3, <3>1 DEF Chat!SocketInv
  <2> QED  BY <1>1, <2>1, <2>2, <2>3
<1>6. Chat!GenerationInv' /\ Chat!OutcomeInv' /\ Chat!SaidInv' /\ Chat!OneTranscript'
  BY <1>1, <1>2 DEF Chat!GenerationInv, Chat!OutcomeInv, Chat!SaidInv, Chat!OneTranscript
<1> QED  BY <1>4, <1>5, <1>6 DEF Chat!ChatInv

(* A socket that is opened anew is known to nobody.                        *)
LEMMA Reopened ==
  ASSUME Chat!ChatInv, NEW s \in Sessions \cup {None}, Chat!ReopenSocket(s), v7' = s,
         UNCHANGED v3
  PROVE  Chat!SocketInv' /\ v9' \in Sessions \cup {None} /\ v10' \in Chat!Sockets
           /\ v11' = "connecting"
<1>1. v9' = s /\ v10' = v10 + 1 /\ v11' = "connecting" /\ v10 < MaxSockets
  BY DEF Chat!ReopenSocket
<1>2. /\ v10 \in Nat /\ v10' \in Chat!Sockets /\ \A c \in v3 : c[2] \in Nat /\ c[2] <= v10
  BY <1>1, ChatParameters DEF Chat!ChatInv, Chat!Types, Chat!SocketInv, Chat!Sockets,
     Chat!Parameters
<1>3. \A c \in v3' : c[2] < v10'
  BY <1>1, <1>2
<1> QED  BY <1>1, <1>2, <1>3 DEF Chat!SocketInv

(* What the user clicks.                                                   *)
LEMMA ChatFresh ==
  ASSUME Chat!ChatInv, Chat!Fresh, v4' \in Nat, v5' \subseteq v5,
         \A l \in v5' : l.gen < v4',
         UNCHANGED <<v1, v3, v13, v14>>
  PROVE  Chat!ChatInv'
<1>1. v8' = <<>> /\ v7' = None /\ v6' = None /\ v12' = None /\ Chat!ReopenSocket(None)
  BY DEF Chat!Fresh
<1>2. /\ Chat!Types /\ Chat!GenerationInv /\ Chat!OutcomeInv /\ Chat!SocketInv /\ Chat!SaidInv
      /\ Chat!OneTranscript
  BY DEF Chat!ChatInv
<1>3. Chat!SocketInv' /\ v9' \in Sessions \cup {None} /\ v10' \in Chat!Sockets
        /\ v11' = "connecting"
  BY <1>1, Reopened
<1>4. Chat!Types'
  BY <1>1, <1>2, <1>3, EmptyChat DEF Chat!Types
<1>5. Chat!GenerationInv'
  <2>1. \A l \in v5' : l.gen \in Nat /\ l.gen <= v4' /\ l.gen # v4'
    BY <1>2 DEF Chat!Types, Chat!ResumeCalls
  <2> QED  BY <1>2, <2>1 DEF Chat!GenerationInv
<1>6. Chat!OutcomeInv'
  BY <1>1 DEF Chat!OutcomeInv
<1>7. Chat!SaidInv' /\ Chat!OneTranscript'
  BY <1>1, <1>2, EmptyChat DEF Chat!SaidInv, Chat!OneTranscript
<1> QED  BY <1>3, <1>4, <1>5, <1>6, <1>7 DEF Chat!ChatInv

(* A new chat, or a resume given up: no call is of the new generation.     *)
LEMMA ChatResets ==
  ASSUME Chat!ChatInv, Chat!OnNewChat \/ Chat!OnCancelResume
  PROVE  Chat!ChatInv'
<1>1. /\ v4' = v4 + 1 /\ Chat!Fresh /\ UNCHANGED <<v1, v3, v5, v13, v14>>
  BY DEF Chat!OnNewChat, Chat!OnCancelResume, Chat!serverVars
<1>2. v4 \in Nat /\ \A l \in v5 : l.gen \in Nat /\ l.gen <= v4
  BY DEF Chat!ChatInv, Chat!Types, Chat!GenerationInv, Chat!ResumeCalls
<1>3. v4' \in Nat /\ \A l \in v5' : l.gen < v4'
  BY <1>1, <1>2
<1> QED  BY <1>1, <1>3, ChatFresh

(* A click on a listed session starts the only call of its generation.     *)
LEMMA ChatResume ==
  ASSUME Chat!ChatInv, NEW s \in Sessions, Chat!OnResumeSession(s)
  PROVE  Chat!ChatInv'
<1>1. PICK l : l = Chat!Load(v4 + 1, s)
  OBVIOUS
<1>2. /\ v4' = v4 + 1 /\ v5' = v5 \cup {l} /\ v12' = s
      /\ UNCHANGED <<v1, v3, v6, v7, v8, v9, v10, v11, v13, v14>>
  BY <1>1 DEF Chat!OnResumeSession, Chat!serverVars, Chat!socketVars
<1>3. /\ Chat!Types /\ Chat!GenerationInv /\ Chat!OutcomeInv /\ Chat!SocketInv /\ Chat!SaidInv
      /\ Chat!OneTranscript
  BY DEF Chat!ChatInv
<1>4. /\ v4 \in Nat /\ l.gen = v4' /\ l.session = s /\ l.frames = None /\ l \in Chat!ResumeCalls
      /\ \A k \in v5 : k.gen \in Nat /\ k.gen < v4'
  BY <1>1, <1>2, <1>3 DEF Chat!Types, Chat!Load, Chat!ResumeCalls, Chat!GenerationInv
<1>5. Chat!Types'
  BY <1>2, <1>3, <1>4 DEF Chat!Types
<1>6. Chat!GenerationInv' /\ Chat!OutcomeInv'
  <2>1. \A k \in v5' : k.gen <= v4' /\ (k.gen = v4' => k = l)
    BY <1>2, <1>4
  <2> QED  BY <1>2, <1>3, <1>4, <2>1 DEF Chat!GenerationInv, Chat!OutcomeInv
<1>7. Chat!SocketInv' /\ Chat!SaidInv' /\ Chat!OneTranscript'
  BY <1>2, <1>3, <1>4 DEF Chat!SocketInv, Chat!Accepted, Chat!SaidInv, Chat!OneTranscript
<1> QED  BY <1>5, <1>6, <1>7 DEF Chat!ChatInv

(* The frames go behind nothing, or the messages are mixed.                *)
LEMMA ChatContinue ==
  ASSUME Chat!ChatInv, Chat!OnContinueWithCurrentProvider
  PROVE  Chat!ChatInv'
<1>1. PICK f : f = Chat!Frames(v6.session, v6.frames)
  OBVIOUS
<1>2. /\ v6 # None /\ v6' = None /\ v7' = v6.session /\ v8' = v8 \o f
      /\ v13' = (v13 \/ v8 # <<>>)
      /\ Chat!ReopenSocket(v6.session)
      /\ UNCHANGED <<v1, v3, v4, v5, v12, v14>>
  BY <1>1 DEF Chat!OnContinueWithCurrentProvider, Chat!serverVars
<1>3. /\ Chat!Types /\ Chat!GenerationInv /\ Chat!OutcomeInv /\ Chat!SocketInv /\ Chat!SaidInv
      /\ Chat!OneTranscript
  BY DEF Chat!ChatInv
<1>4. v6.session \in Sessions /\ v6.session \in Chat!Ids /\ v6.frames \in Nat
  BY <1>2, <1>3 DEF Chat!Types, Chat!ResumeCalls, Chat!Ids
<1>5. /\ f \in Seq(Chat!Ids \X Nat) /\ DOMAIN f = 1..v6.frames
      /\ \A i \in DOMAIN f : f[i][1] = v6.session /\ f[i][2] = i
  <2>1. /\ f \in Seq(Chat!Ids \X Nat) /\ DOMAIN f = 1..v6.frames
        /\ \A i \in 1..v6.frames : f[i] = <<v6.session, i>>
    BY <1>1, <1>4, FramesAre
  <2> QED  BY <2>1
<1>6. Chat!SocketInv' /\ v9' \in Sessions \cup {None} /\ v10' \in Chat!Sockets
        /\ v11' = "connecting"
  BY <1>2, <1>4, Reopened
<1>7. v8 \in Seq(Chat!Ids \X Nat) /\ v8 \o f \in Seq(Chat!Ids \X Nat)
  BY <1>3, <1>5 DEF Chat!Types
<1>8. Chat!Types'
  BY <1>2, <1>3, <1>4, <1>6, <1>7 DEF Chat!Types
<1>9. Chat!GenerationInv' /\ Chat!OutcomeInv'
  BY <1>2, <1>3 DEF Chat!GenerationInv, Chat!OutcomeInv
<1>10. v6.frames <= v1[v6.session] /\ v1[v6.session] \in Nat
  BY <1>2, <1>3, <1>4 DEF Chat!SaidInv, Chat!Types
<1>11. Chat!SaidInv'
  <2>1. PICK q : q = v8 \o f
    OBVIOUS
  <2>2. ASSUME NEW i \in DOMAIN q  PROVE q[i][2] <= v1[q[i][1]]
    <3>1. (i \in DOMAIN v8 /\ q[i] = v8[i]) \/ \E j \in DOMAIN f : q[i] = f[j]
      <4>1. /\ v8 \in Seq(Chat!Ids \X Nat) /\ f \in Seq(Chat!Ids \X Nat)
            /\ i \in DOMAIN (v8 \o f) /\ q[i] = (v8 \o f)[i]
        BY <1>5, <1>7, <2>1, <2>2
      <4> QED  BY <4>1, Joined
    <3>2. \A j \in DOMAIN v8 : v8[j][2] <= v1[v8[j][1]]
      BY <1>3 DEF Chat!SaidInv
    <3>3. \A j \in DOMAIN f : f[j][2] <= v1[f[j][1]]
      BY <1>4, <1>5, <1>10
    <3> QED  BY <3>1, <3>2, <3>3
  <2> QED  BY <1>2, <1>3, <2>1, <2>2 DEF Chat!SaidInv
<1>12. Chat!OneTranscript'
  <2>1. SUFFICES ASSUME ~v13'  PROVE Chat!OneTranscript'
    BY DEF Chat!OneTranscript
  <2>2. v8 = <<>>
    BY <1>2, <2>1
  <2>3. v8' = f
    BY <1>2, <1>5, <2>2
  <2> QED  BY <1>2, <1>4, <1>5, <2>3 DEF Chat!OneTranscript
<1> QED  BY <1>6, <1>8, <1>9, <1>11, <1>12 DEF Chat!ChatInv

(* What the server answers.                                                *)
LEMMA ChatReads ==
  ASSUME Chat!ChatInv, NEW l \in v5, Chat!ReadFrames(l)
  PROVE  Chat!ChatInv'
<1>1. PICK n \in {v1[l.session] - 1, v1[l.session]} :
        /\ l.frames = None /\ v5' = (v5 \ {l}) \cup {[l EXCEPT !.frames = n]}
        /\ UNCHANGED <<v1, v3, v4, v6, v7, v8, v9, v10, v11, v12, v13,
                       v14>>
  BY DEF Chat!ReadFrames, Chat!serverVars, Chat!socketVars, Chat!historyVars
<1>2. /\ Chat!Types /\ Chat!GenerationInv /\ Chat!OutcomeInv /\ Chat!SocketInv /\ Chat!SaidInv
      /\ Chat!OneTranscript
  BY DEF Chat!ChatInv
<1>3. l \in Chat!ResumeCalls /\ l.session \in Chat!Ids /\ v1[l.session] \in Nat \ {0}
  BY <1>2 DEF Chat!Types, Chat!ResumeCalls, Chat!Ids
<1>4. PICK k : k = [l EXCEPT !.frames = n]
  OBVIOUS
<1>5. /\ k \in Chat!ResumeCalls /\ k.gen = l.gen /\ k.session = l.session /\ k.frames = n
      /\ n \in Nat /\ n <= v1[l.session] /\ v5' = (v5 \ {l}) \cup {k}
  <2>1. n \in Nat /\ n <= v1[l.session]
    BY <1>3
  <2> QED  BY <1>1, <1>3, <1>4, <2>1 DEF Chat!ResumeCalls
<1>6. Chat!Types'
  BY <1>1, <1>2, <1>5 DEF Chat!Types
<1>7. Chat!GenerationInv' /\ Chat!OutcomeInv'
  BY <1>1, <1>2, <1>5 DEF Chat!GenerationInv, Chat!OutcomeInv
<1>8. Chat!SocketInv' /\ Chat!SaidInv' /\ Chat!OneTranscript'
  BY <1>1, <1>2, <1>5 DEF Chat!SocketInv, Chat!Accepted, Chat!SaidInv, Chat!OneTranscript
<1> QED  BY <1>6, <1>7, <1>8 DEF Chat!ChatInv

(* An answer of an earlier generation changes nothing.                     *)
LEMMA ChatStale ==
  ASSUME Chat!ChatInv, NEW l \in v5, Chat!Stale(l)
  PROVE  Chat!ChatInv'
<1>1. /\ l.gen # v4 /\ v5' = v5 \ {l}
      /\ UNCHANGED <<v1, v3, v4, v6, v7, v8, v9, v10, v11, v12, v13,
                     v14>>
  BY DEF Chat!Stale, Chat!serverVars, Chat!socketVars, Chat!historyVars
<1>2. /\ Chat!Types /\ Chat!GenerationInv /\ Chat!OutcomeInv /\ Chat!SocketInv /\ Chat!SaidInv
      /\ Chat!OneTranscript
  BY DEF Chat!ChatInv
<1>3. Chat!Types'
  BY <1>1, <1>2 DEF Chat!Types
<1>4. Chat!GenerationInv' /\ Chat!OutcomeInv'
  BY <1>1, <1>2 DEF Chat!GenerationInv, Chat!OutcomeInv
<1>5. Chat!SocketInv' /\ Chat!SaidInv' /\ Chat!OneTranscript'
  BY <1>1, <1>2 DEF Chat!SocketInv, Chat!Accepted, Chat!SaidInv, Chat!OneTranscript
<1> QED  BY <1>3, <1>4, <1>5 DEF Chat!ChatInv

(* A call of the latest generation that fails leaves a fresh chat.         *)
LEMMA ChatFails ==
  ASSUME Chat!ChatInv, NEW l \in v5, Chat!FetchFails(l)
  PROVE  Chat!ChatInv'
<1>1. /\ l.gen = v4 /\ v5' = v5 \ {l} /\ Chat!Fresh
      /\ UNCHANGED <<v1, v3, v4, v13, v14>>
  BY DEF Chat!FetchFails, Chat!serverVars
<1>2. /\ v4 \in Nat
      /\ \A k \in v5 : k.gen \in Nat /\ k.gen <= v4 /\ (k.gen = l.gen => k = l)
  BY DEF Chat!ChatInv, Chat!Types, Chat!GenerationInv, Chat!ResumeCalls
<1>3. v4' \in Nat /\ \A k \in v5' : k.gen < v4'
  BY <1>1, <1>2
<1> QED  BY <1>1, <1>3, ChatFresh

(* The answer to the latest click is shown in place of what was there.     *)
LEMMA ChatHydrates ==
  ASSUME Chat!ChatInv, NEW l \in v5, Chat!Hydrates(l)
  PROVE  Chat!ChatInv'
<1>1. PICK f : f = Chat!Frames(l.session, l.frames)
  OBVIOUS
<1>2. /\ l.gen = v4 /\ l.frames # None /\ v5' = v5 \ {l} /\ v8' = f /\ v6' = None
      /\ v7' = l.session /\ Chat!ReopenSocket(l.session)
      /\ UNCHANGED <<v1, v3, v4, v12, v13, v14>>
  BY <1>1 DEF Chat!Hydrates, Chat!serverVars, Chat!historyVars
<1>3. /\ Chat!Types /\ Chat!GenerationInv /\ Chat!OutcomeInv /\ Chat!SocketInv /\ Chat!SaidInv
      /\ Chat!OneTranscript
  BY DEF Chat!ChatInv
<1>4. /\ l.session \in Sessions /\ l.session \in Chat!Ids /\ l.frames \in Nat
      /\ l.frames <= v1[l.session] /\ v1[l.session] \in Nat /\ l.session = v12
  BY <1>2, <1>3 DEF Chat!Types, Chat!ResumeCalls, Chat!Ids, Chat!SaidInv, Chat!GenerationInv
<1>5. /\ f \in Seq(Chat!Ids \X Nat) /\ DOMAIN f = 1..l.frames
      /\ \A i \in DOMAIN f : f[i][1] = l.session /\ f[i][2] = i
  <2>1. /\ f \in Seq(Chat!Ids \X Nat) /\ DOMAIN f = 1..l.frames
        /\ \A i \in 1..l.frames : f[i] = <<l.session, i>>
    BY <1>1, <1>4, FramesAre
  <2> QED  BY <2>1
<1>6. Chat!SocketInv' /\ v9' \in Sessions \cup {None} /\ v10' \in Chat!Sockets
        /\ v11' = "connecting"
  BY <1>2, <1>4, Reopened
<1>7. Chat!Types'
  BY <1>2, <1>3, <1>4, <1>5, <1>6 DEF Chat!Types
<1>8. Chat!GenerationInv' /\ Chat!OutcomeInv'
  BY <1>2, <1>3, <1>4 DEF Chat!GenerationInv, Chat!OutcomeInv
<1>9. Chat!SaidInv'
  <2>1. \A i \in DOMAIN f : f[i][2] <= v1[f[i][1]]
    BY <1>4, <1>5
  <2> QED  BY <1>2, <1>3, <2>1 DEF Chat!SaidInv
<1>10. Chat!OneTranscript'
  BY <1>2, <1>5 DEF Chat!OneTranscript
<1> QED  BY <1>6, <1>7, <1>8, <1>9, <1>10 DEF Chat!ChatInv

(* The answer to the latest click waits behind the banner.                 *)
LEMMA ChatWarns ==
  ASSUME Chat!ChatInv, NEW l \in v5, Chat!Warns(l)
  PROVE  Chat!ChatInv'
<1>1. /\ l.gen = v4 /\ l.frames # None /\ v5' = v5 \ {l} /\ v8' = <<>> /\ v6' = l
      /\ UNCHANGED <<v1, v3, v4, v7, v9, v10, v11, v12, v13, v14>>
  BY DEF Chat!Warns, Chat!serverVars, Chat!socketVars, Chat!historyVars
<1>2. /\ Chat!Types /\ Chat!GenerationInv /\ Chat!OutcomeInv /\ Chat!SocketInv /\ Chat!SaidInv
      /\ Chat!OneTranscript
  BY DEF Chat!ChatInv
<1>3. l \in Chat!ResumeCalls /\ l.session = v12 /\ l # None
  BY <1>1, <1>2, ChatParameters DEF Chat!Types, Chat!GenerationInv, Chat!Parameters
<1>4. Chat!Types'
  BY <1>1, <1>2, <1>3, EmptyChat DEF Chat!Types
<1>5. Chat!GenerationInv' /\ Chat!OutcomeInv'
  BY <1>1, <1>2, <1>3 DEF Chat!GenerationInv, Chat!OutcomeInv
<1>6. Chat!SocketInv' /\ Chat!SaidInv' /\ Chat!OneTranscript'
  BY <1>1, <1>2, EmptyChat DEF Chat!SocketInv, Chat!Accepted, Chat!SaidInv, Chat!OneTranscript
<1> QED  BY <1>4, <1>5, <1>6 DEF Chat!ChatInv

(* The step of it.                                                         *)
LEMMA ChatStep == Chat!ChatInv /\ [Chat!Next]_(Chat!vars) => Chat!ChatInv'
<1>1. SUFFICES ASSUME Chat!ChatInv, [Chat!Next]_(Chat!vars)  PROVE Chat!ChatInv'
  OBVIOUS
<1>2. CASE UNCHANGED Chat!vars
  BY <1>1, <1>2 DEF Chat!vars, Chat!serverVars, Chat!tabVars, Chat!socketVars, Chat!historyVars,
     Chat!ChatInv, Chat!Types,
     Chat!GenerationInv, Chat!OutcomeInv, Chat!SocketInv, Chat!Accepted, Chat!SaidInv,
     Chat!OneTranscript
<1>3. CASE Chat!Next
  BY <1>1, <1>3, ChatDeliver, ChatAccept, SocketMoves, ChatResets, ChatResume, ChatContinue,
     ChatReads, ChatStale, ChatFails, ChatHydrates, ChatWarns DEF Chat!Next
<1> QED  BY <1>1, <1>2, <1>3

(* An event is counted once, and said by its session.                      *)
LEMMA ChatCounts ==
  Chat!ChatInv /\ Chat!EventsInv /\ [Chat!Next]_(Chat!vars) => Chat!EventsInv'
<1> SUFFICES ASSUME Chat!ChatInv, Chat!EventsInv, [Chat!Next]_(Chat!vars)
             PROVE  Chat!EventsInv'
  OBVIOUS
<1> USE DEF Chat!serverVars, Chat!tabVars, Chat!socketVars, Chat!historyVars
<1>1. Chat!Types /\ MaxEvents \in Nat
  BY ChatParameters DEF Chat!ChatInv, Chat!Parameters
<1>2. CASE UNCHANGED <<v1, v2, v15>>
  BY <1>2 DEF Chat!EventsInv
<1>3. ASSUME NEW x \in Chat!Ids, Chat!Deliver(x)  PROVE Chat!EventsInv'
  <2>1. /\ v15' = v15 + 1 /\ v15 < MaxEvents /\ v1' = [v1 EXCEPT ![x] = @ + 1] /\ v2' = v2
        /\ v1 \in [Chat!Ids -> Nat \ {0}]
    BY <1>1, <1>3 DEF Chat!Deliver, Chat!Types
  <2>2. v15' \in 0..MaxEvents /\ \A y \in Chat!Ids : v1'[y] <= v15' + 1
    BY <1>1, <2>1 DEF Chat!EventsInv
  <2> QED  BY <2>1, <2>2 DEF Chat!EventsInv
<1>4. CASE Chat!Accept
  <2>1. v2' = v2 \cup {Chat!Accepted} /\ UNCHANGED <<v1, v15>>
    BY <1>4 DEF Chat!Accept
  <2>2. Chat!Accepted \in Chat!Ids
    BY <1>1 DEF Chat!Types, Chat!Accepted, Chat!Ids
  <2> QED  BY <2>1, <2>2 DEF Chat!EventsInv
<1>5. CASE \/ Chat!Disconnected \/ Chat!Drop \/ Chat!Reconnect
           \/ Chat!OnNewChat \/ Chat!OnContinueWithCurrentProvider \/ Chat!OnCancelResume
           \/ \E s \in Sessions : Chat!OnResumeSession(s)
           \/ \E l \in v5 : \/ Chat!ReadFrames(l) \/ Chat!Stale(l) \/ Chat!FetchFails(l)
                            \/ Chat!Hydrates(l) \/ Chat!Warns(l)
  <2>1. UNCHANGED <<v1, v2, v15>>
    BY <1>5 DEF Chat!Disconnected, Chat!Drop, Chat!Reconnect, Chat!OnNewChat,
       Chat!OnContinueWithCurrentProvider, Chat!OnCancelResume, Chat!OnResumeSession,
       Chat!ReadFrames, Chat!Stale, Chat!FetchFails, Chat!Hydrates, Chat!Warns
  <2> QED  BY <1>2, <2>1
<1>6. CASE UNCHANGED Chat!vars
  BY <1>2, <1>6 DEF Chat!vars
<1>7. CASE Chat!Next
  BY <1>3, <1>4, <1>5, <1>7 DEF Chat!Next
<1> QED  BY <1>6, <1>7

(* A behaviour is the tab's alone, or not the tab's at all.                *)
LEMMA ChatAlone == Spec => Chat!Spec \/ [](part # "chat")
<1>1. Init => (part = "chat" /\ Chat!Init) \/ part # "chat"
  BY DEF Init
<1>2. part = "chat" /\ [Next]_vars => [Chat!Next]_(Chat!vars) /\ (part = "chat")'
  BY DEF Next, vars, Chat!vars, Chat!serverVars, Chat!tabVars, Chat!socketVars, Chat!historyVars
<1>3. part # "chat" /\ [Next]_vars => (part # "chat")'
  BY DEF Next, vars
<1> QED  BY <1>1, <1>2, <1>3, PTL DEF Spec, Chat!Spec

(* A tab shows the session clicked last, its events once and in order, and *)
(* sends what is typed to it (chat-shell.ts:384-490, web/plugin.py:466-599).*)
THEOREM ServicesTabShowsWhatWasAsked == Spec => []ShowsWhatWasAsked
<1>1. Chat!ChatInv \/ part # "chat" => ShowsWhatWasAsked
  <2>1. Chat!ChatInv => Chat!LastClickWins /\ Chat!OneTranscript
    BY DEF Chat!ChatInv, Chat!OutcomeInv, Chat!LastClickWins
  <2>2. Chat!ChatInv => Chat!TypedWhereShown
    BY DEF Chat!ChatInv, Chat!SocketInv, Chat!Accepted, Chat!TypedWhereShown
  <2> QED  BY <2>1, <2>2 DEF ShowsWhatWasAsked, Chat!ShowsWhatWasAsked
<1> QED  BY <1>1, ChatInit, ChatStep, ChatAlone, PTL DEF Chat!Spec

-----------------------------------------------------------------------------
(* Every variable of the part that runs has its type; a request for the    *)
(* configuration waits for one write or one event of its own, a message is *)
(* lost only when it was typed, and no session says more than all have     *)
(* (registry.py:300-348, config_store.py:321-374, serve.py:338-445,        *)
(* web/plugin.py:466-599).                                                 *)
THEOREM ServicesTypes == Reg!Serial /\ Spec => []TypeOK
<1>1. /\ Reg!TypeOK \/ part # "registry"
      /\ Config!TypeOK \/ part # "config"
      /\ Bridge!TypeOK \/ part # "bridge"
      /\ Bridges!TypeOK \/ part # "bridges"
      /\ Agent!TypeOK \/ part # "agent"
      /\ Bash!TypeOK \/ part # "bash"
      /\ React!TypeOK \/ part # "react"
      /\ Server!TypeOK \/ part # "server"
      /\ Chat!TypeOK \/ part # "chat"
      => TypeOK
  BY DEF TypeOK
<1>2. Chat!Init => Chat!EventsInv
  BY ChatParameters DEF Chat!Init, Chat!EventsInv, Chat!Parameters, Chat!Ids
<1>3. Chat!ChatInv /\ Chat!EventsInv => Chat!TypeOK
  <2>1. SUFFICES ASSUME Chat!ChatInv, Chat!EventsInv  PROVE Chat!TypeOK
    OBVIOUS
  <2>2. Chat!Types /\ MaxEvents \in Nat
    BY <2>1, ChatParameters DEF Chat!ChatInv, Chat!Parameters
  <2>3. v1 \in [Chat!Ids -> 1..MaxEvents + 1]
    BY <2>1, <2>2 DEF Chat!Types, Chat!EventsInv
  <2> QED  BY <2>1, <2>2, <2>3 DEF Chat!Types, Chat!EventsInv, Chat!TypeOK
<1>4. Chat!Spec => []Chat!TypeOK
  BY <1>2, <1>3, ChatInit, ChatStep, ChatCounts, PTL DEF Chat!Spec
<1>5. Server!Spec => []Server!TypeOK
  BY ServeEnds, ServeInvariance, PTL
<1>6. Agent!Spec => []Agent!TypeOK
  <2>1. Agent!AgentInv => Agent!TypeOK  BY DEF Agent!AgentInv
  <2> QED  BY <2>1, AgentParameters, AgentInit, AgentStep, PTL DEF Agent!Spec
<1>7. Bash!Spec => []Bash!TypeOK
  <2>1. Bash!BashInv => Bash!TypeOK  BY DEF Bash!BashInv
  <2> QED  BY <2>1, BashParameters, BashInit, BashStep, PTL DEF Bash!Spec
<1>8. React!Spec => []React!TypeOK
  <2>1. React!ReactInv => React!TypeOK  BY DEF React!ReactInv
  <2> QED  BY <2>1, ReactParameters, ReactInit, ReactStep, PTL DEF React!Spec
<1>9. Reg!Spec /\ Reg!Serial => []Reg!TypeOK
  BY RegistryParameters, Reg!RegistryTypes, PTL
<1>10. Config!Spec => []Config!TypeOK
  BY ConfigParameters, Config!ConfigTypes, PTL
<1>11. (Bridge!Spec => []Bridge!TypeOK) /\ (Bridges!Spec => []Bridges!TypeOK)
  BY BridgeParameters, Bridge!BridgeTypes, Bridges!BridgeTypes, PTL
<1> QED
  BY <1>1, <1>4, <1>5, <1>6, <1>7, <1>8, <1>9, <1>10, <1>11, RegistryAlone, ConfigAlone,
     BridgeAlone, BridgesAlone, AgentAlone, BashAlone, ReactAlone, ServeAlone, ChatAlone, PTL
=============================================================================
