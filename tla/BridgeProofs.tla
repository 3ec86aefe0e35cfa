---------------------------- MODULE BridgeProofs ----------------------------
(***************************************************************************)
(* Proofs about the MCP bridge, for every list of servers, every number of *)
(* attempts and every set of calls.  An id of a client belongs to one      *)
(* caller wherever it turns up, so no answer reaches another; whoever      *)
(* waits without a value has an entry that the reader, the answer or the   *)
(* end of the reader will find; what a server's stage says of its client   *)
(* accounts for the processes and the tools.                               *)
(***************************************************************************)
EXTENDS McpBridge, TLAPS

(* A server and an attempt at it.                                          *)
LEMMA ClientIs ==
  ASSUME NEW s \in Booted, NEW n \in 1..Attempts
  PROVE  <<s, n>> \in Clients /\ <<s, n>>[1] = s /\ <<s, n>>[2] = n
BY DEF Clients

(* A client is a server and an attempt.                                    *)
LEMMA OfClient ==
  ASSUME Parameters, NEW k \in Clients
  PROVE  k[1] \in Booted /\ k[2] \in Nat /\ k[2] >= 1 /\ k = <<k[1], k[2]>>
BY DEF Clients, Parameters

(* The future of a caller fails with its client, if it waits.              *)
LEMMA FailIs ==
  ASSUME Parameters, Types, NEW k \in Clients
  PROVE  /\ Fail(k) \in [Callers -> Call]
         /\ \A c \in Callers :
              /\ Fail(k)[c].at = call[c].at /\ Fail(k)[c].client = call[c].client
              /\ Fail(k)[c].id = call[c].id
              /\ Fail(k)[c].future # call[c].future =>
                   Fail(k)[c].future = "crashed" /\ call[c].future = None
              /\ call[c].at \in Busy /\ call[c].client = k
                   /\ [id |-> call[c].id, who |-> c] \in pending[k]
                   => Fail(k)[c].future # None
<1> SUFFICES ASSUME NEW c \in Callers
             PROVE  /\ Fail(k)[c] \in Call
                    /\ Fail(k)[c].at = call[c].at /\ Fail(k)[c].client = call[c].client
                    /\ Fail(k)[c].id = call[c].id
                    /\ Fail(k)[c].future # call[c].future =>
                         Fail(k)[c].future = "crashed" /\ call[c].future = None
                    /\ call[c].at \in Busy /\ call[c].client = k
                         /\ [id |-> call[c].id, who |-> c] \in pending[k]
                         => Fail(k)[c].future # None
  BY DEF Fail
<1>1. PICK r : r = call[c]  OBVIOUS
<1>2. r \in Call  BY <1>1 DEF Types
<1>3. Fail(k)[c] = IF \E p \in pending[k] : p.who = c /\ Waits(c, k, p.id) /\ r.future = None
                   THEN [r EXCEPT !.future = "crashed"] ELSE r
  BY <1>1 DEF Fail
<1>4. "crashed" # None /\ "crashed" \in Verdicts  BY DEF Verdicts, Parameters
<1>5. PICK q : q = [r EXCEPT !.future = "crashed"]  OBVIOUS
<1>6. q \in Call /\ q.at = r.at /\ q.client = r.client /\ q.id = r.id /\ q.future = "crashed"
  BY <1>2, <1>4, <1>5 DEF Call
<1>7. r.at \in Busy /\ r.client = k /\ [id |-> r.id, who |-> c] \in pending[k]
        => \E p \in pending[k] : p.who = c /\ Waits(c, k, p.id)
  BY <1>1 DEF Waits
<1> QED  BY <1>1, <1>2, <1>3, <1>4, <1>5, <1>6, <1>7

(* A caller goes on, and its future gets a value.                          *)
LEMMA AtIs ==
  ASSUME Types, NEW c \in Callers, NEW at \in Busy \cup {"done"},
         call' = [call EXCEPT ![c].at = at]
  PROVE  /\ call' \in [Callers -> Call] /\ \A d \in Callers : d # c => call'[d] = call[d]
         /\ call'[c].at = at /\ call'[c].client = call[c].client /\ call'[c].id = call[c].id
         /\ call'[c].future = call[c].future
<1>1. PICK q : q = [call[c] EXCEPT !.at = at]  OBVIOUS
<1>2. call[c] \in Call /\ call \in [Callers -> Call]  BY DEF Types
<1>3. /\ q \in Call /\ q.at = at /\ q.client = call[c].client /\ q.id = call[c].id
      /\ q.future = call[c].future
  BY <1>1, <1>2 DEF Call
<1>4. call' = [call EXCEPT ![c] = q]  BY <1>1
<1> QED  BY <1>2, <1>3, <1>4

(* A call that ends keeps its client and its id.                           *)
LEMMA EndIs ==
  ASSUME Types, NEW c \in Callers, NEW f \in Verdicts,
         call' = [call EXCEPT ![c].at = "done", ![c].future = f]
  PROVE  /\ call' \in [Callers -> Call] /\ \A d \in Callers : d # c => call'[d] = call[d]
         /\ call'[c].at = "done" /\ call'[c].client = call[c].client /\ call'[c].id = call[c].id
         /\ call'[c].future = f
<1>1. PICK q : q = [call[c] EXCEPT !.at = "done", !.future = f]  OBVIOUS
<1>2. call[c] \in Call /\ call \in [Callers -> Call]  BY DEF Types
<1>3. /\ q \in Call /\ q.at = "done" /\ q.client = call[c].client /\ q.id = call[c].id
      /\ q.future = f
  BY <1>1, <1>2 DEF Call
<1>4. call' = [call EXCEPT ![c] = q]  BY <1>1
<1> QED  BY <1>2, <1>3, <1>4

(* A request is on its way: its caller, and the entry its client keeps.    *)
LEMMA RequestIs ==
  ASSUME Parameters, Types, NEW c \in Callers, NEW k \in Clients, NEW readers,
         Request(c, k, readers)
  PROVE  /\ call' \in [Callers -> Call] /\ \A d \in Callers : d # c => call'[d] = call[d]
         /\ call'[c].at = "lock" /\ call'[c].client = k /\ call'[c].id = nextId[k]
         /\ call'[c].future = None
         /\ nextId' \in [Clients -> Nat] /\ nextId'[k] = nextId[k] + 1
         /\ \A j \in Clients : j # k => nextId'[j] = nextId[j] /\ pending'[j] = pending[j]
         /\ pending' \in [Clients -> SUBSET Entry]
         /\ pending'[k] = pending[k] \cup {[id |-> nextId[k], who |-> c]}
         /\ late' \in SUBSET Callers /\ late \in SUBSET late' /\ (c \in late' \/ k \in readers)
<1>1. PICK q : q = [at |-> "lock", client |-> k, id |-> nextId[k], future |-> None]  OBVIOUS
<1>2. PICK e : e = [id |-> nextId[k], who |-> c]  OBVIOUS
<1>3. call \in [Callers -> Call] /\ nextId \in [Clients -> Nat]
        /\ pending \in [Clients -> SUBSET Entry]
      /\ late \in SUBSET Callers
  BY DEF Types
<1>4. /\ q \in Call /\ q.at = "lock" /\ q.client = k /\ q.id = nextId[k] /\ q.future = None
  BY <1>1, <1>3 DEF Call, Busy, Verdicts
<1>5. e \in Entry  BY <1>2, <1>3 DEF Entry
<1>6. /\ call' = [call EXCEPT ![c] = q] /\ nextId' = [nextId EXCEPT ![k] = @ + 1]
      /\ pending' = [pending EXCEPT ![k] = @ \cup {e}]
      /\ late' = IF k \in readers THEN late ELSE late \cup {c}
  BY <1>1, <1>2 DEF Request
<1> QED  BY <1>2, <1>3, <1>4, <1>5, <1>6

(* What a caller's own entry is, and who else's are left.                  *)
LEMMA PoppedIs ==
  ASSUME Types, NEW c \in Callers, call[c].client \in Clients
  PROVE  /\ Popped(c) \in [Clients -> SUBSET Entry]
         /\ \A k \in Clients : Popped(c)[k] \in SUBSET pending[k]
         /\ \A k \in Clients : \A p \in pending[k] : p.who # c => p \in Popped(c)[k]
         /\ \A k \in Clients : \A p \in Popped(c)[k] : ~(p.who = c /\ k = call[c].client
              /\ p.id = call[c].id)
<1>1. PICK e : e = [id |-> call[c].id, who |-> c]  OBVIOUS
<1>2. call[c] \in Call /\ pending \in [Clients -> SUBSET Entry]  BY DEF Types
<1>3. Popped(c) = [pending EXCEPT ![call[c].client] = @ \ {e}]  BY <1>1 DEF Popped
<1>4. \A p \in Entry : p.who = c /\ p.id = call[c].id => p = e  BY <1>1 DEF Entry
<1>5. e.who = c  BY <1>1
<1> QED  BY <1>2, <1>3, <1>4, <1>5

(* Releasing a lock leaves every lock a caller's or nobody's.              *)
LEMMA ReleasedIs ==
  ASSUME Types, NEW c \in Callers
  PROVE  Released(c) \in [Clients -> Callers \cup {None}]
BY DEF Released, Types

-----------------------------------------------------------------------------
(* The plugin's own state stands still while callers and children move.    *)
PluginStill ==
  /\ config' = config /\ phase' = phase /\ stage' = stage /\ attempt' = attempt
  /\ records' = records /\ leaving' = leaving /\ tools' = tools /\ told' = told
  /\ closed' = closed /\ running' \in SUBSET running /\ reading' \in SUBSET reading

(* What is known of it is then kept.                                       *)
LEMMA StillPlugin ==
  ASSUME StageInv, RecordInv, NothingLeft, PluginStill
  PROVE  StageInv' /\ RecordInv' /\ NothingLeft'
<1>1. StageInv'
  BY DEF StageInv, PluginStill, Client
<1>2. RecordInv'
  BY DEF RecordInv, PluginStill, OneEach, Kept
<1>3. NothingLeft'
  BY DEF NothingLeft, PluginStill
<1> QED  BY <1>1, <1>2, <1>3

-----------------------------------------------------------------------------
(* A step without a new request: whoever waits after it waited before it,  *)
(* for the same answer; a future that has no value yet has its entry and   *)
(* its reader as before; nothing new is anywhere on its way.               *)
GoesOn(c) ==
  /\ call'[c].at # "idle" => /\ call'[c].client \in Clients
                             /\ call'[c].client[2] <= attempt'[call'[c].client[1]]
  /\ call'[c].future \in {c} \cup Verdicts /\ (call'[c].at = "done" => call'[c].future # None)
  /\ call'[c].at \in Busy =>
       /\ call[c].at \in Busy /\ call'[c].client = call[c].client /\ call'[c].id = call[c].id
       /\ c \in Booted => stage'[c] = stage[c]
  /\ call'[c].at \in Busy /\ call'[c].future = None =>
       LET k == call[c].client
           e == [id |-> call[c].id, who |-> c]
       IN  /\ call[c].future = None
           /\ e \in pending[k] => e \in pending'[k]
           /\ k \in reading /\ k \notin closed => k \in reading' /\ k \notin closed'

NothingNew(k) ==
  /\ \A e \in Uses(k)' : e \in Uses(k)
  /\ \A p \in pending'[k] :
       p \in pending[k] /\ (p.who \in stuck' \/ (Waits(p.who, k, p.id) => Waits(p.who, k, p.id)'))

GoOn ==
  /\ nextId' = nextId /\ late' = late /\ stuck \in SUBSET stuck'
  /\ \A c \in Callers : GoesOn(c)
  /\ \A k \in Clients : NothingNew(k)

CallsInv == Parameters /\ Types /\ CallInv /\ OwnIds /\ Expected /\ NobodyHangs

(* Such a step keeps what is known of the calls.                           *)
LEMMA GoOnKeeps ==
  ASSUME CallsInv, Types', GoOn
  PROVE  CallInv' /\ OwnIds' /\ Expected' /\ NobodyHangs'
<1> USE DEF CallsInv, GoOn
<1>1. CallInv'
  BY DEF CallInv, GoesOn
<1>2. OwnIds'
  BY DEF OwnIds, NothingNew
<1>3. Expected'
  BY DEF Expected, GoesOn
<1>4. ASSUME NEW c \in Callers, call'[c].at \in Busy, call'[c].future = None
      PROVE  c \in late' \/ (call'[c].client \in reading' /\ call'[c].client \notin closed')
  BY <1>4 DEF NobodyHangs, GoesOn
<1>5. ASSUME NEW k \in Clients, NEW p \in pending'[k]
      PROVE  p.who \in stuck' \/ Waits(p.who, k, p.id)'
  BY <1>5 DEF NobodyHangs, NothingNew
<1>6. NobodyHangs'
  BY <1>4, <1>5 DEF NobodyHangs
<1> QED  BY <1>1, <1>2, <1>3, <1>6

(* The entries of a client are its own: what is nobody else's.             *)
LEMMA SameCalls ==
  ASSUME CallsInv, call' = call, nextId' = nextId, pending' = pending, late' = late, stuck' = stuck,
         \A s \in Booted : attempt'[s] >= attempt[s]
           /\ (stage'[s] = stage[s] \/ call[s].at \notin Busy),
         attempt' \in [Booted -> 0..Attempts],
         \A c \in Callers :
           call[c].at \in Busy /\ call[c].client \in reading /\ call[c].client \notin closed =>
             call[c].client \in reading' /\ call[c].client \notin closed',
         \A k \in Clients : Uses(k)' \in SUBSET Uses(k)
  PROVE  GoOn
<1>1. ASSUME NEW c \in Callers  PROVE GoesOn(c)
  <2>1. call[c] \in Call  BY DEF CallsInv, Types
  <2>2. call[c].client \in Clients => call[c].client[1] \in Booted /\ call[c].client[2] \in Nat
    BY OfClient DEF CallsInv
  <2> QED  BY <2>1, <2>2 DEF GoesOn, CallsInv, CallInv, Types
<1>2. ASSUME NEW k \in Clients  PROVE NothingNew(k)
  BY DEF NothingNew, Waits
<1> QED  BY <1>1, <1>2 DEF GoOn

(* What is used at a client, before a step and after it.                   *)
LEMMA UsesIs ==
  ASSUME NEW k \in Clients, NEW e
  PROVE  /\ e \in Uses(k) <=>
              \/ e \in pending[k] \/ e \in asked[k]
              \/ \E n \in DOMAIN out[k] : e = [id |-> out[k][n].id, who |-> out[k][n].who]
              \/ \E c \in Callers : /\ call[c].at \in Busy /\ call[c].client = k
                                    /\ e = [id |-> call[c].id, who |-> c]
         /\ e \in Uses(k)' <=>
              \/ e \in pending'[k] \/ e \in asked'[k]
              \/ \E n \in DOMAIN out'[k] : e = [id |-> out'[k][n].id, who |-> out'[k][n].who]
              \/ \E c \in Callers : /\ call'[c].at \in Busy /\ call'[c].client = k
                                    /\ e = [id |-> call'[c].id, who |-> c]
BY DEF Uses, Range

(* Nothing new is in use after a step that adds nothing.                   *)
LEMMA NoMoreUses ==
  ASSUME NEW k \in Clients, \A e \in pending'[k] : e \in Uses(k),
           \A e \in asked'[k] : e \in Uses(k),
         \A n \in DOMAIN out'[k] : [id |-> out'[k][n].id, who |-> out'[k][n].who] \in Uses(k),
         \A c \in Callers :
           call'[c].at \in Busy /\ call'[c].client = k =>
             call[c].at \in Busy /\ call[c].client = k /\ call'[c].id = call[c].id
  PROVE  \A e \in Uses(k)' : e \in Uses(k)
BY UsesIs

(* A caller's step that ends it, or keeps it waiting.                      *)
LEMMA OneCaller ==
  ASSUME CallsInv, NEW c \in Callers, nextId' = nextId, late' = late, stuck \in SUBSET stuck',
         stage' = stage, attempt' = attempt, reading' = reading, closed' = closed, out' = out,
         call' \in [Callers -> Call], \A d \in Callers : d # c => call'[d] = call[d],
         call'[c].client \in Clients,
         call[c].at # "idle" => call'[c].client = call[c].client /\ call'[c].id = call[c].id,
         call[c].at = "idle" =>
           call'[c].client[2] <= attempt[call'[c].client[1]] /\ call'[c].at \notin Busy,
         call'[c].at \in Busy => call[c].at \in Busy /\ call'[c].future = call[c].future,
         call'[c].future \in {c} \cup Verdicts, call'[c].at = "done" => call'[c].future # None,
         \A k \in Clients : pending'[k] \in SUBSET pending[k],
         \A k \in Clients : \A p \in pending[k] :
           p.who # c \/ call'[c].at \in Busy => p \in pending'[k],
         \A k \in Clients : \A p \in pending'[k] :
           p.who = c => p.who \in stuck' \/ call'[c].at \in Busy \/ ~Waits(c, k, p.id),
         \A k \in Clients : \A e \in asked'[k] : e \in Uses(k)
  PROVE  GoOn
<1>0. Types /\ CallInv  BY DEF CallsInv
<1>1. ASSUME NEW d \in Callers  PROVE GoesOn(d)
  <2>1. CASE d # c
    <3>1. call[d] \in Call /\ call'[d] = call[d]  BY <1>0, <2>1 DEF Types
    <3>2. \A k \in Clients, i \in Nat :
            [id |-> i, who |-> d] \in pending[k] => [id |-> i, who |-> d] \in pending'[k]
      BY <2>1
    <3>3. call[d].id \in Nat  BY <3>1 DEF Call
    <3>4. call[d].at # "idle" => call[d].client \in Clients  BY <1>0 DEF CallInv
    <3>5. call[d].at \in Busy => call[d].at # "idle"  BY DEF Busy
    <3> QED  BY <1>0, <3>1, <3>2, <3>3, <3>4, <3>5 DEF GoesOn, CallInv
  <2>2. CASE d = c
    <3>1. call[c] \in Call /\ call'[c] \in Call  BY <1>0 DEF Types
    <3>2. call[c].at # "idle" => call[c].client \in Clients  BY <1>0 DEF CallInv
    <3>3. call[c].at \in Busy => call[c].at # "idle"  BY DEF Busy
    <3>4. call[c].at # "idle" => call[c].client[2] <= attempt[call[c].client[1]]
      BY <1>0 DEF CallInv
    <3>5. \A k \in Clients, i \in Nat : call'[c].at \in Busy =>
            ([id |-> i, who |-> c] \in pending[k] => [id |-> i, who |-> c] \in pending'[k])
      OBVIOUS
    <3>6. call[c].id \in Nat  BY <3>1 DEF Call
    <3>7. call'[c].at # "idle" => /\ call'[c].client \in Clients
                                  /\ call'[c].client[2] <= attempt'[call'[c].client[1]]
      BY <3>2, <3>4
    <3> QED  BY <2>2, <3>2, <3>3, <3>5, <3>6, <3>7 DEF GoesOn
  <2> QED  BY <2>1, <2>2
<1>2. ASSUME NEW k \in Clients  PROVE NothingNew(k)
  <2>1. \A e \in pending'[k] : e \in Uses(k)  BY UsesIs
  <2>2. \A n \in DOMAIN out'[k] : [id |-> out'[k][n].id, who |-> out'[k][n].who] \in Uses(k)
    BY UsesIs
  <2>3. \A d \in Callers :
          call'[d].at \in Busy /\ call'[d].client = k =>
            call[d].at \in Busy /\ call[d].client = k /\ call'[d].id = call[d].id
    BY DEF Busy
  <2>4. \A e \in Uses(k)' : e \in Uses(k)  BY <2>1, <2>2, <2>3, NoMoreUses
  <2>5. ASSUME NEW p \in pending'[k]
        PROVE  p \in pending[k]
                 /\ (p.who \in stuck' \/ (Waits(p.who, k, p.id) => Waits(p.who, k, p.id)'))
    <3>1. p \in Entry  BY <1>0 DEF Types
    <3>2. p.who \in Callers  BY <3>1 DEF Entry
    <3>3. p.who = c /\ call'[c].at \in Busy => (Waits(c, k, p.id) => Waits(c, k, p.id)')
      BY DEF Waits, Busy
    <3> QED  BY <3>2, <3>3 DEF Waits
  <2> QED  BY <2>4, <2>5 DEF NothingNew
<1> QED  BY <1>1, <1>2 DEF GoOn

(* The steps of a caller.                                                  *)
LEMMA StillTypes ==
  ASSUME Types, PluginStill, nextId' = nextId, lock' \in [Clients -> Callers \cup {None}],
         pending' \in [Clients -> SUBSET Entry], asked' \in [Clients -> SUBSET Entry],
         out' \in [Clients -> Seq(Line)], call' \in [Callers -> Call], late' = late,
         stuck' \in SUBSET Callers
  PROVE  Types'
BY DEF Types, PluginStill

(* A tool call that finds its tool, or does not.                           *)
LEMMA LookupGoesOn ==
  ASSUME CallsInv, NothingLeft, NEW c \in Calls, Lookup(c)
  PROVE  Types' /\ PluginStill /\ GoOn
<1>1. /\ PluginStill /\ nextId' = nextId /\ pending' = pending /\ lock' = lock /\ asked' = asked
      /\ out' = out /\ late' = late /\ stuck' = stuck /\ reading' = reading
  BY DEF Lookup, PluginStill, pluginVars, processVars, clientVars, historyVars
<1>2. c \in Callers /\ call[c] = Idle  BY DEF Lookup, Callers
<1>3. Types /\ Parameters  BY DEF CallsInv
<1>4. PICK t \in Names :
        /\ tools[t] # None
        /\ call' = [call EXCEPT ![c] = [Idle EXCEPT !.at = "found", !.client = tools[t]]]
  BY DEF Lookup
<1>5. PICK q : q = [Idle EXCEPT !.at = "found", !.client = tools[t]]  OBVIOUS
<1>6. tools[t] \in Clients /\ tools[t][2] = attempt[tools[t][1]]
  BY <1>3, <1>4 DEF Types, NothingLeft
<1>7. q \in Call /\ q.at = "found" /\ q.client = tools[t] /\ q.future = None
  BY <1>5, <1>6 DEF Call, Idle, Verdicts
<1>8. /\ call' \in [Callers -> Call] /\ \A d \in Callers : d # c => call'[d] = call[d]
      /\ call'[c] = q
  BY <1>2, <1>3, <1>4, <1>5, <1>7 DEF Types
<1>9. Types'
  BY <1>1, <1>3, <1>8, StillTypes DEF Types
<1>10. tools[t][2] <= attempt[tools[t][1]]
  BY <1>3, <1>6, OfClient DEF Types
<1>11. call[c].at = "idle" /\ call'[c].at = "found" /\ call'[c].future = None
  BY <1>2, <1>7, <1>8 DEF Idle
<1>12. \A k \in Clients : \A e \in asked'[k] : e \in Uses(k)  BY <1>1, UsesIs
<1>13. \A k \in Clients : \A p \in pending'[k] : ~Waits(c, k, p.id)
  BY <1>11 DEF Waits, Busy
<1>14. call'[c].client \in Clients /\ call'[c].client[2] <= attempt[call'[c].client[1]]
  BY <1>6, <1>7, <1>8, <1>10
<1>15. "found" \notin Busy /\ "found" # "done" /\ None \in Verdicts  BY DEF Busy, Verdicts
<1>16. GoOn
  BY <1>1, <1>2, <1>8, <1>11, <1>12, <1>13, <1>14, <1>15, OneCaller DEF PluginStill
<1> QED  BY <1>1, <1>9, <1>16

(* A call that ends, whatever it was told: its entry goes, or stays as     *)
(* nobody's.                                                               *)
LEMMA EndGoesOn ==
  ASSUME CallsInv, NEW c \in Callers, NEW f \in Verdicts \ {None},
         PluginStill, reading' = reading, nextId' = nextId, asked' = asked, out' = out,
         late' = late,
         lock' \in [Clients -> Callers \cup {None}],
         call' = [call EXCEPT ![c].at = "done", ![c].future = f],
         call[c].at \in Busy \cup {"found"},
         stuck' \in SUBSET Callers, stuck \in SUBSET stuck',
         \/ pending' = Popped(c)
         \/ pending' = pending /\ (c \in stuck' \/ call[c].at = "found")
  PROVE  Types' /\ GoOn
<1>1. Types /\ Parameters /\ CallInv  BY DEF CallsInv
<1>2. /\ call' \in [Callers -> Call] /\ \A d \in Callers : d # c => call'[d] = call[d]
      /\ call'[c].at = "done" /\ call'[c].client = call[c].client /\ call'[c].id = call[c].id
      /\ call'[c].future = f
  BY <1>1, EndIs
<1>3. call[c].at # "idle" /\ call[c].client \in Clients
  BY <1>1 DEF CallInv, Busy
<1>4. /\ pending' \in [Clients -> SUBSET Entry]
      /\ \A k \in Clients : pending'[k] \in SUBSET pending[k]
      /\ \A k \in Clients : \A p \in pending[k] : p.who # c => p \in pending'[k]
      /\ \A k \in Clients : \A p \in pending'[k] :
           p.who = c
             => c \in stuck' \/ call[c].at = "found" \/ ~(k = call[c].client /\ p.id = call[c].id)
  BY <1>1, <1>3, PoppedIs DEF Types
<1>5. Types'
  BY <1>1, <1>2, <1>4, StillTypes DEF Types
<1>6. \A k \in Clients : \A e \in asked'[k] : e \in Uses(k)  BY UsesIs
<1>7. \A k \in Clients : \A p \in pending'[k] : p.who = c => c \in stuck' \/ ~Waits(c, k, p.id)
  BY <1>4 DEF Waits, Busy
<1>8. "done" \notin Busy  BY DEF Busy
<1>9. GoOn
  BY <1>2, <1>3, <1>4, <1>6, <1>7, <1>8, OneCaller DEF PluginStill
<1> QED  BY <1>5, <1>9

(* A call that takes its next step and waits on.                           *)
LEMMA WaitGoesOn ==
  ASSUME CallsInv, NEW c \in Callers, NEW at \in Busy,
         PluginStill, reading' = reading, nextId' = nextId, out' = out, late' = late,
         stuck' = stuck,
         pending' = pending, lock' \in [Clients -> Callers \cup {None}],
         call' = [call EXCEPT ![c].at = at], call[c].at \in Busy,
         asked' \in [Clients -> SUBSET Entry],
         \A k \in Clients : \A e \in asked'[k] :
           e \in asked[k] \/ (k = call[c].client /\ e = [id |-> call[c].id, who |-> c])
  PROVE  Types' /\ GoOn
<1>1. Types /\ Parameters /\ CallInv  BY DEF CallsInv
<1>2. /\ call' \in [Callers -> Call] /\ \A d \in Callers : d # c => call'[d] = call[d]
      /\ call'[c].at = at /\ call'[c].client = call[c].client /\ call'[c].id = call[c].id
      /\ call'[c].future = call[c].future
  BY <1>1, AtIs
<1>3. call[c].at # "idle" /\ call[c].client \in Clients /\ at # "done"
  BY <1>1 DEF CallInv, Busy
<1>4. Types'
  BY <1>1, <1>2, StillTypes DEF Types
<1>5. \A k \in Clients : \A e \in asked'[k] : e \in Uses(k)  BY UsesIs
<1>6. call[c].future \in {c} \cup Verdicts  BY <1>1 DEF CallInv
<1>7. GoOn
  BY <1>2, <1>3, <1>5, <1>6, OneCaller DEF PluginStill
<1> QED  BY <1>4, <1>7

(* The steps of a caller (client.py:312-353).                              *)
LEMMA CallerGoesOn ==
  ASSUME CallsInv, NEW c \in Callers,
         \/ c \in Calls /\ Run(c) /\ call[c].client \in closed
         \/ WriteLine(c) \/ Drained(c) \/ BrokenPipe(c) \/ Answered(c) \/ TimesOut(c)
  PROVE  PluginStill /\ Types' /\ GoOn
<1>1. PluginStill
  BY DEF PluginStill, Run, WriteLine, Drained, BrokenPipe, Answered, TimesOut, pluginVars,
         processVars
<1>2. /\ nextId' = nextId \/ (c \in Calls /\ Run(c))
      /\ out' = out /\ (late' = late \/ (c \in Calls /\ Run(c))) /\ reading' = reading
  BY DEF Run, WriteLine, Drained, BrokenPipe, Answered, TimesOut, clientVars, processVars,
         historyVars
<1>3. Types /\ CallInv /\ Parameters  BY DEF CallsInv
<1>4. /\ lock \in [Clients -> Callers \cup {None}]
      /\ Released(c) \in [Clients -> Callers \cup {None}]
      /\ stuck \in SUBSET Callers /\ asked \in [Clients -> SUBSET Entry]
  BY <1>3, ReleasedIs DEF Types
<1>5. /\ "crashed" \in Verdicts \ {None} /\ "timeout" \in Verdicts \ {None}
      /\ "drain" \in Busy /\ "wait" \in Busy /\ "lock" \in Busy
  BY <1>3 DEF Verdicts, Parameters, Busy
<1>6. ASSUME c \in Calls, Run(c), call[c].client \in closed  PROVE Types' /\ GoOn
  <2>1. /\ call[c].at = "found" /\ call' = [call EXCEPT ![c].at = "done", ![c].future = "crashed"]
        /\ nextId' = nextId /\ pending' = pending /\ lock' = lock /\ asked' = asked /\ out' = out
        /\ late' = late /\ stuck' = stuck
    BY <1>6 DEF Run, clientVars
  <2> QED  BY <1>1, <1>2, <1>4, <1>5, <2>1, EndGoesOn
<1>7. ASSUME WriteLine(c)  PROVE Types' /\ GoOn
  <2>1. PICK e : e = [id |-> call[c].id, who |-> c]  OBVIOUS
  <2>2. PICK k : k = call[c].client  OBVIOUS
  <2>3. /\ call[c].at = "lock" /\ call' = [call EXCEPT ![c].at = "drain"]
        /\ lock' = [lock EXCEPT ![k] = c]
        /\ asked' = [asked EXCEPT ![k] = @ \cup {e}] \/ asked' = asked
        /\ nextId' = nextId /\ pending' = pending /\ late' = late /\ stuck' = stuck
    BY <1>7, <2>1, <2>2 DEF WriteLine, historyVars
  <2>4. call[c] \in Call  BY <1>3 DEF Types
  <2>5. e \in Entry  BY <2>1, <2>4 DEF Entry, Call
  <2>6. /\ lock' \in [Clients -> Callers \cup {None}] /\ asked' \in [Clients -> SUBSET Entry]
        /\ \A j \in Clients : \A f \in asked'[j] : f \in asked[j] \/ (j = k /\ f = e)
    BY <1>4, <2>3, <2>5
  <2> QED  BY <1>1, <1>2, <1>5, <2>1, <2>2, <2>3, <2>6, WaitGoesOn
<1>8. ASSUME Drained(c)  PROVE Types' /\ GoOn
  <2>1. /\ call[c].at = "drain" /\ call' = [call EXCEPT ![c].at = "wait"] /\ lock' = Released(c)
        /\ nextId' = nextId /\ pending' = pending /\ asked' = asked /\ late' = late
        /\ stuck' = stuck
    BY <1>8 DEF Drained, historyVars
  <2> QED  BY <1>1, <1>2, <1>4, <1>5, <2>1, WaitGoesOn
<1>9. ASSUME BrokenPipe(c)  PROVE Types' /\ GoOn
  <2>1. /\ call[c].at \in Busy /\ call' = [call EXCEPT ![c].at = "done", ![c].future = "crashed"]
        /\ lock' = Released(c) /\ pending' = Popped(c)
        /\ nextId' = nextId /\ asked' = asked /\ late' = late /\ stuck' = stuck
    BY <1>9 DEF BrokenPipe, historyVars, Busy
  <2> QED  BY <1>1, <1>2, <1>4, <1>5, <2>1, EndGoesOn
<1>10. ASSUME TimesOut(c)  PROVE Types' /\ GoOn
  <2>1. /\ call[c].at \in Busy /\ call' = [call EXCEPT ![c].at = "done", ![c].future = "timeout"]
        /\ lock' = Released(c)
        /\ nextId' = nextId /\ asked' = asked /\ late' = late
        /\ (pending' = Popped(c) /\ stuck' = stuck)
             \/ (pending' = pending /\ stuck' = stuck \cup {c})
    BY <1>10 DEF TimesOut, historyVars, Busy
  <2> QED  BY <1>1, <1>2, <1>4, <1>5, <2>1, EndGoesOn
<1>11. ASSUME Answered(c)  PROVE Types' /\ GoOn
  <2>1. /\ call[c].at = "wait" /\ call' = [call EXCEPT ![c].at = "done"] /\ call[c].future # None
        /\ pending' = Popped(c) /\ lock' = lock
        /\ nextId' = nextId /\ asked' = asked /\ late' = late /\ stuck' = stuck
    BY <1>11 DEF Answered, historyVars
  <2>2. /\ call' \in [Callers -> Call] /\ \A d \in Callers : d # c => call'[d] = call[d]
        /\ call'[c].at = "done" /\ call'[c].client = call[c].client /\ call'[c].id = call[c].id
        /\ call'[c].future = call[c].future
    BY <1>3, <2>1, AtIs
  <2>3. call[c].at # "idle" /\ call[c].client \in Clients /\ call[c].future \in {c} \cup Verdicts
    BY <1>3, <2>1 DEF CallInv, Busy
  <2>4. /\ pending' \in [Clients -> SUBSET Entry]
        /\ \A k \in Clients : pending'[k] \in SUBSET pending[k]
        /\ \A k \in Clients : \A p \in pending[k] : p.who # c => p \in pending'[k]
        /\ \A k \in Clients : \A p \in pending'[k] : ~(p.who = c /\ k = call[c].client
             /\ p.id = call[c].id)
    BY <1>3, <2>1, <2>3, PoppedIs
  <2>5. Types'
    BY <1>1, <1>2, <1>3, <1>4, <2>1, <2>2, <2>4, StillTypes DEF Types
  <2>6. \A k \in Clients : \A e \in asked'[k] : e \in Uses(k)  BY <2>1, UsesIs
  <2>7. \A k \in Clients : \A p \in pending'[k] : p.who = c => ~Waits(c, k, p.id)
    BY <2>4 DEF Waits
  <2>8. "done" \notin Busy  BY DEF Busy
  <2>9. GoOn
    BY <1>1, <1>2, <2>1, <2>2, <2>3, <2>4, <2>6, <2>7, <2>8, OneCaller DEF PluginStill
  <2> QED  BY <2>5, <2>9
<1> QED  BY <1>1, <1>6, <1>7, <1>8, <1>9, <1>10, <1>11

(* The child, its lines and the reader.                                    *)
LEMMA ChildGoesOn ==
  ASSUME CallsInv, NEW k \in Clients, ChildAnswers(k) \/ ChildDies(k)
  PROVE  PluginStill /\ Types' /\ GoOn
<1>1. PluginStill
  BY DEF PluginStill, ChildAnswers, ChildDies, pluginVars, processVars
<1>2. /\ call' = call /\ nextId' = nextId /\ pending' = pending /\ late' = late /\ stuck' = stuck
      /\ reading' = reading /\ lock' = lock
  BY DEF ChildAnswers, ChildDies, processVars, historyVars
<1>3. Types  BY DEF CallsInv
<1>4. /\ asked \in [Clients -> SUBSET Entry] /\ out \in [Clients -> Seq(Line)]
      /\ attempt \in [Booted -> 0..Attempts]
  BY <1>3 DEF Types
<1>5. ASSUME ChildDies(k)  PROVE Types' /\ \A j \in Clients : Uses(j)' \in SUBSET Uses(j)
  <2>1. out' = out /\ asked' = [asked EXCEPT ![k] = {}]  BY <1>5 DEF ChildDies
  <2>2. asked' \in [Clients -> SUBSET Entry] /\ \A j \in Clients : asked'[j] \in SUBSET asked[j]
    BY <1>4, <2>1
  <2>3. Types'  BY <1>1, <1>2, <1>3, <1>4, <2>1, <2>2, StillTypes DEF Types
  <2>4. ASSUME NEW j \in Clients  PROVE \A e \in Uses(j)' : e \in Uses(j)
    BY <1>2, <2>1, <2>2, UsesIs
  <2> QED  BY <2>3, <2>4
<1>6. ASSUME ChildAnswers(k)  PROVE Types' /\ \A j \in Clients : Uses(j)' \in SUBSET Uses(j)
  <2>1. PICK e \in asked[k], ok \in BOOLEAN :
          /\ asked' = [asked EXCEPT ![k] = @ \ {e}]
          /\ out' = [out EXCEPT ![k] = Append(@, [id |-> e.id, who |-> e.who, ok |-> ok])]
    BY <1>6 DEF ChildAnswers
  <2>2. PICK l : l = [id |-> e.id, who |-> e.who, ok |-> ok]  OBVIOUS
  <2>3. e \in Entry /\ e = [id |-> e.id, who |-> e.who]  BY <1>4, <2>1 DEF Entry
  <2>4. l \in Line /\ l.id = e.id /\ l.who = e.who  BY <2>2, <2>3 DEF Line, Entry
  <2>5. /\ asked' \in [Clients -> SUBSET Entry] /\ \A j \in Clients : asked'[j] \in SUBSET asked[j]
        /\ out' = [out EXCEPT ![k] = Append(@, l)] /\ out' \in [Clients -> Seq(Line)]
    BY <1>4, <2>1, <2>2, <2>4
  <2>6. ASSUME NEW j \in Clients, NEW n \in DOMAIN out'[j]
        PROVE  (n \in DOMAIN out[j] /\ out'[j][n] = out[j][n]) \/ (j = k /\ out'[j][n] = l)
    <3>1. out[j] \in Seq(Line) /\ Len(out[j]) \in Nat /\ DOMAIN out[j] = 1..Len(out[j])  BY <1>4
    <3>2. CASE j # k  BY <1>4, <2>5, <3>2
    <3>3. CASE j = k
      <4>1. out'[j] = Append(out[j], l)  BY <1>4, <2>5, <3>3
      <4>2. n \in 1..(Len(out[j]) + 1)  BY <2>4, <3>1, <4>1
      <4> QED  BY <2>4, <3>1, <3>3, <4>1, <4>2
    <3> QED  BY <3>2, <3>3
  <2>7. Types'  BY <1>1, <1>2, <1>3, <1>4, <2>5, StillTypes DEF Types
  <2>8. ASSUME NEW j \in Clients  PROVE \A f \in Uses(j)' : f \in Uses(j)
    <3>1. \A f \in pending'[j] : f \in Uses(j)  BY <1>2, UsesIs
    <3>2. \A f \in asked'[j] : f \in Uses(j)  BY <2>5, UsesIs
    <3>3. ASSUME NEW n \in DOMAIN out'[j]
          PROVE  [id |-> out'[j][n].id, who |-> out'[j][n].who] \in Uses(j)
      <4>1. CASE j = k /\ out'[j][n] = l
        <5>1. [id |-> out'[j][n].id, who |-> out'[j][n].who] = e  BY <2>3, <2>4, <4>1
        <5> QED  BY <2>1, <4>1, <5>1, UsesIs
      <4>2. CASE n \in DOMAIN out[j] /\ out'[j][n] = out[j][n]
        BY <4>2, UsesIs
      <4> QED  BY <2>6, <4>1, <4>2
    <3> QED  BY <1>2, <3>1, <3>2, <3>3, NoMoreUses
  <2> QED  BY <2>7, <2>8
<1>7. \A s \in Booted : attempt[s] >= attempt[s]  BY <1>4
<1>8. GoOn
  BY <1>1, <1>2, <1>4, <1>5, <1>6, <1>7, SameCalls DEF PluginStill
<1> QED  BY <1>1, <1>5, <1>6, <1>8

(* The reader hands a line to its caller, who is the one the id was given  *)
(* to (client.py:378-417).                                                 *)
LEMMA ReadGoesOn ==
  ASSUME CallsInv, NEW k \in Clients, ReadsLine(k)
  PROVE  PluginStill /\ Types' /\ GoOn
<1>1. PluginStill
  BY DEF PluginStill, ReadsLine, pluginVars, processVars
<1>2. PICK l : l = Head(out[k])  OBVIOUS
<1>3. /\ nextId' = nextId /\ pending' = pending /\ late' = late /\ stuck' = stuck
      /\ reading' = reading /\ lock' = lock /\ asked' = asked
      /\ out' = [out EXCEPT ![k] = Tail(@)] /\ out[k] # <<>>
      /\ call' = [c \in Callers |->
                    IF [id |-> l.id, who |-> c] \in pending[k] /\ Waits(c, k, l.id)
                      /\ call[c].future = None
                    THEN [call[c] EXCEPT !.future = IF l.ok THEN l.who ELSE "refused"] ELSE call[c]]
  BY <1>2 DEF ReadsLine, processVars, historyVars
<1>4. Types /\ CallInv /\ OwnIds /\ Parameters  BY DEF CallsInv
<1>5. out \in [Clients -> Seq(Line)] /\ out[k] \in Seq(Line) /\ attempt \in [Booted -> 0..Attempts]
  BY <1>4 DEF Types
<1>6. /\ l \in Line /\ Tail(out[k]) \in Seq(Line) /\ 1 \in DOMAIN out[k] /\ l = out[k][1]
      /\ \A n \in DOMAIN Tail(out[k]) : n + 1 \in DOMAIN out[k] /\ Tail(out[k])[n] = out[k][n + 1]
  BY <1>2, <1>3, <1>5
<1>7. out' \in [Clients -> Seq(Line)]  BY <1>3, <1>5, <1>6
<1>8. ASSUME NEW c \in Callers
      PROVE  /\ call'[c] \in Call /\ call'[c].at = call[c].at /\ call'[c].client = call[c].client
             /\ call'[c].id = call[c].id
             /\ call'[c].future = call[c].future
                  \/ (call'[c].future \in {c, "refused"} /\ call[c].future = None)
  <2>1. PICK r : r = call[c]  OBVIOUS
  <2>2. r \in Call  BY <1>4, <2>1 DEF Types
  <2>3. PICK f : f = IF l.ok THEN l.who ELSE "refused"  OBVIOUS
  <2>4. PICK r2 : r2 = [r EXCEPT !.future = f]  OBVIOUS
  <2>5. f \in Callers \cup Verdicts  BY <1>6, <2>3 DEF Line, Verdicts
  <2>6. r2 \in Call /\ r2.at = r.at /\ r2.client = r.client /\ r2.id = r.id /\ r2.future = f
    BY <2>2, <2>4, <2>5 DEF Call
  <2>7. call'[c] = r
          \/ ([id |-> l.id, who |-> c] \in pending[k] /\ r.future = None /\ call'[c] = r2)
    BY <1>3, <2>1, <2>3, <2>4
  <2>8. [id |-> l.id, who |-> c] \in pending[k] => l.who = c
    <3>1. PICK e : e = [id |-> l.id, who |-> l.who]  OBVIOUS
    <3>2. PICK d : d = [id |-> l.id, who |-> c]  OBVIOUS
    <3>3. e \in Uses(k)  BY <1>6, <3>1, UsesIs
    <3>4. d \in pending[k] => d \in Uses(k)  BY UsesIs
    <3>5. e.id = d.id /\ e.who = l.who /\ d.who = c  BY <3>1, <3>2
    <3> QED  BY <1>4, <3>2, <3>3, <3>4, <3>5 DEF OwnIds
  <2> QED  BY <2>1, <2>2, <2>3, <2>6, <2>7, <2>8
<1>9. call' \in [Callers -> Call]  BY <1>3, <1>8
<1>10. Types'
  BY <1>1, <1>3, <1>4, <1>7, <1>9, StillTypes DEF Types
<1>11. ASSUME NEW c \in Callers  PROVE GoesOn(c)
  <2>1. /\ call[c].at # "idle" => /\ call[c].client \in Clients
                                  /\ call[c].client[2] <= attempt[call[c].client[1]]
        /\ call[c].future \in {c} \cup Verdicts /\ (call[c].at = "done" => call[c].future # None)
    BY <1>4 DEF CallInv
  <2>2. /\ "refused" # None /\ "refused" \in Verdicts /\ c # None
    BY <1>4 DEF Verdicts, Parameters
  <2> QED  BY <1>1, <1>3, <1>8, <2>1, <2>2 DEF GoesOn, PluginStill
<1>12. ASSUME NEW j \in Clients  PROVE NothingNew(j)
  <2>1. \A e \in pending'[j] : e \in Uses(j)  BY <1>3, UsesIs
  <2>2. \A e \in asked'[j] : e \in Uses(j)  BY <1>3, UsesIs
  <2>3. ASSUME NEW n \in DOMAIN out'[j]
        PROVE  [id |-> out'[j][n].id, who |-> out'[j][n].who] \in Uses(j)
    <3>1. CASE j # k
      <4>1. out'[j] = out[j]  BY <1>3, <1>5, <3>1
      <4> QED  BY <4>1, UsesIs
    <3>2. CASE j = k
      <4>1. out'[j] = Tail(out[k])  BY <1>3, <1>5, <3>2
      <4>2. n + 1 \in DOMAIN out[k] /\ out'[j][n] = out[k][n + 1]  BY <1>6, <4>1
      <4> QED  BY <3>2, <4>2, UsesIs
    <3> QED  BY <3>1, <3>2
  <2>4. \A e \in Uses(j)' : e \in Uses(j)
    BY <1>8, <2>1, <2>2, <2>3, NoMoreUses
  <2>5. ASSUME NEW p \in pending'[j]  PROVE Waits(p.who, j, p.id) => Waits(p.who, j, p.id)'
    <3>1. p \in Entry  BY <1>3, <1>4 DEF Types
    <3>2. p.who \in Callers  BY <3>1 DEF Entry
    <3> QED  BY <1>8, <3>2 DEF Waits
  <2> QED  BY <1>3, <2>4, <2>5 DEF NothingNew
<1> QED  BY <1>1, <1>3, <1>10, <1>11, <1>12 DEF GoOn

(* The futures of a client fail: its reader ended, or it is closed.        *)
LEMMA FailGoesOn ==
  ASSUME CallsInv, NEW k \in Clients, call' = Fail(k), pending' = [pending EXCEPT ![k] = {}],
         nextId' = nextId, late' = late, stuck' = stuck, attempt' = attempt,
         \A s \in Booted : stage'[s] = stage[s] \/ call[s].at \notin Busy,
         \A j \in Clients : j # k /\ j \in reading /\ j \notin closed
           => j \in reading' /\ j \notin closed',
         \A j \in Clients : asked'[j] \in SUBSET asked[j],
         \A j \in Clients : out'[j] \in {out[j], <<>>}
  PROVE  /\ GoOn /\ call' \in [Callers -> Call] /\ pending' \in [Clients -> SUBSET Entry]
         /\ \A c \in Callers : call'[c].at = call[c].at
<1>1. Types /\ CallInv /\ Parameters /\ Expected  BY DEF CallsInv
<1>2. /\ call' \in [Callers -> Call]
      /\ \A c \in Callers :
           /\ call'[c].at = call[c].at /\ call'[c].client = call[c].client
           /\ call'[c].id = call[c].id
           /\ call'[c].future # call[c].future =>
                call'[c].future = "crashed" /\ call[c].future = None
           /\ call[c].at \in Busy /\ call[c].client = k
                /\ [id |-> call[c].id, who |-> c] \in pending[k]
                => call'[c].future # None
  BY <1>1, FailIs
<1>3. /\ pending \in [Clients -> SUBSET Entry] /\ pending' \in [Clients -> SUBSET Entry]
      /\ pending'[k] = {} /\ \A j \in Clients : j # k => pending'[j] = pending[j]
  BY <1>1 DEF Types
<1>4. "crashed" # None /\ "crashed" \in Verdicts  BY <1>1 DEF Verdicts, Parameters
<1>5. ASSUME NEW c \in Callers  PROVE GoesOn(c)
  <2>1. /\ call[c].at # "idle" => /\ call[c].client \in Clients
                                  /\ call[c].client[2] <= attempt[call[c].client[1]]
        /\ call[c].future \in {c} \cup Verdicts /\ (call[c].at = "done" => call[c].future # None)
    BY <1>1 DEF CallInv
  <2>2. call[c].at \in Busy /\ call'[c].future = None => call[c].client # k
    BY <1>1, <1>2, <1>4 DEF Expected
  <2>3. call[c].at \in Busy => call[c].client \in Clients  BY <2>1 DEF Busy
  <2>4. call'[c].future \in {c} \cup Verdicts /\ (call'[c].at = "done" => call'[c].future # None)
    BY <1>2, <1>4, <2>1
  <2>5. call'[c].future = None => call[c].future = None  BY <1>2, <1>4
  <2> QED  BY <1>2, <1>3, <2>1, <2>2, <2>3, <2>4, <2>5 DEF GoesOn
<1>6. ASSUME NEW j \in Clients  PROVE NothingNew(j)
  <2>1. \A e \in pending'[j] : e \in Uses(j)  BY <1>3, UsesIs
  <2>2. \A e \in asked'[j] : e \in Uses(j)  BY UsesIs
  <2>3. \A n \in DOMAIN out'[j] : [id |-> out'[j][n].id, who |-> out'[j][n].who] \in Uses(j)
    BY UsesIs
  <2>4. \A e \in Uses(j)' : e \in Uses(j)
    BY <1>2, <2>1, <2>2, <2>3, NoMoreUses
  <2>5. ASSUME NEW p \in pending'[j]
        PROVE p \in pending[j] /\ (Waits(p.who, j, p.id) => Waits(p.who, j, p.id)')
    <3>1. p \in Entry  BY <1>3
    <3>2. p.who \in Callers  BY <3>1 DEF Entry
    <3>3. p \in pending[j]  BY <1>3
    <3> QED  BY <1>2, <3>2, <3>3 DEF Waits
  <2> QED  BY <2>4, <2>5 DEF NothingNew
<1>7. GoOn  BY <1>5, <1>6 DEF GoOn
<1> QED  BY <1>2, <1>3, <1>7

(* The reader ends: whoever waits is told, and nobody is left in _pending  *)
(* (client.py:355-376).                                                    *)
LEMMA ReaderEndGoesOn ==
  ASSUME CallsInv, NEW k \in Clients, ReaderEnds(k)
  PROVE  PluginStill /\ Types' /\ GoOn
<1>1. PluginStill
  BY DEF PluginStill, ReaderEnds, pluginVars
<1>2. /\ nextId' = nextId /\ late' = late /\ stuck' = stuck /\ lock' = lock
      /\ reading' = reading \ {k} /\ closed' = closed
      /\ call' = Fail(k) /\ pending' = [pending EXCEPT ![k] = {}]
      /\ asked' = [asked EXCEPT ![k] = {}] /\ out' = [out EXCEPT ![k] = <<>>]
  BY DEF ReaderEnds, historyVars
<1>3. Types  BY DEF CallsInv
<1>4. /\ asked \in [Clients -> SUBSET Entry] /\ out \in [Clients -> Seq(Line)]
  BY <1>3 DEF Types
<1>5. /\ asked' \in [Clients -> SUBSET Entry] /\ out' \in [Clients -> Seq(Line)]
      /\ \A j \in Clients : asked'[j] \in SUBSET asked[j] /\ out'[j] \in {out[j], <<>>}
  BY <1>2, <1>4
<1>6. /\ GoOn /\ call' \in [Callers -> Call] /\ pending' \in [Clients -> SUBSET Entry]
  BY <1>1, <1>2, <1>5, FailGoesOn DEF PluginStill
<1>7. Types'
  BY <1>1, <1>2, <1>3, <1>5, <1>6, StillTypes DEF Types
<1> QED  BY <1>1, <1>6, <1>7

(* A request: its id is new, its entry and its reader are there.           *)
LEMMA AskKeeps ==
  ASSUME CallsInv, Types', NEW c \in Callers, NEW k \in Clients, Request(c, k, reading'),
         call[c].at \notin Busy, k \notin closed, k[2] <= attempt'[k[1]],
         c \in Booted => stage'[c] \in Booting,
         \A s \in Booted : attempt'[s] >= attempt[s] /\ (stage'[s] = stage[s] \/ s = c),
         asked' = asked, out' = out, stuck' = stuck, closed' = closed, reading \in SUBSET reading'
  PROVE  CallInv' /\ OwnIds' /\ Expected' /\ NobodyHangs'
<1>1. Types /\ CallInv /\ Parameters /\ OwnIds /\ Expected /\ NobodyHangs  BY DEF CallsInv
<1>2. PICK e : e = [id |-> nextId[k], who |-> c]  OBVIOUS
<1>3. /\ call' \in [Callers -> Call] /\ \A d \in Callers : d # c => call'[d] = call[d]
      /\ call'[c].at = "lock" /\ call'[c].client = k /\ call'[c].id = nextId[k]
      /\ call'[c].future = None
      /\ nextId' \in [Clients -> Nat] /\ nextId'[k] = nextId[k] + 1
      /\ \A j \in Clients : j # k => nextId'[j] = nextId[j] /\ pending'[j] = pending[j]
      /\ pending'[k] = pending[k] \cup {e}
      /\ late \in SUBSET late' /\ (c \in late' \/ k \in reading')
  BY <1>1, <1>2, RequestIs
<1>4. e \in Entry /\ e.id = nextId[k] /\ e.who = c /\ nextId[k] \in Nat
  BY <1>1, <1>2 DEF Types, Entry
<1>5. "lock" \in Busy /\ "lock" \notin {"idle", "done"} /\ None \in Verdicts  BY DEF Busy, Verdicts
<1>6. CallInv'
  <2>1. ASSUME NEW d \in Callers, d # c
        PROVE  /\ call'[d].at # "idle" => /\ call'[d].client \in Clients
                                          /\ call'[d].client[2] <= attempt'[call'[d].client[1]]
               /\ call'[d].future \in {d} \cup Verdicts
               /\ call'[d].at = "done" => call'[d].future # None
               /\ d \in Booted /\ call'[d].at \in Busy => stage'[d] \in Booting
    <3>1. call'[d] = call[d]  BY <1>3, <2>1
    <3>2. call[d].at # "idle" => /\ call[d].client \in Clients /\ call[d].client[1] \in Booted
                                 /\ call[d].client[2] \in Nat
                                 /\ call[d].client[2] <= attempt[call[d].client[1]]
      BY <1>1, OfClient DEF CallInv
    <3>3. \A s \in Booted : attempt[s] \in Nat /\ attempt'[s] \in Nat /\ attempt'[s] >= attempt[s]
      BY <1>1 DEF Types, Parameters
    <3> QED  BY <1>1, <2>1, <3>1, <3>2, <3>3 DEF CallInv
  <2> QED  BY <1>3, <1>5, <2>1 DEF CallInv
<1>7. ASSUME NEW j \in Clients, NEW f \in Uses(j)'  PROVE f \in Uses(j) \/ (j = k /\ f = e)
  <2>1. f \in pending'[j] => f \in pending[j] \/ (j = k /\ f = e)  BY <1>3
  <2>2. ASSUME NEW d \in Callers, call'[d].at \in Busy, call'[d].client = j,
               f = [id |-> call'[d].id, who |-> d]
        PROVE  f \in Uses(j) \/ (j = k /\ f = e)
    <3>1. CASE d = c  BY <1>2, <1>3, <2>2, <3>1
    <3>2. CASE d # c
      <4>1. call'[d] = call[d]  BY <1>3, <3>2
      <4> QED  BY <2>2, <4>1, UsesIs
    <3> QED  BY <3>1, <3>2
  <2> QED  BY <1>7, <2>1, <2>2, UsesIs
<1>8. OwnIds'
  <2>1. ASSUME NEW j \in Clients, NEW f \in Uses(j)', NEW g \in Uses(j)'
        PROVE  f.id < nextId'[j] /\ (f.id = g.id => f.who = g.who)
    <3>1. /\ f \in Uses(j) \/ (j = k /\ f = e)
          /\ g \in Uses(j) \/ (j = k /\ g = e)
      BY <1>7
    <3>2. \A h \in Uses(j) : h.id \in Nat
      <4>1. /\ pending[j] \in SUBSET Entry /\ asked[j] \in SUBSET Entry /\ out[j] \in Seq(Line)
            /\ call \in [Callers -> Call]
        BY <1>1 DEF Types
      <4>2. \A n \in DOMAIN out[j] : out[j][n].id \in Nat
        <5>1. \A n \in DOMAIN out[j] : out[j][n] \in Line  BY <4>1
        <5> QED  BY <5>1 DEF Line
      <4>3. \A d \in Callers : call[d].id \in Nat
        <5>1. ASSUME NEW d \in Callers  PROVE call[d].id \in Nat
          <6>1. call[d] \in Call  BY <4>1
          <6> QED  BY <6>1 DEF Call
        <5> QED  BY <5>1
      <4>4. \A h \in pending[j] \cup asked[j] : h.id \in Nat  BY <4>1 DEF Entry
      <4>5. ASSUME NEW h \in Uses(j), h \notin pending[j] \cup asked[j]  PROVE h.id \in Nat
        <5>1. CASE \E n \in DOMAIN out[j] : h = [id |-> out[j][n].id, who |-> out[j][n].who]
          BY <4>2, <5>1
        <5>2. CASE \E d \in Callers : h = [id |-> call[d].id, who |-> d]
          BY <4>3, <5>2
        <5> QED  BY <4>5, <5>1, <5>2, UsesIs
      <4> QED  BY <4>4, <4>5
    <3>3. \A h \in Uses(j) : h.id < nextId[j]  BY <1>1 DEF OwnIds
    <3>4. f \in Uses(j) /\ g \in Uses(j) => (f.id = g.id => f.who = g.who)  BY <1>1 DEF OwnIds
    <3>5. nextId[j] \in Nat /\ nextId'[j] \in {nextId[j], nextId[j] + 1}
      BY <1>1, <1>3 DEF Types
    <3>6. j = k => nextId'[j] = nextId[j] + 1  BY <1>3
    <3> QED  BY <1>4, <3>1, <3>2, <3>3, <3>4, <3>5, <3>6
  <2> QED  BY <2>1 DEF OwnIds
<1>9. Expected'
  <2>1. ASSUME NEW d \in Callers, call'[d].at \in Busy, call'[d].future = None
        PROVE  [id |-> call'[d].id, who |-> d] \in pending'[call'[d].client]
    <3>1. CASE d = c  BY <1>2, <1>3, <3>1
    <3>2. CASE d # c
      <4>1. call'[d] = call[d]  BY <1>3, <3>2
      <4>2. call[d].client \in Clients  BY <1>1, <2>1, <4>1 DEF CallInv, Busy
      <4>3. [id |-> call[d].id, who |-> d] \in pending[call[d].client]
        BY <1>1, <2>1, <4>1 DEF Expected
      <4> QED  BY <1>3, <4>1, <4>2, <4>3
    <3> QED  BY <3>1, <3>2
  <2> QED  BY <2>1 DEF Expected
<1>10. ASSUME NEW d \in Callers, call'[d].at \in Busy, call'[d].future = None
       PROVE  d \in late' \/ (call'[d].client \in reading' /\ call'[d].client \notin closed')
  <2>1. CASE d = c  BY <1>3, <2>1
  <2>2. CASE d # c
    <3>1. call'[d] = call[d]  BY <1>3, <2>2
    <3> QED  BY <1>1, <1>3, <1>10, <3>1 DEF NobodyHangs
  <2> QED  BY <2>1, <2>2
<1>11. ASSUME NEW j \in Clients, NEW f \in pending'[j]
       PROVE f.who \in stuck' \/ Waits(f.who, j, f.id)'
  <2>1. CASE j = k /\ f = e  BY <1>3, <1>4, <1>5, <2>1 DEF Waits
  <2>2. CASE f \in pending[j]
    <3>1. f.who \in stuck \/ Waits(f.who, j, f.id)  BY <1>1, <2>2 DEF NobodyHangs
    <3>2. f.who \in Callers  BY <1>1, <2>2 DEF Types, Entry
    <3>3. Waits(f.who, j, f.id) => f.who # c  BY DEF Waits
    <3> QED  BY <1>3, <3>1, <3>2, <3>3 DEF Waits
  <2> QED  BY <1>3, <1>11, <2>1, <2>2
<1>12. NobodyHangs'  BY <1>10, <1>11 DEF NobodyHangs
<1> QED  BY <1>6, <1>8, <1>9, <1>12

(* A step of the boot or of on_unload that asks nothing.                   *)
LEMMA PluginGoesOn ==
  ASSUME CallsInv, StageInv, RecordInv,
         call' = call, nextId' = nextId, pending' = pending, late' = late, stuck' = stuck,
         attempt' \in [Booted -> 0..Attempts],
         \A s \in Booted : attempt'[s] >= attempt[s]
           /\ (stage'[s] = stage[s] \/ call[s].at \notin Busy),
         \A j \in Clients : j \in reading /\ j \notin closed => j \in reading' /\ j \notin closed',
         \A j \in Clients : asked'[j] \in SUBSET asked[j] /\ out'[j] \in {out[j], <<>>}
  PROVE  GoOn
<1>1. CallInv  BY DEF CallsInv
<1>2. \A c \in Callers : call[c].at \in Busy => call[c].client \in Clients
  BY <1>1 DEF CallInv, Busy
<1>3. ASSUME NEW k \in Clients  PROVE \A e \in Uses(k)' : e \in Uses(k)
  <2>1. ASSUME NEW n \in DOMAIN out'[k]
        PROVE  [id |-> out'[k][n].id, who |-> out'[k][n].who] \in Uses(k)
    <3>1. out'[k] = out[k] \/ out'[k] = <<>>  OBVIOUS
    <3>2. CASE out'[k] = <<>>
      <4>1. n \in 1..0  BY <2>1, <3>2
      <4> QED  BY <4>1
    <3>3. CASE out'[k] = out[k]  BY <2>1, <3>3, UsesIs
    <3> QED  BY <3>1, <3>2, <3>3
  <2>2. \A e \in pending'[k] : e \in Uses(k)  BY UsesIs
  <2>3. \A e \in asked'[k] : e \in Uses(k)  BY UsesIs
  <2> QED  BY <2>1, <2>2, <2>3, NoMoreUses
<1> QED  BY <1>2, <1>3, SameCalls

(* A request of a server's boot, or of a tool call.                        *)
LEMMA RequestTypes ==
  ASSUME Parameters, Types, NEW c \in Callers, NEW k \in Clients, NEW readers,
         Request(c, k, readers),
         config' = config, phase' = phase, records' = records, leaving' = leaving, tools' = tools,
         told' = told, lock' = lock, asked' = asked, out' = out, closed' = closed, stuck' = stuck,
         stage' \in [Booted -> Booting \cup Finished \cup {"todo", "closing"}],
         attempt' \in [Booted -> 0..Attempts],
         running' \in SUBSET Clients, reading' \in SUBSET Clients
  PROVE  Types'
BY RequestIs DEF Types

(* A tool call asks.                                                       *)
LEMMA RunKeeps ==
  ASSUME BridgeInv, NEW c \in Calls, Run(c), call[c].client \notin closed
  PROVE  BridgeInv'
<1>1. /\ Parameters /\ Types /\ CallInv /\ StageInv /\ RecordInv /\ NothingLeft /\ CallsInv
      /\ c \in Callers
  BY DEF BridgeInv, CallsInv, Callers
<1>2. PluginStill
  BY DEF PluginStill, Run, pluginVars, processVars
<1>3. PICK k : k = call[c].client  OBVIOUS
<1>4. /\ call[c].at = "found" /\ Request(c, k, reading) /\ lock' = lock /\ asked' = asked
      /\ out' = out
      /\ stuck' = stuck /\ reading' = reading /\ running' = running
  BY <1>3 DEF Run, processVars
<1>5. /\ k \in Clients /\ k[2] <= attempt[k[1]] /\ "found" \notin Busy
  BY <1>1, <1>3, <1>4 DEF CallInv, Busy
<1>6. Types'
  BY <1>1, <1>2, <1>4, <1>5, RequestTypes DEF PluginStill, Types
<1>7. \A s \in Booted : attempt'[s] >= attempt[s]
  BY <1>1, <1>2 DEF PluginStill, Types, Parameters
<1>8. c \notin Booted  BY <1>1 DEF Parameters
<1>9. CallInv' /\ OwnIds' /\ Expected' /\ NobodyHangs'
  BY <1>1, <1>2, <1>3, <1>4, <1>5, <1>6, <1>7, <1>8, AskKeeps DEF PluginStill
<1>10. StageInv' /\ RecordInv' /\ NothingLeft'
  BY <1>1, <1>2, StillPlugin
<1> QED  BY <1>1, <1>6, <1>9, <1>10 DEF BridgeInv

(* A boot starts its child, and asks.                                      *)
LEMMA SpawnKeeps ==
  ASSUME BridgeInv, NEW s \in Booted, Spawn(s)
  PROVE  BridgeInv'
<1>1. /\ Parameters /\ Types /\ CallInv /\ StageInv /\ RecordInv /\ NothingLeft /\ CallsInv
      /\ s \in Callers
  BY DEF BridgeInv, CallsInv, Callers
<1>2. PICK k : k = <<s, attempt[s] + 1>>  OBVIOUS
<1>3. /\ phase = "loading" /\ stage[s] = "todo" /\ attempt[s] < Attempts
      /\ attempt' = [attempt EXCEPT ![s] = @ + 1] /\ stage' = [stage EXCEPT ![s] = "initialize"]
      /\ running' = running \cup {k} /\ reading' = reading \cup {k} /\ Request(s, k, reading')
      /\ config' = config /\ phase' = phase /\ records' = records /\ leaving' = leaving
      /\ tools' = tools /\ told' = told /\ lock' = lock /\ asked' = asked /\ out' = out
      /\ closed' = closed /\ stuck' = stuck
  BY <1>2 DEF Spawn
<1>4. /\ attempt \in [Booted -> 0..Attempts] /\ Attempts \in Nat /\ attempt[s] \in Nat
      /\ stage \in [Booted -> Booting \cup Finished \cup {"todo", "closing"}]
      /\ running \in SUBSET Clients /\ reading \in SUBSET Clients /\ closed \in SUBSET Clients
      /\ tools \in [Names -> Clients \cup {None}]
  BY <1>1 DEF Types, Parameters
<1>5. attempt[s] + 1 \in 1..Attempts  BY <1>3, <1>4
<1>6. k \in Clients /\ k[1] = s /\ k[2] = attempt[s] + 1  BY <1>2, <1>5, ClientIs
<1>7. /\ attempt' \in [Booted -> 0..Attempts] /\ attempt'[s] = attempt[s] + 1
      /\ \A r \in Booted : r # s => attempt'[r] = attempt[r] /\ stage'[r] = stage[r]
      /\ \A r \in Booted : attempt'[r] >= attempt[r]
      /\ stage' \in [Booted -> Booting \cup Finished \cup {"todo", "closing"}]
      /\ stage'[s] = "initialize"
  BY <1>3, <1>4, <1>5 DEF Booting
<1>8. k \notin closed /\ k \notin running
  BY <1>1, <1>4, <1>6 DEF RecordInv
<1>9. call[s].at \notin Busy  BY <1>1, <1>3 DEF CallInv, Booting
<1>10. Types'
  BY <1>1, <1>3, <1>4, <1>6, <1>7, RequestTypes
<1>11. CallInv' /\ OwnIds' /\ Expected' /\ NobodyHangs'
  <2>1. k[2] <= attempt'[k[1]] /\ stage'[s] \in Booting /\ reading \in SUBSET reading'
    BY <1>3, <1>4, <1>6, <1>7 DEF Booting
  <2> QED  BY <1>1, <1>3, <1>6, <1>7, <1>8, <1>9, <1>10, <2>1, AskKeeps
<1>12. ~Kept(s)  BY <1>1, <1>3 DEF RecordInv
<1>13. \A j \in Clients : j[1] \in Booted /\ j[2] \in Nat  BY <1>1, OfClient
<1>14. StageInv'
  <2>1. ASSUME NEW r \in Booted
        PROVE  /\ stage'[r] \in Booting \cup {"closing", "ready"} => attempt'[r] >= 1
               /\ stage'[r] \in Booting => <<r, attempt'[r]>> \notin closed'
               /\ stage'[r] = "closing" => <<r, attempt'[r]>> \in closed'
               /\ stage'[r] \in {"ready", "gaveup"} \/ config'[r] = "bad" => r \in told'
               /\ stage'[r] = "off" => config'[r] # "good"
               /\ phase' # "loading" => stage'[r] \in Finished
    <3>1. CASE r = s
      BY <1>1, <1>2, <1>3, <1>4, <1>7, <1>8, <3>1 DEF StageInv
    <3>2. CASE r # s
      BY <1>1, <1>3, <1>7, <3>2 DEF StageInv, Client
    <3> QED  BY <3>1, <3>2
  <2> QED  BY <2>1 DEF StageInv, Client
<1>15. RecordInv'
  <2>1. ASSUME NEW j \in closed' \cup running' \cup reading'  PROVE j[2] <= attempt'[j[1]]
    <3>1. CASE j = k  BY <1>4, <1>6, <1>7, <3>1
    <3>2. CASE j \in closed \cup running \cup reading
      <4>1. j[2] <= attempt[j[1]] /\ j[1] \in Booted /\ j[2] \in Nat
        BY <1>1, <1>4, <1>13, <3>2 DEF RecordInv
      <4>2. attempt[j[1]] \in Nat /\ attempt'[j[1]] \in Nat /\ attempt'[j[1]] >= attempt[j[1]]
        BY <1>4, <1>7, <4>1
      <4> QED  BY <4>1, <4>2
    <3> QED  BY <1>3, <2>1, <3>1, <3>2
  <2>2. \A r \in Booted : Kept(r)' <=> Kept(r)  BY <1>3 DEF Kept
  <2>3. \A r \in Booted : Kept(r)' => stage'[r] = "ready"
    BY <1>1, <1>7, <1>12, <2>2 DEF RecordInv
  <2>4. \A j \in running' : stage'[j[1]] = "ready" => Kept(j[1])'
    BY <1>1, <1>3, <1>4, <1>6, <1>7, <1>13, <2>2 DEF RecordInv
  <2> QED  BY <1>1, <1>3, <2>1, <2>3, <2>4 DEF RecordInv, OneEach
<1>16. NothingLeft'
  <2>1. ASSUME NEW t \in Names, tools'[t] # None
        PROVE  /\ tools'[t] \notin closed' /\ tools'[t][2] = attempt'[tools'[t][1]]
               /\ \E r \in Range(records') \cup Range(leaving') : r.server = tools'[t][1]
                    /\ t \in r.names
    <3>1. /\ tools[t] \notin closed /\ tools[t][2] = attempt[tools[t][1]]
          /\ \E r \in Range(records) \cup Range(leaving) : r.server = tools[t][1] /\ t \in r.names
      BY <1>1, <1>3, <2>1 DEF NothingLeft
    <3>2. tools[t][1] # s  BY <1>12, <3>1 DEF Kept
    <3>3. tools[t][1] \in Booted  BY <1>3, <1>4, <1>13, <2>1
    <3> QED  BY <1>3, <1>7, <3>1, <3>2, <3>3
  <2>2. ASSUME NEW j \in running'
        PROVE  j[2] = attempt'[j[1]] /\ stage'[j[1]] \notin {"todo", "gaveup", "off"}
    <3>1. CASE j = k  BY <1>6, <1>7, <3>1
    <3>2. CASE j \in running
      BY <1>1, <1>3, <1>4, <1>7, <1>13, <3>2 DEF NothingLeft
    <3> QED  BY <1>3, <2>2, <3>1, <3>2
  <2> QED  BY <1>3, <2>1, <2>2 DEF NothingLeft
<1> QED  BY <1>1, <1>10, <1>11, <1>14, <1>15, <1>16 DEF BridgeInv

(* The handshake is through: the boot asks for the tools.                  *)
LEMMA ListToolsKeeps ==
  ASSUME BridgeInv, NEW s \in Booted, ListTools(s)
  PROVE  BridgeInv'
<1>1. /\ Parameters /\ Types /\ CallInv /\ StageInv /\ RecordInv /\ NothingLeft /\ CallsInv
      /\ s \in Callers
  BY DEF BridgeInv, CallsInv, Callers
<1>2. PICK k : k = Client(s)  OBVIOUS
<1>3. /\ stage[s] = "initialize" /\ call[s].at = "done" /\ k \notin closed
      /\ stage' = [stage EXCEPT ![s] = "tools/list"] /\ Request(s, k, reading)
      /\ config' = config /\ phase' = phase /\ attempt' = attempt /\ records' = records
      /\ leaving' = leaving /\ tools' = tools /\ told' = told /\ lock' = lock /\ asked' = asked
      /\ out' = out /\ closed' = closed /\ running' = running /\ reading' = reading
      /\ stuck' = stuck
  BY <1>2 DEF ListTools, Succeeded, processVars
<1>4. /\ attempt \in [Booted -> 0..Attempts] /\ Attempts \in Nat /\ attempt[s] \in 0..Attempts
      /\ stage \in [Booted -> Booting \cup Finished \cup {"todo", "closing"}]
      /\ running \in SUBSET Clients /\ reading \in SUBSET Clients
  BY <1>1 DEF Types, Parameters
<1>5. attempt[s] \in 1..Attempts  BY <1>1, <1>3, <1>4 DEF StageInv, Booting
<1>6. k \in Clients /\ k[1] = s /\ k[2] = attempt[s]  BY <1>2, <1>5, ClientIs DEF Client
<1>7. /\ \A r \in Booted : r # s => stage'[r] = stage[r]
      /\ stage' \in [Booted -> Booting \cup Finished \cup {"todo", "closing"}]
      /\ stage'[s] = "tools/list"
  BY <1>3, <1>4 DEF Booting
<1>8. Types'
  BY <1>1, <1>3, <1>4, <1>6, <1>7, RequestTypes
<1>9. CallInv' /\ OwnIds' /\ Expected' /\ NobodyHangs'
  <2>1. k[2] <= attempt'[k[1]] /\ stage'[s] \in Booting /\ "done" \notin Busy
    BY <1>3, <1>4, <1>6, <1>7 DEF Booting, Busy
  <2>2. \A r \in Booted : attempt'[r] >= attempt[r]  BY <1>3, <1>4
  <2> QED  BY <1>1, <1>3, <1>6, <1>7, <1>8, <2>1, <2>2, AskKeeps
<1>10. StageInv'
  <2>1. ASSUME NEW r \in Booted
        PROVE  /\ stage'[r] \in Booting \cup {"closing", "ready"} => attempt'[r] >= 1
               /\ stage'[r] \in Booting => <<r, attempt'[r]>> \notin closed'
               /\ stage'[r] = "closing" => <<r, attempt'[r]>> \in closed'
               /\ stage'[r] \in {"ready", "gaveup"} \/ config'[r] = "bad" => r \in told'
               /\ stage'[r] = "off" => config'[r] # "good"
               /\ phase' # "loading" => stage'[r] \in Finished
    <3>1. CASE r = s
      BY <1>1, <1>2, <1>3, <1>5, <1>7, <3>1 DEF StageInv, Client, Booting, Finished
    <3>2. CASE r # s
      BY <1>1, <1>3, <1>7, <3>2 DEF StageInv, Client
    <3> QED  BY <3>1, <3>2
  <2> QED  BY <2>1 DEF StageInv, Client
<1>11. ~Kept(s)  BY <1>1, <1>3 DEF RecordInv
<1>12. \A r \in Booted : Kept(r)' <=> Kept(r)  BY <1>3 DEF Kept
<1>13. \A j \in running : j[1] \in Booted  BY <1>1, <1>4, OfClient
<1>14. RecordInv'
  <2>1. \A r \in Booted : Kept(r)' => stage'[r] = "ready"
    BY <1>1, <1>7, <1>11, <1>12 DEF RecordInv
  <2>2. \A j \in running' : stage'[j[1]] = "ready" => Kept(j[1])'
    BY <1>1, <1>3, <1>7, <1>12, <1>13 DEF RecordInv
  <2> QED  BY <1>1, <1>3, <2>1, <2>2 DEF RecordInv, OneEach
<1>15. NothingLeft'
  BY <1>1, <1>3, <1>7, <1>13 DEF NothingLeft
<1> QED  BY <1>1, <1>8, <1>9, <1>10, <1>14, <1>15 DEF BridgeInv

(* A boot fails: its client is closed, and its futures fail.               *)
LEMMA BootFailsKeeps ==
  ASSUME BridgeInv, NEW s \in Booted, BootFails(s)
  PROVE  BridgeInv'
<1>1. /\ Parameters /\ Types /\ CallInv /\ StageInv /\ RecordInv /\ NothingLeft /\ CallsInv
      /\ s \in Callers
  BY DEF BridgeInv, CallsInv, Callers
<1>2. PICK k : k = Client(s)  OBVIOUS
<1>3. /\ stage[s] \in Booting /\ call[s].at = "done" /\ stage' = [stage EXCEPT ![s] = "closing"]
      /\ closed' = closed \cup {k} /\ call' = Fail(k) /\ pending' = [pending EXCEPT ![k] = {}]
      /\ config' = config /\ phase' = phase /\ attempt' = attempt /\ records' = records
      /\ leaving' = leaving /\ tools' = tools /\ told' = told /\ nextId' = nextId /\ lock' = lock
      /\ asked' = asked /\ out' = out /\ running' = running /\ reading' = reading
      /\ late' = late /\ stuck' = stuck
  BY <1>2 DEF BootFails, Failed, CloseBegins, historyVars, Booting
<1>4. /\ attempt \in [Booted -> 0..Attempts] /\ Attempts \in Nat /\ attempt[s] \in 0..Attempts
      /\ stage \in [Booted -> Booting \cup Finished \cup {"todo", "closing"}]
      /\ running \in SUBSET Clients /\ reading \in SUBSET Clients /\ closed \in SUBSET Clients
      /\ tools \in [Names -> Clients \cup {None}]
  BY <1>1 DEF Types, Parameters
<1>5. attempt[s] \in 1..Attempts  BY <1>1, <1>3, <1>4 DEF StageInv
<1>6. k \in Clients /\ k[1] = s /\ k[2] = attempt[s]  BY <1>2, <1>5, ClientIs DEF Client
<1>7. /\ \A r \in Booted : r # s => stage'[r] = stage[r]
      /\ stage' \in [Booted -> Booting \cup Finished \cup {"todo", "closing"}]
      /\ stage'[s] = "closing"
  BY <1>3, <1>4
<1>8. GoOn /\ call' \in [Callers -> Call] /\ pending' \in [Clients -> SUBSET Entry]
  <2>1. \A r \in Booted : stage'[r] = stage[r] \/ call[r].at \notin Busy
    BY <1>3, <1>7 DEF Busy
  <2>2. \A j \in Clients : j # k /\ j \in reading /\ j \notin closed
          => j \in reading' /\ j \notin closed'
    BY <1>3
  <2> QED  BY <1>1, <1>3, <1>6, <2>1, <2>2, FailGoesOn
<1>9. Types'
  BY <1>1, <1>3, <1>4, <1>6, <1>7, <1>8 DEF Types
<1>10. CallInv' /\ OwnIds' /\ Expected' /\ NobodyHangs'
  BY <1>1, <1>8, <1>9, GoOnKeeps
<1>11. ~Kept(s)  BY <1>1, <1>3 DEF RecordInv, Booting
<1>12. \A r \in Booted : Kept(r)' <=> Kept(r)  BY <1>3 DEF Kept
<1>13. \A j \in Clients : j[1] \in Booted  BY <1>1, OfClient
<1>14. StageInv'
  <2>1. ASSUME NEW r \in Booted
        PROVE  /\ stage'[r] \in Booting \cup {"closing", "ready"} => attempt'[r] >= 1
               /\ stage'[r] \in Booting => <<r, attempt'[r]>> \notin closed'
               /\ stage'[r] = "closing" => <<r, attempt'[r]>> \in closed'
               /\ stage'[r] \in {"ready", "gaveup"} \/ config'[r] = "bad" => r \in told'
               /\ stage'[r] = "off" => config'[r] # "good"
               /\ phase' # "loading" => stage'[r] \in Finished
    <3>1. CASE r = s
      BY <1>1, <1>2, <1>3, <1>5, <1>7, <3>1 DEF StageInv, Client, Booting, Finished
    <3>2. CASE r # s
      <4>1. <<r, attempt[r]>> # k  BY <1>6, <3>2
      <4> QED  BY <1>1, <1>3, <1>7, <3>2, <4>1 DEF StageInv, Client
    <3> QED  BY <3>1, <3>2
  <2> QED  BY <2>1 DEF StageInv, Client
<1>15. RecordInv'
  <2>1. \A r \in Booted : Kept(r)' => stage'[r] = "ready"
    BY <1>1, <1>7, <1>11, <1>12 DEF RecordInv
  <2>2. \A j \in running' : stage'[j[1]] = "ready" => Kept(j[1])'
    BY <1>1, <1>3, <1>4, <1>7, <1>12, <1>13 DEF RecordInv
  <2>3. \A j \in closed' \cup running' \cup reading' : j[2] <= attempt'[j[1]]
    BY <1>1, <1>3, <1>4, <1>6 DEF RecordInv
  <2> QED  BY <1>1, <1>3, <2>1, <2>2, <2>3 DEF RecordInv, OneEach
<1>16. NothingLeft'
  <2>1. \A t \in Names : tools[t] # None => tools[t] # k
    BY <1>1, <1>6, <1>11 DEF NothingLeft, Kept
  <2>2. \A j \in running' : stage'[j[1]] \notin {"todo", "gaveup", "off"}
    BY <1>1, <1>3, <1>4, <1>7, <1>13 DEF NothingLeft
  <2> QED  BY <1>1, <1>3, <2>1, <2>2 DEF NothingLeft
<1> QED  BY <1>1, <1>9, <1>10, <1>14, <1>15, <1>16 DEF BridgeInv

(* An attempt that comes to nothing, the end of a failed one, and giving   *)
(* up: what each does to the server, and leaves of the others.             *)
NoBoot(s) ==
  /\ attempt' \in [Booted -> 0..Attempts] /\ attempt'[s] >= attempt[s]
  /\ \A r \in Booted : r # s => attempt'[r] = attempt[r] /\ stage'[r] = stage[r]
  /\ stage' \in [Booted -> Booting \cup Finished \cup {"todo", "closing"}]
  /\ stage'[s] \in {"todo", "gaveup"} /\ (stage'[s] = "gaveup" => s \in told')
  /\ told' \in SUBSET Booted /\ told \in SUBSET told'
  /\ running' \in SUBSET running /\ reading' \in SUBSET reading
  /\ <<s, attempt[s]>> \notin running'
  /\ \A j \in reading \ reading' : j \in closed
  /\ closed' \in SUBSET Clients /\ closed \in SUBSET closed'
  /\ \A j \in closed' \ closed :
       j[1] = s /\ j[2] = attempt'[s] /\ j \notin reading /\ j \notin running
  /\ asked' \in [Clients -> SUBSET Entry] /\ \A j \in Clients : asked'[j] \in SUBSET asked[j]
  /\ out' \in [Clients -> Seq(Line)] /\ \A j \in Clients : out'[j] \in {out[j], <<>>}

(* A boot that spawned nothing leaves no client behind.                    *)
LEMMA NoBootIs ==
  ASSUME BridgeInv, NEW s \in Booted, SpawnFails(s) \/ Retry(s) \/ GiveUp(s)
  PROVE  NoBoot(s)
<1>1. /\ Parameters /\ Types /\ CallInv /\ StageInv /\ RecordInv /\ NothingLeft
  BY DEF BridgeInv
<1>2. /\ attempt \in [Booted -> 0..Attempts] /\ Attempts \in Nat /\ attempt[s] \in Nat
      /\ stage \in [Booted -> Booting \cup Finished \cup {"todo", "closing"}]
      /\ running \in SUBSET Clients /\ reading \in SUBSET Clients /\ closed \in SUBSET Clients
      /\ told \in SUBSET Booted
      /\ asked \in [Clients -> SUBSET Entry] /\ out \in [Clients -> Seq(Line)]
  BY <1>1 DEF Types, Parameters
<1>3. CASE SpawnFails(s)
  <2>1. PICK k : k = <<s, attempt[s] + 1>>  OBVIOUS
  <2>2. /\ stage[s] = "todo" /\ attempt[s] < Attempts /\ attempt' = [attempt EXCEPT ![s] = @ + 1]
        /\ closed' = closed \cup {k} /\ stage' = stage /\ told' = told /\ running' = running
        /\ reading' = reading /\ asked' = asked /\ out' = out
    BY <1>3, <2>1 DEF SpawnFails, clientVars
  <2>3. attempt[s] + 1 \in 1..Attempts  BY <1>2, <2>2
  <2>4. k \in Clients /\ k[1] = s /\ k[2] = attempt[s] + 1  BY <2>1, <2>3, ClientIs
  <2>5. /\ attempt' \in [Booted -> 0..Attempts] /\ attempt'[s] = attempt[s] + 1
        /\ \A r \in Booted : r # s => attempt'[r] = attempt[r]
    BY <1>2, <2>2, <2>3
  <2>6. k \notin running /\ k \notin reading
    BY <1>1, <1>2, <2>4 DEF RecordInv
  <2>7. <<s, attempt[s]>> \notin running
    <3>1. PICK j : j = <<s, attempt[s]>>  OBVIOUS
    <3>2. j[1] = s  BY <3>1
    <3> QED  BY <1>1, <2>2, <3>1, <3>2 DEF NothingLeft
  <2>8. attempt'[s] >= attempt[s]  BY <1>2, <2>5
  <2> QED  BY <1>2, <2>2, <2>4, <2>5, <2>6, <2>7, <2>8 DEF NoBoot
<1>4. CASE Retry(s)
  <2>1. PICK k : k = Client(s)  OBVIOUS
  <2>2. /\ stage[s] = "closing" /\ attempt' = attempt /\ stage' = [stage EXCEPT ![s] = "todo"]
        /\ closed' = closed /\ told' = told /\ running' = running \ {k} /\ reading' = reading \ {k}
        /\ asked' = [asked EXCEPT ![k] = {}] /\ out' = [out EXCEPT ![k] = <<>>]
    BY <1>4, <2>1 DEF Retry, CloseEnds
  <2>3. k \in closed /\ k = <<s, attempt[s]>>  BY <1>1, <2>1, <2>2 DEF StageInv, Client
  <2>4. asked' \in [Clients -> SUBSET Entry] /\ \A j \in Clients : asked'[j] \in SUBSET asked[j]
    BY <1>2, <2>2
  <2>6. out' \in [Clients -> Seq(Line)] /\ \A j \in Clients : out'[j] \in {out[j], <<>>}
    <3>1. out \in [Clients -> Seq(Line)] /\ out' = [out EXCEPT ![k] = <<>>] /\ <<>> \in Seq(Line)
      BY <1>2, <2>2
    <3> QED  BY <3>1
  <2>7. \A j \in reading \ reading' : j \in closed  BY <2>2, <2>3
  <2>8. <<s, attempt[s]>> \notin running' /\ attempt'[s] >= attempt[s]  BY <1>2, <2>2, <2>3
  <2>5. /\ stage' \in [Booted -> Booting \cup Finished \cup {"todo", "closing"}]
        /\ stage'[s] = "todo"
        /\ \A r \in Booted : r # s => stage'[r] = stage[r]
    BY <1>2, <2>2
  <2> QED  BY <1>2, <2>2, <2>4, <2>5, <2>6, <2>7, <2>8 DEF NoBoot
<1>5. CASE GiveUp(s)
  <2>1. /\ stage[s] = "todo" /\ attempt' = attempt /\ stage' = [stage EXCEPT ![s] = "gaveup"]
        /\ closed' = closed /\ told' = told \cup {s} /\ running' = running /\ reading' = reading
        /\ asked' = asked /\ out' = out
    BY <1>5 DEF GiveUp, clientVars, processVars
  <2>2. <<s, attempt[s]>> \notin running
    <3>1. PICK j : j = <<s, attempt[s]>>  OBVIOUS
    <3>2. j[1] = s  BY <3>1
    <3> QED  BY <1>1, <2>1, <3>1, <3>2 DEF NothingLeft
  <2>3. /\ stage' \in [Booted -> Booting \cup Finished \cup {"todo", "closing"}]
        /\ stage'[s] = "gaveup"
        /\ \A r \in Booted : r # s => stage'[r] = stage[r]
    BY <1>2, <2>1 DEF Finished
  <2> QED  BY <1>2, <2>1, <2>2, <2>3 DEF NoBoot
<1> QED  BY <1>3, <1>4, <1>5

(* Such a step keeps the invariant.                                        *)
LEMMA NoBootKeeps ==
  ASSUME BridgeInv, NEW s \in Booted, SpawnFails(s) \/ Retry(s) \/ GiveUp(s)
  PROVE  BridgeInv'
<1>1. /\ Parameters /\ Types /\ CallInv /\ StageInv /\ RecordInv /\ NothingLeft /\ CallsInv
      /\ s \in Callers
  BY DEF BridgeInv, CallsInv, Callers
<1>2. /\ attempt \in [Booted -> 0..Attempts] /\ Attempts \in Nat /\ attempt[s] \in Nat
      /\ stage \in [Booted -> Booting \cup Finished \cup {"todo", "closing"}]
      /\ running \in SUBSET Clients /\ reading \in SUBSET Clients /\ closed \in SUBSET Clients
      /\ tools \in [Names -> Clients \cup {None}] /\ told \in SUBSET Booted
      /\ asked \in [Clients -> SUBSET Entry] /\ out \in [Clients -> Seq(Line)]
  BY <1>1 DEF Types, Parameters
<1>3. /\ call' = call /\ nextId' = nextId /\ pending' = pending /\ lock' = lock /\ late' = late
      /\ stuck' = stuck /\ config' = config /\ phase' = phase /\ records' = records
      /\ leaving' = leaving /\ tools' = tools
  BY DEF SpawnFails, Retry, GiveUp, clientVars, historyVars
<1>4. stage[s] \in {"todo", "closing"}  BY DEF SpawnFails, Retry, GiveUp
<1>5. ~Kept(s)  BY <1>1, <1>4 DEF RecordInv
<1>6. \A r \in Booted : Kept(r)' <=> Kept(r)  BY <1>3 DEF Kept
<1>7. \A j \in Clients : j[1] \in Booted /\ j[2] \in Nat /\ j = <<j[1], j[2]>>  BY <1>1, OfClient
<1>8. call[s].at \notin Busy  BY <1>1, <1>4 DEF CallInv, Booting
<1>9. phase = "loading"  BY <1>1, <1>4 DEF StageInv, Finished
<1>10. NoBoot(s)  BY NoBootIs
<1>11. \A r \in Booted : attempt'[r] >= attempt[r] /\ attempt[r] \in Nat /\ attempt'[r] \in Nat
  <2>1. ASSUME NEW r \in Booted
        PROVE attempt'[r] >= attempt[r] /\ attempt[r] \in Nat /\ attempt'[r] \in Nat
    <3>1. attempt' \in [Booted -> 0..Attempts]  BY <1>10 DEF NoBoot
    <3>2. attempt[r] \in Nat /\ attempt'[r] \in Nat  BY <1>2, <3>1
    <3>3. CASE r = s  BY <1>10, <3>2, <3>3 DEF NoBoot
    <3>4. CASE r # s
      <4>1. attempt'[r] = attempt[r]  BY <1>10, <3>4 DEF NoBoot
      <4> QED  BY <3>2, <4>1
    <3> QED  BY <3>2, <3>3, <3>4
  <2> QED  BY <2>1
<1>12. Types'
  BY <1>1, <1>2, <1>3, <1>10 DEF Types, Finished, NoBoot
<1>13. GoOn
  <2>1. \A r \in Booted : stage'[r] = stage[r] \/ call[r].at \notin Busy  BY <1>8, <1>10 DEF NoBoot
  <2>2. \A j \in Clients : j \in reading /\ j \notin closed => j \in reading' /\ j \notin closed'
    BY <1>10 DEF NoBoot
  <2>3. \A j \in Clients : asked'[j] \in SUBSET asked[j] /\ out'[j] \in {out[j], <<>>}
    BY <1>10 DEF NoBoot
  <2> QED  BY <1>1, <1>3, <1>10, <1>11, <2>1, <2>2, <2>3, PluginGoesOn DEF NoBoot
<1>14. CallInv' /\ OwnIds' /\ Expected' /\ NobodyHangs'
  BY <1>1, <1>12, <1>13, GoOnKeeps
<1>15. StageInv'
  <2>1. ASSUME NEW r \in Booted
        PROVE  /\ stage'[r] \in Booting \cup {"closing", "ready"} => attempt'[r] >= 1
               /\ stage'[r] \in Booting => <<r, attempt'[r]>> \notin closed'
               /\ stage'[r] = "closing" => <<r, attempt'[r]>> \in closed'
               /\ stage'[r] \in {"ready", "gaveup"} \/ config'[r] = "bad" => r \in told'
               /\ stage'[r] = "off" => config'[r] # "good"
               /\ phase' # "loading" => stage'[r] \in Finished
    <3>1. CASE r = s
      <4>1. config[s] = "bad" => s \in told  BY <1>1 DEF StageInv
      <4> QED  BY <1>3, <1>9, <1>10, <3>1, <4>1 DEF Booting, NoBoot
    <3>2. CASE r # s
      <4>1. attempt'[r] = attempt[r] /\ stage'[r] = stage[r] /\ told \in SUBSET told'
        BY <1>10, <3>2 DEF NoBoot
      <4>2. <<r, attempt[r]>> \in closed' <=> <<r, attempt[r]>> \in closed
        BY <1>10, <3>2 DEF NoBoot
      <4> QED  BY <1>1, <1>3, <4>1, <4>2 DEF StageInv, Client
    <3> QED  BY <3>1, <3>2
  <2> QED  BY <2>1 DEF StageInv, Client
<1>16. RecordInv'
  <2>1. \A r \in Booted : Kept(r)' => stage'[r] = "ready"
    BY <1>1, <1>5, <1>6, <1>10 DEF RecordInv, NoBoot
  <2>2. \A j \in running' : stage'[j[1]] = "ready" => Kept(j[1])'
    BY <1>1, <1>2, <1>6, <1>7, <1>10 DEF RecordInv, NoBoot
  <2>3. ASSUME NEW j \in closed' \cup running' \cup reading'  PROVE j[2] <= attempt'[j[1]]
    <3>1. j \in Clients  BY <1>2, <1>10 DEF NoBoot
    <3>2. CASE j \in closed' \ closed  BY <1>7, <1>10, <1>11, <3>1, <3>2 DEF NoBoot
    <3>3. CASE j \in closed \cup running \cup reading
      <4>1. j[2] <= attempt[j[1]]  BY <1>1, <3>3 DEF RecordInv
      <4> QED  BY <1>7, <1>11, <3>1, <4>1
    <3> QED  BY <1>10, <2>3, <3>2, <3>3 DEF NoBoot
  <2> QED  BY <1>1, <1>3, <2>1, <2>2, <2>3 DEF RecordInv, OneEach
<1>17. NothingLeft'
  <2>1. ASSUME NEW t \in Names, tools'[t] # None
        PROVE  /\ tools'[t] \notin closed' /\ tools'[t][2] = attempt'[tools'[t][1]]
               /\ \E r \in Range(records') \cup Range(leaving') : r.server = tools'[t][1]
                    /\ t \in r.names
    <3>1. /\ tools[t] \notin closed /\ tools[t][2] = attempt[tools[t][1]]
          /\ \E r \in Range(records) \cup Range(leaving) : r.server = tools[t][1] /\ t \in r.names
      BY <1>1, <1>3, <2>1 DEF NothingLeft
    <3>2. tools[t][1] # s  BY <1>5, <3>1 DEF Kept
    <3>3. tools[t] \in Clients /\ tools[t][1] \in Booted  BY <1>2, <1>3, <1>7, <2>1
    <3> QED  BY <1>3, <1>10, <3>1, <3>2, <3>3 DEF NoBoot
  <2>2. ASSUME NEW j \in running'
        PROVE  j[2] = attempt'[j[1]] /\ stage'[j[1]] \notin {"todo", "gaveup", "off"}
    <3>1. j \in running /\ j \in Clients  BY <1>2, <1>10 DEF NoBoot
    <3>2. j[2] = attempt[j[1]] /\ stage[j[1]] \notin {"todo", "gaveup", "off"}
      BY <1>1, <3>1 DEF NothingLeft
    <3>3. CASE j[1] = s
      <4>1. j = <<s, attempt[s]>>  BY <1>7, <3>1, <3>2, <3>3
      <4> QED  BY <1>10, <2>2, <4>1 DEF NoBoot
    <3>4. CASE j[1] # s  BY <1>7, <1>10, <3>1, <3>2, <3>4 DEF NoBoot
    <3> QED  BY <3>3, <3>4
  <2> QED  BY <1>3, <1>9, <2>1, <2>2 DEF NothingLeft
<1> QED  BY <1>1, <1>12, <1>14, <1>15, <1>16, <1>17 DEF BridgeInv

(* A ready server goes into the record, its tool into the table.           *)
LEMMA RegisterKeeps ==
  ASSUME BridgeInv, NEW s \in Booted, RegisterServer(s)
  PROVE  BridgeInv'
<1>1. /\ Parameters /\ Types /\ CallInv /\ StageInv /\ RecordInv /\ NothingLeft /\ CallsInv
      /\ s \in Callers
  BY DEF BridgeInv, CallsInv, Callers
<1>2. PICK k : k = Client(s)  OBVIOUS
<1>3. PICK t \in Names :
        /\ tools' = IF tools[t] = None THEN [tools EXCEPT ![t] = Client(s)] ELSE tools
        /\ records' = Append(records, Record(s, IF tools[t] = None THEN {t} ELSE {}))
  BY DEF RegisterServer
<1>4. PICK e : e = Record(s, IF tools[t] = None THEN {t} ELSE {})  OBVIOUS
<1>5. /\ stage[s] = "tools/list" /\ call[s].at = "done" /\ stage' = [stage EXCEPT ![s] = "ready"]
      /\ tools' = (IF tools[t] = None THEN [tools EXCEPT ![t] = k] ELSE tools)
      /\ records' = Append(records, e) /\ told' = told \cup {s}
      /\ config' = config /\ phase' = phase /\ attempt' = attempt /\ leaving' = leaving
      /\ nextId' = nextId /\ pending' = pending /\ lock' = lock /\ asked' = asked /\ out' = out
      /\ running' = running /\ reading' = reading /\ closed' = closed /\ call' = call
      /\ late' = late /\ stuck' = stuck
  BY <1>2, <1>3, <1>4 DEF RegisterServer, Succeeded, clientVars, processVars, historyVars
<1>6. /\ attempt \in [Booted -> 0..Attempts] /\ Attempts \in Nat /\ attempt[s] \in 0..Attempts
      /\ stage \in [Booted -> Booting \cup Finished \cup {"todo", "closing"}]
      /\ running \in SUBSET Clients /\ tools \in [Names -> Clients \cup {None}]
      /\ records \in Seq(ServerRecords) /\ told \in SUBSET Booted
  BY <1>1 DEF Types, Parameters
<1>7. attempt[s] \in 1..Attempts  BY <1>1, <1>5, <1>6 DEF StageInv, Booting
<1>8. /\ k \in Clients /\ k[1] = s /\ k[2] = attempt[s] /\ k \notin closed /\ k # None
  BY <1>1, <1>2, <1>5, <1>7, ClientIs DEF Client, StageInv, Booting, Parameters
<1>9. /\ \A r \in Booted : r # s => stage'[r] = stage[r]
      /\ stage' \in [Booted -> Booting \cup Finished \cup {"todo", "closing"}]
      /\ stage'[s] = "ready"
  BY <1>5, <1>6 DEF Finished
<1>10. e \in ServerRecords /\ e.server = s /\ (tools[t] = None => t \in e.names)
  BY <1>4 DEF Record, ServerRecords
<1>11. /\ records' \in Seq(ServerRecords) /\ Len(records) \in Nat /\ DOMAIN records = 1..Len(records)
       /\ DOMAIN records' = 1..(Len(records) + 1) /\ records'[Len(records) + 1] = e
       /\ \A n \in 1..Len(records) : records'[n] = records[n]
  BY <1>5, <1>6, <1>10
<1>12. Range(records') = Range(records) \cup {e}
  <2>1. Len(records) + 1 \in DOMAIN records' /\ \A n \in DOMAIN records : n \in DOMAIN records'
    BY <1>11
  <2>2. ASSUME NEW n \in DOMAIN records'  PROVE records'[n] \in Range(records) \cup {e}
    <3>1. n \in 1..Len(records) \/ n = Len(records) + 1  BY <1>11
    <3> QED  BY <1>11, <3>1 DEF Range
  <2> QED  BY <1>11, <2>1, <2>2 DEF Range
<1>13. phase = "loading" /\ ~Kept(s)
  BY <1>1, <1>5 DEF StageInv, Finished, RecordInv
<1>14. \A r \in Booted : Kept(r)' <=> Kept(r) \/ r = s
  BY <1>5, <1>10, <1>12 DEF Kept
<1>15. tools' \in [Names -> Clients \cup {None}]
       /\ \A u \in Names : tools'[u] = tools[u] \/ (u = t /\ tools[t] = None /\ tools'[u] = k)
  BY <1>5, <1>6, <1>8
<1>16. Types'
  BY <1>1, <1>5, <1>6, <1>9, <1>11, <1>15 DEF Types
<1>17. GoOn
  <2>1. \A r \in Booted : attempt'[r] >= attempt[r]
          /\ (stage'[r] = stage[r] \/ call[r].at \notin Busy)
    BY <1>5, <1>6, <1>9 DEF Busy
  <2> QED  BY <1>1, <1>5, <1>6, <2>1, PluginGoesOn
<1>18. CallInv' /\ OwnIds' /\ Expected' /\ NobodyHangs'
  BY <1>1, <1>16, <1>17, GoOnKeeps
<1>19. StageInv'
  <2>1. ASSUME NEW r \in Booted
        PROVE  /\ stage'[r] \in Booting \cup {"closing", "ready"} => attempt'[r] >= 1
               /\ stage'[r] \in Booting => <<r, attempt'[r]>> \notin closed'
               /\ stage'[r] = "closing" => <<r, attempt'[r]>> \in closed'
               /\ stage'[r] \in {"ready", "gaveup"} \/ config'[r] = "bad" => r \in told'
               /\ stage'[r] = "off" => config'[r] # "good"
               /\ phase' # "loading" => stage'[r] \in Finished
    <3>1. CASE r = s
      BY <1>5, <1>7, <1>9, <3>1 DEF Booting, Finished
    <3>2. CASE r # s
      BY <1>1, <1>5, <1>9, <3>2 DEF StageInv, Client
    <3> QED  BY <3>1, <3>2
  <2> QED  BY <2>1 DEF StageInv, Client
<1>20. RecordInv'
  <2>1. \A r \in Booted : Kept(r)' => stage'[r] = "ready"
    BY <1>1, <1>9, <1>14 DEF RecordInv
  <2>2. \A j \in running' : stage'[j[1]] = "ready" => Kept(j[1])'
    <3>1. \A j \in running : j[1] \in Booted  BY <1>1, <1>6, OfClient
    <3> QED  BY <1>1, <1>5, <1>9, <1>14, <3>1 DEF RecordInv
  <2>3. OneEach(records')
    <3>1. \A n \in 1..Len(records) : records[n].server # s
      BY <1>11, <1>13 DEF Kept, Range
    <3>2. OneEach(records)  BY <1>1 DEF RecordInv
    <3>3. ASSUME NEW i \in DOMAIN records', NEW j \in DOMAIN records',
                 records'[i].server = records'[j].server
          PROVE  i = j
      <4>1. i \in 1..Len(records) \/ i = Len(records) + 1  BY <1>11
      <4>2. j \in 1..Len(records) \/ j = Len(records) + 1  BY <1>11
      <4> QED  BY <1>10, <1>11, <3>1, <3>2, <3>3, <4>1, <4>2 DEF OneEach
    <3> QED  BY <3>3 DEF OneEach
  <2> QED  BY <1>1, <1>5, <1>13, <2>1, <2>2, <2>3 DEF RecordInv
<1>21. NothingLeft'
  <2>1. ASSUME NEW u \in Names, tools'[u] # None
        PROVE  /\ tools'[u] \notin closed' /\ tools'[u][2] = attempt'[tools'[u][1]]
               /\ \E r \in Range(records') \cup Range(leaving') : r.server = tools'[u][1]
                    /\ u \in r.names
    <3>1. CASE tools'[u] = tools[u]
      BY <1>1, <1>5, <1>12, <2>1, <3>1 DEF NothingLeft
    <3>2. CASE u = t /\ tools[t] = None /\ tools'[u] = k
      BY <1>5, <1>8, <1>10, <1>12, <3>2
    <3> QED  BY <1>15, <3>1, <3>2
  <2>2. ASSUME NEW j \in running'
        PROVE  j[2] = attempt'[j[1]] /\ stage'[j[1]] \notin {"todo", "gaveup", "off"}
    <3>1. j \in running /\ j[1] \in Booted  BY <1>1, <1>5, <1>6, OfClient
    <3> QED  BY <1>1, <1>5, <1>9, <3>1 DEF NothingLeft
  <2> QED  BY <1>5, <1>13, <2>1, <2>2 DEF NothingLeft
<1> QED  BY <1>1, <1>16, <1>18, <1>19, <1>20, <1>21 DEF BridgeInv

(* The boots are through, on_unload takes the records, or has left none.   *)
LEMMA PhaseKeeps ==
  ASSUME BridgeInv, Loaded \/ Unload \/ Unloaded
  PROVE  BridgeInv'
<1>1. /\ Parameters /\ Types /\ CallInv /\ StageInv /\ RecordInv /\ NothingLeft /\ CallsInv
  BY DEF BridgeInv, CallsInv
<1>2. /\ config' = config /\ stage' = stage /\ attempt' = attempt /\ tools' = tools /\ told' = told
      /\ nextId' = nextId /\ pending' = pending /\ lock' = lock /\ asked' = asked /\ out' = out
      /\ running' = running /\ reading' = reading /\ closed' = closed /\ call' = call
      /\ late' = late /\ stuck' = stuck
  BY DEF Loaded, Unload, Unloaded, clientVars, processVars, historyVars
<1>3. /\ records \in Seq(ServerRecords) /\ leaving \in Seq(ServerRecords) /\ attempt \in [Booted -> 0..Attempts]
      /\ tools \in [Names -> Clients \cup {None}]
  BY <1>1 DEF Types
<1>4. \/ /\ phase = "loading" /\ \A s \in Booted : stage[s] \in Finished
         /\ phase' = "loaded" /\ records' = records /\ leaving' = leaving
      \/ /\ phase = "loaded" /\ phase' = "unloading" /\ leaving' = records /\ records' = <<>>
      \/ /\ phase = "unloading" /\ phase' = "unloaded" /\ leaving = <<>>
         /\ records' = records /\ leaving' = leaving
  BY DEF Loaded, Unload, Unloaded
<1>5. Range(<<>>) = {}  BY DEF Range
<1>6. /\ phase # "unloading" => leaving = <<>>
      /\ phase \notin {"loading", "loaded"} => records = <<>>
  BY <1>1 DEF RecordInv
<1>7. Range(records') \cup Range(leaving') = Range(records) \cup Range(leaving)
  BY <1>4, <1>5, <1>6
<1>8. \A s : Kept(s)' <=> Kept(s)  BY <1>7 DEF Kept
<1>9. Types'
  <2>1. records' \in Seq(ServerRecords) /\ leaving' \in Seq(ServerRecords)
    <3>1. <<>> \in Seq(ServerRecords)  OBVIOUS
    <3> QED  BY <1>3, <1>4, <3>1
  <2>2. phase' \in {"loading", "loaded", "unloading", "unloaded"}  BY <1>4
  <2> QED  BY <1>1, <1>2, <2>1, <2>2 DEF Types
<1>10. GoOn
  <2>1. \A s \in Booted : attempt'[s] >= attempt[s]  BY <1>2, <1>3
  <2> QED  BY <1>1, <1>2, <1>3, <2>1, PluginGoesOn
<1>11. CallInv' /\ OwnIds' /\ Expected' /\ NobodyHangs'
  BY <1>1, <1>9, <1>10, GoOnKeeps
<1>12. StageInv'
  <2>1. phase' # "loading" => \A s \in Booted : stage[s] \in Finished
    BY <1>1, <1>4 DEF StageInv
  <2> QED  BY <1>1, <1>2, <2>1 DEF StageInv, Client
<1>13. RecordInv'
  <2>1. OneEach(records') /\ OneEach(leaving')
    <3>1. OneEach(<<>>)  BY DEF OneEach
    <3> QED  BY <1>1, <1>4, <3>1 DEF RecordInv
  <2>2. /\ phase' # "unloading" => leaving' = <<>>
        /\ phase' \notin {"loading", "loaded"} => records' = <<>>
    BY <1>4, <1>6
  <2> QED  BY <1>1, <1>2, <1>8, <2>1, <2>2 DEF RecordInv
<1>14. NothingLeft'
  <2>1. ASSUME phase' = "unloaded"  PROVE running' = {} /\ \A t \in Names : tools'[t] = None
    <3>1. phase = "unloading" /\ leaving = <<>> /\ records = <<>>  BY <1>4, <1>6, <2>1
    <3>2. \A s : ~Kept(s)  BY <1>5, <3>1 DEF Kept
    <3>3. \A t \in Names : tools[t] = None  BY <1>1, <3>2 DEF NothingLeft, Kept
    <3>4. ASSUME NEW j \in running  PROVE FALSE
      <4>1. j[1] \in Booted /\ stage[j[1]] \notin {"todo", "gaveup", "off"}
        BY <1>1, OfClient DEF NothingLeft, Types
      <4>2. stage[j[1]] = "ready"  BY <1>1, <3>1, <4>1 DEF StageInv, Finished
      <4> QED  BY <1>1, <3>2, <4>2 DEF RecordInv
    <3> QED  BY <1>2, <3>3, <3>4
  <2> QED  BY <1>1, <1>2, <1>7, <2>1 DEF NothingLeft
<1> QED  BY <1>1, <1>9, <1>11, <1>12, <1>13, <1>14 DEF BridgeInv

(* The server on_unload is at: the one record that is its, its client, and *)
(* what is left of the table without its names.                            *)
LEMMA LeavingIs ==
  ASSUME BridgeInv, phase = "unloading", leaving # <<>>
  PROVE  LET s == Head(leaving).server
         IN  /\ s \in Booted /\ Client(s) \in Clients /\ Client(s)[1] = s
             /\ Client(s)[2] = attempt[s]
             /\ stage[s] = "ready" /\ records = <<>> /\ Range(records) = {}
             /\ Tail(leaving) \in Seq(ServerRecords) /\ OneEach(Tail(leaving))
             /\ Range(leaving) = {Head(leaving)} \cup Range(Tail(leaving))
             /\ \A r \in Range(Tail(leaving)) : r.server # s
             /\ Unregistered \in [Names -> Clients \cup {None}]
             /\ \A t \in Names : Unregistered[t] # None =>
                  Unregistered[t] = tools[t] /\ t \notin Head(leaving).names
             /\ \A t \in Names : Unregistered[t] # None =>
                  \E r \in Range(Tail(leaving)) : r.server = tools[t][1] /\ t \in r.names
<1> DEFINE s == Head(leaving).server
           rest == Tail(leaving)
<1>1. Parameters /\ Types /\ StageInv /\ RecordInv /\ NothingLeft  BY DEF BridgeInv
<1>2. leaving \in Seq(ServerRecords) /\ tools \in [Names -> Clients \cup {None}]
      /\ attempt \in [Booted -> 0..Attempts] /\ Attempts \in Nat
  BY <1>1 DEF Types, Parameters
<1>3. /\ Len(leaving) \in Nat /\ DOMAIN leaving = 1..Len(leaving) /\ 1 \in DOMAIN leaving
      /\ Head(leaving) = leaving[1] /\ Head(leaving) \in ServerRecords
      /\ rest \in Seq(ServerRecords) /\ DOMAIN rest = 1..(Len(leaving) - 1)
      /\ \A n \in DOMAIN rest : n + 1 \in DOMAIN leaving /\ rest[n] = leaving[n + 1]
  BY <1>2
<1>4. s \in Booted  BY <1>3 DEF ServerRecords
<1>5. Range(leaving) = {Head(leaving)} \cup Range(rest)
  <2>1. ASSUME NEW n \in DOMAIN leaving  PROVE leaving[n] \in {Head(leaving)} \cup Range(rest)
    <3>1. CASE n = 1  BY <1>3, <3>1
    <3>2. CASE n # 1
      <4>1. n - 1 \in DOMAIN rest /\ rest[n - 1] = leaving[n]  BY <1>3, <3>2
      <4> QED  BY <4>1 DEF Range
    <3> QED  BY <3>1, <3>2
  <2>2. Range(rest) \in SUBSET Range(leaving)  BY <1>3 DEF Range
  <2> QED  BY <1>3, <2>1, <2>2 DEF Range
<1>6. OneEach(leaving) /\ records = <<>>  BY <1>1 DEF RecordInv
<1>7. \A r \in Range(rest) : r.server # s
  <2>1. ASSUME NEW n \in DOMAIN rest, rest[n].server = s  PROVE FALSE
    <3>1. n + 1 \in DOMAIN leaving /\ leaving[n + 1].server = leaving[1].server /\ n + 1 # 1
      BY <1>3, <2>1
    <3> QED  BY <1>3, <1>6, <3>1 DEF OneEach
  <2> QED  BY <2>1 DEF Range
<1>8. OneEach(rest)
  <2>1. ASSUME NEW i \in DOMAIN rest, NEW j \in DOMAIN rest, rest[i].server = rest[j].server
        PROVE  i = j
    <3>1. i + 1 = j + 1  BY <1>3, <1>6, <2>1 DEF OneEach
    <3> QED  BY <1>3, <3>1
  <2> QED  BY <2>1 DEF OneEach
<1>9. Kept(s)  BY <1>5 DEF Kept
<1>10. stage[s] = "ready"  BY <1>1, <1>4, <1>9 DEF RecordInv
<1>11. attempt[s] \in 1..Attempts  BY <1>1, <1>2, <1>4, <1>10 DEF StageInv
<1>12. Client(s) \in Clients /\ Client(s)[1] = s /\ Client(s)[2] = attempt[s]
  BY <1>4, <1>11, ClientIs DEF Client
<1>13. Range(records) = {}  BY <1>6 DEF Range
<1>14. /\ Unregistered \in [Names -> Clients \cup {None}]
       /\ \A t \in Names : Unregistered[t] # None =>
            Unregistered[t] = tools[t] /\ t \notin Head(leaving).names
  BY <1>2 DEF Unregistered
<1>15. ASSUME NEW t \in Names, Unregistered[t] # None
       PROVE  \E r \in Range(rest) : r.server = tools[t][1] /\ t \in r.names
  <2>1. tools[t] # None /\ t \notin Head(leaving).names  BY <1>14, <1>15
  <2>2. PICK r \in Range(records) \cup Range(leaving) : r.server = tools[t][1] /\ t \in r.names
    BY <1>1, <2>1 DEF NothingLeft
  <2>3. r \in Range(rest)  BY <1>5, <1>13, <2>1, <2>2
  <2> QED  BY <2>2, <2>3
<1> QED  BY <1>3, <1>4, <1>5, <1>6, <1>7, <1>8, <1>10, <1>12, <1>13, <1>14, <1>15

(* Its names are unregistered, and its client begins to close.             *)
LEMMA UnloadServerKeeps ==
  ASSUME BridgeInv, UnloadServer
  PROVE  BridgeInv'
<1>1. /\ Parameters /\ Types /\ CallInv /\ StageInv /\ RecordInv /\ NothingLeft /\ CallsInv
  BY DEF BridgeInv, CallsInv
<1>2. PICK s : s = Head(leaving).server  OBVIOUS
<1>3. PICK k : k = Client(s)  OBVIOUS
<1>4. /\ phase = "unloading" /\ leaving # <<>> /\ k \notin closed /\ tools' = Unregistered
      /\ closed' = closed \cup {k} /\ call' = Fail(k) /\ pending' = [pending EXCEPT ![k] = {}]
      /\ config' = config /\ phase' = phase /\ stage' = stage /\ attempt' = attempt
      /\ records' = records /\ leaving' = leaving /\ told' = told /\ nextId' = nextId
      /\ lock' = lock
      /\ asked' = asked /\ out' = out /\ running' = running /\ reading' = reading
      /\ late' = late /\ stuck' = stuck
  BY <1>2, <1>3 DEF UnloadServer, CloseBegins, historyVars
<1>5. /\ s \in Booted /\ k \in Clients /\ k[1] = s /\ k[2] = attempt[s] /\ stage[s] = "ready"
      /\ Range(leaving) = {Head(leaving)} \cup Range(Tail(leaving))
      /\ \A r \in Range(Tail(leaving)) : r.server # s
      /\ tools' \in [Names -> Clients \cup {None}]
      /\ \A t \in Names : tools'[t] # None => tools'[t] = tools[t]
      /\ \A t \in Names : tools'[t] # None =>
           \E r \in Range(Tail(leaving)) : r.server = tools[t][1] /\ t \in r.names
  BY <1>2, <1>3, <1>4, LeavingIs
<1>6. GoOn /\ call' \in [Callers -> Call] /\ pending' \in [Clients -> SUBSET Entry]
  <2>1. \A j \in Clients : j # k /\ j \in reading /\ j \notin closed
          => j \in reading' /\ j \notin closed'
    BY <1>4
  <2> QED  BY <1>1, <1>4, <1>5, <2>1, FailGoesOn
<1>7. closed \in SUBSET Clients /\ attempt \in [Booted -> 0..Attempts] /\ Attempts \in Nat
  BY <1>1 DEF Types, Parameters
<1>8. Types'
  BY <1>1, <1>4, <1>5, <1>6, <1>7 DEF Types
<1>9. CallInv' /\ OwnIds' /\ Expected' /\ NobodyHangs'
  BY <1>1, <1>6, <1>8, GoOnKeeps
<1>10. StageInv'
  <2>1. \A r \in Booted : stage[r] \in Booting => FALSE
    BY <1>1, <1>4 DEF StageInv, Booting, Finished
  <2> QED  BY <1>1, <1>4, <2>1 DEF StageInv, Client
<1>11. RecordInv'
  <2>1. \A j \in closed' \cup running' \cup reading' : j[2] <= attempt'[j[1]]
    BY <1>1, <1>4, <1>5, <1>7 DEF RecordInv
  <2>2. \A r : Kept(r)' <=> Kept(r)  BY <1>4 DEF Kept
  <2> QED  BY <1>1, <1>4, <2>1, <2>2 DEF RecordInv, OneEach
<1>12. NothingLeft'
  <2>1. ASSUME NEW t \in Names, tools'[t] # None
        PROVE  /\ tools'[t] \notin closed' /\ tools'[t][2] = attempt'[tools'[t][1]]
               /\ \E r \in Range(records') \cup Range(leaving') : r.server = tools'[t][1]
                    /\ t \in r.names
    <3>1. PICK r \in Range(Tail(leaving)) : r.server = tools[t][1] /\ t \in r.names
      BY <1>5, <2>1
    <3>2. tools'[t] = tools[t] /\ tools[t] # k  BY <1>5, <2>1, <3>1
    <3>3. tools[t] \notin closed /\ tools[t][2] = attempt[tools[t][1]]
      BY <1>1, <2>1, <3>2 DEF NothingLeft
    <3> QED  BY <1>4, <1>5, <3>1, <3>2, <3>3
  <2> QED  BY <1>1, <1>4, <2>1 DEF NothingLeft
<1> QED  BY <1>1, <1>8, <1>9, <1>10, <1>11, <1>12 DEF BridgeInv

(* Its child is gone, and the next one's turn comes.                       *)
LEMMA ServerUnloadedKeeps ==
  ASSUME BridgeInv, ServerUnloaded
  PROVE  BridgeInv'
<1>1. /\ Parameters /\ Types /\ CallInv /\ StageInv /\ RecordInv /\ NothingLeft /\ CallsInv
  BY DEF BridgeInv, CallsInv
<1>2. PICK s : s = Head(leaving).server  OBVIOUS
<1>3. PICK k : k = Client(s)  OBVIOUS
<1>4. /\ phase = "unloading" /\ leaving # <<>> /\ k \in closed /\ tools' = Unregistered
      /\ leaving' = Tail(leaving) /\ running' = running \ {k} /\ reading' = reading \ {k}
      /\ asked' = [asked EXCEPT ![k] = {}] /\ out' = [out EXCEPT ![k] = <<>>]
      /\ config' = config /\ phase' = phase /\ stage' = stage /\ attempt' = attempt
      /\ records' = records /\ told' = told /\ nextId' = nextId /\ pending' = pending
      /\ lock' = lock
      /\ closed' = closed /\ call' = call /\ late' = late /\ stuck' = stuck
  BY <1>2, <1>3 DEF ServerUnloaded, CloseEnds, historyVars
<1>5. /\ s \in Booted /\ k \in Clients /\ k[1] = s /\ k[2] = attempt[s]
      /\ Range(records) = {} /\ leaving' \in Seq(ServerRecords) /\ OneEach(leaving')
      /\ Range(leaving) = {Head(leaving)} \cup Range(leaving')
      /\ \A r \in Range(leaving') : r.server # s
      /\ tools' \in [Names -> Clients \cup {None}]
      /\ \A t \in Names : tools'[t] # None => tools'[t] = tools[t]
      /\ \A t \in Names : tools'[t] # None =>
           \E r \in Range(leaving') : r.server = tools[t][1] /\ t \in r.names
  BY <1>2, <1>3, <1>4, LeavingIs
<1>6. /\ asked \in [Clients -> SUBSET Entry] /\ out \in [Clients -> Seq(Line)] /\ <<>> \in Seq(Line)
      /\ attempt \in [Booted -> 0..Attempts] /\ Attempts \in Nat
      /\ running \in SUBSET Clients /\ reading \in SUBSET Clients
  BY <1>1 DEF Types, Parameters
<1>7. /\ asked' \in [Clients -> SUBSET Entry] /\ out' \in [Clients -> Seq(Line)]
      /\ \A j \in Clients : asked'[j] \in SUBSET asked[j] /\ out'[j] \in {out[j], <<>>}
  BY <1>4, <1>6
<1>8. Types'
  BY <1>1, <1>4, <1>5, <1>6, <1>7 DEF Types
<1>9. GoOn
  <2>1. \A r \in Booted : attempt'[r] >= attempt[r]  BY <1>4, <1>6
  <2>2. \A j \in Clients : j \in reading /\ j \notin closed => j \in reading' /\ j \notin closed'
    BY <1>4
  <2> QED  BY <1>1, <1>4, <1>6, <1>7, <2>1, <2>2, PluginGoesOn
<1>10. CallInv' /\ OwnIds' /\ Expected' /\ NobodyHangs'
  BY <1>1, <1>8, <1>9, GoOnKeeps
<1>11. StageInv'
  BY <1>1, <1>4 DEF StageInv, Client
<1>12. \A r : Kept(r)' <=> (Kept(r) /\ r # s)
  BY <1>2, <1>4, <1>5 DEF Kept
<1>13. RecordInv'
  <2>1. ASSUME NEW j \in running', stage'[j[1]] = "ready"  PROVE Kept(j[1])'
    <3>1. j \in running /\ j \in Clients /\ j # k  BY <1>4, <1>6, <2>1
    <3>2. Kept(j[1]) /\ j[2] = attempt[j[1]]
      BY <1>1, <1>4, <2>1, <3>1 DEF RecordInv, NothingLeft
    <3>3. j[1] # s
      <4>1. j = <<j[1], j[2]>> /\ k = <<k[1], k[2]>>  BY <1>1, <1>5, <3>1, OfClient
      <4> QED  BY <1>5, <3>1, <3>2, <4>1
    <3> QED  BY <1>12, <3>2, <3>3
  <2> QED  BY <1>1, <1>4, <1>5, <1>12, <2>1 DEF RecordInv
<1>14. NothingLeft'
  <2>1. ASSUME NEW t \in Names, tools'[t] # None
        PROVE  /\ tools'[t] \notin closed' /\ tools'[t][2] = attempt'[tools'[t][1]]
               /\ \E r \in Range(records') \cup Range(leaving') : r.server = tools'[t][1]
                    /\ t \in r.names
    BY <1>1, <1>4, <1>5, <2>1 DEF NothingLeft
  <2> QED  BY <1>1, <1>4, <2>1 DEF NothingLeft
<1> QED  BY <1>1, <1>8, <1>10, <1>11, <1>13, <1>14 DEF BridgeInv

(* The plugin before its boot.                                             *)
LEMMA BridgeInit ==
  ASSUME Parameters, Init
  PROVE  BridgeInv
<1>1. /\ phase = "loading" /\ records = <<>> /\ leaving = <<>> /\ running = {} /\ reading = {}
      /\ closed = {} /\ late = {} /\ stuck = {}
      /\ stage \in [Booted -> {"todo", "off"}]
      /\ \A s \in Booted : stage[s] = "off" <=> config[s] # "good"
      /\ attempt = [s \in Booted |-> 0] /\ tools = [t \in Names |-> None]
      /\ told = {s \in Booted : config[s] = "bad"}
      /\ config \in [Booted -> {"good", "off", "bad", "unseen"}]
      /\ nextId = [k \in Clients |-> 1] /\ pending = [k \in Clients |-> {}]
      /\ lock = [k \in Clients |-> None] /\ asked = [k \in Clients |-> {}]
      /\ out = [k \in Clients |-> <<>>] /\ call = [c \in Callers |-> Idle]
  BY DEF Init
<1>2. Idle \in Call /\ Idle.at = "idle" /\ Idle.future = None
  BY DEF Idle, Call, Verdicts
<1>3. Types
  <2>1. <<>> \in Seq(ServerRecords) /\ <<>> \in Seq(Line)  OBVIOUS
  <2>2. attempt \in [Booted -> 0..Attempts]  BY <1>1 DEF Parameters
  <2>3. call \in [Callers -> Call]  BY <1>1, <1>2
  <2> QED  BY <1>1, <2>1, <2>2, <2>3 DEF Types, Finished
<1>4. \A c \in Callers : call[c].at = "idle" /\ call[c].future = None
  BY <1>1, <1>2
<1>5. CallInv /\ Expected
  BY <1>4 DEF CallInv, Expected, Busy, Verdicts
<1>6. OwnIds
  <2>1. ASSUME NEW k \in Clients, NEW e \in Uses(k)  PROVE FALSE
    <3>1. pending[k] = {} /\ asked[k] = {} /\ out[k] = <<>>  BY <1>1
    <3>2. \A n \in DOMAIN out[k] : FALSE  BY <3>1
    <3> QED  BY <1>4, <3>1, <3>2, UsesIs DEF Busy
  <2> QED  BY <2>1 DEF OwnIds
<1>7. Range(<<>>) = {} /\ OneEach(<<>>)  BY DEF Range, OneEach
<1>8. StageInv
  BY <1>1 DEF StageInv, Booting
<1>9. RecordInv
  BY <1>1, <1>7 DEF RecordInv, Kept
<1>10. NobodyHangs
  BY <1>1, <1>4 DEF NobodyHangs, Busy
<1>11. NothingLeft
  BY <1>1 DEF NothingLeft
<1> QED  BY <1>3, <1>5, <1>6, <1>8, <1>9, <1>10, <1>11 DEF BridgeInv

(* The steps of callers, children and readers leave the plugin alone.      *)
LEMMA QuietKeeps ==
  ASSUME BridgeInv, PluginStill, Types', GoOn
  PROVE  BridgeInv'
<1>1. /\ Parameters /\ StageInv /\ RecordInv /\ NothingLeft /\ CallsInv
  BY DEF BridgeInv, CallsInv
<1> QED  BY <1>1, StillPlugin, GoOnKeeps DEF BridgeInv

(* The bridge's invariant, over each of its steps.                         *)
LEMMA BridgeStep ==
  ASSUME BridgeInv, [Next]_vars
  PROVE  BridgeInv'
<1>1. CallsInv /\ NothingLeft  BY DEF BridgeInv, CallsInv
<1>2. CASE UNCHANGED vars
  BY <1>2 DEF vars, pluginVars, clientVars, processVars, historyVars, BridgeInv, Types, CallInv,
              OwnIds, Uses, Expected, StageInv, Client, RecordInv, OneEach, Kept, NobodyHangs,
              Waits,
              NothingLeft
<1>3. ASSUME NEW c \in Calls, Lookup(c) \/ Run(c)  PROVE BridgeInv'
  <2>1. c \in Callers  BY DEF Callers
  <2>2. CASE Lookup(c)  BY <1>1, <2>2, LookupGoesOn, QuietKeeps
  <2>3. CASE Run(c) /\ call[c].client \in closed
    BY <1>1, <2>1, <2>3, CallerGoesOn, QuietKeeps
  <2>4. CASE Run(c) /\ call[c].client \notin closed
    BY <2>4, RunKeeps
  <2> QED  BY <1>3, <2>2, <2>3, <2>4
<1>4. ASSUME NEW c \in Callers,
             WriteLine(c) \/ Drained(c) \/ BrokenPipe(c) \/ Answered(c) \/ TimesOut(c)
      PROVE  BridgeInv'
  BY <1>1, <1>4, CallerGoesOn, QuietKeeps
<1>5. ASSUME NEW k \in Clients, ChildAnswers(k) \/ ChildDies(k) \/ ReadsLine(k) \/ ReaderEnds(k)
      PROVE  BridgeInv'
  BY <1>1, <1>5, ChildGoesOn, ReadGoesOn, ReaderEndGoesOn, QuietKeeps
<1>6. ASSUME NEW s \in Booted,
             Spawn(s) \/ SpawnFails(s) \/ ListTools(s) \/ RegisterServer(s) \/ BootFails(s)
             \/ Retry(s) \/ GiveUp(s)
      PROVE  BridgeInv'
  BY <1>6, SpawnKeeps, NoBootKeeps, ListToolsKeeps, RegisterKeeps, BootFailsKeeps
<1>7. CASE Loaded \/ Unload \/ UnloadServer \/ ServerUnloaded \/ Unloaded
  BY <1>7, PhaseKeeps, UnloadServerKeeps, ServerUnloadedKeeps
<1> QED  BY <1>2, <1>3, <1>4, <1>5, <1>6, <1>7 DEF Next

(* What the runs check of the bridge follows.                              *)
LEMMA BridgeTells ==
  ASSUME BridgeInv
  PROVE  OwnAnswer /\ NobodyHangs /\ NothingLeft /\ NoneSilent
<1>1. /\ Parameters /\ Types /\ CallInv /\ StageInv /\ NobodyHangs /\ NothingLeft
  BY DEF BridgeInv
<1>2. OwnAnswer
  BY <1>1 DEF OwnAnswer, CallInv, Verdicts
<1>3. NoneSilent
  <2>1. ASSUME phase # "loading", NEW s \in Booted
        PROVE config[s] \in {"off", "unseen"} \/ s \in told
    <3>1. stage[s] \in Finished /\ config[s] \in {"good", "off", "bad", "unseen"}
      BY <1>1, <2>1 DEF StageInv, Types
    <3> QED  BY <1>1, <3>1 DEF StageInv, Finished
  <2> QED  BY <2>1 DEF NoneSilent
<1> QED  BY <1>1, <1>2, <1>3

(* BridgeInv holds in every reachable state.                               *)
LEMMA BridgeInvariance == Parameters /\ Spec => []BridgeInv
<1>1. Parameters /\ Init => BridgeInv  BY BridgeInit
<1>2. BridgeInv /\ [Next]_vars => BridgeInv'  BY BridgeStep
<1> QED  BY <1>1, <1>2, PTL DEF Spec

(* Tools, clients and calls are of their kinds: a tool's client is one of  *)
(* a configured server and of one of its boots (mcp_bridge/plugin.py:107-320). *)
THEOREM BridgeTypes == Parameters /\ Spec => []TypeOK
<1>1. BridgeInv => TypeOK
  <2>1. SUFFICES ASSUME BridgeInv  PROVE TypeOK  OBVIOUS
  <2>2. Types  BY <2>1 DEF BridgeInv
  <2>3. \A c \in Callers : call[c].at \in Busy \cup {"idle", "found", "done"}
    BY <2>2 DEF Types, Call
  <2> QED  BY <2>2, <2>3 DEF Types, TypeOK
<1> QED  BY BridgeInvariance, <1>1, PTL

(* A call over the pipe returns its own answer or none; whoever waits has  *)
(* a reader or a value, unless it asked after the reader had ended; no     *)
(* tool without an open client, no process without a server; and, once     *)
(* loaded, every configured server was announced (client.py:312-417,       *)
(* mcp_bridge/plugin.py:107-320).                                          *)
THEOREM BridgeIsAccounted ==
  Parameters /\ Spec => [](OwnAnswer /\ NobodyHangs /\ NothingLeft /\ NoneSilent)
<1>1. BridgeInv => OwnAnswer /\ NobodyHangs /\ NothingLeft /\ NoneSilent  BY BridgeTells
<1> QED  BY BridgeInvariance, <1>1, PTL
=============================================================================
