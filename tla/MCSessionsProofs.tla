-------------------------- MODULE MCSessionsProofs --------------------------
(***************************************************************************)
(* Proofs about the modules that share a run: a behaviour of the sum is    *)
(* one of a component alone, of that component's variables (v1, v2, ... in *)
(* the order in which MCSessions lists them), or never about it.  So what  *)
(* SessionTapeProofs proves of the tape holds of the sum, and what is      *)
(* proved here of SessionContext and of SessionStore does.                 *)
(***************************************************************************)
EXTENDS MCSessions, Sequences, SequenceTheorems, FiniteSetTheorems, TLAPS

(* The sum is the tape alone, or is not the tape at all.                   *)
LEMMA TapeAlone == Spec => Tape!Spec \/ [](part # "tape")
<1>1. Init => (part = "tape" /\ Tape!Init) \/ part # "tape"
  BY DEF Init
<1>2. part = "tape" /\ [Next]_vars => [Tape!Next]_(Tape!vars) /\ (part = "tape")'
  BY DEF Next, vars, Tape!vars
<1>3. part # "tape" /\ [Next]_vars => (part # "tape")'
  BY DEF Next, vars
<1> QED  BY <1>1, <1>2, <1>3, PTL DEF Spec, Tape!Spec

(* The tape tells the conversation in its order, whoever else appends to   *)
(* it: exactly what was delivered and not reported lost                    *)
(* (session_persister.py:136-154).                                         *)
THEOREM SessionsTapeTells == Spec => []TapeTellsTheSession
<1>1. Tape!TapeTellsTheSession \/ part # "tape" => TapeTellsTheSession
  BY DEF TapeTellsTheSession
<1> QED  BY <1>1, TapeAlone, TapeParameters, Tape!TheTapeTells, PTL

(* A message reaches the model once, verbatim or in one summary, whatever  *)
(* is said while the summariser runs (compaction.py:270-303).              *)
THEOREM SessionsRepresentOnce == Spec => []RepresentedOnce
<1>1. Tape!RepresentedOnce \/ part # "tape" => RepresentedOnce
  BY DEF RepresentedOnce
<1> QED  BY <1>1, TapeAlone, TapeParameters, Tape!MessagesAreRepresentedOnce, PTL

(* A turn sees its own message once, at the end of its history, however    *)
(* the persister's write and its read are ordered (loop.py:598-625).       *)
THEOREM SessionsOwnMessageOnce == Spec => []OwnMessageOnce
<1>1. Tape!OwnMessageOnce \/ part # "tape" => OwnMessageOnce
  BY DEF OwnMessageOnce
<1> QED  BY <1>1, TapeAlone, TapeParameters, Tape!TurnsSeeTheirMessageOnce, PTL

(* One compaction of a session at a time, and its failure told once        *)
(* (compaction.py:421-540).                                                *)
THEOREM SessionsCompactOnce == Spec => []OneCompaction
<1>1. (Tape!OneCompaction /\ Tape!ToldOnce) \/ part # "tape" => OneCompaction
  BY DEF OneCompaction
<1> QED  BY <1>1, TapeAlone, TapeParameters, Tape!CompactionsComeOneByOne, PTL

-----------------------------------------------------------------------------
(* The connections of a session.                                           *)
(* A behaviour is the connections' alone, or not theirs at all.            *)
LEMMA ContextAlone == Spec => Context!Spec \/ [](part # "context")
<1>1. Init => (part = "context" /\ Context!Init) \/ part # "context"
  BY DEF Init
<1>2. part = "context" /\ [Next]_vars => [Context!Next]_(Context!vars) /\ (part = "context")'
  BY DEF Next, vars, Context!vars, Context!connVars, Context!managerVars, Context!historyVars
<1>3. part # "context" /\ [Next]_vars => (part # "context")'
  BY DEF Next, vars
<1> QED  BY <1>1, <1>2, <1>3, PTL DEF Spec, Context!Spec

(* The lists of Positions are the same for both of its readers.            *)
LEMMA SameLists ==
  ASSUME NEW s, NEW at
  PROVE  Context!Listed(s, at) = Tape!Listed(s, at)
<1>1. Context!Cardinality(at) = Tape!Cardinality(at)
  BY DEF Context!Cardinality, Tape!Cardinality
<1>2. \A n : Context!Nth(at, n) = Tape!Nth(at, n)
  BY DEF Context!Nth, Tape!Nth, Context!Cardinality, Tape!Cardinality
<1> QED  BY <1>1, <1>2 DEF Context!Listed, Tape!Listed

(* A part of a list without duplicates is one, and has what it was picked  *)
(* from.                                                                   *)
LEMMA PartOf ==
  ASSUME NEW S, NEW s \in Seq(S), Context!IsInjective(s), NEW at \in SUBSET DOMAIN s
  PROVE  /\ Context!Listed(s, at) \in Seq(S) /\ Context!IsInjective(Context!Listed(s, at))
         /\ Context!Range(Context!Listed(s, at)) = {s[i] : i \in at}
<1> PICK n : n = Tape!Cardinality(at)  OBVIOUS
<1> DEFINE l == Context!Listed(s, at)
           nth(k) == Tape!Nth(at, k)
<1>1. /\ n \in Nat /\ l \in Seq(S) /\ Len(l) = n
      /\ \A k \in 1..n : l[k] = s[nth(k)] /\ nth(k) \in at
      /\ \A i \in at : \E k \in 1..n : nth(k) = i
      /\ \A j, k \in 1..n : j < k <=> nth(j) < nth(k)
  BY SameLists, Tape!ListedIs
<1> HIDE DEF l, nth
<1>2. DOMAIN l = 1..n  BY <1>1
<1>3. \A i \in at : i \in DOMAIN s /\ i \in Nat  OBVIOUS
<1>4. ASSUME NEW j \in 1..n, NEW k \in 1..n, l[j] = l[k]  PROVE j = k
  <2>1. nth(j) = nth(k)  BY <1>1, <1>3, <1>4 DEF Context!IsInjective
  <2>2. ~(j < k) /\ ~(k < j)  BY <1>1, <1>3, <2>1
  <2> QED  BY <1>1, <2>2
<1>5. Context!IsInjective(l)  BY <1>2, <1>4 DEF Context!IsInjective
<1>6. Context!Range(l) = {s[i] : i \in at}
  <2>1. \A x : x \in Context!Range(l) => x \in {s[i] : i \in at}  BY <1>1, <1>2 DEF Context!Range
  <2>2. \A i \in at : s[i] \in Context!Range(l)  BY <1>1, <1>2 DEF Context!Range
  <2> QED  BY <2>1, <2>2
<1> QED  BY <1>1, <1>5, <1>6 DEF l

(* One without a member.                                                   *)
LEMMA Without ==
  ASSUME NEW S, NEW s \in Seq(S), Context!IsInjective(s), NEW c
  PROVE  LET t == Context!Listed(s, {i \in DOMAIN s : s[i] # c})
         IN  t \in Seq(S) /\ Context!IsInjective(t) /\ Context!Range(t) = Context!Range(s) \ {c}
<1> DEFINE at == {i \in DOMAIN s : s[i] # c}
<1>1. at \in SUBSET DOMAIN s  OBVIOUS
<1>2. {s[i] : i \in at} = Context!Range(s) \ {c}  BY DEF Context!Range
<1> HIDE DEF at
<1>3. /\ Context!Listed(s, at) \in Seq(S) /\ Context!IsInjective(Context!Listed(s, at))
      /\ Context!Range(Context!Listed(s, at)) = {s[i] : i \in at}
  BY <1>1, PartOf
<1> QED  BY <1>2, <1>3 DEF at

(* One with a new member at its end, and one without its first.            *)
LEMMA OneMore ==
  ASSUME NEW S, NEW s \in Seq(S), NEW e \in S
  PROVE  /\ Append(s, e) \in Seq(S) /\ Context!Range(Append(s, e)) = Context!Range(s) \cup {e}
         /\ Context!IsInjective(s) /\ e \notin Context!Range(s) => Context!IsInjective(Append(s, e))
<1> DEFINE a == Append(s, e)
<1>1. /\ a \in Seq(S) /\ Len(s) \in Nat /\ DOMAIN s = 1..Len(s) /\ DOMAIN a = 1..(Len(s) + 1)
      /\ a[Len(s) + 1] = e /\ \A i \in 1..Len(s) : a[i] = s[i]
  OBVIOUS
<1>2. \A i \in DOMAIN a : i \in DOMAIN s \/ i = Len(s) + 1  BY <1>1
<1>3. \A i \in DOMAIN s : i \in DOMAIN a /\ i # Len(s) + 1  BY <1>1
<1> HIDE DEF a
<1>4. Context!Range(a) = Context!Range(s) \cup {e}  BY <1>1, <1>2, <1>3 DEF Context!Range
<1>5. ASSUME Context!IsInjective(s), e \notin Context!Range(s)  PROVE Context!IsInjective(a)
  BY <1>1, <1>2, <1>3, <1>5 DEF Context!IsInjective, Context!Range
<1> QED  BY <1>1, <1>4, <1>5 DEF a

(* One without its first.                                                  *)
LEMMA OneLess ==
  ASSUME NEW S, NEW s \in Seq(S), s # <<>>, Context!IsInjective(s)
  PROVE  /\ Head(s) \in Context!Range(s) /\ Head(s) \in S /\ Tail(s) \in Seq(S)
         /\ Context!IsInjective(Tail(s))
         /\ Context!Range(Tail(s)) = Context!Range(s) \ {Head(s)}
         /\ Len(s) = 1 <=> Tail(s) = <<>>
<1> DEFINE t == Tail(s)
<1>1. /\ t \in Seq(S) /\ Len(s) \in Nat \ {0} /\ DOMAIN s = 1..Len(s) /\ DOMAIN t = 1..(Len(s) - 1)
      /\ Head(s) = s[1] /\ \A i \in 1..(Len(s) - 1) : t[i] = s[i + 1]
  OBVIOUS
<1>2. /\ 1 \in DOMAIN s /\ \A i \in DOMAIN t : i + 1 \in DOMAIN s /\ i + 1 # 1
      /\ \A i \in DOMAIN s : i = 1 \/ (i - 1 \in DOMAIN t /\ t[i - 1] = s[i])
  BY <1>1
<1>3. Len(s) = 1 <=> t = <<>>  BY <1>1
<1> HIDE DEF t
<1>4. \A i, j \in DOMAIN t : t[i] = t[j] => i = j
  <2> TAKE i \in DOMAIN t, j \in DOMAIN t
  <2> HAVE t[i] = t[j]
  <2>1. s[i + 1] = s[j + 1] /\ i \in Nat /\ j \in Nat  BY <1>1
  <2>2. i + 1 = j + 1  BY <1>2, <2>1 DEF Context!IsInjective
  <2> QED  BY <2>1, <2>2
<1>5. Context!Range(t) = Context!Range(s) \ {Head(s)}
  <2>1. \A i \in DOMAIN t : t[i] \in Context!Range(s) /\ t[i] # Head(s)
    <3> TAKE i \in DOMAIN t
    <3>1. t[i] = s[i + 1] /\ Head(s) = s[1] /\ i + 1 \in DOMAIN s /\ 1 \in DOMAIN s /\ i + 1 # 1
      BY <1>1, <1>2
    <3>2. s[i + 1] # s[1]  BY <3>1 DEF Context!IsInjective
    <3> QED  BY <3>1, <3>2 DEF Context!Range
  <2>2. \A i \in DOMAIN s : s[i] # Head(s) => s[i] \in Context!Range(t)
    BY <1>1, <1>2 DEF Context!Range
  <2> QED  BY <2>1, <2>2 DEF Context!Range
<1>6. Context!IsInjective(t)  BY <1>4 DEF Context!IsInjective
<1>7. Head(s) \in Context!Range(s) /\ Head(s) \in S  BY <1>1, <1>2 DEF Context!Range
<1> QED  BY <1>1, <1>3, <1>5, <1>6, <1>7 DEF t

(* The connections of a context, each once.                                *)
LEMMA OfContext ==
  ASSUME Context!Types, NEW k
  PROVE  /\ Context!Connections(k) \in Seq(Conns) /\ Context!IsInjective(Context!Connections(k))
         /\ Context!Range(Context!Connections(k)) = {c \in Conns : Context!Attached(c) /\ v7[c] = k}
         /\ Context!Connections(k) = <<>> <=> \A c \in Conns : Context!Attached(c) => v7[c] # k
<1> DEFINE at == {i \in DOMAIN v6 : v7[v6[i]] = k}
           l == Context!Connections(k)
<1>1. v6 \in Seq(Conns) /\ Context!IsInjective(v6) /\ at \in SUBSET DOMAIN v6  BY DEF Context!Types
<1>2. \A i \in DOMAIN v6 : v6[i] \in Conns  BY <1>1
<1>3. {v6[i] : i \in at} = {c \in Conns : Context!Attached(c) /\ v7[c] = k}
  BY <1>2 DEF Context!Attached, Context!Range
<1> HIDE DEF at
<1>4. l \in Seq(Conns) /\ Context!IsInjective(l) /\ Context!Range(l) = {v6[i] : i \in at}
  BY <1>1, PartOf DEF at, Context!Connections
<1> HIDE DEF l
<1>5. l = <<>> <=> Context!Range(l) = {}
  <2>1. l = <<>> => Context!Range(l) = {}  BY DEF Context!Range
  <2>2. l # <<>> => 1 \in DOMAIN l  BY <1>4
  <2> QED  BY <2>1, <2>2 DEF Context!Range
<1> QED  BY <1>3, <1>4, <1>5 DEF l

(* What the inductive invariant says of one connection.                    *)
ConnInv(c) ==
  /\ Context!Absent(c) /\ Context!InPlace(c) /\ Context!Replays(c)
  /\ Context!Heard(c) /\ Context!Ordered(c) /\ Context!Told(c)

(* What a step leaves alone when it is not about a connection.             *)
Still(d) ==
  /\ v1' = v1 /\ v8'[d] = v8[d] /\ v7'[d] = v7[d] /\ v9'[d] = v9[d]
  /\ v12'[d] = v12[d] /\ v13'[d] = v13[d] /\ v14'[d] = v14[d] /\ v15[d] \subseteq v15'[d]
  /\ Context!Attached(d)' <=> Context!Attached(d)
  /\ Context!Pending(d)' => Context!Pending(d)
  /\ d \in Context!Range(v2.todo)' => d \in Context!Range(v2.todo) \/ Context!Attached(d)
  /\ Context!Attached(d) /\ v7[d] = v3' /\ v3' \notin v5' =>
       Context!Settled(d)' = Context!Settled(d) /\ v7[d] = v3 /\ v3 \notin v5

(* It keeps what the invariant says of it.                                 *)
LEMMA Frame == ASSUME NEW d \in Conns, ConnInv(d), Still(d)  PROVE ConnInv(d)'
<1> USE DEF Still, ConnInv
<1>1. Context!Absent(d)'  BY DEF Context!Absent
<1>2. Context!InPlace(d)'  BY DEF Context!InPlace
<1>3. Context!Replays(d)'  BY DEF Context!Replays
<1>4. Context!Heard(d)'  BY DEF Context!Heard, Context!Served
<1>5. Context!Ordered(d)'  BY DEF Context!Ordered
<1>6. Context!Told(d)'  BY DEF Context!Told
<1> QED  BY <1>1, <1>2, <1>3, <1>4, <1>5, <1>6

(* The invariant holds at first: nobody is there.                          *)
LEMMA ContextInit == Context!Parameters /\ Context!Init => Context!ContextInv
<1> SUFFICES ASSUME Context!Parameters, Context!Init  PROVE Context!ContextInv
  OBVIOUS
<1>1. /\ v1 = 0 /\ v2 = [at |-> "idle", todo |-> <<>>] /\ v6 = <<>> /\ v3 = 0
      /\ v4 = 0 /\ v5 = {} /\ v11 = "no" /\ v10 = {}
      /\ Context!Range(<<>>) = {} /\ Context!IsInjective(<<>>) /\ v2.at = "idle" /\ v2.todo = <<>>
  BY DEF Context!Init, Context!Idle, Context!Range, Context!IsInjective
<1>2. Context!Types  BY <1>1 DEF Context!Init, Context!Types, Context!NoReplay
<1>3. Context!Closed  BY <1>1 DEF Context!Closed
<1>4. ASSUME NEW c \in Conns  PROVE ConnInv(c)
  <2>1. /\ v7[c] = 0 /\ v8[c] = "out" /\ v9[c].upto = 0 /\ v12[c] = <<>> /\ ~Context!Attached(c)
        /\ v9[c] = [next |-> 1, upto |-> 0]
    BY <1>1 DEF Context!Init, Context!Attached, Context!NoReplay
  <2> QED
    BY <1>1, <2>1 DEF ConnInv, Context!Absent, Context!InPlace, Context!Replays, Context!Heard,
      Context!Served, Context!Ordered, Context!Told, Context!Pending
<1> QED  BY <1>2, <1>3, <1>4 DEF Context!ContextInv, ConnInv

(* The worker has nobody but this connection less to visit.                *)
WorkerIs(c) ==
  /\ v2' \in [at : {"idle", "others", "visit", "lock"}, todo : Seq(Conns)]
  /\ v2'.at \in {"visit", "lock"} <=> v2'.todo # <<>>
  /\ Context!IsInjective(v2'.todo) /\ (v2'.at = "others" <=> v2.at = "others")
  /\ \A d \in Conns \ {c} : d \in Context!Range(v2'.todo) <=> d \in Context!Range(v2.todo)

(* Whoever leaves is told so, and is forgotten.                            *)
LEMMA Leaves ==
  ASSUME Context!ContextInv, NEW c \in Conns, Context!Drop(c),
         v8' = v8 \/ v8' = [v8 EXCEPT ![c] = "done"],
         Context!Attached(c) \/ v8'[c] = "done",
         v10' \subseteq v10, WorkerIs(c),
         UNCHANGED <<v1, Context!managerVars, v7, v9, v13, v14>>
  PROVE  Context!ContextInv'
<1>0. Context!Types /\ Context!Closed /\ Context!Parameters /\ \A d \in Conns : ConnInv(d)
  BY DEF Context!ContextInv, ConnInv
<1> DEFINE t == Context!Listed(v6, {i \in DOMAIN v6 : v6[i] # c})
<1>1. t \in Seq(Conns) /\ Context!IsInjective(t) /\ Context!Range(t) = Context!Range(v6) \ {c}
  <2>1. v6 \in Seq(Conns) /\ Context!IsInjective(v6)  BY <1>0 DEF Context!Types
  <2> QED  BY <2>1, Without
<1>2. v6' = t  BY DEF Context!Drop
<1> HIDE DEF t
<1>3. /\ v12' = [v12 EXCEPT ![c] = <<>>] /\ v15' = [v15 EXCEPT ![c] = @ \cup {"detached"}]
      /\ v1' = v1 /\ v3' = v3 /\ v4' = v4
      /\ v5' = v5 /\ v11' = v11 /\ v7' = v7 /\ v9' = v9
      /\ v13' = v13 /\ v14' = v14
  BY DEF Context!Drop, Context!Emit, Context!managerVars
<1>4. Context!Types'
  <2>1. /\ v6' \in Seq(Conns) /\ Context!IsInjective(v6')
        /\ v8' \in [Conns -> {"out", "opening", "replaying", "done"}] /\ v10' \subseteq Conns
        /\ v12' \in [Conns -> Seq(Nat)] /\ v15' \in [Conns -> SUBSET {"attached", "detached"}]
    <3>1. /\ v8 \in [Conns -> {"out", "opening", "replaying", "done"}] /\ v10 \subseteq Conns
          /\ v12 \in [Conns -> Seq(Nat)] /\ v15 \in [Conns -> SUBSET {"attached", "detached"}]
      BY <1>0 DEF Context!Types
    <3>2. <<>> \in Seq(Nat) /\ v15[c] \cup {"detached"} \in SUBSET {"attached", "detached"}
      BY <3>1
    <3>3. v8' \in [Conns -> {"out", "opening", "replaying", "done"}]  BY <3>1
    <3>4. v12' \in [Conns -> Seq(Nat)]  BY <1>3, <3>1, <3>2
    <3>5. v15' \in [Conns -> SUBSET {"attached", "detached"}]  BY <1>3, <3>1, <3>2
    <3> QED  BY <1>1, <1>2, <3>1, <3>3, <3>4, <3>5
  <2> QED  BY <1>0, <1>3, <2>1 DEF Context!Types, WorkerIs
<1>5. ~Context!Attached(c)' /\ \A d \in Conns \ {c} : Context!Attached(d)' <=> Context!Attached(d)
  BY <1>1, <1>2 DEF Context!Attached
<1>6. Context!Closed'  BY <1>0, <1>3, <1>5 DEF Context!Closed
<1>7. ASSUME NEW d \in Conns \ {c}  PROVE ConnInv(d)'
  <2>1. Still(d)
    BY <1>0, <1>3, <1>5 DEF Still, Context!Types, Context!Pending, Context!Settled, WorkerIs
  <2> QED  BY <1>0, <2>1, Frame
<1>8. ConnInv(c)'
  <2>1. v12'[c] = <<>> /\ "detached" \in v15'[c] /\ v8'[c] \in {v8[c], "done"}
    BY <1>0, <1>3 DEF Context!Types
  <2>2. Context!Absent(c)'  BY <1>0, <1>3, <1>5, <2>1 DEF ConnInv, Context!Absent
  <2>3. Context!InPlace(c)'  BY <1>0, <1>3, <1>5, <2>1 DEF ConnInv, Context!InPlace
  <2> QED
    BY <1>5, <2>1, <2>2, <2>3 DEF ConnInv, Context!Replays, Context!Heard, Context!Served,
      Context!Ordered, Context!Told
<1> QED  BY <1>0, <1>4, <1>6, <1>7, <1>8 DEF Context!ContextInv, ConnInv, Context!Parameters

(* The worker takes an event up.                                           *)
LEMMA StepPersist == ASSUME Context!ContextInv, Context!Persist  PROVE Context!ContextInv'
<1>0. Context!Types /\ Context!Closed /\ Context!Parameters /\ \A d \in Conns : ConnInv(d)
  BY DEF Context!ContextInv, ConnInv
<1>1. /\ v2.at = "idle" /\ v1' = v1 + 1 /\ v2' = [at |-> "others", todo |-> <<>>]
      /\ UNCHANGED <<v3, v4, v5, v11, v6, v7, v8, v9, v10>>
      /\ UNCHANGED <<v12, v13, v14, v15>>
  BY DEF Context!Persist, Context!managerVars, Context!connVars, Context!historyVars
<1>2. /\ v2'.at = "others" /\ v2'.todo = <<>> /\ v2.todo = <<>> /\ Context!Range(<<>>) = {}
      /\ v1 \in Nat /\ Context!IsInjective(<<>>)
  BY <1>0, <1>1 DEF Context!Types, Context!Range, Context!IsInjective
<1>3. Context!Types'
  <2>1. /\ v1' \in Nat /\ Context!IsInjective(v2'.todo)
        /\ v2'.at \in {"visit", "lock"} <=> v2'.todo # <<>>
        /\ v2' \in [at : {"idle", "others", "visit", "lock"}, todo : Seq(Conns)]
    BY <1>1, <1>2
  <2> QED  BY <1>0, <1>1, <2>1 DEF Context!Types
<1>4. \A d \in Conns : Context!Attached(d)' <=> Context!Attached(d)  BY <1>1 DEF Context!Attached
<1>5. Context!Closed'  BY <1>0, <1>1, <1>4 DEF Context!Closed
<1>6. ASSUME NEW d \in Conns  PROVE ConnInv(d)'
  <2>1. Context!Settled(d)' = Context!Settled(d)  BY <1>1, <1>2 DEF Context!Settled
  <2>2. Context!Absent(d)'  BY <1>0, <1>1, <1>2, <1>4 DEF ConnInv, Context!Absent
  <2>3. v12[d] \in Seq(Nat) /\ v9[d].upto \in Nat  BY <1>0 DEF Context!Types
  <2>4. \A i \in DOMAIN v12[d] : v12[d][i] \in Nat /\ v12[d][i] <= v1
    BY <1>0, <2>3 DEF ConnInv, Context!InPlace
  <2>5. Context!InPlace(d)'  BY <1>0, <1>1, <1>2, <2>3, <2>4 DEF ConnInv, Context!InPlace
  <2>6. Context!Replays(d)' /\ Context!Heard(d)' /\ Context!Ordered(d)' /\ Context!Told(d)'
    BY <1>0, <1>1, <1>4, <2>1 DEF ConnInv, Context!Replays, Context!Heard, Context!Served,
      Context!Ordered, Context!Told
  <2> QED  BY <2>2, <2>5, <2>6 DEF ConnInv
<1> QED  BY <1>0, <1>3, <1>5, <1>6 DEF Context!ContextInv, ConnInv, Context!Parameters

(* The list the worker still visits: its type, and what one visit leaves.  *)
LEMMA OneVisit ==
  ASSUME Context!Types, v2.at \in {"visit", "lock"}, v2' = Context!Visited
  PROVE  /\ v2' \in [at : {"idle", "others", "visit", "lock"}, todo : Seq(Conns)]
         /\ v2'.at \in {"visit", "lock"} <=> v2'.todo # <<>>
         /\ Context!IsInjective(v2'.todo) /\ v2'.at # "others"
         /\ Context!Range(v2'.todo) = Context!Range(v2.todo) \ {Head(v2.todo)}
         /\ Head(v2.todo) \in Conns /\ Head(v2.todo) \in Context!Range(v2.todo)
<1> DEFINE s == v2.todo
<1>1. s \in Seq(Conns) /\ s # <<>> /\ Context!IsInjective(s)  BY DEF Context!Types
<1>2. /\ Head(s) \in Context!Range(s) /\ Head(s) \in Conns /\ Tail(s) \in Seq(Conns)
      /\ Context!IsInjective(Tail(s)) /\ Context!Range(Tail(s)) = Context!Range(s) \ {Head(s)}
      /\ Len(s) = 1 <=> Tail(s) = <<>>
  BY <1>1, OneLess
<1>3. Context!Range(<<>>) = {} /\ Context!IsInjective(<<>>)
  BY DEF Context!Range, Context!IsInjective
<1>4. CASE Len(s) = 1
  <2>1. v2' = [at |-> "idle", todo |-> <<>>]  BY <1>4 DEF Context!Visited, Context!Idle
  <2>2. v2'.at = "idle" /\ v2'.todo = <<>> /\ <<>> \in Seq(Conns)  BY <2>1
  <2>3. Tail(s) = <<>>  BY <1>2, <1>4
  <2>4. Context!Range(<<>>) = Context!Range(s) \ {Head(s)}  BY <1>2, <2>3
  <2> QED  BY <1>2, <1>3, <2>1, <2>2, <2>4
<1>5. CASE Len(s) # 1
  <2>1. v2' = [at |-> "visit", todo |-> Tail(s)]  BY <1>5 DEF Context!Visited
  <2> QED  BY <1>2, <1>5, <2>1
<1> QED  BY <1>4, <1>5

(* The worker looks at a connection, or at the manager.                    *)
LEMMA StepVisits == ASSUME Context!ContextInv, Context!FanoutVisits  PROVE Context!ContextInv'
<1>0. Context!Types /\ Context!Closed /\ Context!Parameters /\ \A d \in Conns : ConnInv(d)
  BY DEF Context!ContextInv, ConnInv
<1>1. /\ v2.at = "visit"
      /\ UNCHANGED <<v1, v3, v4, v5, v11, v6, v7, v8, v9, v10>>
      /\ UNCHANGED <<v12, v13, v14, v15>>
  BY DEF Context!FanoutVisits, Context!managerVars, Context!connVars, Context!historyVars
<1>2. \A d \in Conns : Context!Attached(d)' <=> Context!Attached(d)  BY <1>1 DEF Context!Attached
<1>3. /\ v2' \in [at : {"idle", "others", "visit", "lock"}, todo : Seq(Conns)]
      /\ v2'.at \in {"visit", "lock"} <=> v2'.todo # <<>>
      /\ Context!IsInjective(v2'.todo) /\ v2'.at # "others"
      /\ Context!Range(v2'.todo) \subseteq Context!Range(v2.todo)
      /\ \A d \in Conns : Context!Attached(d) /\ d \in Context!Range(v2.todo)
           => d \in Context!Range(v2'.todo)
  <2>1. CASE Context!Attached(Head(v2.todo))
    <3>1. v2' = [v2 EXCEPT !.at = "lock"]  BY <2>1 DEF Context!FanoutVisits
    <3> QED  BY <1>0, <1>1, <3>1 DEF Context!Types
  <2>2. CASE ~Context!Attached(Head(v2.todo))
    <3>1. v2' = Context!Visited  BY <2>2 DEF Context!FanoutVisits
    <3> QED  BY <1>0, <1>1, <2>2, <3>1, OneVisit
  <2> QED  BY <2>1, <2>2
<1>4. Context!Types'  BY <1>0, <1>1, <1>3 DEF Context!Types
<1>5. Context!Closed'  BY <1>0, <1>1, <1>2 DEF Context!Closed
<1>6. ASSUME NEW d \in Conns  PROVE ConnInv(d)'
  <2>1. Still(d)  BY <1>1, <1>2, <1>3 DEF Still, Context!Pending, Context!Settled
  <2> QED  BY <1>0, <2>1, Frame
<1> QED  BY <1>0, <1>4, <1>5, <1>6 DEF Context!ContextInv, ConnInv, Context!Parameters

(* It takes a snapshot of the connections of the context the manager       *)
(* serves.                                                                 *)
LEMMA StepOnEvent == ASSUME Context!ContextInv, Context!OnEvent  PROVE Context!ContextInv'
<1>0. Context!Types /\ Context!Closed /\ Context!Parameters /\ \A d \in Conns : ConnInv(d)
  BY DEF Context!ContextInv, ConnInv
<1>1. /\ v2.at = "others"
      /\ UNCHANGED <<v1, v3, v4, v5, v11, v6, v7, v8, v9, v10>>
      /\ UNCHANGED <<v12, v13, v14, v15>>
  BY DEF Context!OnEvent, Context!managerVars, Context!connVars, Context!historyVars
<1>2. \A d \in Conns : Context!Attached(d)' <=> Context!Attached(d)  BY <1>1 DEF Context!Attached
<1> DEFINE l == Context!Connections(v3)
<1>3. /\ l \in Seq(Conns) /\ Context!IsInjective(l)
      /\ Context!Range(l) = {c \in Conns : Context!Attached(c) /\ v7[c] = v3}
      /\ l = <<>> <=> \A c \in Conns : Context!Attached(c) => v7[c] # v3
  BY <1>0, OfContext
<1>4. \A d \in Conns : Context!Attached(d) => v7[d] # 0  BY <1>0 DEF ConnInv, Context!Absent
<1>5. Context!Range(<<>>) = {} /\ Context!IsInjective(<<>>) /\ v2.todo = <<>>
  BY <1>0, <1>1 DEF Context!Range, Context!IsInjective, Context!Types
<1>6. v2' = IF v3 = 0 \/ v3 \in v5 \/ l = <<>> THEN Context!Idle ELSE [at |-> "visit", todo |-> l]
  BY DEF Context!OnEvent
<1> HIDE DEF l
<1>7. /\ v2' \in [at : {"idle", "others", "visit", "lock"}, todo : Seq(Conns)]
      /\ v2'.at \in {"visit", "lock"} <=> v2'.todo # <<>>
      /\ Context!IsInjective(v2'.todo) /\ v2'.at # "others"
      /\ \A d \in Conns : d \in Context!Range(v2'.todo) => Context!Attached(d)
      /\ \A d \in Conns : Context!Attached(d) /\ v7[d] = v3 /\ v3 \notin v5
                             => d \in Context!Range(v2'.todo)
  <2>1. CASE v3 = 0 \/ v3 \in v5 \/ l = <<>>
    <3>1. v2' = [at |-> "idle", todo |-> <<>>]  BY <1>6, <2>1 DEF Context!Idle
    <3> QED  BY <1>3, <1>4, <1>5, <2>1, <3>1
  <2>2. CASE ~(v3 = 0 \/ v3 \in v5 \/ l = <<>>)
    <3>1. v2' = [at |-> "visit", todo |-> l]  BY <1>6, <2>2
    <3> QED  BY <1>3, <2>2, <3>1
  <2> QED  BY <2>1, <2>2
<1>8. Context!Types'  BY <1>0, <1>1, <1>7 DEF Context!Types
<1>9. Context!Closed'  BY <1>0, <1>1, <1>2 DEF Context!Closed
<1>10. ASSUME NEW d \in Conns  PROVE ConnInv(d)'
  <2>1. Still(d)  BY <1>1, <1>2, <1>7 DEF Still, Context!Pending, Context!Settled
  <2> QED  BY <1>0, <2>1, Frame
<1> QED  BY <1>0, <1>8, <1>9, <1>10 DEF Context!ContextInv, ConnInv, Context!Parameters

(* The bus gives up a fan-out: who was not reached has missed the entry.   *)
LEMMA StepTimesOut == ASSUME Context!ContextInv, Context!FanoutTimesOut  PROVE Context!ContextInv'
<1>0. Context!Types /\ Context!Closed /\ Context!Parameters /\ \A d \in Conns : ConnInv(d)
  BY DEF Context!ContextInv, ConnInv
<1>1. /\ v2.at = "lock" /\ v2' = [at |-> "idle", todo |-> <<>>]
      /\ v14' = [c \in Conns |-> IF c \in Context!Range(v2.todo) THEN v14[c] \cup {v1} ELSE v14[c]]
      /\ UNCHANGED <<v1, v3, v4, v5, v11, v6, v7, v8, v9, v10>>
      /\ UNCHANGED <<v12, v13, v15>>
  BY DEF Context!FanoutTimesOut, Context!managerVars, Context!connVars, Context!Idle
<1>2. \A d \in Conns : Context!Attached(d)' <=> Context!Attached(d)  BY <1>1 DEF Context!Attached
<1>3. Context!Range(<<>>) = {} /\ Context!IsInjective(<<>>) /\ v2'.todo = <<>> /\ v2'.at = "idle"
        /\ v1 \in Nat
  BY <1>0, <1>1 DEF Context!Range, Context!IsInjective, Context!Types
<1>4. Context!Types'
  <2>1. v14' \in [Conns -> SUBSET Nat]
    <3>1. v14 \in [Conns -> SUBSET Nat]  BY <1>0 DEF Context!Types
    <3>2. \A c \in Conns : v14[c] \cup {v1} \in SUBSET Nat  BY <1>3, <3>1
    <3> QED  BY <1>1, <3>1, <3>2
  <2>2. /\ v2' \in [at : {"idle", "others", "visit", "lock"}, todo : Seq(Conns)]
        /\ v2'.at \in {"visit", "lock"} <=> v2'.todo # <<>>
    BY <1>1, <1>3
  <2> QED  BY <1>0, <1>1, <1>3, <2>1, <2>2 DEF Context!Types
<1>5. Context!Closed'  BY <1>0, <1>1, <1>2 DEF Context!Closed
<1>6. ASSUME NEW d \in Conns, d \notin Context!Range(v2.todo)  PROVE ConnInv(d)'
  <2>1. Still(d)  BY <1>1, <1>2, <1>3, <1>6 DEF Still, Context!Pending, Context!Settled
  <2> QED  BY <1>0, <2>1, Frame
<1>7. ASSUME NEW d \in Conns, d \in Context!Range(v2.todo)  PROVE ConnInv(d)'
  <2>1. v14'[d] = v14[d] \cup {v1} /\ Context!Settled(d) = v1 - 1 /\ Context!Settled(d)' = v1
    BY <1>1, <1>3, <1>7 DEF Context!Settled
  <2>2. Context!Absent(d)' /\ Context!InPlace(d)'
    BY <1>0, <1>1, <1>2, <1>3 DEF ConnInv, Context!Absent, Context!InPlace, Context!Pending
  <2>3. v9[d].upto \in Nat /\ v13[d] \in Nat  BY <1>0 DEF Context!Types
  <2>4. Context!Replays(d)'  BY <1>0, <1>1, <1>2, <1>3, <2>1, <2>3 DEF ConnInv, Context!Replays
  <2>5. Context!Heard(d)'
    BY <1>0, <1>1, <1>2, <1>3, <2>1, <2>3 DEF ConnInv, Context!Heard, Context!Served
  <2>6. Context!Ordered(d)' /\ Context!Told(d)'
    BY <1>0, <1>1, <1>2 DEF ConnInv, Context!Ordered, Context!Told
  <2> QED  BY <2>2, <2>4, <2>5, <2>6 DEF ConnInv
<1> QED  BY <1>0, <1>4, <1>5, <1>6, <1>7 DEF Context!ContextInv, ConnInv, Context!Parameters

(* What is sent to a connection is the newest it has got; an equal one     *)
(* came from a replay that ended there.                                    *)
LEMMA StepSends == ASSUME Context!ContextInv, Context!FanoutSends  PROVE Context!ContextInv'
<1>0. Context!Types /\ Context!Closed /\ Context!Parameters /\ \A d \in Conns : ConnInv(d)
  BY DEF Context!ContextInv, ConnInv
<1>a. v2.at = "lock" /\ v2' = Context!Visited  BY DEF Context!FanoutSends
<1>b. PICK c \in Conns : c = Head(v2.todo)  BY <1>0, <1>a, OneVisit
<1>1. /\ v2.at = "lock" /\ Context!Unlocked(c) /\ v2' = Context!Visited
      /\ UNCHANGED <<v1, v3, v4, v5, v11, v7, v8, v9, v10, v13, v14>>
  BY <1>b DEF Context!FanoutSends, Context!managerVars
<1>2. /\ v2' \in [at : {"idle", "others", "visit", "lock"}, todo : Seq(Conns)]
      /\ v2'.at \in {"visit", "lock"} <=> v2'.todo # <<>>
      /\ Context!IsInjective(v2'.todo) /\ v2'.at # "others"
      /\ Context!Range(v2'.todo) = Context!Range(v2.todo) \ {c}
      /\ c \in Conns /\ c \in Context!Range(v2.todo)
  BY <1>0, <1>1, <1>b, OneVisit
<1>3. \/ v12' = [v12 EXCEPT ![c] = Append(@, v1)] /\ UNCHANGED <<v6, v15>>
      \/ Context!Attached(c) /\ Context!Drop(c)
      \/ ~Context!Attached(c) /\ UNCHANGED <<v6, v12, v15>>
  BY <1>b DEF Context!FanoutSends, Context!Detach
<1>4. ASSUME NEW d \in Conns \ {c}, v12'[d] = v12[d],
               Context!Attached(d)' <=> Context!Attached(d), v15[d] \subseteq v15'[d]
      PROVE  ConnInv(d)'
  <2>1. Still(d)  BY <1>1, <1>2, <1>4 DEF Still, Context!Pending, Context!Settled
  <2> QED  BY <1>0, <2>1, Frame
<1>5. CASE v12' = [v12 EXCEPT ![c] = Append(@, v1)] /\ UNCHANGED <<v6, v15>>
  <2>1. /\ v12 \in [Conns -> Seq(Nat)] /\ v1 \in Nat /\ v13[c] \in Nat /\ v9[c].upto \in Nat
        /\ v8[c] # "replaying"
    BY <1>0, <1>1, <1>2 DEF Context!Types, Context!Unlocked
  <2>2. v12'[c] = Append(v12[c], v1) /\ \A d \in Conns \ {c} : v12'[d] = v12[d]
    BY <1>2, <1>5, <2>1
  <2>3. v12' \in [Conns -> Seq(Nat)]
    <3>1. \A s \in Seq(Nat) : Append(s, v1) \in Seq(Nat)  BY <2>1
    <3> QED  BY <1>5, <2>1, <3>1
  <2>4. \A d \in Conns : Context!Attached(d)' <=> Context!Attached(d)  BY <1>5 DEF Context!Attached
  <2>5. Context!Types' /\ Context!Closed'
    BY <1>0, <1>1, <1>2, <1>5, <2>3, <2>4 DEF Context!Types, Context!Closed
  <2>6. \A d \in Conns \ {c} : ConnInv(d)'
    <3> TAKE d \in Conns \ {c}
    <3>1. /\ v12'[d] = v12[d] /\ v15[d] \subseteq v15'[d]
          /\ Context!Attached(d)' <=> Context!Attached(d)
      BY <1>5, <2>2, <2>4
    <3> QED  BY <1>4, <3>1
  <2>7. ConnInv(c)'
    <3>1. /\ v12'[c] \in Seq(Nat) /\ v12[c] \in Seq(Nat) /\ Len(v12[c]) \in Nat
          /\ Len(v12'[c]) = Len(v12[c]) + 1 /\ v12'[c][Len(v12[c]) + 1] = v1
          /\ DOMAIN v12[c] = 1..Len(v12[c]) /\ DOMAIN v12'[c] = 1..(Len(v12[c]) + 1)
          /\ \A i \in 1..Len(v12[c]) : v12'[c][i] = v12[c][i] /\ v12[c][i] \in Nat
      <4>1. v12[c] \in Seq(Nat) /\ v1 \in Nat /\ v12'[c] = Append(v12[c], v1)  BY <1>2, <2>1, <2>2
      <4> QED  BY <4>1
    <3>2. Context!Range(v12'[c]) = Context!Range(v12[c]) \cup {v1}
      <4>1. v12[c] \in Seq(Nat) /\ v1 \in Nat /\ v12'[c] = Append(v12[c], v1)  BY <2>1, <2>2, <3>1
      <4> QED  BY <4>1, OneMore
    <3>3. /\ Context!Absent(c) /\ Context!InPlace(c) /\ Context!Heard(c) /\ Context!Ordered(c)
          /\ Context!Told(c) /\ Context!Pending(c)
      BY <1>0, <1>2 DEF ConnInv, Context!Pending
    <3>4. Context!Absent(c)'  BY <1>1, <1>2, <1>5, <2>4, <3>3 DEF Context!Absent
    <3>5. ~Context!Pending(c)'  BY <1>2 DEF Context!Pending
    <3>6. Context!InPlace(c)'
      <4>1. \A i \in DOMAIN v12'[c] : v12'[c][i] <= v1
        <5> TAKE i \in DOMAIN v12'[c]
        <5>1. i = Len(v12[c]) + 1 \/ i \in 1..Len(v12[c])  BY <3>1
        <5>2. \A j \in 1..Len(v12[c]) : v12[c][j] <= v1  BY <3>1, <3>3 DEF Context!InPlace
        <5>3. v1 <= v1  BY <2>1
        <5> QED  BY <3>1, <5>1, <5>2, <5>3
      <4> QED  BY <1>1, <2>1, <3>3, <3>5, <4>1 DEF Context!InPlace
    <3>7. Context!Replays(c)'  BY <1>1, <2>1 DEF Context!Replays
    <3>8. Context!Settled(c) = v1 - 1 /\ Context!Settled(c)' = v1  BY <1>1, <1>2 DEF Context!Settled
    <3>9. Context!Heard(c)'
      BY <1>1, <1>5, <2>1, <2>4, <3>2, <3>3, <3>8 DEF Context!Heard, Context!Served
    <3>10. Context!Ordered(c)'
      <4> SUFFICES ASSUME NEW i \in 1..Len(v12'[c]) - 1
                   PROVE  \/ v12'[c][i] < v12'[c][i + 1]
                          \/ v12'[c][i] = v12'[c][i + 1] /\ v12'[c][i] = v9'[c].upto
        BY DEF Context!Ordered
      <4>1. i \in 1..Len(v12[c])  BY <3>1
      <4>2. CASE i = Len(v12[c])
        <5>1. v12[c][i] <= v1 /\ (v12[c][i] = v1 => v9[c].upto = v1)
          BY <3>1, <3>3, <4>1 DEF Context!InPlace
        <5>2. v12'[c][i] = v12[c][i] /\ v12'[c][i + 1] = v1 /\ v12[c][i] \in Nat
          BY <3>1, <4>1, <4>2
        <5> QED  BY <1>1, <2>1, <5>1, <5>2
      <4>3. CASE i # Len(v12[c])
        <5>0. Len(v12[c]) \in Nat  BY <3>1
        <5>1. i \in 1..Len(v12[c]) - 1 /\ i + 1 \in 1..Len(v12[c])  BY <4>1, <4>3, <5>0
        <5>2. /\ v12'[c][i] = v12[c][i] /\ v12'[c][i + 1] = v12[c][i + 1] /\ v9'[c] = v9[c]
          BY <1>1, <3>1, <4>1, <5>1
        <5>3. \/ v12[c][i] < v12[c][i + 1]
              \/ v12[c][i] = v12[c][i + 1] /\ v12[c][i] = v9[c].upto
          BY <3>3, <5>1 DEF Context!Ordered
        <5> QED  BY <5>2, <5>3
      <4> QED  BY <4>2, <4>3
    <3>11. Context!Told(c)'  BY <1>1, <1>5, <2>4, <3>3 DEF Context!Told
    <3> QED  BY <3>4, <3>6, <3>7, <3>9, <3>10, <3>11 DEF ConnInv
  <2> QED  BY <1>0, <2>5, <2>6, <2>7 DEF Context!ContextInv, ConnInv, Context!Parameters
<1>6. CASE ~Context!Attached(c) /\ UNCHANGED <<v6, v12, v15>>
  <2>1. \A d \in Conns : Context!Attached(d)' <=> Context!Attached(d)  BY <1>6 DEF Context!Attached
  <2>2. Context!Types' /\ Context!Closed'
    BY <1>0, <1>1, <1>2, <1>6, <2>1 DEF Context!Types, Context!Closed
  <2>3. \A d \in Conns \ {c} : ConnInv(d)'
    <3> TAKE d \in Conns \ {c}
    <3>1. /\ v12'[d] = v12[d] /\ v15[d] \subseteq v15'[d]
          /\ Context!Attached(d)' <=> Context!Attached(d)
      BY <1>6, <2>1
    <3> QED  BY <1>4, <3>1
  <2>5. ConnInv(c)'
    <3>1. Still(c)  BY <1>1, <1>2, <1>6, <2>1 DEF Still, Context!Pending, Context!Settled
    <3> QED  BY <1>0, <3>1, Frame
  <2> QED  BY <1>0, <2>2, <2>3, <2>5 DEF Context!ContextInv, ConnInv, Context!Parameters
<1>7. CASE Context!Attached(c) /\ Context!Drop(c)
  <2>1. WorkerIs(c)  BY <1>1, <1>2 DEF WorkerIs
  <2>2. UNCHANGED <<v1, Context!managerVars, v7, v9, v13, v14>>  BY <1>1 DEF Context!managerVars
  <2> QED  BY <1>1, <1>7, <2>1, <2>2, Leaves
<1> QED  BY <1>3, <1>5, <1>6, <1>7

(* Everything but the connection c of a step stays as it is.               *)
OnlyMoves(c) ==
  /\ v1' = v1 /\ v2' = v2 /\ v5' = v5 /\ v11' = v11
  /\ v14' = v14
  /\ v3' \in 0..v4' /\ v4' \in Nat /\ v4 <= v4'
  /\ v3' = v3 \/ v3' > v4
  /\ \A d \in Conns \ {c} :
       /\ v8'[d] = v8[d] /\ v7'[d] = v7[d] /\ v9'[d] = v9[d]
       /\ v12'[d] = v12[d] /\ v13'[d] = v13[d] /\ v15'[d] = v15[d]
       /\ Context!Attached(d)' <=> Context!Attached(d)

(* What is said of them stays true.                                        *)
LEMMA Others ==
  ASSUME Context!ContextInv, NEW c \in Conns, OnlyMoves(c), NEW d \in Conns \ {c}
  PROVE  ConnInv(d)'
<1>0. Context!Types /\ ConnInv(d)  BY DEF Context!ContextInv, ConnInv
<1>1. v7[d] \in 0..v4 /\ v3 \in 0..v4 /\ v4 \in Nat  BY <1>0 DEF Context!Types
<1>2. Still(d)
  BY <1>0, <1>1 DEF OnlyMoves, Still, Context!Pending, Context!Settled
<1> QED  BY <1>0, <1>2, Frame

(* A client that is refused, and one that is let in.                       *)
LEMMA StepRefuse ==
  ASSUME Context!ContextInv, NEW c \in Conns, v8[c] \in {"out", "opening"},
         v8' \in {[v8 EXCEPT ![c] = "done"], [v8 EXCEPT ![c] = "opening"]},
         UNCHANGED <<v6, v7, v9, v13, v15>>,
         v4' \in Nat /\ v4 <= v4' /\ v3' \in 0..v4',
         v3' = v3 \/ v3' > v4,
         UNCHANGED <<v1, v2, v5, v11, v10, v12, v14>>
  PROVE  Context!ContextInv'
<1>0. Context!Types /\ Context!Closed /\ Context!Parameters /\ \A d \in Conns : ConnInv(d)
  BY DEF Context!ContextInv, ConnInv
<1>1. \A d \in Conns : Context!Attached(d)' <=> Context!Attached(d)  BY DEF Context!Attached
<1>2. /\ v8 \in [Conns -> {"out", "opening", "replaying", "done"}] /\ v7 \in [Conns -> 0..v4]
      /\ v5 \subseteq 1..v4 /\ v4 \in Nat
  BY <1>0 DEF Context!Types
<1>3. /\ v8' \in [Conns -> {"out", "opening", "replaying", "done"}] /\ v7' \in [Conns -> 0..v4']
      /\ v5' \subseteq 1..v4'
  BY <1>2
<1>4. Context!Types'  BY <1>0, <1>3 DEF Context!Types
<1>5. Context!Closed'  BY <1>0, <1>1 DEF Context!Closed
<1>6. OnlyMoves(c)  BY <1>1, <1>2 DEF OnlyMoves
<1>7. ConnInv(c)'
  <2>1. /\ ~Context!Attached(c) /\ c \notin Context!Range(v2.todo) /\ v12[c] = <<>> /\ v7[c] = 0
        /\ v8'[c] \in {"done", "opening"} /\ ~Context!Attached(c)'
    BY <1>0, <1>1, <1>2 DEF ConnInv, Context!Absent
  <2>2. /\ Context!Absent(c)' /\ Context!Told(c)' /\ Context!Replays(c)'
        /\ Context!Heard(c)' /\ Context!Ordered(c)'
    BY <2>1 DEF Context!Absent, Context!Told, Context!Replays, Context!Heard, Context!Served,
      Context!Ordered
  <2>3. Context!InPlace(c)'  BY <1>0, <2>1 DEF ConnInv, Context!InPlace
  <2> QED  BY <2>2, <2>3 DEF ConnInv
<1>8. \A d \in Conns \ {c} : ConnInv(d)'  BY <1>6, Others
<1> QED  BY <1>0, <1>4, <1>5, <1>7, <1>8 DEF Context!ContextInv, ConnInv, Context!Parameters

(* One that is let in: it is told all from the snapshot, or from now, on.  *)
LEMMA StepRegister ==
  ASSUME Context!ContextInv, NEW c \in Conns, v8[c] \in {"out", "opening"},
         NEW k, NEW since \in SinceEntries, Context!Register(c, k, since),
         k = v3' /\ k # 0 /\ k \notin v5,
         v4' \in Nat /\ v4 <= v4' /\ v3' \in 0..v4',
         v3' = v3 \/ v3' > v4,
         UNCHANGED <<v1, v2, v5, v11, v10, v12, v14>>
  PROVE  Context!ContextInv'
<1>0. Context!Types /\ Context!Closed /\ Context!Parameters /\ \A d \in Conns : ConnInv(d)
  BY DEF Context!ContextInv, ConnInv
<1>1. /\ v8 \in [Conns -> {"out", "opening", "replaying", "done"}] /\ v7 \in [Conns -> 0..v4]
      /\ v5 \subseteq 1..v4 /\ v4 \in Nat /\ v6 \in Seq(Conns) /\ Context!IsInjective(v6)
      /\ v9 \in [Conns -> [next : Nat, upto : Nat]] /\ v13 \in [Conns -> Nat] /\ v1 \in Nat
      /\ v15 \in [Conns -> SUBSET {"attached", "detached"}] /\ v2.todo \in Seq(Conns)
  BY <1>0 DEF Context!Types
<1>2. /\ ~Context!Attached(c) /\ c \notin Context!Range(v2.todo) /\ v12[c] = <<>> /\ v7[c] = 0
      /\ v12'[c] = <<>>
  BY <1>0 DEF ConnInv, Context!Absent
<1>3. /\ v6' = Append(v6, c) /\ v7' = [v7 EXCEPT ![c] = k]  BY DEF Context!Register
<1>4. /\ v6' \in Seq(Conns) /\ Context!IsInjective(v6')
      /\ Context!Range(v6') = Context!Range(v6) \cup {c}
  BY <1>1, <1>2, <1>3, OneMore DEF Context!Attached
<1>5. Context!Attached(c)' /\ \A d \in Conns \ {c} : Context!Attached(d)' <=> Context!Attached(d)
  BY <1>4 DEF Context!Attached
<1>6. /\ v7' \in [Conns -> 0..v4'] /\ v7'[c] = k
      /\ \A d \in Conns \ {c} : v7'[d] = v7[d]
  BY <1>1, <1>3
<1>7. Context!Closed'
  BY <1>0, <1>5, <1>6 DEF Context!Closed
<1>8. CASE since = None
  <2>1. /\ v8' = [v8 EXCEPT ![c] = "done"] /\ v15' = [v15 EXCEPT ![c] = @ \cup {"attached"}]
        /\ v13' = [v13 EXCEPT ![c] = IF v2.at = "others" THEN v1 ELSE v1 + 1] /\ v9' = v9
    BY <1>8 DEF Context!Register, Context!Emit
  <2>2. /\ v8' \in [Conns -> {"out", "opening", "replaying", "done"}] /\ v13' \in [Conns -> Nat]
        /\ v8'[c] = "done" /\ v13'[c] = IF v2.at = "others" THEN v1 ELSE v1 + 1
    BY <1>1, <2>1
  <2>3. v15' \in [Conns -> SUBSET {"attached", "detached"}]
    <3>1. v15[c] \cup {"attached"} \in SUBSET {"attached", "detached"}  BY <1>1
    <3> QED  BY <1>1, <2>1, <3>1
  <2>4. Context!Types'
    <3>1. /\ v4' \in Nat /\ v3' \in 0..v4' /\ v5' \subseteq 1..v4'
          /\ UNCHANGED <<v1, v2, v11, v10, v12, v14, v9>>
      BY <1>1, <2>1
    <3> QED  BY <1>0, <1>4, <1>6, <2>2, <2>3, <3>1 DEF Context!Types
  <2>5. OnlyMoves(c)  BY <1>5, <1>6, <2>1 DEF OnlyMoves
  <2>6. \A d \in Conns \ {c} : ConnInv(d)'  BY <2>5, Others
  <2>7. Context!Absent(c)' /\ Context!Told(c)' /\ Context!Replays(c)' /\ Context!Ordered(c)'
    BY <1>2, <1>5, <1>6, <2>2 DEF Context!Absent, Context!Told, Context!Replays, Context!Ordered
  <2>8. Context!InPlace(c)'  BY <1>0, <1>2, <2>1, <2>2 DEF ConnInv, Context!InPlace
  <2>9. Context!Heard(c)'
    <3>1. Context!Settled(c)' = IF v2.at = "others" THEN v1 - 1 ELSE v1  BY <1>2 DEF Context!Settled
    <3>2. v13'[c]..Context!Settled(c)' = {}  BY <1>1, <2>2, <3>1
    <3> QED  BY <3>2 DEF Context!Heard
  <2> QED
    BY <1>0, <1>7, <2>4, <2>6, <2>7, <2>8, <2>9 DEF Context!ContextInv, ConnInv, Context!Parameters
<1>9. CASE since # None
  <2>0. since \in Nat  BY <1>0, <1>9 DEF Context!Parameters
  <2>1. /\ v8' = [v8 EXCEPT ![c] = "replaying"] /\ v15' = v15
        /\ v13' = [v13 EXCEPT ![c] = since + 1]
        /\ v9' = [v9 EXCEPT ![c] = [next |-> since + 1, upto |-> v1]]
    BY <1>9 DEF Context!Register
  <2>2. /\ v8' \in [Conns -> {"out", "opening", "replaying", "done"}] /\ v13' \in [Conns -> Nat]
        /\ v8'[c] = "replaying" /\ v13'[c] = since + 1
        /\ v9' \in [Conns -> [next : Nat, upto : Nat]]
        /\ v9'[c].next = since + 1 /\ v9'[c].upto = v1
    <3>0. since + 1 \in Nat /\ v1 \in Nat  BY <1>1, <2>0
    <3>1. PICK r \in [next : Nat, upto : Nat] : r = [next |-> since + 1, upto |-> v1]  BY <3>0
    <3>2. v9' = [v9 EXCEPT ![c] = r]  BY <2>1, <3>1
    <3>3. v9' \in [Conns -> [next : Nat, upto : Nat]] /\ v9'[c] = r  BY <1>1, <3>2
    <3>4. r.next = since + 1 /\ r.upto = v1  BY <3>1
    <3>5. since + 1 \in Nat  BY <2>0
    <3> QED  BY <1>1, <2>1, <3>3, <3>4, <3>5
  <2>4. Context!Types'
    <3>1. /\ v4' \in Nat /\ v3' \in 0..v4' /\ v5' \subseteq 1..v4'
          /\ UNCHANGED <<v1, v2, v11, v10, v12, v14, v15>>
      BY <1>1, <2>1
    <3> QED  BY <1>0, <1>4, <1>6, <2>2, <3>1 DEF Context!Types
  <2>5. OnlyMoves(c)  BY <1>5, <1>6, <2>1 DEF OnlyMoves
  <2>6. \A d \in Conns \ {c} : ConnInv(d)'  BY <2>5, Others
  <2>7. Context!Absent(c)' /\ Context!Told(c)' /\ Context!Heard(c)' /\ Context!Ordered(c)'
    BY <1>2, <1>5, <1>6, <2>2 DEF Context!Absent, Context!Told, Context!Heard, Context!Served,
      Context!Ordered
  <2>8. Context!InPlace(c)'  BY <1>1, <1>2, <2>2 DEF Context!InPlace
  <2>9. Context!Replays(c)'
    <3>1. Context!Settled(c)' \in {v1 - 1, v1}  BY DEF Context!Settled
    <3>2. v13'[c]..(v9'[c].next - 1) = {}  BY <2>0, <2>2
    <3>3. (v9'[c].upto + 1)..Context!Settled(c)' = {}  BY <1>1, <2>2, <3>1
    <3> QED  BY <3>2, <3>3 DEF Context!Replays
  <2> QED
    BY <1>0, <1>7, <2>4, <2>6, <2>7, <2>8, <2>9 DEF Context!ContextInv, ConnInv, Context!Parameters
<1> QED  BY <1>8, <1>9

(* The two ways in: the context is there, or its store is opened first.    *)
LEMMA StepAttach ==
  ASSUME Context!ContextInv, NEW c \in Conns, Context!Attach(c) \/ Context!StoreOpened(c)
  PROVE  Context!ContextInv'
<1>0. Context!Types  BY DEF Context!ContextInv
<1>1. v3 \in 0..v4 /\ v4 \in Nat /\ v5 \subseteq 1..v4  BY <1>0 DEF Context!Types
<1>2. CASE Context!Attach(c) /\ v3 = 0
  BY <1>1, <1>2, StepRefuse DEF Context!Attach, Context!managerVars
<1>3. CASE Context!Attach(c) /\ v3 # 0
  <2>1. PICK since \in SinceEntries : Context!AttachTo(c, v3, since)  BY <1>3 DEF Context!Attach
  <2>2. /\ UNCHANGED <<v1, v2, v5, v11, v10, v12, v14>> /\ v8[c] = "out"
        /\ v3' = v3 /\ v4' = v4
    BY <1>3 DEF Context!Attach, Context!managerVars
  <2>3. CASE Context!Refuse(c)
    <3>1. /\ UNCHANGED <<v6, v7, v9, v13, v15>>
          /\ v8' \in {[v8 EXCEPT ![c] = "done"], [v8 EXCEPT ![c] = "opening"]}
      BY <2>3 DEF Context!Refuse
    <3>2. /\ v4' \in Nat /\ v4 <= v4' /\ v3' \in 0..v4'
          /\ v3' = v3 \/ v3' > v4
      BY <1>1, <2>2
    <3> QED  BY <2>2, <3>1, <3>2, StepRefuse
  <2>4. CASE Context!Register(c, v3, since) /\ v3 \notin v5
    BY <1>1, <1>3, <2>2, <2>4, StepRegister
  <2> QED  BY <2>1, <2>3, <2>4 DEF Context!AttachTo
<1>4. CASE Context!StoreOpened(c)
  <2>1. PICK since \in SinceEntries : Context!AttachTo(c, v4 + 1, since)
    BY <1>4 DEF Context!StoreOpened
  <2>2. /\ UNCHANGED <<v1, v2, v5, v11, v10, v12, v14>> /\ v8[c] = "opening"
        /\ v3' = v4 + 1 /\ v4' = v4 + 1
    BY <1>4 DEF Context!StoreOpened
  <2>3. CASE Context!Refuse(c)
    <3>1. /\ UNCHANGED <<v6, v7, v9, v13, v15>>
          /\ v8' \in {[v8 EXCEPT ![c] = "done"], [v8 EXCEPT ![c] = "opening"]}
      BY <2>3 DEF Context!Refuse
    <3>2. /\ v4' \in Nat /\ v4 <= v4' /\ v3' \in 0..v4'
          /\ v3' = v3 \/ v3' > v4
      BY <1>1, <2>2
    <3> QED  BY <2>2, <3>1, <3>2, StepRefuse
  <2>4. CASE Context!Register(c, v4 + 1, since)
    <3>1. v4 + 1 \notin v5 /\ v4 + 1 # 0  BY <1>1
    <3> QED  BY <1>1, <2>2, <2>4, <3>1, StepRegister
  <2> QED  BY <2>1, <2>3, <2>4 DEF Context!AttachTo
<1> QED  BY <1>2, <1>3, <1>4

(* The replay's steps.                                                     *)
LEMMA StepReplays ==
  ASSUME Context!ContextInv, NEW c \in Conns, Context!ReplaySends(c)
  PROVE  Context!ContextInv'
<1>0. Context!Types /\ Context!Closed /\ Context!Parameters /\ \A d \in Conns : ConnInv(d)
  BY DEF Context!ContextInv, ConnInv
<1>1. /\ v9 \in [Conns -> [next : Nat, upto : Nat]] /\ v1 \in Nat /\ v12 \in [Conns -> Seq(Nat)]
      /\ v9[c].next \in Nat /\ v9[c].upto \in Nat /\ v13[c] \in Nat
  BY <1>0 DEF Context!Types
<1> DEFINE n == v9[c].next
<1>2. /\ v8[c] = "replaying" /\ n <= v9[c].upto
      /\ v12' = [v12 EXCEPT ![c] = Append(@, n)] /\ v9' = [v9 EXCEPT ![c].next = @ + 1]
      /\ UNCHANGED <<v1, v2, v3, v4, v5, v11, v6, v7, v8, v10>>
      /\ UNCHANGED <<v13, v14, v15>>
  BY DEF Context!ReplaySends, Context!managerVars
<1>3. /\ v12'[c] = Append(v12[c], n) /\ \A d \in Conns \ {c} : v12'[d] = v12[d] /\ v9'[d] = v9[d]
      /\ v9'[c].next = n + 1 /\ v9'[c].upto = v9[c].upto
  BY <1>1, <1>2
<1>4. v12' \in [Conns -> Seq(Nat)] /\ v9' \in [Conns -> [next : Nat, upto : Nat]]
  <2>1. Append(v12[c], n) \in Seq(Nat)  BY <1>1
  <2>2. PICK r : r = [v9[c] EXCEPT !.next = @ + 1]  OBVIOUS
  <2>3. v9[c] \in [next : Nat, upto : Nat] /\ v9[c].next + 1 \in Nat  BY <1>1
  <2>4. r \in [next : Nat, upto : Nat]  BY <2>2, <2>3
  <2>5. v9' = [v9 EXCEPT ![c] = r]  BY <1>2, <2>2
  <2>6. v9' \in [Conns -> [next : Nat, upto : Nat]]  BY <1>1, <2>4, <2>5
  <2>7. v12' \in [Conns -> Seq(Nat)]  BY <1>1, <1>2, <2>1
  <2> QED  BY <2>6, <2>7
<1>5. /\ v12'[c] \in Seq(Nat) /\ v12[c] \in Seq(Nat) /\ Len(v12[c]) \in Nat
      /\ Len(v12'[c]) = Len(v12[c]) + 1 /\ v12'[c][Len(v12[c]) + 1] = n
      /\ DOMAIN v12[c] = 1..Len(v12[c]) /\ DOMAIN v12'[c] = 1..(Len(v12[c]) + 1)
      /\ \A i \in 1..Len(v12[c]) : v12'[c][i] = v12[c][i] /\ v12[c][i] \in Nat
  BY <1>1, <1>3
<1>6. Context!Range(v12'[c]) = Context!Range(v12[c]) \cup {n}
  <2>1. v12[c] \in Seq(Nat) /\ n \in Nat  BY <1>1
  <2>2. Context!Range(Append(v12[c], n)) = Context!Range(v12[c]) \cup {n}  BY <2>1, OneMore
  <2> QED  BY <1>3, <2>2
<1> HIDE DEF n
<1>7. n = v9[c].next /\ n \in Nat  BY <1>1 DEF n
<1>8. \A d \in Conns : Context!Attached(d)' <=> Context!Attached(d)  BY <1>2 DEF Context!Attached
<1>9. Context!Types' /\ Context!Closed'  BY <1>0, <1>2, <1>4, <1>8 DEF Context!Types, Context!Closed
<1>10. \A d \in Conns \ {c} : ConnInv(d)'
  <2>1. OnlyMoves(c)
    <3>1. v3 \in 0..v4 /\ v4 \in Nat  BY <1>0 DEF Context!Types
    <3> QED  BY <1>2, <1>3, <1>8, <3>1 DEF OnlyMoves
  <2> QED  BY <2>1, Others
<1>11. /\ Context!Absent(c) /\ Context!InPlace(c) /\ Context!Replays(c)
       /\ Context!Ordered(c) /\ Context!Told(c)
  BY <1>0 DEF ConnInv
<1>12. Context!Absent(c)' /\ Context!Told(c)' /\ Context!Heard(c)'
  BY <1>2, <1>8, <1>11 DEF Context!Absent, Context!Told, Context!Heard, Context!Served
<1>13. \A i \in 1..Len(v12[c]) : v12[c][i] < n /\ v12[c][i] <= v9[c].upto /\ v12[c][i] <= v1
  BY <1>2, <1>5, <1>7, <1>11 DEF Context!InPlace
<1>14. Context!InPlace(c)'
  <2>1. \A i \in DOMAIN v12'[c] : i = Len(v12[c]) + 1 \/ i \in 1..Len(v12[c])  BY <1>5
  <2>2. v9[c].upto <= v1  BY <1>11 DEF Context!InPlace
  <2>3. \A i \in DOMAIN v12'[c] :
          v12'[c][i] \in Nat /\ v12'[c][i] <= v9[c].upto /\ v12'[c][i] < n + 1
    BY <1>2, <1>5, <1>7, <1>13, <2>1
  <2>4. \A i \in DOMAIN v12'[c] : v12'[c][i] <= v1 /\ (v12'[c][i] = v1 => v9[c].upto = v1)
    BY <1>1, <2>2, <2>3
  <2> QED  BY <1>2, <1>3, <2>2, <2>3, <2>4 DEF Context!InPlace
<1>15. Context!Replays(c)'
  <2>1. Context!Settled(c)' = Context!Settled(c)  BY <1>2 DEF Context!Settled
  <2>2. \A e \in v13[c]..n : e \in v13[c]..(n - 1) \/ e = n  BY <1>1, <1>7
  <2>3. n + 1 - 1 = n  BY <1>7
  <2> QED  BY <1>2, <1>3, <1>6, <1>7, <1>8, <1>11, <2>1, <2>2, <2>3 DEF Context!Replays
<1>16. Context!Ordered(c)'
  <2> SUFFICES ASSUME NEW i \in 1..Len(v12'[c]) - 1
               PROVE  \/ v12'[c][i] < v12'[c][i + 1]
                      \/ v12'[c][i] = v12'[c][i + 1] /\ v12'[c][i] = v9'[c].upto
    BY DEF Context!Ordered
  <2>1. i \in 1..Len(v12[c])  BY <1>5
  <2>2. CASE i = Len(v12[c])  BY <1>5, <1>13, <2>1, <2>2
  <2>3. CASE i # Len(v12[c])
    <3>0. Len(v12[c]) \in Nat  BY <1>5
    <3>1. i \in 1..Len(v12[c]) - 1 /\ i + 1 \in 1..Len(v12[c])  BY <2>1, <2>3, <3>0
    <3>2. /\ v12'[c][i] = v12[c][i] /\ v12'[c][i + 1] = v12[c][i + 1] /\ v9'[c].upto = v9[c].upto
      BY <1>3, <1>5, <2>1, <3>1
    <3>3. \/ v12[c][i] < v12[c][i + 1]
          \/ v12[c][i] = v12[c][i + 1] /\ v12[c][i] = v9[c].upto
      BY <1>11, <3>1 DEF Context!Ordered
    <3> QED  BY <3>2, <3>3
  <2> QED  BY <2>2, <2>3
<1> QED
  BY <1>0, <1>9, <1>10, <1>12, <1>14, <1>15, <1>16 DEF Context!ContextInv, ConnInv,
    Context!Parameters

(* A replay that is done: what was replayed and what came live meet.       *)
LEMMA StepReplayed ==
  ASSUME Context!ContextInv, NEW c \in Conns, Context!ReplayDone(c)
  PROVE  Context!ContextInv'
<1>0. Context!Types /\ Context!Closed /\ Context!Parameters /\ \A d \in Conns : ConnInv(d)
  BY DEF Context!ContextInv, ConnInv
<1>1. /\ v8 \in [Conns -> {"out", "opening", "replaying", "done"}]
      /\ v15 \in [Conns -> SUBSET {"attached", "detached"}] /\ v1 \in Nat
      /\ v9[c].next \in Nat /\ v9[c].upto \in Nat /\ v13[c] \in Nat
  BY <1>0 DEF Context!Types
<1>2. /\ v8[c] = "replaying" /\ v9[c].next > v9[c].upto
      /\ v8' = [v8 EXCEPT ![c] = "done"] /\ v15' = [v15 EXCEPT ![c] = @ \cup {"attached"}]
      /\ UNCHANGED <<v1, v2, v3, v4, v5, v11, v6, v7, v9, v10>>
      /\ UNCHANGED <<v12, v13, v14>>
  BY DEF Context!ReplayDone, Context!managerVars, Context!Emit
<1>3. \A d \in Conns : Context!Attached(d)' <=> Context!Attached(d)  BY <1>2 DEF Context!Attached
<1>4. /\ v8' \in [Conns -> {"out", "opening", "replaying", "done"}]
      /\ v15' \in [Conns -> SUBSET {"attached", "detached"}]
  <2>1. v15[c] \cup {"attached"} \in SUBSET {"attached", "detached"}  BY <1>1
  <2> QED  BY <1>1, <1>2, <2>1
<1>5. Context!Types' /\ Context!Closed'  BY <1>0, <1>2, <1>3, <1>4 DEF Context!Types, Context!Closed
<1>6. \A d \in Conns \ {c} : ConnInv(d)'
  <2>1. OnlyMoves(c)
    <3>1. v3 \in 0..v4 /\ v4 \in Nat  BY <1>0 DEF Context!Types
    <3> QED  BY <1>1, <1>2, <1>3, <3>1 DEF OnlyMoves
  <2> QED  BY <2>1, Others
<1>7. /\ Context!Absent(c) /\ Context!InPlace(c) /\ Context!Replays(c)
      /\ Context!Ordered(c) /\ Context!Told(c)
  BY <1>0 DEF ConnInv
<1>8. v8'[c] = "done" /\ v15[c] \subseteq v15'[c]  BY <1>1, <1>2
<1>9. Context!Absent(c)' /\ Context!Told(c)' /\ Context!Replays(c)' /\ Context!Ordered(c)'
  BY <1>2, <1>3, <1>7, <1>8 DEF Context!Absent, Context!Told, Context!Replays, Context!Ordered
<1>10. Context!InPlace(c)'
  BY <1>2, <1>3, <1>7, <1>8 DEF Context!InPlace, Context!Pending
<1>11. Context!Heard(c)'
  <2> SUFFICES ASSUME Context!Served(c)'
               PROVE  v13[c]..Context!Settled(c) \subseteq Context!Range(v12[c]) \cup v14[c]
    BY <1>2 DEF Context!Heard, Context!Settled
  <2>1. /\ v13[c]..(v9[c].next - 1) \subseteq Context!Range(v12[c])
        /\ (v9[c].upto + 1)..Context!Settled(c) \subseteq v14[c]
    BY <1>2, <1>3, <1>7 DEF Context!Served, Context!Replays
  <2>2. Context!Settled(c) \in Int  BY <1>1 DEF Context!Settled
  <2>3. \A e \in v13[c]..Context!Settled(c) : \/ e \in v13[c]..(v9[c].next - 1)
                                      \/ e \in (v9[c].upto + 1)..Context!Settled(c)
    BY <1>1, <1>2, <2>2
  <2> QED  BY <2>1, <2>3
<1> QED  BY <1>0, <1>5, <1>6, <1>9, <1>10, <1>11 DEF Context!ContextInv, ConnInv, Context!Parameters

(* The four ways to leave.                                                 *)
LEMMA StepLeaves ==
  ASSUME Context!ContextInv, NEW c \in Conns,
         \/ Context!ReplayFails(c) \/ Context!ClientDetach(c)
         \/ Context!ReapDetach(c) \/ Context!CloseDetach(c)
  PROVE  Context!ContextInv'
<1>0. Context!Types /\ Context!Closed /\ Context!Parameters /\ \A d \in Conns : ConnInv(d)
  BY DEF Context!ContextInv, ConnInv
<1>1. v8 \in [Conns -> {"out", "opening", "replaying", "done"}]  BY <1>0 DEF Context!Types
<1>2. UNCHANGED <<v1, v2, Context!managerVars, v7, v9, v13, v14>> /\ v10' \subseteq v10
  BY DEF Context!ReplayFails, Context!ClientDetach, Context!ReapDetach, Context!CloseDetach
<1>3. v8' = v8 \/ v8' = [v8 EXCEPT ![c] = "done"]
  BY DEF Context!ReplayFails, Context!ClientDetach, Context!ReapDetach, Context!CloseDetach
<1>4. WorkerIs(c)  BY <1>0, <1>2 DEF WorkerIs, Context!Types
<1>5. \/ Context!Drop(c) /\ (Context!Attached(c) \/ v8'[c] = "done")
      \/ v8' = v8 /\ UNCHANGED <<v6, v12, v15>>
  BY <1>1 DEF Context!ReplayFails, Context!ClientDetach, Context!ReapDetach, Context!CloseDetach,
    Context!Detach
<1>6. CASE Context!Drop(c) /\ (Context!Attached(c) \/ v8'[c] = "done")
  BY <1>2, <1>3, <1>4, <1>6, Leaves
<1>7. CASE v8' = v8 /\ UNCHANGED <<v6, v12, v15>>
  <2>1. \A d \in Conns : Context!Attached(d)' <=> Context!Attached(d)  BY <1>7 DEF Context!Attached
  <2>2. Context!Types' /\ Context!Closed'
    BY <1>0, <1>2, <1>7, <2>1 DEF Context!Types, Context!Closed, Context!managerVars
  <2>3. \A d \in Conns : Still(d)
    BY <1>2, <1>7, <2>1 DEF Still, Context!Pending, Context!Settled, Context!managerVars
  <2> QED  BY <1>0, <2>2, <2>3, Frame DEF Context!ContextInv, ConnInv, Context!Parameters
<1> QED  BY <1>5, <1>6, <1>7

(* The manager's own steps, and a reap sweep that only looks.              *)
LEMMA StepManager ==
  ASSUME Context!ContextInv,
         Context!Close \/ Context!CloseReturns \/ (\E k \in 1..v4 : Context!ReapSweep(k))
  PROVE  Context!ContextInv'
<1>0. Context!Types /\ Context!Closed /\ Context!Parameters /\ \A d \in Conns : ConnInv(d)
  BY DEF Context!ContextInv, ConnInv
<1>1. /\ UNCHANGED <<v1, v2, v4, v6, v7, v8, v9, v12, v13, v14, v15>>
  BY DEF Context!Close, Context!CloseReturns, Context!ReapSweep, Context!connVars,
    Context!historyVars, Context!managerVars
<1>2. \A d \in Conns : Context!Attached(d)' <=> Context!Attached(d)  BY <1>1 DEF Context!Attached
<1>3. \A d \in Conns : Context!Attached(d) => v7[d] # 0  BY <1>0 DEF ConnInv, Context!Absent
<1>4. v3 \in 0..v4 /\ v4 \in Nat /\ v5 \subseteq 1..v4 /\ v10 \subseteq Conns
  BY <1>0 DEF Context!Types
<1>5. /\ v3' \in 0..v4 /\ v5' \subseteq 1..v4 /\ v10' \subseteq Conns
      /\ v11' \in {"no", "yes", "done"} /\ Context!Closed'
      /\ \A d \in Conns : Context!Attached(d) /\ v7[d] = v3' /\ v3' \notin v5'
           => v7[d] = v3 /\ v3 \notin v5
  <2>1. CASE Context!Close
    <3>1. /\ v11' = "yes" /\ v5' = v5 \cup ({v3} \ {0}) /\ v3' = v3
          /\ v10' = {c \in v10 : v7[c] # v3}
      BY <2>1 DEF Context!Close
    <3> QED  BY <1>3, <1>4, <3>1 DEF Context!Closed
  <2>2. CASE Context!CloseReturns
    <3>1. /\ v11' = "done" /\ v3' = 0 /\ UNCHANGED <<v5, v10>>
          /\ \A k \in v5 : Context!Connections(k) = <<>>
      BY <2>2 DEF Context!CloseReturns
    <3>2. Context!Closed'
      <4> SUFFICES ASSUME NEW d \in Conns, Context!Attached(d)  PROVE v7[d] \notin v5
        BY <1>1, <1>2, <3>1 DEF Context!Closed
      <4>1. ASSUME v7[d] \in v5  PROVE FALSE
        <5>1. Context!Connections(v7[d]) = <<>>  BY <3>1, <4>1
        <5> QED  BY <1>0, <5>1, OfContext
      <4> QED  BY <4>1
    <3> QED  BY <1>3, <1>4, <3>1, <3>2
  <2>3. CASE \E k \in 1..v4 : Context!ReapSweep(k)
    <3>1. PICK k \in 1..v4 : Context!ReapSweep(k)  BY <2>3
    <3>2. UNCHANGED <<v3, v5, v11>>  BY <3>1 DEF Context!ReapSweep, Context!managerVars
    <3>3. v10' \subseteq Conns
      <4>1. PICK stale \in SUBSET Context!Range(Context!Connections(k)) : v10' = v10 \cup stale
        BY <3>1 DEF Context!ReapSweep
      <4> QED  BY <1>0, <1>4, <4>1, OfContext
    <3> QED  BY <1>0, <1>1, <1>2, <1>4, <3>2, <3>3 DEF Context!Closed, Context!Types
  <2> QED  BY <2>1, <2>2, <2>3
<1>6. Context!Types'  BY <1>0, <1>1, <1>5 DEF Context!Types
<1>7. \A d \in Conns : Still(d)
  BY <1>1, <1>2, <1>5 DEF Still, Context!Pending, Context!Settled
<1> QED  BY <1>0, <1>5, <1>6, <1>7, Frame DEF Context!ContextInv, ConnInv, Context!Parameters

(* Every step keeps the invariant.                                         *)
LEMMA ContextStep == Context!ContextInv /\ [Context!Next]_(Context!vars) => Context!ContextInv'
<1> SUFFICES ASSUME Context!ContextInv, [Context!Next]_(Context!vars)  PROVE Context!ContextInv'
  OBVIOUS
<1>1. CASE Context!Next
  BY <1>1, StepPersist, StepOnEvent, StepVisits, StepSends, StepTimesOut, StepAttach, StepReplays,
     StepReplayed, StepLeaves, StepManager DEF Context!Next, Context!WorkerStep, Context!AttachStep
<1>2. CASE UNCHANGED Context!vars
  <2>1. /\ UNCHANGED <<v1, v2, v3, v4, v5, v11, v6, v7, v8, v9, v10>>
        /\ UNCHANGED <<v12, v13, v14, v15>>
    BY <1>2 DEF Context!vars, Context!managerVars, Context!connVars, Context!historyVars
  <2>2. Context!Types /\ Context!Closed /\ Context!Parameters /\ \A d \in Conns : ConnInv(d)
    BY DEF Context!ContextInv, ConnInv
  <2>3. Context!Types' /\ Context!Closed'
    BY <2>1, <2>2 DEF Context!Types, Context!Closed, Context!Attached
  <2>4. \A d \in Conns : Still(d)
    BY <2>1 DEF Still, Context!Pending, Context!Settled, Context!Attached
  <2> QED  BY <2>2, <2>3, <2>4, Frame DEF Context!ContextInv, ConnInv, Context!Parameters
<1> QED  BY <1>1, <1>2

(* A context has no more connections than it takes: who belongs to it,     *)
Members(k) == {c \in Conns : Context!Attached(c) /\ v7[c] = k}
Room == \A k \in Nat : Cardinality(Members(k)) <= MaxConnections

(* and how many they are.                                                  *)
LEMMA Counted ==
  ASSUME Context!Types, NEW k
  PROVE  IsFiniteSet(Members(k)) /\ Len(Context!Connections(k)) = Cardinality(Members(k))
<1>1. PICK l : l = Context!Connections(k)
  OBVIOUS
<1>2. l \in Seq(Conns) /\ Context!IsInjective(l) /\ Context!Range(l) = Members(k)
  BY <1>1, OfContext DEF Members
<1>3. PICK n \in Nat : n = Len(l)
  BY <1>2
<1>4. DOMAIN l = 1..n /\ l \in [1..n -> Conns]
  BY <1>2, <1>3
<1>5. l \in [1..n -> Members(k)]
  BY <1>2, <1>4 DEF Context!Range
<1>6. l \in Bijection(1..n, Members(k))
  BY <1>2, <1>4, <1>5 DEF Bijection, Injection, Surjection, IsInjective, Context!IsInjective,
     Context!Range
<1>7. ExistsBijection(1..n, Members(k))
  BY <1>6 DEF ExistsBijection
<1> QED  BY <1>1, <1>3, <1>7, FS_NatBijection, FS_CountingElements

(* Nobody joins: there is room.                                            *)
LEMMA RoomStays ==
  ASSUME Context!ContextInv, Room, v7' = v7,
         \A c \in Conns : Context!Attached(c)' => Context!Attached(c)
  PROVE  Room'
<1>1. ASSUME NEW k \in Nat  PROVE Cardinality(Members(k)') <= MaxConnections
  <2>1. IsFiniteSet(Members(k)) /\ Members(k)' \in SUBSET Members(k)
    BY Counted DEF Context!ContextInv, Members
  <2>2. PICK M : M = Members(k)
    OBVIOUS
  <2>3. PICK N : N = Members(k)'
    OBVIOUS
  <2>4. /\ Cardinality(N) <= Cardinality(M) /\ Cardinality(N) \in Nat /\ Cardinality(M) \in Nat
    BY <2>1, <2>2, <2>3, FS_Subset, FS_CardinalityType
  <2>5. Cardinality(M) <= MaxConnections /\ MaxConnections \in Nat
    BY <2>2 DEF Room, Context!ContextInv, Context!Parameters
  <2> QED  BY <2>3, <2>4, <2>5
<1> QED  BY <1>1 DEF Room

(* Somebody joins: there was room.                                         *)
LEMMA RoomTaken ==
  ASSUME Context!ContextInv, Room, NEW c \in Conns, NEW j \in Nat, ~Context!Attached(c),
         v6' = Append(v6, c), v7' = [v7 EXCEPT ![c] = j],
         ~(Len(Context!Connections(j)) >= MaxConnections)
  PROVE  Room'
<1>1. /\ v6 \in Seq(Conns) /\ Context!IsInjective(v6) /\ v7 \in [Conns -> 0..v4]
      /\ Context!Types /\ MaxConnections \in Nat
  BY DEF Context!ContextInv, Context!Types, Context!Parameters
<1>2. \A d \in Conns : Context!Attached(d)' <=> Context!Attached(d) \/ d = c
  <2>1. Context!Range(Append(v6, c)) = Context!Range(v6) \cup {c}
    BY <1>1, OneMore
  <2> QED  BY <2>1 DEF Context!Attached
<1>3. \A k \in Nat : Members(k)' = IF k = j THEN Members(k) \cup {c} ELSE Members(k)
  BY <1>1, <1>2 DEF Members
<1>4. ASSUME NEW k \in Nat  PROVE Cardinality(Members(k)') <= MaxConnections
  <2>1. PICK M : M = Members(k)
    OBVIOUS
  <2>2. IsFiniteSet(M) /\ Cardinality(M) \in Nat /\ Cardinality(M) <= MaxConnections
    BY <1>1, <2>1, Counted, FS_CardinalityType DEF Room
  <2>3. CASE k # j
    BY <1>3, <2>1, <2>2, <2>3
  <2>4. CASE k = j
    <3>1. Cardinality(M) < MaxConnections
      BY <1>1, <2>1, <2>2, <2>4, Counted
    <3>2. c \notin M
      BY <2>1 DEF Members
    <3>3. Cardinality(M \cup {c}) = Cardinality(M) + 1
      BY <2>2, <3>2, FS_AddElement
    <3>4. Members(k)' = M \cup {c}
      BY <1>3, <2>1, <2>4
    <3>5. Cardinality(M) + 1 <= MaxConnections
      BY <1>1, <2>2, <3>1
    <3> QED  BY <3>3, <3>4, <3>5
  <2> QED  BY <2>3, <2>4
<1> QED  BY <1>4 DEF Room

(* The step of it: only attach lets anybody in.                            *)
LEMMA RoomStep == Context!ContextInv /\ Room /\ [Context!Next]_(Context!vars) => Room'
<1>1. SUFFICES ASSUME Context!ContextInv, Room, [Context!Next]_(Context!vars)  PROVE Room'
  OBVIOUS
<1>2. /\ v6 \in Seq(Conns) /\ Context!IsInjective(v6) /\ v4 \in Nat /\ v3 \in 0..v4
  BY <1>1 DEF Context!ContextInv, Context!Types
<1>3. ASSUME UNCHANGED v7, UNCHANGED v6 \/ \E c : Context!Drop(c)  PROVE Room'
  <2>1. CASE UNCHANGED v6
    BY <1>1, <1>3, <2>1, RoomStays DEF Context!Attached
  <2>2. CASE \E c : Context!Drop(c)
    <3>1. PICK c : Context!Drop(c)
      BY <2>2
    <3>2. v6' = Context!Listed(v6, {i \in DOMAIN v6 : v6[i] # c})
      BY <3>1 DEF Context!Drop
    <3>3. Context!Range(v6') = Context!Range(v6) \ {c}
      BY <1>2, <3>2, Without
    <3> QED  BY <1>1, <1>3, <3>3, RoomStays DEF Context!Attached
  <2> QED  BY <1>3, <2>1, <2>2
<1>4. ASSUME NEW c \in Conns, NEW j \in Nat, NEW since, v8[c] \in {"out", "opening"},
             Context!AttachTo(c, j, since)
      PROVE  Room'
  <2>1. ~Context!Attached(c)
    BY <1>1, <1>4 DEF Context!ContextInv, Context!Absent
  <2>2. CASE Context!Refuse(c)
    BY <1>3, <2>2 DEF Context!Refuse
  <2>3. CASE Context!Register(c, j, since) /\ ~(Len(Context!Connections(j)) >= MaxConnections)
    <3>1. v6' = Append(v6, c) /\ v7' = [v7 EXCEPT ![c] = j]
      BY <2>3 DEF Context!Register
    <3> QED  BY <1>1, <2>1, <2>3, <3>1, RoomTaken
  <2> QED  BY <1>4, <2>2, <2>3 DEF Context!AttachTo
<1>5. CASE UNCHANGED Context!vars
  BY <1>3, <1>5 DEF Context!vars, Context!connVars
<1>6. CASE Context!Persist \/ Context!Close \/ Context!CloseReturns
        \/ \E k \in 1..v4 : Context!ReapSweep(k)
  BY <1>3, <1>6 DEF Context!Persist, Context!Close, Context!CloseReturns, Context!ReapSweep,
     Context!connVars
<1>7. CASE Context!WorkerStep
  <2>1. UNCHANGED v7 /\ (UNCHANGED v6 \/ \E c : Context!Drop(c))
    BY <1>7 DEF Context!WorkerStep, Context!OnEvent, Context!FanoutVisits, Context!FanoutSends,
       Context!FanoutTimesOut, Context!Detach, Context!connVars
  <2> QED  BY <1>3, <2>1
<1>8. ASSUME NEW c \in Conns,
             \/ Context!ReplaySends(c) \/ Context!ReplayDone(c) \/ Context!ReplayFails(c)
             \/ Context!ClientDetach(c) \/ Context!ReapDetach(c) \/ Context!CloseDetach(c)
      PROVE  Room'
  <2>1. UNCHANGED v7 /\ (UNCHANGED v6 \/ Context!Drop(c))
    BY <1>8 DEF Context!ReplaySends, Context!ReplayDone, Context!ReplayFails,
       Context!ClientDetach, Context!ReapDetach, Context!CloseDetach, Context!Detach
  <2> QED  BY <1>3, <2>1
<1>9. ASSUME NEW c \in Conns, Context!Attach(c)  PROVE Room'
  <2>1. CASE v3 = 0
    BY <1>3, <1>9, <2>1 DEF Context!Attach
  <2>2. CASE v3 # 0
    <3>1. PICK since \in SinceEntries : Context!AttachTo(c, v3, since)
      BY <1>9, <2>2 DEF Context!Attach
    <3>2. v8[c] \in {"out", "opening"} /\ v3 \in Nat
      BY <1>2, <1>9 DEF Context!Attach
    <3> QED  BY <1>4, <3>1, <3>2
  <2> QED  BY <2>1, <2>2
<1>10. ASSUME NEW c \in Conns, Context!StoreOpened(c)  PROVE Room'
  <2>1. PICK since \in SinceEntries : Context!AttachTo(c, v4 + 1, since)
    BY <1>10 DEF Context!StoreOpened
  <2>2. v8[c] \in {"out", "opening"} /\ v4 + 1 \in Nat
    BY <1>2, <1>10 DEF Context!StoreOpened
  <2> QED  BY <1>4, <2>1, <2>2
<1> QED  BY <1>1, <1>5, <1>6, <1>7, <1>8, <1>9, <1>10 DEF Context!Next, Context!AttachStep

(* What it says of all the connections.                                    *)
LEMMA ContextTells ==
  Context!ContextInv => Context!Hears /\ Context!Goodbye /\ Context!InOrder
BY DEF Context!ContextInv, Context!Hears, Context!Goodbye, Context!InOrder

(* Whoever a context serves has heard every event from its starting point  *)
(* on, whatever attaches, leaves, stalls or replays beside it, and whoever *)
(* left was told so (session_context.py:378-448, 484-570).                 *)
THEOREM ConnectionsHear == Spec => []Hears
<1>1. Context!ContextInv \/ part # "context" => Hears
  BY ContextTells DEF Hears
<1> QED  BY <1>1, ContextAlone, ContextParameters, ContextInit, ContextStep, PTL DEF Context!Spec

(* What a connection hears is in tape order, and comes twice only when it  *)
(* ended the replay (session_context.py:484-570).                          *)
THEOREM ConnectionsHearInOrder == Spec => []InOrder
<1>1. Context!ContextInv \/ part # "context" => InOrder
  BY ContextTells DEF InOrder
<1> QED  BY <1>1, ContextAlone, ContextParameters, ContextInit, ContextStep, PTL DEF Context!Spec
-----------------------------------------------------------------------------
(* The session store.                                                      *)
(* v1 file, v2 nextId, v3 archives, v4 up, v5 tabs, v6 cache, v7 cli,      *)
(* v8 commands, v9 upsets, v10 messages, v11 mixed, v12 pulled.            *)
(* What is on record of a session: on its tapes and in its archives.       *)
LEMMA RecordIs ==
  ASSUME NEW s, NEW m
  PROVE  m \in Store!OnRecord(s) <=>
           \/ \E t \in Store!Tapes : t[1] = s /\ m \in Store!Messages(v1[t])
           \/ \E a \in v3 : a.tape[1] = s /\ m \in Store!Messages(a.lines)
<1> DEFINE OfTapes == {Store!Messages(v1[t]) : t \in {u \in Store!Tapes : u[1] = s}}
           OfDumps == {Store!Messages(a.lines) : a \in {b \in v3 : b.tape[1] = s}}
<1>1. Store!OnRecord(s) = (UNION OfTapes) \cup (UNION OfDumps)
  BY DEF Store!OnRecord
<1>2. (\E M \in OfTapes : m \in M)
        <=> \E t \in Store!Tapes : t[1] = s /\ m \in Store!Messages(v1[t])
  OBVIOUS
<1>3. (\E M \in OfDumps : m \in M) <=> \E a \in v3 : a.tape[1] = s /\ m \in Store!Messages(a.lines)
  OBVIOUS
<1> HIDE DEF OfTapes, OfDumps
<1>4. m \in (UNION OfTapes) \cup (UNION OfDumps) <=>
        (\E M \in OfTapes : m \in M) \/ (\E M \in OfDumps : m \in M)
  OBVIOUS
<1> QED  BY <1>1, <1>2, <1>3, <1>4

(* The same of the next state.                                             *)
LEMMA RecordIsNext ==
  ASSUME NEW s, NEW m
  PROVE  m \in Store!OnRecord(s)' <=>
           \/ \E t \in Store!Tapes : t[1] = s /\ m \in Store!Messages(v1'[t])
           \/ \E a \in v3' : a.tape[1] = s /\ m \in Store!Messages(a.lines)
<1> DEFINE OfTapes == {Store!Messages(v1'[t]) : t \in {u \in Store!Tapes : u[1] = s}}
           OfDumps == {Store!Messages(a.lines) : a \in {b \in v3' : b.tape[1] = s}}
<1>1. Store!OnRecord(s)' = (UNION OfTapes) \cup (UNION OfDumps)
  BY DEF Store!OnRecord, Store!Messages
<1>2. (\E M \in OfTapes : m \in M)
        <=> \E t \in Store!Tapes : t[1] = s /\ m \in Store!Messages(v1'[t])
  OBVIOUS
<1>3. (\E M \in OfDumps : m \in M) <=> \E a \in v3' : a.tape[1] = s /\ m \in Store!Messages(a.lines)
  OBVIOUS
<1> HIDE DEF OfTapes, OfDumps
<1>4. m \in (UNION OfTapes) \cup (UNION OfDumps) <=>
        (\E M \in OfTapes : m \in M) \/ (\E M \in OfDumps : m \in M)
  OBVIOUS
<1> QED  BY <1>1, <1>2, <1>3, <1>4

(* Lines behind others.                                                    *)
LEMMA Joined ==
  ASSUME NEW q \in Seq(Store!Line), NEW w \in Seq(Store!Line)
  PROVE  LET r == q \o w IN
         /\ r \in Seq(Store!Line) /\ Len(r) = Len(q) + Len(w)
         /\ \A i \in DOMAIN q : i \in DOMAIN r /\ r[i] = q[i]
         /\ \A i \in DOMAIN w : Len(q) + i \in DOMAIN r /\ r[Len(q) + i] = w[i]
         /\ \A i \in DOMAIN r : i \in DOMAIN q \/ \E j \in DOMAIN w : i = Len(q) + j
<1>1. PICK r : r = q \o w
  OBVIOUS
<1>2. /\ r \in Seq(Store!Line) /\ Len(q) \in Nat /\ Len(w) \in Nat /\ Len(r) = Len(q) + Len(w)
      /\ DOMAIN q = 1..Len(q) /\ DOMAIN w = 1..Len(w) /\ DOMAIN r = 1..(Len(q) + Len(w))
      /\ \A i \in 1..(Len(q) + Len(w)) : r[i] = IF i <= Len(q) THEN q[i] ELSE w[i - Len(q)]
  BY <1>1
<1>3. \A i \in DOMAIN q : i \in DOMAIN r /\ r[i] = q[i]
  BY <1>2
<1>4. ASSUME NEW i \in DOMAIN w  PROVE Len(q) + i \in DOMAIN r /\ r[Len(q) + i] = w[i]
  <2>1. /\ i \in Nat /\ i >= 1 /\ i <= Len(w) /\ Len(q) + i \in DOMAIN r
        /\ ~(Len(q) + i <= Len(q)) /\ Len(q) + i - Len(q) = i
    BY <1>2
  <2> QED  BY <1>2, <2>1
<1>5. ASSUME NEW i \in DOMAIN r, i \notin DOMAIN q  PROVE \E j \in DOMAIN w : i = Len(q) + j
  <2>1. i - Len(q) \in DOMAIN w /\ i = Len(q) + (i - Len(q))
    BY <1>2, <1>5
  <2> QED  BY <2>1
<1> QED  BY <1>1, <1>2, <1>3, <1>4, <1>5

(* and what they say.                                                      *)
LEMMA JoinedMessages ==
  ASSUME NEW q \in Seq(Store!Line), NEW w \in Seq(Store!Line)
  PROVE  Store!Messages(q \o w) = Store!Messages(q) \cup Store!Messages(w)
<1>1. PICK r : r = q \o w
  OBVIOUS
<1>2. /\ \A i \in DOMAIN q : i \in DOMAIN r /\ r[i] = q[i]
      /\ \A i \in DOMAIN w : Len(q) + i \in DOMAIN r /\ r[Len(q) + i] = w[i]
      /\ \A i \in DOMAIN r : i \in DOMAIN q \/ \E j \in DOMAIN w : i = Len(q) + j
  BY <1>1, Joined
<1>3. Store!Messages(r) = Store!Messages(q) \cup Store!Messages(w)
  BY <1>2 DEF Store!Messages
<1> QED  BY <1>1, <1>3

(* Lines get their ids when they are written.                              *)
LEMMA StampedLines ==
  ASSUME NEW new \in Seq(Store!Line), NEW first \in Nat, first >= 1, NEW w,
         w = Store!Stamped(new, first)
  PROVE  /\ w \in Seq(Store!Line) /\ Len(w) = Len(new) /\ DOMAIN w = DOMAIN new
         /\ \A i \in DOMAIN new : w[i].id = first + i - 1 /\ w[i].kind = new[i].kind
         /\ Store!Messages(w) = Store!Messages(new)
<1>1. Len(new) \in Nat /\ DOMAIN new = 1..Len(new) /\ DOMAIN w = 1..Len(new)
  BY DEF Store!Stamped
<1>2. ASSUME NEW i \in DOMAIN new
      PROVE  /\ w[i] \in Store!Line /\ w[i].id = first + i - 1 /\ w[i].kind = new[i].kind
             /\ w[i].val = new[i].val
  <2>1. new[i] \in Store!Line /\ w[i] = [new[i] EXCEPT !.id = first + i - 1]
          /\ first + i - 1 \in Nat
    BY <1>1 DEF Store!Stamped
  <2> QED  BY <2>1 DEF Store!Line
<1>3. w \in [1..Len(new) -> Store!Line]
  BY <1>1, <1>2 DEF Store!Stamped
<1>4. w \in Seq(Store!Line) /\ Len(w) = Len(new)
  BY <1>1, <1>3
<1>5. Store!Messages(w) = Store!Messages(new)
  BY <1>1, <1>2 DEF Store!Messages
<1> QED  BY <1>1, <1>2, <1>4, <1>5

(* What is written is short.                                               *)
LEMMA Opening ==
  ASSUME NEW t
  PROVE  /\ Store!Seed(t) \in Seq(Store!Line)
         /\ (Store!Seed(t) = <<>> \/ Store!Seed(t) = <<Store!Start>>)
         /\ Store!Messages(Store!Seed(t)) = {}
         /\ v1[t] = <<>> => Store!Seed(t) = <<Store!Start>>
         /\ Store!Exists(t) /\ v1[t] \in Seq(Store!Line) /\ v1[t][1].kind = "start"
              => Store!Seed(t) = <<>>
<1>1. Store!Start \in Store!Line /\ Store!Start.kind = "start"
  BY DEF Store!Start, Store!Entry, Store!Line
<1>2. <<Store!Start>> \in Seq(Store!Line) /\ <<>> \in Seq(Store!Line)
        /\ DOMAIN <<Store!Start>> = {1} /\ <<Store!Start>>[1] = Store!Start
  BY <1>1
<1>3. Store!Messages(<<>>) = {} /\ Store!Messages(<<Store!Start>>) = {}
  BY <1>1, <1>2 DEF Store!Messages
<1>4. v1[t] = <<>> => Store!Seed(t) = <<Store!Start>>
  BY DEF Store!Seed
<1>5. Store!Exists(t) /\ v1[t] \in Seq(Store!Line) /\ v1[t][1].kind = "start"
        => Store!Seed(t) = <<>>
  BY DEF Store!Seed, Store!Exists, Store!IsAnchor
<1>6. Store!Seed(t) = <<>> \/ Store!Seed(t) = <<Store!Start>>
  BY DEF Store!Seed
<1> QED  BY <1>2, <1>3, <1>4, <1>5, <1>6

(* One line more.                                                          *)
LEMMA OpeningAnd ==
  ASSUME NEW q \in Seq(Store!Line), NEW e \in Store!Line, Store!Messages(q) = {}
  PROVE  /\ Append(q, e) \in Seq(Store!Line) /\ Append(q, e) # <<>>
         /\ e.kind = "message" => Store!Messages(Append(q, e)) = {e.val}
         /\ e.kind # "message" => Store!Messages(Append(q, e)) = {}
         /\ q # <<>> => Append(q, e)[1] = q[1]
         /\ q = <<>> => Append(q, e)[1] = e
<1>1. PICK r : r = Append(q, e)
  OBVIOUS
<1>2. /\ r \in Seq(Store!Line) /\ Len(q) \in Nat /\ DOMAIN q = 1..Len(q)
      /\ DOMAIN r = 1..(Len(q) + 1)
      /\ r[Len(q) + 1] = e /\ \A i \in DOMAIN q : r[i] = q[i]
  BY <1>1
<1>3. Len(q) + 1 \in DOMAIN r /\ \A i \in DOMAIN r : i \in DOMAIN q \/ i = Len(q) + 1
  BY <1>2
<1>4. \A i \in DOMAIN r : r[i].kind = "message" => i = Len(q) + 1
  BY <1>2, <1>3 DEF Store!Messages
<1>5. /\ e.kind = "message" => Store!Messages(r) = {e.val}
      /\ e.kind # "message" => Store!Messages(r) = {}
  BY <1>2, <1>3, <1>4 DEF Store!Messages
<1>6. /\ r # <<>>
      /\ q # <<>> => r[1] = q[1]
      /\ q = <<>> => r[1] = e
  <2>1. 1 \in DOMAIN r /\ DOMAIN <<>> = {}
    BY <1>2
  <2>2. q # <<>> => 1 \in DOMAIN q
    BY <1>2
  <2>3. q = <<>> => Len(q) + 1 = 1
    OBVIOUS
  <2> QED  BY <1>2, <2>1, <2>2, <2>3
<1> QED  BY <1>1, <1>2, <1>5, <1>6

(* An id opens a tape of its session, a listed one if there is a row.      *)
LEMMA Resolved ==
  ASSUME NEW x \in Store!Ids
  PROVE  /\ Store!Resolve(x) \in Store!Tapes /\ Store!Resolve(x)[1] = x[1]
         /\ Store!Rows(x) # {}
              => Store!Exists(Store!Resolve(x)) /\ \E t \in Store!Tapes : t[1] = x[1]
                /\ Store!Exists(t)
<1>1. CASE Store!Exists(x) \/ Store!Rows(x) = {}
  BY <1>1 DEF Store!Resolve, Store!Tapes, Store!Rows
<1>2. CASE ~(Store!Exists(x) \/ Store!Rows(x) = {})
  <2>1. Store!Resolve(x) \in Store!Rows(x)
    BY <1>2 DEF Store!Resolve
  <2> QED  BY <2>1 DEF Store!Rows
<1> QED  BY <1>1, <1>2

(* Ids of a settled session: they all mean its one tape.                   *)
LEMMA Settles ==
  ASSUME Store!Types, Store!SettledInv, NEW x \in Store!Ids, Store!Settled(x[1])
  PROVE  /\ x[2] = 0 => Store!Resolve(x) = <<x[1], 0>> /\ x = <<x[1], 0>> /\ Store!Rows(x) = {}
         /\ Store!Rows(x) # {}
              => x[2] = 1 /\ Store!Resolve(x) = <<x[1], 0>> /\ Store!Exists(<<x[1], 0>>)
         /\ x \in v5 => Store!Resolve(x) = <<x[1], 0>>
         /\ <<x[1], 0>> \in Store!Tapes /\ x[1] \in Sessions
<1>1. x[1] \in Sessions /\ x[2] \in 0..2 /\ x = <<x[1], x[2]>> /\ <<x[1], 0>> \in Store!Tapes
  BY DEF Store!Ids, Store!Levels, Store!Tapes
<1>2. \A t \in Store!Tapes : t[1] = x[1] /\ Store!Exists(t) => t = <<x[1], 0>>
  BY <1>1 DEF Store!SettledInv
<1>3. \A t \in Store!Tapes : t[2] \in Nat
  BY DEF Store!Tapes, Store!Ids, Store!Levels
<1>4. x[2] = 0 => Store!Rows(x) = {}
  BY <1>3 DEF Store!Rows
<1>5. Store!Rows(x) # {} => x[2] = 1 /\ Store!Exists(<<x[1], 0>>)
  BY <1>2 DEF Store!Rows
<1>6. Store!Rows(x) # {} => Store!Resolve(x) = <<x[1], 0>>
  <2>1. SUFFICES ASSUME Store!Rows(x) # {}  PROVE Store!Resolve(x) = <<x[1], 0>>
    OBVIOUS
  <2>2. ~Store!Exists(x)
    BY <1>1, <1>2, <1>5, <2>1 DEF Store!Tapes
  <2>3. Store!Resolve(x) \in Store!Rows(x)
    BY <2>1, <2>2 DEF Store!Resolve
  <2> QED  BY <1>2, <2>3 DEF Store!Rows
<1>7. x[2] = 0 => Store!Resolve(x) = <<x[1], 0>>
  BY <1>1, <1>4 DEF Store!Resolve
<1>8. x[2] = 1 /\ Store!Exists(<<x[1], 0>>) => Store!Rows(x) # {}
  BY <1>1 DEF Store!Rows
<1>9. x \in v5 => Store!Resolve(x) = <<x[1], 0>>
  <2>1. SUFFICES ASSUME x \in v5  PROVE Store!Resolve(x) = <<x[1], 0>>
    OBVIOUS
  <2>2. x[2] = 0 \/ (x[2] = 1 /\ Store!Exists(<<x[1], 0>>))
    BY <1>1, <2>1 DEF Store!SettledInv
  <2> QED  BY <1>6, <1>7, <1>8, <2>2
<1> QED  BY <1>1, <1>4, <1>5, <1>6, <1>7, <1>9

(* Once disturbed, always disturbed.                                       *)
LEMMA Disturbed ==
  ASSUME v11 \subseteq v11', v12 \subseteq v12', NEW s
  PROVE  /\ Store!OneWriter(s)' => Store!OneWriter(s)
         /\ Store!Settled(s)' => Store!Settled(s)
BY DEF Store!OneWriter, Store!Settled

(* What a write does to the file it is for, and to nothing else.           *)
LEMMA Wrote ==
  ASSUME Store!Types, NEW p \in Store!Procs, NEW t \in Store!Tapes, NEW new \in Seq(Store!Line),
         Store!Write(p, t, new)
  PROVE  /\ v1' \in [Store!Tapes -> Seq(Store!Line)]
         /\ v2' \in [Store!Procs -> [Store!Tapes -> Nat]]
         /\ \A u \in Store!Tapes : u # t => v1'[u] = v1[u]
         /\ \A q \in Store!Procs, u \in Store!Tapes : q # p \/ u # t => v2'[q][u] = v2[q][u]
         /\ Store!Messages(v1'[t]) = Store!Messages(v1[t]) \cup Store!Messages(new)
         /\ v1[t] # <<>> => v1'[t] # <<>> /\ v1'[t][1] = v1[t][1]
         /\ v1[t] = <<>> /\ new # <<>> => v1'[t] # <<>> /\ v1'[t][1].kind = new[1].kind
         /\ v1[t] = <<>> /\ new = <<>> => v1'[t] = <<>>
         /\ (\A i \in DOMAIN v1[t] : v1[t][i].id = i) /\ v2[p][t] \in {0, Len(v1[t]) + 1}
              => /\ \A i \in DOMAIN v1'[t] : v1'[t][i].id = i
                 /\ v2'[p][t] \in {0, Len(v1'[t]) + 1}
<1>1. PICK first : first = Store!FreshId(p, t)
  OBVIOUS
<1>2. PICK w : w = Store!Stamped(new, first)
  OBVIOUS
<1>3. /\ v1 \in [Store!Tapes -> Seq(Store!Line)] /\ v2 \in [Store!Procs -> [Store!Tapes -> Nat]]
      /\ v1[t] \in Seq(Store!Line) /\ Len(v1[t]) \in Nat /\ Len(new) \in Nat
      /\ DOMAIN v1[t] = 1..Len(v1[t]) /\ DOMAIN new = 1..Len(new)
  BY DEF Store!Types
<1>4. /\ v1' = [v1 EXCEPT ![t] = @ \o w]
      /\ v2' = IF new = <<>> THEN v2 ELSE [v2 EXCEPT ![p][t] = first + Len(new)]
  BY <1>1, <1>2 DEF Store!Write
<1>5. first \in Nat /\ first >= 1 /\ first = IF v2[p][t] = 0 THEN Len(v1[t]) + 1 ELSE v2[p][t]
  <2>1. v2[p][t] \in Nat
    BY <1>3
  <2> QED  BY <1>1, <1>3, <2>1 DEF Store!FreshId
<1>6. /\ w \in Seq(Store!Line) /\ Len(w) = Len(new) /\ DOMAIN w = DOMAIN new
      /\ \A i \in DOMAIN new : w[i].id = first + i - 1 /\ w[i].kind = new[i].kind
      /\ Store!Messages(w) = Store!Messages(new)
  BY <1>2, <1>5, StampedLines
<1>7. PICK r : r = v1[t] \o w
  OBVIOUS
<1>8. /\ v1'[t] = r /\ \A u \in Store!Tapes : u # t => v1'[u] = v1[u]
  BY <1>3, <1>4, <1>7
<1>9. /\ r \in Seq(Store!Line) /\ Len(r) = Len(v1[t]) + Len(new)
      /\ \A i \in DOMAIN v1[t] : i \in DOMAIN r /\ r[i] = v1[t][i]
      /\ \A i \in DOMAIN new : Len(v1[t]) + i \in DOMAIN r /\ r[Len(v1[t]) + i] = w[i]
      /\ \A i \in DOMAIN r : i \in DOMAIN v1[t] \/ \E j \in DOMAIN new : i = Len(v1[t]) + j
      /\ Store!Messages(r) = Store!Messages(v1[t]) \cup Store!Messages(new)
  <2>1. PICK q : q = v1[t]
    OBVIOUS
  <2>2. q \in Seq(Store!Line) /\ r = q \o w
    BY <1>3, <1>7, <2>1
  <2>3. /\ r \in Seq(Store!Line) /\ Len(r) = Len(q) + Len(w)
        /\ \A i \in DOMAIN q : i \in DOMAIN r /\ r[i] = q[i]
        /\ \A i \in DOMAIN w : Len(q) + i \in DOMAIN r /\ r[Len(q) + i] = w[i]
        /\ \A i \in DOMAIN r : i \in DOMAIN q \/ \E j \in DOMAIN w : i = Len(q) + j
        /\ Store!Messages(r) = Store!Messages(q) \cup Store!Messages(w)
    BY <1>6, <2>2, Joined, JoinedMessages
  <2> QED  BY <1>6, <2>1, <2>3
<1>10. v1' \in [Store!Tapes -> Seq(Store!Line)]
  BY <1>3, <1>4, <1>6, <1>7, <1>9
<1>11. /\ v2' \in [Store!Procs -> [Store!Tapes -> Nat]]
       /\ \A q \in Store!Procs, u \in Store!Tapes : q # p \/ u # t => v2'[q][u] = v2[q][u]
       /\ v2'[p][t] = IF new = <<>> THEN v2[p][t] ELSE first + Len(new)
  BY <1>3, <1>4, <1>5
<1>12. v1[t] # <<>> => r # <<>> /\ r[1] = v1[t][1]
  <2>1. v1[t] # <<>> => 1 \in DOMAIN v1[t]
    BY <1>3
  <2>2. 1 \in DOMAIN r => r # <<>>
    BY <1>9
  <2> QED  BY <1>9, <2>1, <2>2
<1>13. v1[t] = <<>> /\ new # <<>> => r # <<>> /\ r[1].kind = new[1].kind
  <2>1. SUFFICES ASSUME v1[t] = <<>>, new # <<>>  PROVE r # <<>> /\ r[1].kind = new[1].kind
    OBVIOUS
  <2>2. 1 \in DOMAIN new /\ Len(v1[t]) = 0 /\ Len(v1[t]) + 1 = 1
    BY <1>3, <2>1
  <2>3. 1 \in DOMAIN r /\ r[1] = w[1]
    BY <1>9, <2>2
  <2> QED  BY <1>6, <2>2, <2>3
<1>14. v1[t] = <<>> /\ new = <<>> => r = <<>>
  BY <1>3, <1>9
<1>15. ASSUME \A i \in DOMAIN v1[t] : v1[t][i].id = i, v2[p][t] \in {0, Len(v1[t]) + 1}
       PROVE  /\ \A i \in DOMAIN r : r[i].id = i
              /\ v2'[p][t] \in {0, Len(r) + 1}
  <2>1. first = Len(v1[t]) + 1
    BY <1>3, <1>5, <1>15
  <2>2. ASSUME NEW i \in DOMAIN r  PROVE r[i].id = i
    <3>1. CASE i \in DOMAIN v1[t]
      BY <1>9, <1>15, <3>1
    <3>2. CASE \E j \in DOMAIN new : i = Len(v1[t]) + j
      <4>1. PICK j \in DOMAIN new : i = Len(v1[t]) + j
        BY <3>2
      <4>2. r[i] = w[j] /\ w[j].id = first + j - 1 /\ j \in Nat
        BY <1>3, <1>6, <1>9, <4>1
      <4> QED  BY <1>3, <2>1, <4>1, <4>2
    <3> QED  BY <1>9, <3>1, <3>2
  <2>3. v2'[p][t] \in {0, Len(r) + 1}
    <3>1. CASE new = <<>>
      <4>1. Len(new) = 0 /\ Len(r) = Len(v1[t])
        BY <1>3, <1>9, <3>1
      <4> QED  BY <1>11, <1>15, <3>1, <4>1
    <3>2. CASE new # <<>>
      BY <1>3, <1>9, <1>11, <2>1, <3>2
    <3> QED  BY <3>1, <3>2
  <2> QED  BY <2>2, <2>3
<1>16. /\ v1[t] # <<>> => v1'[t] # <<>> /\ v1'[t][1] = v1[t][1]
       /\ v1[t] = <<>> /\ new # <<>> => v1'[t] # <<>> /\ v1'[t][1].kind = new[1].kind
       /\ v1[t] = <<>> /\ new = <<>> => v1'[t] = <<>>
       /\ Store!Messages(v1'[t]) = Store!Messages(v1[t]) \cup Store!Messages(new)
  BY <1>8, <1>9, <1>12, <1>13, <1>14
<1>17. (\A i \in DOMAIN v1[t] : v1[t][i].id = i) /\ v2[p][t] \in {0, Len(v1[t]) + 1}
              => /\ \A i \in DOMAIN v1'[t] : v1'[t][i].id = i
                 /\ v2'[p][t] \in {0, Len(v1'[t]) + 1}
  BY <1>8, <1>15
<1> QED  BY <1>8, <1>10, <1>11, <1>16, <1>17

(* What it keeps, and what is on record afterwards.                        *)
LEMMA WriteKeeps ==
  ASSUME Store!StoreInv, NEW p \in Store!Procs, NEW t \in Store!Tapes, NEW new \in Seq(Store!Line),
         Store!Write(p, t, new),
         v11 \subseteq v11', v12' = v12, v3' = v3,
         t \in v11' \/ \A q \in Store!Procs \ {p} : v2[q][t] = 0,
         Store!Settled(t[1]) =>
           t = <<t[1], 0>> /\ (v1[t] = <<>> => new # <<>> /\ new[1].kind = "start")
  PROVE  /\ v1' \in [Store!Tapes -> Seq(Store!Line)]
         /\ v2' \in [Store!Procs -> [Store!Tapes -> Nat]]
         /\ \A q \in Store!Procs, u \in Store!Tapes : q # p \/ u # t => v2'[q][u] = v2[q][u]
         /\ Store!IdInv'
         /\ \A u \in Store!Tapes : Store!Exists(u) => v1'[u] # <<>>
         /\ Store!Settled(t[1]) => v1'[t] # <<>>
         /\ \A s \in Sessions : Store!Settled(s)' =>
              \A u \in Store!Tapes : u[1] = s /\ v1'[u] # <<>>
                => u = <<s, 0>> /\ v1'[u][1].kind = "start"
         /\ \A s \in Sessions : \A m :
              m \in Store!OnRecord(s)'
                <=> m \in Store!OnRecord(s) \/ (t[1] = s /\ m \in Store!Messages(new))
<1>1. Store!Types /\ Store!ProcInv /\ Store!IdInv /\ Store!SettledInv
  BY DEF Store!StoreInv
<1>2. /\ v1' \in [Store!Tapes -> Seq(Store!Line)] /\ v2' \in [Store!Procs -> [Store!Tapes -> Nat]]
      /\ \A u \in Store!Tapes : u # t => v1'[u] = v1[u]
      /\ \A q \in Store!Procs, u \in Store!Tapes : q # p \/ u # t => v2'[q][u] = v2[q][u]
      /\ Store!Messages(v1'[t]) = Store!Messages(v1[t]) \cup Store!Messages(new)
      /\ v1[t] # <<>> => v1'[t] # <<>> /\ v1'[t][1] = v1[t][1]
      /\ v1[t] = <<>> /\ new # <<>> => v1'[t] # <<>> /\ v1'[t][1].kind = new[1].kind
      /\ (\A i \in DOMAIN v1[t] : v1[t][i].id = i) /\ v2[p][t] \in {0, Len(v1[t]) + 1}
              => /\ \A i \in DOMAIN v1'[t] : v1'[t][i].id = i
                 /\ v2'[p][t] \in {0, Len(v1'[t]) + 1}
  BY <1>1, Wrote
<1>3. Store!IdInv'
  <2>1. ASSUME NEW u \in Store!Tapes, u \notin v11'
        PROVE  /\ \A i \in DOMAIN v1'[u] : v1'[u][i].id = i
               /\ \A q \in Store!Procs : v2'[q][u] \in {0, Len(v1'[u]) + 1}
    <3>1. u \notin v11
      BY <2>1
    <3>2. /\ \A i \in DOMAIN v1[u] : v1[u][i].id = i
          /\ \A q \in Store!Procs : v2[q][u] \in {0, Len(v1[u]) + 1}
      BY <1>1, <3>1 DEF Store!IdInv
    <3>3. CASE u # t
      BY <1>2, <3>2, <3>3
    <3>4. CASE u = t
      <4>1. \A q \in Store!Procs : q # p => v2'[q][u] = 0
        BY <1>2, <2>1, <3>4
      <4> QED  BY <1>2, <3>2, <3>4, <4>1
    <3> QED  BY <3>3, <3>4
  <2> QED  BY <2>1 DEF Store!IdInv, Store!Tapes, Store!Ids, Store!Levels, Store!Procs
<1>4. \A u \in Store!Tapes : Store!Exists(u) => v1'[u] # <<>>
  BY <1>2 DEF Store!Exists
<1>5. Store!Settled(t[1]) => v1'[t] # <<>>
  BY <1>2
<1>6. ASSUME NEW s \in Sessions, Store!Settled(s)', NEW u \in Store!Tapes, u[1] = s, v1'[u] # <<>>
      PROVE  u = <<s, 0>> /\ v1'[u][1].kind = "start"
  <2>1. Store!Settled(s)
    BY <1>6 DEF Store!Settled, Store!OneWriter
  <2>2. v1[u] # <<>> => u = <<s, 0>> /\ v1[u][1].kind = "start"
    BY <1>1, <1>6, <2>1 DEF Store!SettledInv, Store!Exists
  <2>3. CASE u # t
    BY <1>2, <1>6, <2>2, <2>3
  <2>4. CASE u = t
    BY <1>2, <1>6, <2>1, <2>2, <2>4
  <2> QED  BY <2>3, <2>4
<1>7. ASSUME NEW s \in Sessions, NEW m
      PROVE  m \in Store!OnRecord(s)'
               <=> m \in Store!OnRecord(s) \/ (t[1] = s /\ m \in Store!Messages(new))
  <2>1. m \in Store!OnRecord(s)' <=>
           \/ \E u \in Store!Tapes : u[1] = s /\ m \in Store!Messages(v1'[u])
           \/ \E a \in v3 : a.tape[1] = s /\ m \in Store!Messages(a.lines)
    BY RecordIsNext
  <2>2. m \in Store!OnRecord(s) <=>
           \/ \E u \in Store!Tapes : u[1] = s /\ m \in Store!Messages(v1[u])
           \/ \E a \in v3 : a.tape[1] = s /\ m \in Store!Messages(a.lines)
    BY RecordIs
  <2>3. (\E u \in Store!Tapes : u[1] = s /\ m \in Store!Messages(v1'[u])) <=>
          (\E u \in Store!Tapes : u[1] = s /\ m \in Store!Messages(v1[u]))
            \/ (t[1] = s /\ m \in Store!Messages(new))
    <3>1. \A u \in Store!Tapes : m \in Store!Messages(v1'[u])
            <=> m \in Store!Messages(v1[u]) \/ (u = t /\ m \in Store!Messages(new))
      BY <1>2
    <3> QED  BY <3>1
  <2> QED  BY <2>1, <2>2, <2>3
<1> QED  BY <1>2, <1>3, <1>4, <1>5, <1>6, <1>7

(* The inductive invariant of SessionStore holds at first.                 *)
LEMMA StoreInit == Store!Init => Store!StoreInv
<1>1. SUFFICES ASSUME Store!Init  PROVE Store!StoreInv
  OBVIOUS
<1>2. <<>> \in Seq(Store!Line) /\ Len(<<>>) = 0 /\ DOMAIN <<>> = {}
        /\ Store!NoIds \in [Store!Tapes -> Nat]
  BY DEF Store!NoIds
<1>3. Store!Types
  BY <1>1, <1>2 DEF Store!Init, Store!Types, Store!Ids, Store!Levels
<1>4. Store!ProcInv
  BY <1>1, StoreParameters DEF Store!Init, Store!ProcInv, Store!NoIds, Store!Procs,
     Store!NoCommand, Store!Parameters
<1>5. Store!IdInv
  BY <1>1, <1>2 DEF Store!Init, Store!IdInv, Store!NoIds
<1>6. Store!SettledInv
  BY <1>1 DEF Store!Init, Store!SettledInv, Store!Exists
<1>7. Store!NothingLost
  <2>1. ASSUME NEW s \in Sessions  PROVE Store!OnRecord(s) = 1..v10[s]
    <3>1. ASSUME NEW m  PROVE m \notin Store!OnRecord(s)
      BY <1>1, <1>2, RecordIs DEF Store!Init, Store!Messages
    <3>2. 1..v10[s] = {}
      BY <1>1 DEF Store!Init
    <3> QED  BY <3>1, <3>2
  <2> QED  BY <2>1 DEF Store!NothingLost
<1> QED  BY <1>3, <1>4, <1>5, <1>6, <1>7 DEF Store!StoreInv

(* A tape no command has marked is the server's while it runs,             *)
LEMMA ServerOwns ==
  ASSUME Store!StoreInv, v4
  PROVE  /\ v7.tape \in v11 \/ v7 = Store!NoCommand
         /\ \A t \in Store!Tapes : t \in v11 \/ \A q \in Store!Procs \ {"serve"} : v2[q][t] = 0
<1>1. Store!Types /\ Store!ProcInv
  BY DEF Store!StoreInv
<1>2. v7.tape \in v11 \/ v7 = Store!NoCommand
  BY <1>1, StoreParameters DEF Store!ProcInv, Store!Types, Store!Command, Store!Parameters
<1>3. ASSUME NEW t \in Store!Tapes, t \notin v11, NEW q \in Store!Procs \ {"serve"}
      PROVE v2[q][t] = 0
  <2>1. q = "cli" /\ v2[q][t] # 0 => v7.tape = t
    BY <1>1, <1>3 DEF Store!ProcInv, Store!Procs
  <2>2. v7.tape # t
    BY <1>1, <1>3, StoreParameters DEF Store!ProcInv, Store!Parameters
  <2> QED  BY <1>3, <2>1, <2>2 DEF Store!Procs
<1> QED  BY <1>2, <1>3

(* and its steps change nothing for a command.                             *)
LEMMA ServerRuns ==
  ASSUME Store!StoreInv, v4, UNCHANGED <<v4, v7, v11>>,
         \A t \in Store!Tapes : v2'["cli"][t] \in {0, v2["cli"][t]}
  PROVE  Store!ProcInv'
<1>1. Store!ProcInv /\ (v7.tape \in v11 \/ v7 = Store!NoCommand)
  BY ServerOwns DEF Store!StoreInv
<1>2. v7.tape \notin v11 => v7.at = "idle"
  BY <1>1 DEF Store!NoCommand
<1>3. Store!Tapes' = Store!Tapes
  BY DEF Store!Tapes, Store!Ids, Store!Levels
<1> QED  BY <1>1, <1>2, <1>3 DEF Store!ProcInv

(* A page opened.                                                          *)
LEMMA StoreConnect ==
  ASSUME Store!StoreInv, NEW x \in Store!Ids, Store!Connect(x)
  PROVE  Store!StoreInv'
<1>1. /\ v4 /\ v5' = v5 \cup {x} /\ (Store!Fresh(x) \/ Store!Rows(x) # {})
      /\ UNCHANGED <<v1, v2, v3, v4, v6, v7, v10, v11, v12>>
  BY DEF Store!Connect, Store!historyVars
<1>2. Store!Types /\ Store!ProcInv /\ Store!IdInv /\ Store!SettledInv /\ Store!NothingLost
  BY DEF Store!StoreInv
<1>3. Store!Types'
  BY <1>1, <1>2 DEF Store!Types
<1>4. Store!ProcInv'
  BY <1>1, ServerRuns
<1>5. Store!IdInv' /\ Store!NothingLost'
  BY <1>1, <1>2 DEF Store!IdInv, Store!NothingLost, Store!OnRecord, Store!OneWriter
<1>6. Store!SettledInv'
  <2>1. ASSUME NEW s \in Sessions, Store!Settled(s), x[1] = s
        PROVE  x[2] = 0 \/ (x[2] = 1 /\ Store!Exists(<<s, 0>>))
    BY <1>1, <1>2, <2>1, Settles DEF Store!Fresh
  <2> QED  BY <1>1, <1>2, <2>1 DEF Store!SettledInv, Store!Settled, Store!OneWriter, Store!Exists
<1> QED  BY <1>3, <1>4, <1>5, <1>6 DEF Store!StoreInv

(* An event persisted.                                                     *)
LEMMA StorePersist ==
  ASSUME Store!StoreInv, NEW x \in Store!Ids, Store!Persist(x)
  PROVE  Store!StoreInv'
<1>1. PICK t : t = IF v6[x] = None THEN Store!Resolve(x) ELSE v6[x]
  OBVIOUS
<1>2. PICK opening : opening = IF v6[x] = None THEN Store!Seed(t) ELSE <<>>
  OBVIOUS
<1>3. PICK e : e = Store!Entry("message", v10[x[1]] + 1)
  OBVIOUS
<1>4. PICK new : new = Append(opening, e)
  OBVIOUS
<1>5. /\ v4 /\ x \in v5 /\ v10' = [v10 EXCEPT ![x[1]] = @ + 1]
      /\ v6' = [v6 EXCEPT ![x] = t] /\ Store!Write("serve", t, new)
      /\ UNCHANGED <<v3, v4, v5, v7, v11, v12>>
  BY <1>1, <1>2, <1>3, <1>4 DEF Store!Persist
<1>6. Store!Types /\ Store!ProcInv /\ Store!IdInv /\ Store!SettledInv /\ Store!NothingLost
  BY DEF Store!StoreInv
<1>7. x[1] \in Sessions /\ v10[x[1]] \in Nat /\ v10 \in [Sessions -> Nat]
  BY <1>6 DEF Store!Types, Store!Ids
<1>8. t \in Store!Tapes /\ t[1] = x[1]
  BY <1>1, <1>6, Resolved DEF Store!Types
<1>9. e \in Store!Line /\ e.kind = "message" /\ e.val = v10[x[1]] + 1
  BY <1>3, <1>7 DEF Store!Entry, Store!Line
<1>10. /\ opening \in Seq(Store!Line) /\ Store!Messages(opening) = {}
       /\ v6[x] = None /\ v1[t] = <<>> => opening # <<>> /\ opening[1] = Store!Start
  <2>1. <<>> \in Seq(Store!Line) /\ Store!Messages(<<>>) = {}
    <3>1. DOMAIN <<>> = {}
      OBVIOUS
    <3> QED  BY <3>1 DEF Store!Messages
  <2>2. <<Store!Start>> # <<>> /\ <<Store!Start>>[1] = Store!Start
    OBVIOUS
  <2> QED  BY <1>2, <2>1, <2>2, Opening
<1>12. Store!Start.kind = "start"
  BY DEF Store!Start, Store!Entry
<1>13. new \in Seq(Store!Line) /\ new # <<>> /\ Store!Messages(new) = {v10[x[1]] + 1}
  BY <1>4, <1>9, <1>10, OpeningAnd
<1>14. Store!Settled(x[1]) => t = <<x[1], 0>> /\ (v1[t] = <<>> => new[1].kind = "start")
  <2>1. SUFFICES ASSUME Store!Settled(x[1])
                 PROVE  t = <<x[1], 0>> /\ (v1[t] = <<>> => new[1].kind = "start")
    OBVIOUS
  <2>2. CASE v6[x] = None
    <3>1. t = <<x[1], 0>>
      BY <1>1, <1>5, <1>6, <2>1, <2>2, Settles
    <3>2. v1[t] = <<>> => new[1] = Store!Start
      BY <1>4, <1>9, <1>10, <2>2, OpeningAnd
    <3> QED  BY <1>12, <3>1, <3>2
  <2>3. CASE v6[x] # None
    <3>1. t = <<x[1], 0>> /\ v1[t] # <<>>
      BY <1>1, <1>6, <1>7, <2>1, <2>3 DEF Store!SettledInv, Store!Exists
    <3> QED  BY <3>1
  <2> QED  BY <2>2, <2>3
<1>15. "serve" \in Store!Procs
  BY DEF Store!Procs
<1>16. t \in v11' \/ \A q \in Store!Procs \ {"serve"} : v2[q][t] = 0
  BY <1>5, <1>8, ServerOwns
<1>17. /\ v1' \in [Store!Tapes -> Seq(Store!Line)] /\ v2' \in [Store!Procs -> [Store!Tapes -> Nat]]
       /\ \A q \in Store!Procs, u \in Store!Tapes : q # "serve" \/ u # t => v2'[q][u] = v2[q][u]
       /\ Store!IdInv'
       /\ \A u \in Store!Tapes : Store!Exists(u) => v1'[u] # <<>>
       /\ Store!Settled(t[1]) => v1'[t] # <<>>
       /\ \A s \in Sessions : Store!Settled(s)' =>
            \A u \in Store!Tapes : u[1] = s /\ v1'[u] # <<>>
              => u = <<s, 0>> /\ v1'[u][1].kind = "start"
       /\ \A s \in Sessions : \A m :
            m \in Store!OnRecord(s)'
              <=> m \in Store!OnRecord(s) \/ (t[1] = s /\ m \in Store!Messages(new))
  BY <1>5, <1>8, <1>13, <1>14, <1>15, <1>16, WriteKeeps
<1>18. Store!Types'
  BY <1>5, <1>6, <1>7, <1>8, <1>17 DEF Store!Types, Store!Ids
<1>19. Store!ProcInv'
  <2>1. \A u \in Store!Tapes : v2'["cli"][u] = v2["cli"][u]
    BY <1>17 DEF Store!Procs
  <2> QED  BY <1>5, <2>1, ServerRuns
<1>20. Store!SettledInv'
  <2>1. ASSUME NEW s \in Sessions, Store!Settled(s)'
        PROVE  /\ \A u \in Store!Tapes : u[1] = s /\ Store!Exists(u)'
                    => u = <<s, 0>> /\ v1'[u][1].kind = "start"
               /\ \A y \in v5' : y[1] = s => y[2] = 0 \/ (y[2] = 1 /\ Store!Exists(<<s, 0>>)')
               /\ \A y \in Store!Ids : y[1] = s /\ v6'[y] # None
                    => v6'[y] = <<s, 0>> /\ Store!Exists(<<s, 0>>)'
               /\ v7' # Store!NoCommand /\ v7'.tape[1] = s => v7'.tape = <<s, 0>>
    <3>1. Store!Settled(s) /\ <<s, 0>> \in Store!Tapes
      BY <1>5, <2>1 DEF Store!Settled, Store!OneWriter, Store!Tapes, Store!Ids, Store!Levels
    <3>2. Store!Exists(<<s, 0>>) => v1'[<<s, 0>>] # <<>>
      BY <1>17, <3>1
    <3>3. ASSUME NEW y \in v5', y[1] = s  PROVE y[2] = 0 \/ (y[2] = 1 /\ Store!Exists(<<s, 0>>)')
      BY <1>5, <1>6, <3>1, <3>2, <3>3 DEF Store!SettledInv, Store!Exists
    <3>4. ASSUME NEW y \in Store!Ids, y[1] = s, v6'[y] # None
          PROVE  v6'[y] = <<s, 0>> /\ Store!Exists(<<s, 0>>)'
      <4>1. CASE y = x
        <5>1. v6'[y] = t /\ t = <<s, 0>> /\ v1'[t] # <<>>
          BY <1>5, <1>6, <1>8, <1>14, <1>17, <3>1, <3>4, <4>1 DEF Store!Types
        <5> QED  BY <5>1 DEF Store!Exists
      <4>2. CASE y # x
        <5>1. v6'[y] = v6[y]
          BY <1>5, <1>6, <3>4, <4>2 DEF Store!Types
        <5> QED  BY <1>6, <3>1, <3>2, <3>4, <5>1 DEF Store!SettledInv, Store!Exists
      <4> QED  BY <4>1, <4>2
    <3>5. v7 # Store!NoCommand /\ v7.tape[1] = s => v7.tape = <<s, 0>>
      BY <1>6, <3>1 DEF Store!SettledInv
    <3> QED  BY <1>5, <1>17, <2>1, <3>3, <3>4, <3>5 DEF Store!Exists
  <2> QED  BY <2>1 DEF Store!SettledInv, Store!Tapes, Store!Ids, Store!Levels, Store!NoCommand
<1>21. Store!NothingLost'
  <2>1. ASSUME NEW s \in Sessions, Store!OneWriter(s)'
        PROVE  1..v10'[s] = Store!OnRecord(s)'
    <3>1. Store!OneWriter(s) /\ 1..v10[s] = Store!OnRecord(s)
      BY <1>5, <1>6, <2>1 DEF Store!OneWriter, Store!NothingLost
    <3>2. CASE s = x[1]
      <4>1. v10'[s] = v10[s] + 1 /\ v10[s] \in Nat
        BY <1>5, <1>7, <3>2
      <4>2. 1..v10'[s] = 1..v10[s] \cup {v10[s] + 1}
        BY <4>1
      <4>3. \A m : m \in Store!OnRecord(s)' <=> m \in Store!OnRecord(s) \/ m = v10[s] + 1
        BY <1>8, <1>13, <1>17, <3>2
      <4> QED  BY <3>1, <4>2, <4>3
    <3>3. CASE s # x[1]
      <4>1. v10'[s] = v10[s]
        BY <1>5, <1>7, <3>3
      <4>2. \A m : m \in Store!OnRecord(s)' <=> m \in Store!OnRecord(s)
        BY <1>8, <1>17, <3>3
      <4> QED  BY <3>1, <4>1, <4>2
    <3> QED  BY <3>2, <3>3
  <2> QED  BY <2>1 DEF Store!NothingLost
<1> QED  BY <1>17, <1>18, <1>19, <1>20, <1>21 DEF Store!StoreInv

(* A session opened to be read, or renamed: nothing is said by it.         *)
LEMMA StoreSilent ==
  ASSUME Store!StoreInv, NEW t \in Store!Tapes, NEW new \in Seq(Store!Line),
         Store!Write("serve", t, new), v4,
         Store!Messages(new) = {},
         Store!Settled(t[1]) =>
           t = <<t[1], 0>> /\ (v1[t] = <<>> => new # <<>> /\ new[1].kind = "start"),
         UNCHANGED <<v3, v4, v5, v6, v7, v10, v11, v12>>
  PROVE  Store!StoreInv'
<1>1. Store!Types /\ Store!ProcInv /\ Store!IdInv /\ Store!SettledInv /\ Store!NothingLost
  BY DEF Store!StoreInv
<1>2. "serve" \in Store!Procs
  BY DEF Store!Procs
<1>3. t \in v11' \/ \A q \in Store!Procs \ {"serve"} : v2[q][t] = 0
  BY ServerOwns
<1>4. /\ v1' \in [Store!Tapes -> Seq(Store!Line)] /\ v2' \in [Store!Procs -> [Store!Tapes -> Nat]]
      /\ \A q \in Store!Procs, u \in Store!Tapes : q # "serve" \/ u # t => v2'[q][u] = v2[q][u]
      /\ Store!IdInv'
      /\ \A u \in Store!Tapes : Store!Exists(u) => v1'[u] # <<>>
      /\ \A s \in Sessions : Store!Settled(s)' =>
           \A u \in Store!Tapes : u[1] = s /\ v1'[u] # <<>>
             => u = <<s, 0>> /\ v1'[u][1].kind = "start"
      /\ \A s \in Sessions : \A m : m \in Store!OnRecord(s)' <=> m \in Store!OnRecord(s)
  BY <1>2, <1>3, WriteKeeps
<1>5. Store!Types'
  BY <1>1, <1>4 DEF Store!Types
<1>6. Store!ProcInv'
  <2>1. \A u \in Store!Tapes : v2'["cli"][u] = v2["cli"][u]
    BY <1>4 DEF Store!Procs
  <2> QED  BY <2>1, ServerRuns
<1>7. Store!SettledInv'
  <2>1. ASSUME NEW s \in Sessions, Store!Settled(s)'
        PROVE  /\ \A u \in Store!Tapes : u[1] = s /\ Store!Exists(u)'
                    => u = <<s, 0>> /\ v1'[u][1].kind = "start"
               /\ \A y \in v5' : y[1] = s => y[2] = 0 \/ (y[2] = 1 /\ Store!Exists(<<s, 0>>)')
               /\ \A y \in Store!Ids : y[1] = s /\ v6'[y] # None
                    => v6'[y] = <<s, 0>> /\ Store!Exists(<<s, 0>>)'
               /\ v7' # Store!NoCommand /\ v7'.tape[1] = s => v7'.tape = <<s, 0>>
    <3>1. Store!Settled(s) /\ <<s, 0>> \in Store!Tapes
      BY <2>1 DEF Store!Settled, Store!OneWriter, Store!Tapes, Store!Ids, Store!Levels
    <3>2. Store!Exists(<<s, 0>>) => Store!Exists(<<s, 0>>)'
      BY <1>4, <3>1 DEF Store!Exists
    <3> QED  BY <1>1, <1>4, <2>1, <3>1, <3>2 DEF Store!SettledInv, Store!Exists
  <2> QED  BY <2>1 DEF Store!SettledInv, Store!Tapes, Store!Ids, Store!Levels, Store!NoCommand
<1>8. Store!NothingLost'
  <2>1. ASSUME NEW s \in Sessions, Store!OneWriter(s)'
        PROVE  1..v10'[s] = Store!OnRecord(s)'
    BY <1>1, <1>4, <2>1 DEF Store!OneWriter, Store!NothingLost
  <2> QED  BY <2>1 DEF Store!NothingLost
<1> QED  BY <1>4, <1>5, <1>6, <1>7, <1>8 DEF Store!StoreInv

(* A session opened to be read,                                            *)
LEMMA StoreOpenToRead ==
  ASSUME Store!StoreInv, NEW x \in Store!Ids, Store!OpenToRead(x)
  PROVE  Store!StoreInv'
<1>1. PICK t : t = Store!Resolve(x)
  OBVIOUS
<1>2. /\ v4 /\ Store!Seed(t) # <<>> /\ (x \in v5 \/ Store!Rows(x) # {})
      /\ Store!Write("serve", t, Store!Seed(t))
      /\ UNCHANGED <<v3, v4, v5, v6, v7, v10, v11, v12>>
  BY <1>1 DEF Store!OpenToRead, Store!serverVars, Store!historyVars
<1>3. t \in Store!Tapes /\ t[1] = x[1] /\ Store!Types /\ Store!SettledInv
  BY <1>1, Resolved DEF Store!StoreInv
<1>4. Store!Seed(t) = <<Store!Start>> /\ Store!Seed(t) \in Seq(Store!Line)
        /\ Store!Messages(Store!Seed(t)) = {} /\ Store!Start.kind = "start"
  BY <1>2, Opening DEF Store!Start, Store!Entry
<1>5. Store!Settled(t[1]) => t = <<t[1], 0>>
  BY <1>1, <1>2, <1>3, Settles
<1>6. Store!Seed(t)[1].kind = "start"
  BY <1>4
<1> QED  BY <1>2, <1>3, <1>4, <1>5, <1>6, StoreSilent

(* and one renamed.                                                        *)
LEMMA StoreRename ==
  ASSUME Store!StoreInv, NEW x \in Store!Ids, Store!Rename(x)
  PROVE  Store!StoreInv'
<1>1. PICK t : t = Store!Resolve(x)
  OBVIOUS
<1>2. PICK e : e = Store!Entry("name", 0)
  OBVIOUS
<1>3. PICK new : new = Append(Store!Seed(t), e)
  OBVIOUS
<1>4. /\ v4 /\ Store!Rows(x) # {} /\ Store!Write("serve", t, new)
      /\ UNCHANGED <<v3, v4, v5, v6, v7, v10, v11, v12>>
  BY <1>1, <1>2, <1>3 DEF Store!Rename, Store!serverVars, Store!historyVars
<1>5. t \in Store!Tapes /\ t[1] = x[1] /\ Store!Types /\ Store!SettledInv
  BY <1>1, Resolved DEF Store!StoreInv
<1>6. Store!Settled(t[1]) => t = <<t[1], 0>> /\ v1[t] # <<>>
  BY <1>1, <1>4, <1>5, Settles DEF Store!Exists
<1>7. e \in Store!Line /\ e.kind = "name" /\ Store!Start \in Store!Line
        /\ Store!Start.kind = "start"
  BY <1>2 DEF Store!Entry, Store!Line, Store!Start
<1>9. new \in Seq(Store!Line) /\ Store!Messages(new) = {}
  BY <1>3, <1>7, Opening, OpeningAnd
<1> QED  BY <1>4, <1>5, <1>6, <1>9, StoreSilent

(* An archived line stays on record.                                       *)
LEMMA ArchiveKeeps ==
  ASSUME Store!Types, NEW t \in Store!Tapes, v3' = Store!Archived(t),
         \A u \in Store!Tapes : u # t => v1'[u] = v1[u],
         v1'[t] = v1[t] \/ v1'[t] = <<>>
  PROVE  /\ v3' \in SUBSET Store!Dump
         /\ \A s \in Sessions : Store!OnRecord(s)' = Store!OnRecord(s)
<1>1. PICK d : d = [tape |-> t, lines |-> v1[t]]
  OBVIOUS
<1>2. v3' = v3 \cup {d} /\ d \in Store!Dump /\ d.tape = t /\ d.lines = v1[t]
  BY <1>1 DEF Store!Archived, Store!Types, Store!Dump
<1>3. Store!Messages(<<>>) = {}
  <2>1. DOMAIN <<>> = {}
    OBVIOUS
  <2> QED  BY <2>1 DEF Store!Messages
<1>4. ASSUME NEW s \in Sessions, NEW m  PROVE m \in Store!OnRecord(s)' <=> m \in Store!OnRecord(s)
  <2>1. m \in Store!OnRecord(s)' <=>
           \/ \E u \in Store!Tapes : u[1] = s /\ m \in Store!Messages(v1'[u])
           \/ \E a \in v3' : a.tape[1] = s /\ m \in Store!Messages(a.lines)
    BY RecordIsNext
  <2>2. m \in Store!OnRecord(s) <=>
           \/ \E u \in Store!Tapes : u[1] = s /\ m \in Store!Messages(v1[u])
           \/ \E a \in v3 : a.tape[1] = s /\ m \in Store!Messages(a.lines)
    BY RecordIs
  <2>3. \A u \in Store!Tapes : u # t => Store!Messages(v1'[u]) = Store!Messages(v1[u])
    OBVIOUS
  <2>4. m \in Store!Messages(v1'[t]) => m \in Store!Messages(v1[t])
    BY <1>3
  <2>5. (\E a \in v3' : a.tape[1] = s /\ m \in Store!Messages(a.lines)) <=>
          (\E a \in v3 : a.tape[1] = s /\ m \in Store!Messages(a.lines))
            \/ (t[1] = s /\ m \in Store!Messages(v1[t]))
    BY <1>2
  <2> QED  BY <2>1, <2>2, <2>3, <2>4, <2>5
<1>5. \A s \in Sessions : Store!OnRecord(s)' = Store!OnRecord(s)
  BY <1>4
<1> QED  BY <1>2, <1>5 DEF Store!Types

(* A process that forgets its ids is not wrong about them.                 *)
LEMMA IdsForgotten ==
  ASSUME Store!IdInv, v11 \subseteq v11', UNCHANGED v1,
         \A p \in Store!Procs, u \in Store!Tapes : v2'[p][u] \in {0, v2[p][u]}
  PROVE  Store!IdInv'
<1>1. ASSUME NEW u \in Store!Tapes, u \notin v11'
      PROVE  /\ \A i \in DOMAIN v1'[u] : v1'[u][i].id = i
             /\ \A p \in Store!Procs : v2'[p][u] \in {0, Len(v1'[u]) + 1}
  <2>1. v1' = v1
    OBVIOUS
  <2>2. /\ \A i \in DOMAIN v1[u] : v1[u][i].id = i
        /\ \A p \in Store!Procs : v2[p][u] \in {0, Len(v1[u]) + 1}
    BY <1>1 DEF Store!IdInv
  <2> QED  BY <2>1, <2>2
<1> QED  BY <1>1 DEF Store!IdInv, Store!Tapes, Store!Ids, Store!Levels, Store!Procs

(* A server that is gone.                                                  *)
LEMMA ServerGone ==
  ASSUME Store!StoreInv, v4, Store!Down, UNCHANGED <<v7, v11>>
  PROVE  /\ Store!ProcInv' /\ v4' = FALSE /\ v5' = {}
         /\ v2' \in [Store!Procs -> [Store!Tapes -> Nat]]
         /\ v6' \in [Store!Ids -> Store!Tapes \cup {None}] /\ \A x \in Store!Ids : v6'[x] = None
         /\ \A p \in Store!Procs, u \in Store!Tapes : v2'[p][u] \in {0, v2[p][u]}
<1>1. /\ v4' = FALSE /\ v5' = {} /\ v6' = [x \in Store!Ids |-> None]
      /\ v2' = [v2 EXCEPT !["serve"] = Store!NoIds]
  BY DEF Store!Down
<1>2. Store!Types /\ Store!ProcInv /\ (v7.tape \in v11 \/ v7 = Store!NoCommand)
  BY ServerOwns DEF Store!StoreInv
<1>3. Store!NoIds \in [Store!Tapes -> Nat] /\ \A u \in Store!Tapes : Store!NoIds[u] = 0
  BY DEF Store!NoIds
<1>4. /\ v2' \in [Store!Procs -> [Store!Tapes -> Nat]] /\ v2'["serve"] = Store!NoIds
      /\ v2'["cli"] = v2["cli"]
      /\ \A p \in Store!Procs, u \in Store!Tapes : v2'[p][u] \in {0, v2[p][u]}
  BY <1>1, <1>2, <1>3 DEF Store!Types, Store!Procs
<1>5. v7.tape \notin v11 => v7.at = "idle"
  BY <1>2 DEF Store!NoCommand
<1>6. Store!Tapes' = Store!Tapes /\ Store!NoIds' = Store!NoIds
  BY DEF Store!Tapes, Store!Ids, Store!Levels, Store!NoIds
<1>7. Store!ProcInv'
  BY <1>1, <1>2, <1>4, <1>5, <1>6 DEF Store!ProcInv
<1> QED  BY <1>1, <1>4, <1>7

(* A session archived, if only to the dump.                                *)
LEMMA StoreArchive ==
  ASSUME Store!StoreInv, NEW x \in Store!Ids, Store!Archive(x)
  PROVE  Store!StoreInv'
<1>1. PICK t : t = Store!Resolve(x)
  OBVIOUS
<1>2. PICK gone : gone = {y[1] : y \in {z \in v5 : z[1] = x[1]}}
  OBVIOUS
<1>3. /\ v4 /\ x[2] > 0 /\ Store!Exists(t) /\ v3' = Store!Archived(t) /\ v12' = v12 \cup gone
      /\ \/ /\ v1' = [v1 EXCEPT ![t] = <<>>]
            /\ v2' = [v2 EXCEPT !["serve"][t] = 0]
            /\ UNCHANGED <<v4, v5, v6>>
         \/ Store!Down /\ UNCHANGED v1
      /\ UNCHANGED <<v7, v10, v11>>
  BY <1>1, <1>2 DEF Store!Archive, Store!serverVars
<1>4. Store!Types /\ Store!ProcInv /\ Store!IdInv /\ Store!SettledInv /\ Store!NothingLost
  BY DEF Store!StoreInv
<1>5. t \in Store!Tapes /\ t[1] = x[1] /\ x[1] \in Sessions
  BY <1>1, Resolved DEF Store!Ids
<1>6. /\ gone \subseteq Sessions /\ \A y \in v5 : y[1] = x[1] => x[1] \in gone
  BY <1>2, <1>5
<1>7. \A u \in Store!Tapes : u \in v11 \/ \A q \in Store!Procs \ {"serve"} : v2[q][u] = 0
  BY <1>3, ServerOwns
<1>8. <<>> \in Seq(Store!Line) /\ DOMAIN <<>> = {}
  OBVIOUS
<1>9. /\ v1' \in [Store!Tapes -> Seq(Store!Line)] /\ \A u \in Store!Tapes : u # t => v1'[u] = v1[u]
      /\ v1'[t] = v1[t] \/ v1'[t] = <<>>
  BY <1>3, <1>4, <1>5, <1>8 DEF Store!Types
<1>10. v3' \in SUBSET Store!Dump /\ \A s \in Sessions : Store!OnRecord(s)' = Store!OnRecord(s)
  <2>1. /\ Store!Types /\ v3' = Store!Archived(t)
        /\ \A u \in Store!Tapes : u # t => v1'[u] = v1[u]
        /\ v1'[t] = v1[t] \/ v1'[t] = <<>>
    BY <1>3, <1>4, <1>9
  <2> QED  BY <1>5, <2>1, ArchiveKeeps
<1>11. Store!NothingLost'
  <2>1. ASSUME NEW s \in Sessions, Store!OneWriter(s)'
        PROVE  1..v10'[s] = Store!OnRecord(s)'
    BY <1>3, <1>4, <1>10, <2>1 DEF Store!OneWriter, Store!NothingLost
  <2> QED  BY <2>1 DEF Store!NothingLost
<1>12. CASE /\ v1' = [v1 EXCEPT ![t] = <<>>]
            /\ v2' = [v2 EXCEPT !["serve"][t] = 0]
            /\ UNCHANGED <<v4, v5, v6>>
  <2>1. /\ v2' \in [Store!Procs -> [Store!Tapes -> Nat]] /\ v2'["serve"][t] = 0
        /\ \A q \in Store!Procs, u \in Store!Tapes : q # "serve" \/ u # t => v2'[q][u] = v2[q][u]
    BY <1>4, <1>5, <1>12 DEF Store!Types, Store!Procs
  <2>2. Store!Types'
    BY <1>3, <1>4, <1>6, <1>9, <1>10, <1>12, <2>1 DEF Store!Types
  <2>3. Store!ProcInv'
    <3>1. \A u \in Store!Tapes : v2'["cli"][u] = v2["cli"][u]
      BY <2>1 DEF Store!Procs
    <3> QED  BY <1>3, <1>12, <3>1, ServerRuns
  <2>4. Store!IdInv'
    <3>1. ASSUME NEW u \in Store!Tapes, u \notin v11
          PROVE  /\ \A i \in DOMAIN v1'[u] : v1'[u][i].id = i
                 /\ \A q \in Store!Procs : v2'[q][u] \in {0, Len(v1'[u]) + 1}
      <4>1. CASE u = t
        <5>1. v1'[u] = <<>>
          BY <1>4, <1>12, <4>1 DEF Store!Types
        <5>2. \A q \in Store!Procs : v2'[q][u] = 0
          BY <1>7, <2>1, <3>1, <4>1
        <5> QED  BY <1>8, <5>1, <5>2
      <4>2. CASE u # t
        BY <1>4, <1>9, <2>1, <3>1, <4>2 DEF Store!IdInv
      <4> QED  BY <4>1, <4>2
    <3> QED  BY <1>3, <3>1 DEF Store!IdInv, Store!Tapes, Store!Ids, Store!Levels, Store!Procs
  <2>5. Store!SettledInv'
    <3>1. ASSUME NEW s \in Sessions, Store!Settled(s)'
          PROVE  /\ \A u \in Store!Tapes : u[1] = s /\ Store!Exists(u)'
                      => u = <<s, 0>> /\ v1'[u][1].kind = "start"
                 /\ \A y \in v5' : y[1] = s => y[2] = 0 \/ (y[2] = 1 /\ Store!Exists(<<s, 0>>)')
                 /\ \A y \in Store!Ids : y[1] = s /\ v6'[y] # None
                      => v6'[y] = <<s, 0>> /\ Store!Exists(<<s, 0>>)'
                 /\ v7' # Store!NoCommand /\ v7'.tape[1] = s => v7'.tape = <<s, 0>>
      <4>1. Store!Settled(s) /\ <<s, 0>> \in Store!Tapes
        BY <1>3, <3>1 DEF Store!Settled, Store!OneWriter, Store!Tapes, Store!Ids, Store!Levels
      <4>2. ASSUME NEW u \in Store!Tapes, u[1] = s, Store!Exists(u)'
            PROVE u = <<s, 0>> /\ v1'[u][1].kind = "start"
        <5>1. u # t
          BY <1>4, <1>12, <4>2 DEF Store!Types, Store!Exists
        <5> QED  BY <1>4, <1>9, <4>1, <4>2, <5>1 DEF Store!SettledInv, Store!Exists
      <4>3. CASE s = x[1]
        <5>1. \A y \in v5 : y[1] # s
          BY <1>3, <1>6, <3>1, <4>3 DEF Store!Settled
        <5>2. \A y \in Store!Ids : y[1] = s => v6[y] = None
          BY <1>4, <5>1 DEF Store!Types
        <5> QED  BY <1>3, <1>4, <1>12, <4>1, <4>2, <5>1, <5>2 DEF Store!SettledInv
      <4>4. CASE s # x[1]
        <5>1. v1'[<<s, 0>>] = v1[<<s, 0>>]
          BY <1>5, <1>9, <4>1, <4>4
        <5> QED  BY <1>3, <1>4, <1>12, <4>1, <4>2, <5>1 DEF Store!SettledInv, Store!Exists
      <4> QED  BY <4>3, <4>4
    <3> QED  BY <3>1 DEF Store!SettledInv, Store!Tapes, Store!Ids, Store!Levels, Store!NoCommand
  <2> QED  BY <1>11, <2>2, <2>3, <2>4, <2>5 DEF Store!StoreInv
<1>13. CASE Store!Down /\ UNCHANGED v1
  <2>1. /\ Store!ProcInv' /\ v4' = FALSE /\ v5' = {}
        /\ v2' \in [Store!Procs -> [Store!Tapes -> Nat]]
        /\ v6' \in [Store!Ids -> Store!Tapes \cup {None}] /\ \A y \in Store!Ids : v6'[y] = None
        /\ \A p \in Store!Procs, u \in Store!Tapes : v2'[p][u] \in {0, v2[p][u]}
    BY <1>3, <1>13, ServerGone
  <2>2. Store!Types'
    BY <1>3, <1>4, <1>6, <1>9, <1>10, <2>1 DEF Store!Types
  <2>3. Store!IdInv'
    BY <1>3, <1>4, <1>13, <2>1, IdsForgotten
  <2>4. Store!SettledInv'
    BY <1>3, <1>4, <1>13, <2>1 DEF Store!SettledInv, Store!Settled, Store!OneWriter, Store!Exists,
       Store!Tapes, Store!Ids, Store!Levels, Store!NoCommand
  <2> QED  BY <1>11, <2>1, <2>2, <2>3, <2>4 DEF Store!StoreInv
<1> QED  BY <1>3, <1>12, <1>13

(* The server stops,                                                       *)
LEMMA StoreStop ==
  ASSUME Store!StoreInv, Store!Stop
  PROVE  Store!StoreInv'
<1>1. v4 /\ Store!Down /\ UNCHANGED <<v1, v3, v7, v10, v11, v12>>
  BY DEF Store!Stop, Store!historyVars
<1>2. Store!Types /\ Store!ProcInv /\ Store!IdInv /\ Store!SettledInv /\ Store!NothingLost
  BY DEF Store!StoreInv
<1>3. /\ Store!ProcInv' /\ v4' = FALSE /\ v5' = {} /\ v2' \in [Store!Procs -> [Store!Tapes -> Nat]]
      /\ v6' \in [Store!Ids -> Store!Tapes \cup {None}] /\ \A y \in Store!Ids : v6'[y] = None
      /\ \A p \in Store!Procs, u \in Store!Tapes : v2'[p][u] \in {0, v2[p][u]}
  BY <1>1, ServerGone
<1>4. Store!Types'
  BY <1>1, <1>2, <1>3 DEF Store!Types
<1>5. Store!IdInv'
  BY <1>1, <1>2, <1>3, IdsForgotten
<1>6. Store!SettledInv'
  BY <1>1, <1>2, <1>3 DEF Store!SettledInv, Store!Settled, Store!OneWriter, Store!Exists,
     Store!Tapes, Store!Ids, Store!Levels, Store!NoCommand
<1>7. Store!NothingLost'
  BY <1>1, <1>2 DEF Store!NothingLost, Store!OnRecord, Store!OneWriter
<1> QED  BY <1>3, <1>4, <1>5, <1>6, <1>7 DEF Store!StoreInv

(* and starts again, beside whatever command still runs.                   *)
LEMMA StoreRestart ==
  ASSUME Store!StoreInv, Store!Restart
  PROVE  Store!StoreInv'
<1>1. /\ ~v4 /\ v4' = TRUE /\ v11' = v11 \cup ({v7.tape} \ {None})
      /\ UNCHANGED <<v1, v2, v3, v5, v6, v7, v10, v12>>
  BY DEF Store!Restart
<1>2. Store!Types /\ Store!ProcInv /\ Store!IdInv /\ Store!SettledInv /\ Store!NothingLost
  BY DEF Store!StoreInv
<1>3. v7.tape \in Store!Tapes \cup {None}
  BY <1>2 DEF Store!Types, Store!Command, Store!NoCommand
<1>4. Store!Types'
  BY <1>1, <1>2, <1>3 DEF Store!Types
<1>5. Store!ProcInv'
  <2>1. v7.tape \in v11' \/ v7.tape = None
    BY <1>1
  <2>2. v7.tape = None => v7.at = "idle"
    BY <1>2, StoreParameters DEF Store!Types, Store!Command, Store!NoCommand, Store!Parameters
  <2> QED  BY <1>1, <1>2, <2>1, <2>2 DEF Store!ProcInv, Store!Tapes, Store!Ids, Store!Levels
<1>6. Store!IdInv'
  BY <1>1, <1>2 DEF Store!IdInv, Store!Tapes, Store!Ids, Store!Levels, Store!Procs
<1>7. Store!SettledInv'
  BY <1>1, <1>2 DEF Store!SettledInv, Store!Settled, Store!OneWriter, Store!Exists, Store!Tapes,
     Store!Ids, Store!Levels, Store!NoCommand
<1>8. Store!NothingLost'
  <2>1. ASSUME NEW s \in Sessions  PROVE Store!OnRecord(s)' = Store!OnRecord(s)
    BY <1>1 DEF Store!OnRecord, Store!Messages, Store!Tapes, Store!Ids, Store!Levels
  <2>2. ASSUME NEW s \in Sessions, Store!OneWriter(s)'  PROVE Store!OneWriter(s)
    BY <1>1, <2>2 DEF Store!OneWriter
  <2> QED  BY <1>1, <1>2, <2>1, <2>2 DEF Store!NothingLost
<1> QED  BY <1>4, <1>5, <1>6, <1>7, <1>8 DEF Store!StoreInv

(* A command opens its tape.                                               *)
LEMMA StoreCliOpen ==
  ASSUME Store!StoreInv, NEW x \in Store!Ids, Store!CliOpen(x)
  PROVE  Store!StoreInv'
<1>1. PICK t : t = Store!Resolve(x)
  OBVIOUS
<1>2. PICK new : new = Store!Seed(t)
  OBVIOUS
<1>3. /\ v7 = Store!NoCommand /\ (Store!Rows(x) # {} \/ x[2] = 0)
      /\ v7' = [at |-> "opened", tape |-> t]
      /\ v11' = (IF v4 THEN v11 \cup {t} ELSE v11)
      /\ Store!Write("cli", t, new)
      /\ UNCHANGED <<v3, v4, v5, v6, v10, v12>>
  BY <1>1, <1>2 DEF Store!CliOpen, Store!serverVars
<1>4. Store!Types /\ Store!ProcInv /\ Store!IdInv /\ Store!SettledInv /\ Store!NothingLost
  BY DEF Store!StoreInv
<1>5. t \in Store!Tapes /\ t[1] = x[1]
  BY <1>1, Resolved
<1>6. /\ new \in Seq(Store!Line) /\ Store!Messages(new) = {}
      /\ v1[t] = <<>> => new # <<>> /\ new[1].kind = "start"
  <2>1. <<Store!Start>> # <<>> /\ <<Store!Start>>[1].kind = "start"
    BY DEF Store!Start, Store!Entry
  <2> QED  BY <1>2, <2>1, Opening
<1>7. Store!Settled(t[1]) => t = <<t[1], 0>>
  BY <1>1, <1>3, <1>4, <1>5, Settles
<1>8. "cli" \in Store!Procs /\ v11 \subseteq v11'
  BY <1>3 DEF Store!Procs
<1>9. t \in v11' \/ \A q \in Store!Procs \ {"cli"} : v2[q][t] = 0
  <2>1. CASE v4
    BY <1>3, <2>1
  <2>2. CASE ~v4
    <3>1. v2["serve"][t] = 0
      BY <1>4, <1>5, <2>2 DEF Store!ProcInv, Store!NoIds
    <3> QED  BY <3>1 DEF Store!Procs
  <2> QED  BY <2>1, <2>2
<1>10. /\ v1' \in [Store!Tapes -> Seq(Store!Line)] /\ v2' \in [Store!Procs -> [Store!Tapes -> Nat]]
       /\ \A q \in Store!Procs, u \in Store!Tapes : q # "cli" \/ u # t => v2'[q][u] = v2[q][u]
       /\ Store!IdInv'
       /\ \A u \in Store!Tapes : Store!Exists(u) => v1'[u] # <<>>
       /\ \A s \in Sessions : Store!Settled(s)' =>
            \A u \in Store!Tapes : u[1] = s /\ v1'[u] # <<>>
              => u = <<s, 0>> /\ v1'[u][1].kind = "start"
       /\ \A s \in Sessions : \A m : m \in Store!OnRecord(s)' <=> m \in Store!OnRecord(s)
  BY <1>3, <1>5, <1>6, <1>7, <1>8, <1>9, WriteKeeps
<1>11. v1'[t] # <<>>
  BY <1>3, <1>4, <1>5, <1>6, <1>8, Wrote
<1>12. /\ v7'.at = "opened" /\ v7'.tape = t /\ v7' \in Store!Command /\ v7' # Store!NoCommand
  BY <1>3, <1>5 DEF Store!Command, Store!NoCommand
<1>13. Store!Types'
  BY <1>3, <1>4, <1>5, <1>10, <1>12 DEF Store!Types
<1>14. Store!ProcInv'
  <2>1. ~v4 => v2'["serve"] = Store!NoIds
    <3>1. SUFFICES ASSUME ~v4  PROVE v2'["serve"] = Store!NoIds
      OBVIOUS
    <3>2. \A u \in Store!Tapes : v2'["serve"][u] = 0
      BY <1>4, <1>10, <3>1 DEF Store!ProcInv, Store!NoIds, Store!Procs
    <3>3. v2'["serve"] \in [Store!Tapes -> Nat]
      BY <1>10 DEF Store!Procs
    <3> QED  BY <3>2, <3>3 DEF Store!NoIds
  <2>2. ASSUME NEW u \in Store!Tapes, v2'["cli"][u] # 0  PROVE u = t
    <3>1. v7.tape = None /\ None \notin Store!Tapes
      BY <1>3, StoreParameters DEF Store!NoCommand, Store!Parameters
    <3> QED  BY <1>4, <1>8, <1>10, <2>2, <3>1 DEF Store!ProcInv
  <2>3. v4 => t \in v11'
    BY <1>3
  <2> QED
    BY <1>3, <1>4, <1>11, <1>12, <2>1, <2>2, <2>3 DEF Store!ProcInv, Store!Exists, Store!NoIds,
       Store!Tapes, Store!Ids, Store!Levels
<1>15. Store!SettledInv'
  <2>1. ASSUME NEW s \in Sessions, Store!Settled(s)'
        PROVE  /\ \A u \in Store!Tapes : u[1] = s /\ Store!Exists(u)'
                    => u = <<s, 0>> /\ v1'[u][1].kind = "start"
               /\ \A y \in v5' : y[1] = s => y[2] = 0 \/ (y[2] = 1 /\ Store!Exists(<<s, 0>>)')
               /\ \A y \in Store!Ids : y[1] = s /\ v6'[y] # None
                    => v6'[y] = <<s, 0>> /\ Store!Exists(<<s, 0>>)'
               /\ v7' # Store!NoCommand /\ v7'.tape[1] = s => v7'.tape = <<s, 0>>
    <3>1. Store!Settled(s) /\ <<s, 0>> \in Store!Tapes
      BY <1>3, <1>8, <2>1 DEF Store!Settled, Store!OneWriter, Store!Tapes, Store!Ids, Store!Levels
    <3>2. Store!Exists(<<s, 0>>) => Store!Exists(<<s, 0>>)'
      BY <1>10, <3>1 DEF Store!Exists
    <3> QED  BY <1>3, <1>4, <1>7, <1>10, <1>12, <2>1, <3>1, <3>2 DEF Store!SettledInv, Store!Exists
  <2> QED  BY <2>1 DEF Store!SettledInv, Store!Tapes, Store!Ids, Store!Levels, Store!NoCommand
<1>16. Store!NothingLost'
  <2>1. ASSUME NEW s \in Sessions, Store!OneWriter(s)'
        PROVE  1..v10'[s] = Store!OnRecord(s)'
    <3>1. Store!OneWriter(s)
      BY <1>8, <2>1 DEF Store!OneWriter
    <3> QED  BY <1>3, <1>4, <1>10, <3>1 DEF Store!NothingLost
  <2> QED  BY <2>1 DEF Store!NothingLost
<1> QED  BY <1>10, <1>13, <1>14, <1>15, <1>16 DEF Store!StoreInv

(* A command that appends its line and returns.                            *)
LEMMA CommandAppends ==
  ASSUME Store!StoreInv, v7 \in Store!Command, NEW e \in Store!Line, e.kind # "message",
         Store!CliAppends(e), Store!Done,
         v7.tape \notin v11 => Store!Exists(v7.tape) \/ e.kind = "start",
         UNCHANGED <<v3, v4, v5, v6, v10, v11, v12>>
  PROVE  Store!StoreInv'
<1>1. PICK t : t = v7.tape
  OBVIOUS
<1>2. PICK f : f = [e EXCEPT !.id = Store!FreshId("cli", v7.tape)]
  OBVIOUS
<1>3. /\ v1' = [v1 EXCEPT ![t] = Append(@, f)]
      /\ v7' = Store!NoCommand /\ v2' = [v2 EXCEPT !["cli"] = Store!NoIds]
  BY <1>1, <1>2 DEF Store!CliAppends, Store!Done
<1>4. Store!Types /\ Store!ProcInv /\ Store!IdInv /\ Store!SettledInv /\ Store!NothingLost
  BY DEF Store!StoreInv
<1>5. t \in Store!Tapes /\ v1[t] \in Seq(Store!Line) /\ Len(v1[t]) \in Nat /\ v2["cli"][t] \in Nat
  BY <1>1, <1>4 DEF Store!Types, Store!Command, Store!Procs
<1>6. /\ Store!FreshId("cli", t) \in Nat /\ f \in Store!Line /\ f.kind = e.kind
      /\ f.id = Store!FreshId("cli", t)
  <2>1. Store!FreshId("cli", t) \in Nat
    BY <1>5 DEF Store!FreshId
  <2> QED  BY <1>1, <1>2, <2>1 DEF Store!Line
<1>7. PICK r : r = v1'[t]
  OBVIOUS
<1>8. r = Append(v1[t], f) /\ \A u \in Store!Tapes : u # t => v1'[u] = v1[u]
  BY <1>3, <1>4, <1>5, <1>7 DEF Store!Types
<1>9. /\ r \in Seq(Store!Line) /\ r # <<>> /\ Len(r) = Len(v1[t]) + 1 /\ DOMAIN r = 1..Len(r)
      /\ r[Len(r)] = f
      /\ \A i \in DOMAIN v1[t] : i \in DOMAIN r /\ r[i] = v1[t][i]
      /\ \A i \in DOMAIN r : i \in DOMAIN v1[t] \/ i = Len(r)
      /\ DOMAIN v1[t] = 1..Len(v1[t])
  <2>1. PICK q : q = v1[t]
    OBVIOUS
  <2>2. /\ r \in Seq(Store!Line) /\ Len(r) = Len(q) + 1 /\ Len(q) \in Nat
        /\ DOMAIN r = 1..(Len(q) + 1)
        /\ r[Len(q) + 1] = f /\ DOMAIN q = 1..Len(q)
        /\ \A i \in DOMAIN q : r[i] = q[i]
    BY <1>5, <1>6, <1>8, <2>1
  <2>3. /\ Len(q) + 1 \in DOMAIN r /\ r # <<>>
        /\ \A i \in DOMAIN q : i \in DOMAIN r
        /\ \A i \in DOMAIN r : i \in DOMAIN q \/ i = Len(q) + 1
    BY <2>2
  <2> QED  BY <2>1, <2>2, <2>3
<1>10. /\ v1' \in [Store!Tapes -> Seq(Store!Line)] /\ v2' \in [Store!Procs -> [Store!Tapes -> Nat]]
       /\ v2'["serve"] = v2["serve"]
       /\ \A u \in Store!Tapes : v2'["cli"][u] = 0
  <2>1. Store!NoIds \in [Store!Tapes -> Nat] /\ \A u \in Store!Tapes : Store!NoIds[u] = 0
    BY DEF Store!NoIds
  <2> QED  BY <1>3, <1>4, <1>5, <1>7, <1>8, <1>9, <2>1 DEF Store!Types, Store!Procs
<1>11. Store!Types'
  BY <1>3, <1>4, <1>10 DEF Store!Types
<1>12. Store!ProcInv'
  <2>1. Store!NoCommand.at = "idle" /\ Store!NoCommand.tape = None
    BY DEF Store!NoCommand
  <2> QED
    BY <1>3, <1>4, <1>10, <2>1 DEF Store!ProcInv, Store!Tapes, Store!Ids, Store!Levels, Store!NoIds
<1>13. t \notin v11 => ~v4
  BY <1>1, <1>4, <1>5, StoreParameters DEF Store!ProcInv, Store!Parameters
<1>14. Store!IdInv'
  <2>1. ASSUME NEW u \in Store!Tapes, u \notin v11
        PROVE  /\ \A i \in DOMAIN v1'[u] : v1'[u][i].id = i
               /\ v2'["serve"][u] \in {0, Len(v1'[u]) + 1}
    <3>1. CASE u = t
      <4>1. v2["serve"][t] = 0
        BY <1>4, <1>5, <1>13, <2>1, <3>1 DEF Store!ProcInv, Store!NoIds
      <4>2. Store!FreshId("cli", t) = Len(v1[t]) + 1
        BY <1>4, <1>5, <2>1, <3>1 DEF Store!IdInv, Store!FreshId, Store!Procs
      <4>3. \A i \in DOMAIN v1[t] : v1[t][i].id = i
        BY <1>4, <2>1, <3>1 DEF Store!IdInv
      <4>4. \A i \in DOMAIN r : r[i].id = i
        BY <1>5, <1>6, <1>9, <4>2, <4>3
      <4> QED  BY <1>7, <1>10, <3>1, <4>1, <4>4
    <3>2. CASE u # t
      BY <1>4, <1>8, <1>10, <2>1, <3>2 DEF Store!IdInv, Store!Procs
    <3> QED  BY <3>1, <3>2
  <2> QED  BY <1>10, <2>1 DEF Store!IdInv, Store!Tapes, Store!Ids, Store!Levels, Store!Procs
<1>15. Store!SettledInv'
  <2>1. ASSUME NEW s \in Sessions, Store!Settled(s)'
        PROVE  /\ \A u \in Store!Tapes : u[1] = s /\ Store!Exists(u)'
                    => u = <<s, 0>> /\ v1'[u][1].kind = "start"
               /\ \A y \in v5' : y[1] = s => y[2] = 0 \/ (y[2] = 1 /\ Store!Exists(<<s, 0>>)')
               /\ \A y \in Store!Ids : y[1] = s /\ v6'[y] # None
                    => v6'[y] = <<s, 0>> /\ Store!Exists(<<s, 0>>)'
               /\ v7' # Store!NoCommand /\ v7'.tape[1] = s => v7'.tape = <<s, 0>>
    <3>1. Store!Settled(s) /\ <<s, 0>> \in Store!Tapes
      BY <2>1 DEF Store!Settled, Store!OneWriter, Store!Tapes, Store!Ids, Store!Levels
    <3>2. Store!Exists(<<s, 0>>) => Store!Exists(<<s, 0>>)'
      BY <1>7, <1>8, <1>9, <3>1 DEF Store!Exists
    <3>3. ASSUME NEW u \in Store!Tapes, u[1] = s, Store!Exists(u)'
          PROVE u = <<s, 0>> /\ v1'[u][1].kind = "start"
      <4>1. CASE u # t
        BY <1>4, <1>8, <3>1, <3>3, <4>1 DEF Store!SettledInv, Store!Exists
      <4>2. CASE u = t
        <5>1. u = <<s, 0>> /\ t \notin v11
          <6>1. v7 # Store!NoCommand
            BY DEF Store!Command, Store!NoCommand
          <6> QED
            BY <1>1, <1>4, <3>1, <3>3, <4>2, <6>1 DEF Store!SettledInv, Store!Settled,
               Store!OneWriter
        <5>2. CASE Store!Exists(t)
          <6>1. 1 \in DOMAIN v1[t] /\ v1[t][1].kind = "start"
            BY <1>4, <1>5, <1>9, <3>1, <3>3, <4>2, <5>2 DEF Store!SettledInv, Store!Exists
          <6> QED  BY <1>7, <1>9, <4>2, <5>1, <6>1
        <5>3. CASE ~Store!Exists(t)
          <6>1. v1[t] = <<>> /\ e.kind = "start"
            BY <1>1, <5>1, <5>3 DEF Store!Exists
          <6>2. Len(r) = 1
            BY <1>9, <6>1
          <6> QED  BY <1>6, <1>7, <1>9, <4>2, <5>1, <6>1, <6>2
        <5> QED  BY <5>2, <5>3
      <4> QED  BY <4>1, <4>2
    <3> QED  BY <1>3, <1>4, <3>1, <3>2, <3>3 DEF Store!SettledInv, Store!Exists
  <2> QED  BY <2>1 DEF Store!SettledInv, Store!Tapes, Store!Ids, Store!Levels, Store!NoCommand
<1>16. Store!NothingLost'
  <2>1. Store!Messages(r) = Store!Messages(v1[t])
    BY <1>6, <1>9 DEF Store!Messages
  <2>2. ASSUME NEW s, NEW m  PROVE m \in Store!OnRecord(s)' <=> m \in Store!OnRecord(s)
    <3>1. m \in Store!OnRecord(s)' <=>
             \/ \E u \in Store!Tapes : u[1] = s /\ m \in Store!Messages(v1'[u])
             \/ \E a \in v3 : a.tape[1] = s /\ m \in Store!Messages(a.lines)
      BY RecordIsNext
    <3>2. m \in Store!OnRecord(s) <=>
             \/ \E u \in Store!Tapes : u[1] = s /\ m \in Store!Messages(v1[u])
             \/ \E a \in v3 : a.tape[1] = s /\ m \in Store!Messages(a.lines)
      BY RecordIs
    <3>3. \A u \in Store!Tapes : Store!Messages(v1'[u]) = Store!Messages(v1[u])
      BY <1>7, <1>8, <2>1
    <3> QED  BY <3>1, <3>2, <3>3
  <2>3. ASSUME NEW s \in Sessions, Store!OneWriter(s)'
        PROVE  1..v10'[s] = Store!OnRecord(s)'
    <3>1. 1..v10[s] = Store!OnRecord(s)
      BY <1>4, <2>3 DEF Store!OneWriter, Store!NothingLost
    <3> QED  BY <2>2, <3>1
  <2> QED  BY <2>3 DEF Store!NothingLost
<1> QED  BY <1>11, <1>12, <1>14, <1>15, <1>16 DEF Store!StoreInv

(* One that ends without a line.                                           *)
LEMMA CommandEnds ==
  ASSUME Store!StoreInv, Store!Done, UNCHANGED <<v1, v3, v4, v5, v6, v10, v11, v12>>
  PROVE  Store!StoreInv'
<1>1. Store!Types /\ Store!ProcInv /\ Store!IdInv /\ Store!SettledInv /\ Store!NothingLost
  BY DEF Store!StoreInv
<1>2. v7' = Store!NoCommand /\ v2' = [v2 EXCEPT !["cli"] = Store!NoIds]
  BY DEF Store!Done
<1>3. /\ v2' \in [Store!Procs -> [Store!Tapes -> Nat]] /\ v2'["serve"] = v2["serve"]
      /\ \A u \in Store!Tapes : v2'["cli"][u] = 0
  <2>1. Store!NoIds \in [Store!Tapes -> Nat] /\ \A u \in Store!Tapes : Store!NoIds[u] = 0
    BY DEF Store!NoIds
  <2> QED  BY <1>1, <1>2, <2>1 DEF Store!Types, Store!Procs
<1>4. Store!Types'
  BY <1>1, <1>2, <1>3 DEF Store!Types
<1>5. Store!ProcInv'
  <2>1. Store!NoCommand.at = "idle" /\ Store!NoCommand.tape = None
    BY DEF Store!NoCommand
  <2> QED
    BY <1>1, <1>2, <1>3, <2>1 DEF Store!ProcInv, Store!Tapes, Store!Ids, Store!Levels, Store!NoIds
<1>6. Store!IdInv'
  BY <1>1, <1>3 DEF Store!IdInv, Store!Tapes, Store!Ids, Store!Levels, Store!Procs
<1>7. Store!SettledInv'
  BY <1>1, <1>2 DEF Store!SettledInv, Store!Settled, Store!OneWriter, Store!Exists, Store!Tapes,
     Store!Ids, Store!Levels, Store!NoCommand
<1>8. Store!NothingLost'
  BY <1>1 DEF Store!NothingLost, Store!OnRecord, Store!Messages, Store!OneWriter, Store!Tapes,
     Store!Ids, Store!Levels
<1> QED  BY <1>4, <1>5, <1>6, <1>7, <1>8 DEF Store!StoreInv

(* The dump of a reset.                                                    *)
LEMMA StoreCliDump ==
  ASSUME Store!StoreInv, Store!CliDump
  PROVE  Store!StoreInv'
<1>1. PICK t : t = v7.tape
  OBVIOUS
<1>2. /\ v7.at = "opened" /\ v3' = Store!Archived(t) /\ v7' = [v7 EXCEPT !.at = "dumped"]
      /\ UNCHANGED <<v1, v2, v4, v5, v6, v10, v11, v12>>
  BY <1>1 DEF Store!CliDump, Store!serverVars, Store!historyVars
<1>3. Store!Types /\ Store!ProcInv /\ Store!IdInv /\ Store!SettledInv /\ Store!NothingLost
  BY DEF Store!StoreInv
<1>4. v7 \in Store!Command /\ v7 # Store!NoCommand /\ t \in Store!Tapes
  BY <1>1, <1>2, <1>3 DEF Store!Types, Store!Command, Store!NoCommand
<1>5. v7' \in Store!Command /\ v7'.at = "dumped" /\ v7'.tape = t
  BY <1>1, <1>2, <1>4 DEF Store!Command
<1>6. v3' \in SUBSET Store!Dump /\ \A s \in Sessions : Store!OnRecord(s)' = Store!OnRecord(s)
  BY <1>2, <1>3, <1>4, ArchiveKeeps
<1>7. Store!Types'
  BY <1>2, <1>3, <1>5, <1>6 DEF Store!Types
<1>8. Store!ProcInv'
  BY <1>1, <1>2, <1>3, <1>5 DEF Store!ProcInv, Store!Archived, Store!Exists, Store!Tapes,
     Store!Ids, Store!Levels, Store!NoIds
<1>9. Store!IdInv'
  BY <1>2, <1>3 DEF Store!IdInv, Store!Tapes, Store!Ids, Store!Levels, Store!Procs
<1>10. Store!SettledInv'
  BY <1>1, <1>2, <1>3, <1>4, <1>5
     DEF Store!SettledInv, Store!Settled, Store!OneWriter, Store!Exists, Store!Tapes, Store!Ids,
     Store!Levels, Store!NoCommand
<1>11. Store!NothingLost'
  BY <1>2, <1>3, <1>6 DEF Store!NothingLost, Store!OneWriter
<1> QED  BY <1>7, <1>8, <1>9, <1>10, <1>11 DEF Store!StoreInv

(* What is removed was dumped, and nobody wrote in between.                *)
LEMMA StoreCliRemove ==
  ASSUME Store!StoreInv, Store!CliRemove
  PROVE  Store!StoreInv'
<1>1. PICK t : t = v7.tape
  OBVIOUS
<1>2. /\ v7.at = "dumped" /\ v1' = [v1 EXCEPT ![t] = <<>>]
      /\ v2' = [v2 EXCEPT !["cli"][t] = 0] /\ v7' = [v7 EXCEPT !.at = "removed"]
      /\ UNCHANGED <<v3, v4, v5, v6, v10, v11, v12>>
  BY <1>1 DEF Store!CliRemove, Store!serverVars, Store!historyVars
<1>3. Store!Types /\ Store!ProcInv /\ Store!IdInv /\ Store!SettledInv /\ Store!NothingLost
  BY DEF Store!StoreInv
<1>4. v7 \in Store!Command /\ v7 # Store!NoCommand /\ t \in Store!Tapes
  BY <1>1, <1>2, <1>3 DEF Store!Types, Store!Command, Store!NoCommand
<1>5. v7' \in Store!Command /\ v7'.at = "removed" /\ v7'.tape = t
  BY <1>1, <1>2, <1>4 DEF Store!Command
<1>6. <<>> \in Seq(Store!Line) /\ DOMAIN <<>> = {} /\ Store!Messages(<<>>) = {}
  <2>1. <<>> \in Seq(Store!Line) /\ DOMAIN <<>> = {}
    OBVIOUS
  <2> QED  BY <2>1 DEF Store!Messages
<1>7. /\ v1' \in [Store!Tapes -> Seq(Store!Line)] /\ v1'[t] = <<>>
      /\ \A u \in Store!Tapes : u # t => v1'[u] = v1[u]
  BY <1>2, <1>3, <1>4, <1>6 DEF Store!Types
<1>8. /\ v2' \in [Store!Procs -> [Store!Tapes -> Nat]] /\ v2'["serve"] = v2["serve"]
      /\ v2'["cli"][t] = 0
      /\ \A u \in Store!Tapes : u # t => v2'["cli"][u] = v2["cli"][u]
  BY <1>2, <1>3, <1>4 DEF Store!Types, Store!Procs
<1>9. t \notin v11 => ~v4 /\ v5 = {} /\ [tape |-> t, lines |-> v1[t]] \in v3
  BY <1>1, <1>2, <1>3, <1>4, StoreParameters DEF Store!ProcInv, Store!Parameters
<1>10. Store!Types'
  BY <1>2, <1>3, <1>5, <1>7, <1>8 DEF Store!Types
<1>11. Store!ProcInv'
  BY <1>1, <1>2, <1>3, <1>5, <1>7, <1>8 DEF Store!ProcInv, Store!Exists, Store!Tapes, Store!Ids,
     Store!Levels, Store!NoIds
<1>12. Store!IdInv'
  <2>1. ASSUME NEW u \in Store!Tapes, u \notin v11
        PROVE  /\ \A i \in DOMAIN v1'[u] : v1'[u][i].id = i
               /\ \A q \in Store!Procs : v2'[q][u] \in {0, Len(v1'[u]) + 1}
    <3>1. CASE u = t
      <4>1. \A q \in Store!Procs : v2'[q][u] = 0
        BY <1>3, <1>8, <1>9, <2>1, <3>1 DEF Store!ProcInv, Store!NoIds, Store!Procs
      <4> QED  BY <1>6, <1>7, <3>1, <4>1
    <3>2. CASE u # t
      <4>1. \A q \in Store!Procs : v2'[q][u] = v2[q][u]
        BY <1>8, <3>2 DEF Store!Procs
      <4> QED  BY <1>3, <1>7, <2>1, <3>2, <4>1 DEF Store!IdInv
    <3> QED  BY <3>1, <3>2
  <2> QED  BY <1>2, <2>1 DEF Store!IdInv, Store!Tapes, Store!Ids, Store!Levels, Store!Procs
<1>13. Store!SettledInv'
  <2>1. ASSUME NEW s \in Sessions, Store!Settled(s)'
        PROVE  /\ \A u \in Store!Tapes : u[1] = s /\ Store!Exists(u)'
                    => u = <<s, 0>> /\ v1'[u][1].kind = "start"
               /\ \A y \in v5' : y[1] = s => y[2] = 0 \/ (y[2] = 1 /\ Store!Exists(<<s, 0>>)')
               /\ \A y \in Store!Ids : y[1] = s /\ v6'[y] # None
                    => v6'[y] = <<s, 0>> /\ Store!Exists(<<s, 0>>)'
               /\ v7' # Store!NoCommand /\ v7'.tape[1] = s => v7'.tape = <<s, 0>>
    <3>1. Store!Settled(s) /\ <<s, 0>> \in Store!Tapes
      BY <1>2, <2>1 DEF Store!Settled, Store!OneWriter, Store!Tapes, Store!Ids, Store!Levels
    <3>2. ASSUME NEW u \in Store!Tapes, u[1] = s, Store!Exists(u)'
          PROVE u = <<s, 0>> /\ v1'[u][1].kind = "start"
      BY <1>3, <1>7, <3>1, <3>2 DEF Store!SettledInv, Store!Exists
    <3>3. v7.tape[1] = s => v7.tape = <<s, 0>>
      BY <1>3, <1>4, <3>1 DEF Store!SettledInv
    <3>4. CASE t[1] = s
      <4>1. v5 = {}
        BY <1>4, <1>9, <3>1, <3>4 DEF Store!Settled, Store!OneWriter
      <4>2. \A y \in Store!Ids : v6[y] = None
        BY <1>3, <4>1 DEF Store!Types
      <4> QED  BY <1>1, <1>2, <1>5, <3>2, <3>3, <4>1, <4>2
    <3>5. CASE t[1] # s
      <4>1. v1'[<<s, 0>>] = v1[<<s, 0>>]
        BY <1>7, <3>1, <3>5
      <4> QED  BY <1>1, <1>2, <1>3, <1>5, <3>1, <3>2, <3>3, <4>1 DEF Store!SettledInv, Store!Exists
    <3> QED  BY <3>4, <3>5
  <2> QED  BY <2>1 DEF Store!SettledInv, Store!Tapes, Store!Ids, Store!Levels, Store!NoCommand
<1>14. Store!NothingLost'
  <2>1. ASSUME NEW s \in Sessions, Store!OneWriter(s)
        PROVE  Store!OnRecord(s)' = Store!OnRecord(s)
    <3>1. ASSUME NEW m  PROVE m \in Store!OnRecord(s)' <=> m \in Store!OnRecord(s)
      <4>1. m \in Store!OnRecord(s)' <=>
               \/ \E u \in Store!Tapes : u[1] = s /\ m \in Store!Messages(v1'[u])
               \/ \E a \in v3 : a.tape[1] = s /\ m \in Store!Messages(a.lines)
        BY <1>2, RecordIsNext
      <4>2. m \in Store!OnRecord(s) <=>
               \/ \E u \in Store!Tapes : u[1] = s /\ m \in Store!Messages(v1[u])
               \/ \E a \in v3 : a.tape[1] = s /\ m \in Store!Messages(a.lines)
        BY RecordIs
      <4>3. \A u \in Store!Tapes : u # t => Store!Messages(v1'[u]) = Store!Messages(v1[u])
        BY <1>7
      <4>4. Store!Messages(v1'[t]) = {}
        BY <1>6, <1>7
      <4>5. t[1] = s /\ m \in Store!Messages(v1[t]) =>
              \E a \in v3 : a.tape[1] = s /\ m \in Store!Messages(a.lines)
        <5>1. SUFFICES ASSUME t[1] = s, m \in Store!Messages(v1[t])
                       PROVE  \E a \in v3 : a.tape[1] = s /\ m \in Store!Messages(a.lines)
          OBVIOUS
        <5>2. PICK a \in v3 : a = [tape |-> t, lines |-> v1[t]]
          BY <1>4, <1>9, <2>1, <5>1 DEF Store!OneWriter
        <5>3. a.tape = t /\ a.lines = v1[t]
          BY <5>2
        <5> QED  BY <5>1, <5>3
      <4> QED  BY <4>1, <4>2, <4>3, <4>4, <4>5
    <3> QED  BY <3>1
  <2> QED  BY <1>2, <1>3, <2>1 DEF Store!NothingLost, Store!OneWriter
<1> QED  BY <1>10, <1>11, <1>12, <1>13, <1>14 DEF Store!StoreInv

(* The steps of a command together.                                        *)
LEMMA StoreCliStep ==
  ASSUME Store!StoreInv, Store!CliStep
  PROVE  Store!StoreInv'
<1>1. Store!Types /\ Store!ProcInv
  BY DEF Store!StoreInv
<1>2. v7.at # "idle" => v7 \in Store!Command
  BY <1>1 DEF Store!Types, Store!NoCommand
<1>3. /\ Store!Entry("compaction", 0) \in Store!Line
      /\ Store!Entry("compaction", 0).kind = "compaction"
      /\ Store!Start \in Store!Line /\ Store!Start.kind = "start"
  BY DEF Store!Entry, Store!Start, Store!Line
<1>4. CASE Store!CliReturns
  BY <1>4, CommandEnds DEF Store!CliReturns, Store!serverVars, Store!historyVars
<1>5. CASE Store!CliCompact
  <2>1. /\ v7.at = "opened" /\ Store!CliAppends(Store!Entry("compaction", 0)) /\ Store!Done
        /\ UNCHANGED <<v3, v4, v5, v6, v10, v11, v12>>
    BY <1>5 DEF Store!CliCompact, Store!serverVars, Store!historyVars
  <2>2. v7.tape \notin v11 => Store!Exists(v7.tape)
    BY <1>1, <2>1 DEF Store!ProcInv
  <2> QED  BY <1>2, <1>3, <2>1, <2>2, CommandAppends
<1>6. CASE Store!CliDump
  BY <1>6, StoreCliDump
<1>7. CASE Store!CliRemove
  BY <1>7, StoreCliRemove
<1>8. CASE Store!CliSeed
  <2>1. /\ v7.at = "removed" /\ Store!CliAppends(Store!Start) /\ Store!Done
        /\ UNCHANGED <<v3, v4, v5, v6, v10, v11, v12>>
    BY <1>8 DEF Store!CliSeed, Store!serverVars, Store!historyVars
  <2> QED  BY <1>2, <1>3, <2>1, CommandAppends
<1>9. CASE Store!CliDies
  BY <1>9, CommandEnds DEF Store!CliDies, Store!serverVars, Store!historyVars
<1> QED  BY <1>4, <1>5, <1>6, <1>7, <1>8, <1>9 DEF Store!CliStep

(* The step of it.                                                         *)
LEMMA StoreStep == Store!StoreInv /\ [Store!Next]_(Store!vars) => Store!StoreInv'
<1>1. SUFFICES ASSUME Store!StoreInv, [Store!Next]_(Store!vars)  PROVE Store!StoreInv'
  OBVIOUS
<1>2. CASE UNCHANGED Store!vars
  <2>1. /\ UNCHANGED <<v1, v2, v3, v4, v5, v6, v7, v10, v11, v12>>
        /\ Store!Types /\ Store!ProcInv /\ Store!IdInv /\ Store!SettledInv /\ Store!NothingLost
    BY <1>1, <1>2 DEF Store!vars, Store!serverVars, Store!historyVars, Store!StoreInv
  <2>2. Store!Types' /\ Store!IdInv'
    BY <2>1 DEF Store!Types, Store!IdInv, Store!Tapes, Store!Ids, Store!Levels, Store!Procs
  <2>3. Store!ProcInv'
    BY <2>1 DEF Store!ProcInv, Store!Exists, Store!Tapes, Store!Ids, Store!Levels, Store!NoIds
  <2>4. Store!SettledInv'
    BY <2>1 DEF Store!SettledInv, Store!Settled, Store!OneWriter, Store!Exists, Store!Tapes,
       Store!Ids, Store!Levels, Store!NoCommand
  <2>5. Store!NothingLost'
    BY <2>1 DEF Store!NothingLost, Store!OnRecord, Store!Messages, Store!OneWriter, Store!Tapes,
       Store!Ids, Store!Levels
  <2> QED  BY <2>2, <2>3, <2>4, <2>5 DEF Store!StoreInv
<1>3. CASE Store!Next
  BY <1>1, <1>3, StoreConnect, StorePersist, StoreOpenToRead, StoreRename, StoreArchive,
     StoreStop, StoreRestart, StoreCliOpen, StoreCliStep DEF Store!Next
<1> QED  BY <1>1, <1>2, <1>3

(* What it says of the reader and the list.                                *)
LEMMA StoreTells ==
  ASSUME Store!StoreInv
  PROVE  /\ Store!TypeOK /\ Store!NothingLost /\ Store!IdsIncrease
         /\ Store!ReadsWhatItWrote /\ Store!RowsOpenThemselves /\ Store!BootstrapFirst
<1>1. Store!Types /\ Store!ProcInv /\ Store!IdInv /\ Store!SettledInv /\ Store!NothingLost
  BY DEF Store!StoreInv
<1>2. Store!TypeOK
  <2>1. ASSUME NEW t \in Store!Tapes, NEW i \in DOMAIN v1[t]
        PROVE  v1[t][i].kind \in {"start", "message", "name", "compaction"}
    <3>1. v1[t] \in Seq(Store!Line)
      BY <1>1 DEF Store!Types
    <3>2. v1[t][i] \in Store!Line
      BY <3>1
    <3> QED  BY <3>2 DEF Store!Line
  <2>2. v7.at \in {"idle", "opened", "dumped", "removed"} /\ v7.tape \in Store!Tapes \cup {None}
    BY <1>1 DEF Store!Types, Store!Command, Store!NoCommand
  <2> QED  BY <1>1, <2>1, <2>2 DEF Store!TypeOK, Store!Types
<1>3. Store!IdsIncrease
  <2>1. ASSUME NEW t \in Store!Tapes \ v11, NEW i \in DOMAIN v1[t], NEW j \in DOMAIN v1[t], i < j
        PROVE  v1[t][i].id < v1[t][j].id
    BY <1>1, <2>1 DEF Store!IdInv
  <2> QED  BY <2>1 DEF Store!IdsIncrease
<1>4. Store!ReadsWhatItWrote
  <2>1. ASSUME NEW x \in Store!Ids, v6[x] # None, Store!Settled(x[1])
        PROVE Store!Resolve(x) = v6[x]
    <3>1. x \in v5 /\ x[1] \in Sessions
      BY <1>1, <2>1 DEF Store!Types, Store!Ids
    <3>2. v6[x] = <<x[1], 0>>
      BY <1>1, <2>1, <3>1 DEF Store!SettledInv
    <3> QED  BY <1>1, <2>1, <3>1, <3>2, Settles
  <2> QED  BY <2>1 DEF Store!ReadsWhatItWrote
<1>5. ASSUME NEW t \in Store!Tapes, Store!Exists(t), Store!Settled(t[1])
      PROVE  Store!Resolve(<<t[1], t[2] + 1>>) = t /\ v1[t][1].kind = "start"
  <2>1. t = <<t[1], 0>> /\ v1[t][1].kind = "start" /\ t[1] \in Sessions
    BY <1>1, <1>5 DEF Store!SettledInv, Store!Tapes, Store!Ids
  <2>2. PICK x : x = <<t[1], 1>>
    OBVIOUS
  <2>3. x \in Store!Ids /\ x[1] = t[1] /\ x[2] = 1 /\ t[2] = 0 /\ x = <<t[1], t[2] + 1>>
    BY <2>1, <2>2 DEF Store!Ids, Store!Levels
  <2>4. t \in Store!Rows(x)
    BY <1>5, <2>3 DEF Store!Rows
  <2>5. Store!Resolve(x) = <<x[1], 0>>
    BY <1>1, <1>5, <2>3, <2>4, Settles
  <2> QED  BY <2>1, <2>3, <2>5
<1> QED  BY <1>1, <1>2, <1>3, <1>4, <1>5 DEF Store!RowsOpenThemselves, Store!BootstrapFirst

(* A behaviour is the store's alone, or not the store's at all.            *)
LEMMA StoreAlone == Spec => Store!Spec \/ [](part # "store")
<1>1. Init => (part = "store" /\ Store!Init) \/ part # "store"
  BY DEF Init
<1>2. part = "store" /\ [Next]_vars => [Store!Next]_(Store!vars) /\ (part = "store")'
  BY DEF Next, vars, Store!vars, Store!serverVars, Store!historyVars, Store!countVars
<1>3. part # "store" /\ [Next]_vars => (part # "store")'
  BY DEF Next, vars
<1> QED  BY <1>1, <1>2, <1>3, PTL DEF Spec, Store!Spec

(* Its invariant holds of the store alone.                                 *)
LEMMA StoreInvariance == Store!Spec => []Store!StoreInv
BY StoreInit, StoreStep, PTL DEF Store!Spec

(* A message is on a tape of its session or in an archive, and entry ids   *)
(* grow along a tape, whatever is archived, compacted, restarted or killed,*)
(* as long as one process at a time writes it (session.py:314-344,         *)
(* 959-1007).                                                              *)
THEOREM SessionsLoseNothing == Spec => []NothingLost
<1>1. Store!StoreInv \/ part # "store" => NothingLost
  BY StoreTells DEF NothingLost
<1> QED  BY <1>1, StoreAlone, StoreInvariance, PTL

(* What is persisted under an id is read back under it, the id a row shows *)
(* opens that row, and a tape begins with its start anchor, for a session  *)
(* that nobody pulled away (session.py:873-957, 1109-1122).                *)
THEOREM StoreReadsWhatItWrote ==
  Store!Spec => [](Store!ReadsWhatItWrote /\ Store!RowsOpenThemselves /\ Store!BootstrapFirst)
<1>1. Store!StoreInv =>
        Store!ReadsWhatItWrote /\ Store!RowsOpenThemselves /\ Store!BootstrapFirst
  BY StoreTells
<1> QED  BY <1>1, StoreInvariance, PTL

-----------------------------------------------------------------------------
(* Types, and what a closed context or a stopped server has forgotten: no  *)
(* context has more connections than it takes (session_context.py:280-293),*)
(* a stopped server's persister has no session cached.                     *)
THEOREM SessionsKeepTheirTypes == Spec => []TypeOK
<1>1. Context!Init => Room
  <2>1. SUFFICES ASSUME Context!Init  PROVE Room
    OBVIOUS
  <2>2. \A k : Members(k) = {}
    BY <2>1 DEF Context!Init, Members, Context!Attached, Context!Range
  <2> QED  BY <2>2, FS_EmptySet, ContextParameters DEF Room, Context!Parameters
<1>2. Context!ContextInv /\ Room => Context!TypeOK
  <2>1. SUFFICES ASSUME Context!ContextInv, Room  PROVE Context!TypeOK
    OBVIOUS
  <2>2. Context!Types
    BY <2>1 DEF Context!ContextInv
  <2>3. ASSUME NEW k \in 1..v4  PROVE Len(Context!Connections(k)) <= MaxConnections
    <3>1. k \in Nat
      BY <2>2 DEF Context!Types
    <3> QED  BY <2>1, <2>2, <3>1, Counted DEF Room
  <2> QED  BY <2>2, <2>3 DEF Context!TypeOK
<1>3. Context!Spec => [](Context!ContextInv /\ Room)
  BY <1>1, RoomStep, ContextParameters, ContextInit, ContextStep, PTL DEF Context!Spec
<1>4. Store!StoreInv => Store!TypeOK
  BY StoreTells
<1>5. /\ Tape!TypeOK \/ part # "tape"
      /\ (Context!ContextInv /\ Room) \/ part # "context"
      /\ Store!StoreInv \/ part # "store"
      => TypeOK
  BY <1>2, <1>4 DEF TypeOK
<1> QED
  BY <1>3, <1>5, TapeAlone, TapeParameters, Tape!TapeKeepsItsTypes, ContextAlone, StoreAlone,
     StoreInvariance, PTL
=============================================================================
