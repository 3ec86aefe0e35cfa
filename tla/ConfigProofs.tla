---------------------------- MODULE ConfigProofs ----------------------------
(***************************************************************************)
(* Proofs about the configuration (ConfigStore), for every set of          *)
(* instances and of requests that overlap, and any number of them.  First  *)
(* what an action does, as facts about the queue and the two copies of a   *)
(* key; then each key through each step; then the boot.                    *)
(***************************************************************************)
EXTENDS ConfigStore, SequenceTheorems, FiniteSetTheorems, TLAPS

(* The head of a queue, and what is left of it.                            *)
LEMMA Popped ==
  ASSUME NEW S, NEW s \in Seq(S), s # <<>>
  PROVE  /\ Head(s) \in S /\ Head(s) = s[1] /\ Len(s) \in Nat /\ Len(s) >= 1
         /\ Tail(s) \in Seq(S) /\ Len(Tail(s)) = Len(s) - 1
         /\ \A n \in 1..(Len(s) - 1) : Tail(s)[n] = s[n + 1]
OBVIOUS

(* One more at its end.                                                    *)
LEMMA Appended ==
  ASSUME NEW S, NEW s \in Seq(S), NEW x \in S
  PROVE  /\ Append(s, x) \in Seq(S) /\ Len(s) \in Nat /\ Len(Append(s, x)) = Len(s) + 1
         /\ Append(s, x)[Len(s) + 1] = x
         /\ \A n \in 1..Len(s) : Append(s, x)[n] = s[n]
OBVIOUS

(* The keys of the store are different.                                    *)
LEMMA KeysDiffer ==
  ASSUME Parameters
  PROVE  /\ \A i \in Instances : Plugin(i) \in Keys /\ ApiKey(i) \in Keys
         /\ \A i \in Instances : Plugin(i)[1] = i /\ ApiKey(i)[1] = i
         /\ \A i \in Instances : Plugin(i) \notin {Active, Migrated, Seeded, Legacy}
         /\ \A i \in Instances : ApiKey(i) \notin {Active, Migrated, Seeded, Legacy}
         /\ \A i, j \in Instances : Plugin(i) # ApiKey(j)
         /\ {Active, Migrated, Seeded, Legacy} \subseteq Keys
         /\ Active # Migrated /\ Active # Seeded /\ Active # Legacy
         /\ Migrated # Seeded /\ Migrated # Legacy /\ Seeded # Legacy
<1>1. \A i \in Instances : Plugin(i) \in InstanceKeys /\ ApiKey(i) \in InstanceKeys
  BY DEF InstanceKeys
<1>2. /\ Active[2] = "provider" /\ Migrated[2] = "migrated" /\ Seeded[2] = "seeded"
      /\ Legacy[2] = "api_key"
  BY DEF Active, Migrated, Seeded, Legacy
<1>3. \A i \in Instances : Plugin(i)[2] = "plugin" /\ ApiKey(i)[2] = "api_key"
                           /\ Plugin(i)[1] = i /\ ApiKey(i)[1] = i
  BY DEF Plugin, ApiKey
<1>4. "provider" # "migrated" /\ "provider" # "seeded" /\ "provider" # "api_key"
      /\ "migrated" # "seeded" /\ "migrated" # "api_key" /\ "seeded" # "api_key"
      /\ "plugin" # "provider" /\ "plugin" # "migrated" /\ "plugin" # "seeded"
      /\ "plugin" # "api_key"
  OBVIOUS
<1> QED  BY <1>1, <1>2, <1>3, <1>4 DEF Keys, Parameters

(* The values of the keys that are written by name.                        *)
LEMMA ValuesAre ==
  ASSUME Parameters
  PROVE  /\ \A i \in Instances : "openai" \in Values(Plugin(i))
         /\ \A i \in Instances : Values(ApiKey(i)) = Values(Legacy)
         /\ Values(Legacy) = {"key1", "key2"} /\ Values(Active) = Instances
<1>1. \A i \in Instances : Plugin(i) # Active /\ ApiKey(i) # Active
  BY KeysDiffer
<1>2. Legacy # Active
  BY KeysDiffer
<1>3. \A i \in Instances : Plugin(i)[2] = "plugin" /\ ApiKey(i)[2] = "api_key"
  BY DEF Plugin, ApiKey
<1>4. Legacy[2] = "api_key" /\ "api_key" # "plugin"
  BY DEF Legacy
<1> QED  BY <1>1, <1>2, <1>3, <1>4 DEF Values

(* A list of writes of values to their keys is a list of writes.           *)
LEMMA FitList ==
  ASSUME NEW s \in Seq(FitOp)
  PROVE  s \in Seq(Op) /\ \A n \in DOMAIN s : Fit(s[n])
<1>1. FitOp \subseteq Op /\ \A op \in FitOp : Fit(op)
  BY DEF FitOp
<1>2. s \in [1..Len(s) -> FitOp] /\ Len(s) \in Nat
  OBVIOUS
<1>3. s \in [1..Len(s) -> Op]
  BY <1>1, <1>2
<1> QED  BY <1>1, <1>2, <1>3

(* A request is a list of writes of values to their keys.                  *)
LEMMA RequestIs ==
  ASSUME Parameters, Types,
         \/ \E t \in Requests, i \in Instances :
              CreateInstance(t, i) \/ PatchInstance(t, i) \/ DeleteInstance(t, i) \/ SetActive(t, i)
         \/ \E t \in Requests, k \in Writable : ConfigPatch(t, k) \/ ConfigDelete(t, k)
  PROVE  \E t \in Requests : \E ops \in Seq(FitOp) : Handle(t, ops)
<1>1. \A k \in Keys : Unset(k) \in FitOp
  BY DEF Unset, Write, Op, Data, FitOp, Fit, ValuesOf
<1>2. \A k \in Keys : \A v \in Values(k) : Set(k, v) \in FitOp
  <2>1. \A k \in Keys : \A v \in Values(k) : v \in Data
    BY DEF Values, Data
  <2> QED  BY <2>1 DEF Set, Write, Op, FitOp, Fit, ValuesOf
<1>3. /\ \A i \in Instances : "openai" \in Values(Plugin(i))
      /\ \A i \in Instances : "key1" \in Values(ApiKey(i)) /\ "key2" \in Values(ApiKey(i))
      /\ Values(Active) = Instances
  BY ValuesAre
<1>4. \A i \in Instances : Plugin(i) \in Keys /\ ApiKey(i) \in Keys
  BY KeysDiffer
<1>5. Writable \subseteq Keys /\ Active \in Keys
  BY DEF Writable, Keys
<1>6. ASSUME NEW t \in Requests, NEW i \in Instances, CreateInstance(t, i)
      PROVE  \E ops \in Seq(FitOp) : Handle(t, ops)
  <2>1. Set(Plugin(i), "openai") \in FitOp /\ Set(ApiKey(i), "key1") \in FitOp
    BY <1>2, <1>3, <1>4
  <2>2. /\ <<Set(Plugin(i), "openai")>> \in Seq(FitOp)
        /\ <<Set(Plugin(i), "openai"), Set(ApiKey(i), "key1")>> \in Seq(FitOp)
    BY <2>1
  <2> QED  BY <1>6, <2>2 DEF CreateInstance
<1>7. ASSUME NEW t \in Requests, NEW i \in Instances, PatchInstance(t, i)
      PROVE  \E ops \in Seq(FitOp) : Handle(t, ops)
  <2>1. Set(ApiKey(i), "key2") \in FitOp
    BY <1>2, <1>3, <1>4
  <2>2. <<Set(ApiKey(i), "key2")>> \in Seq(FitOp)
    BY <2>1
  <2> QED  BY <1>7, <2>2 DEF PatchInstance
<1>8. ASSUME NEW t \in Requests, NEW i \in Instances, DeleteInstance(t, i)
      PROVE  \E ops \in Seq(FitOp) : Handle(t, ops)
  <2>1. \A k \in Keys : <<Unset(k)>> \in Seq(FitOp)
    BY <1>1
  <2>2. Dropped(ApiKey(i)) \in Seq(FitOp) /\ Dropped(Plugin(i)) \in Seq(FitOp)
    BY <1>4, <2>1 DEF Dropped
  <2>3. Dropped(ApiKey(i)) \o Dropped(Plugin(i)) \in Seq(FitOp)
    BY <2>2, ConcatProperties
  <2> QED  BY <1>8, <2>3 DEF DeleteInstance
<1>9. ASSUME NEW t \in Requests, NEW i \in Instances, SetActive(t, i)
      PROVE  \E ops \in Seq(FitOp) : Handle(t, ops)
  <2>1. <<Set(Active, i)>> \in Seq(FitOp)
    BY <1>2, <1>3, <1>5
  <2> QED  BY <1>9, <2>1 DEF SetActive
<1>10. ASSUME NEW t \in Requests, NEW k \in Writable, ConfigPatch(t, k)
       PROVE  \E ops \in Seq(FitOp) : Handle(t, ops)
  <2>1. PICK v \in Values(k) : Handle(t, <<Set(k, v)>>)
    BY <1>10 DEF ConfigPatch
  <2>2. <<Set(k, v)>> \in Seq(FitOp)
    BY <1>2, <1>5, <2>1
  <2> QED  BY <2>1, <2>2
<1>11. ASSUME NEW t \in Requests, NEW k \in Writable, ConfigDelete(t, k)
       PROVE  \E ops \in Seq(FitOp) : Handle(t, ops)
  <2>1. <<Unset(k)>> \in Seq(FitOp)
    BY <1>1, <1>5
  <2> QED  BY <1>11, <2>1 DEF ConfigDelete
<1> QED  BY <1>6, <1>7, <1>8, <1>9, <1>10, <1>11

(* Who is told, and of what.                                               *)
LEMMA UpdateHas ==
  ASSUME NEW s \in Seq(Update)
  PROVE  \A n \in DOMAIN s : s[n] \in Update /\ s[n].by \in Tasks /\ s[n].key \in Keys
<1>1. \A u \in Update : u.by \in Tasks /\ u.key \in Keys  BY DEF Update
<1> QED  BY <1>1

(* What the start of a write does, in full.                                *)
LEMMA IssueIs ==
  ASSUME Types, Waits, NEW t \in Tasks, Issue(t)
  PROVE  \E op \in Op :
           /\ op = Head(task[t].ops) /\ task[t].at = "next" /\ task[t].ops # <<>>
           /\ phase # "down" /\ Tail(task[t].ops) \in Seq(Op)
           /\ db' = db /\ cache' = cache /\ ran' = ran /\ updates' = updates
           /\ clients' = clients /\ phase' = phase /\ requests' = requests /\ downs' = downs
           /\ DOMAIN task' = Tasks /\ \A u \in Tasks \ {t} : task'[u] = task[u]
           /\ \/ /\ Skipped(op) /\ queue' = queue /\ apart' = apart
                 /\ task'[t] = [at |-> "next", ops |-> Tail(task[t].ops)]
              \/ /\ ~Skipped(op)
                 /\ \E w \in OnItsWay :
                      /\ w.by = t /\ w.op = Resolved(op) /\ w.blind = Blind(op)
                      /\ queue' = Append(queue, w)
                 /\ task'[t] = [at |-> "db", ops |-> task[t].ops]
                 /\ apart' = IF Blind(op) /\ InFlight(op.key) THEN apart \cup {op.key} ELSE apart
<1>1. PICK op : op = Head(task[t].ops)  OBVIOUS
<1>2. /\ task[t].at = "next" /\ task[t].ops # <<>>
      /\ db' = db /\ cache' = cache /\ ran' = ran /\ updates' = updates
      /\ clients' = clients /\ phase' = phase /\ requests' = requests /\ downs' = downs
      /\ \/ /\ Skipped(op) /\ queue' = queue /\ apart' = apart
            /\ task' = [task EXCEPT ![t].ops = Tail(@)]
         \/ /\ ~Skipped(op)
            /\ queue' = Append(queue, [by |-> t, op |-> Resolved(op), blind |-> Blind(op), hit |-> TRUE])
            /\ task' = [task EXCEPT ![t].at = "db"]
            /\ apart' = IF Blind(op) /\ InFlight(op.key) THEN apart \cup {op.key} ELSE apart
  BY <1>1 DEF Issue, countVars
<1>3. task \in [Tasks -> [at : {"next", "db", "publishing"}, ops : Seq(Op)]] /\ cache \in [Keys -> Data]
  BY DEF Types
<1>4. task[t].ops \in Seq(Op)
  BY <1>3
<1>5. op \in Op /\ Tail(task[t].ops) \in Seq(Op)
  BY <1>1, <1>2, <1>4, Popped
<1>6. phase # "down"
  <2>1. phase = "down" => task[t].ops = <<>>
    BY DEF Waits, NoTask
  <2> QED  BY <1>2, <2>1
<1>7. DOMAIN task' = Tasks /\ \A u \in Tasks \ {t} : task'[u] = task[u]
  BY <1>2, <1>3
<1>8. CASE Skipped(op) /\ queue' = queue /\ apart' = apart /\ task' = [task EXCEPT ![t].ops = Tail(@)]
  <2>1. task'[t] = [at |-> "next", ops |-> Tail(task[t].ops)]
    BY <1>2, <1>3, <1>8
  <2> QED  BY <1>1, <1>2, <1>5, <1>6, <1>7, <1>8, <2>1
<1>9. CASE /\ ~Skipped(op)
           /\ queue' = Append(queue, [by |-> t, op |-> Resolved(op), blind |-> Blind(op), hit |-> TRUE])
           /\ task' = [task EXCEPT ![t].at = "db"]
           /\ apart' = IF Blind(op) /\ InFlight(op.key) THEN apart \cup {op.key} ELSE apart
  <2>1. task'[t] = [at |-> "db", ops |-> task[t].ops]
    BY <1>2, <1>3, <1>9
  <2>2. Resolved(op) \in Op
    <3>1. Legacy \in Keys  BY DEF Keys
    <3>2. cache[Legacy] \in Data  BY <1>3, <3>1
    <3> QED  BY <1>5, <3>2 DEF Resolved, Op
  <2>3. Blind(op) \in BOOLEAN /\ (Blind(op) => Resolved(op).what = "unset")
    BY DEF Blind, Resolved
  <2>4. PICK b : b = Blind(op)  OBVIOUS
  <2>5. PICK r : r = Resolved(op)  OBVIOUS
  <2>6. PICK w : w = [by |-> t, op |-> r, blind |-> b, hit |-> TRUE]  OBVIOUS
  <2>7. w \in OnItsWay /\ w.by = t /\ w.op = r /\ w.blind = b
    BY <2>2, <2>3, <2>4, <2>5, <2>6 DEF OnItsWay
  <2>8. queue' = Append(queue, w)
    BY <1>9, <2>4, <2>5, <2>6
  <2>9. /\ \E x \in OnItsWay :
             /\ x.by = t /\ x.op = Resolved(op) /\ x.blind = Blind(op)
             /\ queue' = Append(queue, x)
    BY <2>4, <2>5, <2>7, <2>8
  <2> QED  BY <1>1, <1>2, <1>5, <1>6, <1>7, <1>9, <2>1, <2>9
<1> QED  BY <1>2, <1>8, <1>9

(* What the database thread does.                                          *)
LEMMA RunIs ==
  ASSUME Types, Waits, DatabaseRuns
  PROVE  \E w \in OnItsWay, x \in OnItsWay :
           /\ w = Head(queue) /\ queue # <<>> /\ queue' = Tail(queue) /\ phase # "down"
           /\ x.by = w.by /\ x.op = w.op /\ x.blind = w.blind /\ ran' = Append(ran, x)
           /\ w.op.key \in Keys /\ w.op.val \in Data /\ db' = [db EXCEPT ![w.op.key] = w.op.val]
           /\ cache' = cache /\ updates' = updates /\ clients' = clients /\ task' = task
           /\ phase' = phase /\ requests' = requests /\ downs' = downs /\ apart' = apart
<1>1. PICK w : w = Head(queue)  OBVIOUS
<1>2. PICK x : x = [w EXCEPT !.hit = db[w.op.key] # None]  OBVIOUS
<1>3. /\ queue # <<>> /\ queue' = Tail(queue) /\ ran' = Append(ran, x)
      /\ db' = [db EXCEPT ![w.op.key] = w.op.val]
      /\ cache' = cache /\ updates' = updates /\ clients' = clients /\ task' = task
      /\ phase' = phase /\ requests' = requests /\ downs' = downs /\ apart' = apart
  BY <1>1, <1>2 DEF DatabaseRuns, countVars
<1>4. w \in OnItsWay
  BY <1>1, <1>3, Popped DEF Types
<1>5. PICK h \in BOOLEAN : x = [w EXCEPT !.hit = h]
  BY <1>2
<1>6. x \in OnItsWay /\ x.by = w.by /\ x.op = w.op /\ x.blind = w.blind
  BY <1>4, <1>5 DEF OnItsWay
<1>7. w.op.key \in Keys /\ w.op.val \in Data
  BY <1>4 DEF OnItsWay, Op
<1>8. phase # "down"
  BY <1>3 DEF Waits
<1> QED  BY <1>1, <1>3, <1>4, <1>6, <1>7, <1>8

(* What the coroutine of a write does when it resumes.                     *)
LEMMA ResumeIs ==
  ASSUME Types, Waits, Resume
  PROVE  \E w \in OnItsWay :
           /\ w = Head(ran) /\ ran # <<>> /\ ran' = Tail(ran) /\ phase # "down"
           /\ w.by \in Tasks /\ w.op \in Op /\ w.op.key \in Keys /\ w.op.val \in Data
           /\ task[w.by].at = "db" /\ task[w.by].ops # <<>> /\ Tail(task[w.by].ops) \in Seq(Op)
           /\ cache' = IF w.blind THEN cache ELSE [cache EXCEPT ![w.op.key] = w.op.val]
           /\ DOMAIN task' = Tasks /\ \A u \in Tasks \ {w.by} : task'[u] = task[u]
           /\ \/ /\ w.blind \/ w.op.what = "migrate"
                 /\ updates' = updates
                 /\ task'[w.by] = [at |-> "next", ops |-> Tail(task[w.by].ops)]
              \/ /\ w.op.what # "migrate"
                 /\ \E u \in Update :
                      u.by = w.by /\ u.key = w.op.key /\ updates' = Append(updates, u)
                 /\ task'[w.by] = [at |-> "publishing", ops |-> task[w.by].ops]
           /\ db' = db /\ queue' = queue /\ clients' = clients
           /\ phase' = phase /\ requests' = requests /\ downs' = downs /\ apart' = apart
<1>1. PICK w : w = Head(ran)  OBVIOUS
<1>2. PICK u : u = [by |-> w.by, key |-> w.op.key]  OBVIOUS
<1>3. /\ ran # <<>> /\ ran' = Tail(ran)
      /\ cache' = IF w.blind THEN cache ELSE [cache EXCEPT ![w.op.key] = w.op.val]
      /\ updates' = IF Quiet(w) THEN updates ELSE Append(updates, u)
      /\ task' = [task EXCEPT ![w.by] = IF Quiet(w) THEN [at |-> "next", ops |-> Tail(@.ops)]
                                        ELSE [@ EXCEPT !.at = "publishing"]]
      /\ db' = db /\ queue' = queue /\ clients' = clients
      /\ phase' = phase /\ requests' = requests /\ downs' = downs /\ apart' = apart
  BY <1>1, <1>2 DEF Resume, countVars
<1>4. w \in OnItsWay /\ w = ran[1] /\ 1 \in DOMAIN ran
  BY <1>1, <1>3, Popped DEF Types
<1>5. w.by \in Tasks /\ w.op \in Op /\ w.op.key \in Keys /\ w.op.val \in Data
  BY <1>4 DEF OnItsWay, Op
<1>6. task \in [Tasks -> [at : {"next", "db", "publishing"}, ops : Seq(Op)]]
  BY DEF Types
<1>7. task[w.by].at = "db" /\ task[w.by].ops # <<>>
  BY <1>4, <1>5 DEF Waits
<1>8. Tail(task[w.by].ops) \in Seq(Op)
  BY <1>5, <1>6, <1>7, Popped
<1>9. phase # "down"
  BY <1>3 DEF Waits
<1>10. DOMAIN task' = Tasks /\ \A v \in Tasks \ {w.by} : task'[v] = task[v]
  BY <1>3, <1>5, <1>6
<1>11. u \in Update /\ u.by = w.by /\ u.key = w.op.key
  BY <1>2, <1>5 DEF Update
<1>12. CASE Quiet(w)
  <2>1. w.blind \/ w.op.what = "migrate"
    BY <1>12 DEF Quiet
  <2>2. task'[w.by] = [at |-> "next", ops |-> Tail(task[w.by].ops)] /\ updates' = updates
    BY <1>3, <1>5, <1>6, <1>12
  <2> QED  BY <1>1, <1>3, <1>4, <1>5, <1>7, <1>8, <1>9, <1>10, <2>1, <2>2
<1>13. CASE ~Quiet(w)
  <2>1. w.op.what # "migrate"
    BY <1>13 DEF Quiet
  <2>2. task'[w.by] = [at |-> "publishing", ops |-> task[w.by].ops] /\ updates' = Append(updates, u)
    BY <1>3, <1>5, <1>6, <1>13
  <2> QED  BY <1>1, <1>3, <1>4, <1>5, <1>7, <1>8, <1>9, <1>10, <1>11, <2>1, <2>2
<1> QED  BY <1>12, <1>13

(* What the delivery of config.updated does.                               *)
LEMMA DeliverIs ==
  ASSUME Types, Waits, Deliver
  PROVE  \E u \in Update :
           /\ u = Head(updates) /\ updates # <<>> /\ updates' = Tail(updates) /\ phase # "down"
           /\ u.by \in Tasks /\ u.key \in Keys
           /\ task[u.by].at = "publishing" /\ task[u.by].ops # <<>> /\ Tail(task[u.by].ops) \in Seq(Op)
           /\ clients' = IF u.key[1] \in Instances THEN [clients EXCEPT ![u.key[1]] = ClientOf(u.key[1])]
                         ELSE clients
           /\ DOMAIN task' = Tasks /\ \A v \in Tasks \ {u.by} : task'[v] = task[v]
           /\ task'[u.by] = [at |-> "next", ops |-> Tail(task[u.by].ops)]
           /\ db' = db /\ cache' = cache /\ queue' = queue /\ ran' = ran
           /\ phase' = phase /\ requests' = requests /\ downs' = downs /\ apart' = apart
<1>1. PICK u : u = Head(updates)  OBVIOUS
<1>2. /\ updates # <<>> /\ updates' = Tail(updates)
      /\ clients' = IF u.key[1] \in Instances THEN [clients EXCEPT ![u.key[1]] = ClientOf(u.key[1])]
                    ELSE clients
      /\ task' = [task EXCEPT ![u.by] = [at |-> "next", ops |-> Tail(@.ops)]]
      /\ db' = db /\ cache' = cache /\ queue' = queue /\ ran' = ran
      /\ phase' = phase /\ requests' = requests /\ downs' = downs /\ apart' = apart
  BY <1>1 DEF Deliver, countVars
<1>3. u \in Update /\ u = updates[1] /\ 1 \in DOMAIN updates
  BY <1>1, <1>2, Popped DEF Types
<1>4. task \in [Tasks -> [at : {"next", "db", "publishing"}, ops : Seq(Op)]] /\ u.by \in Tasks /\ u.key \in Keys
  BY <1>3 DEF Types, Update
<1>5. task[u.by].at = "publishing" /\ task[u.by].ops # <<>>
  BY <1>3, <1>4 DEF Waits
<1>6. Tail(task[u.by].ops) \in Seq(Op)
  BY <1>4, <1>5, Popped
<1>7. phase # "down"
  BY <1>2 DEF Waits
<1>8. /\ DOMAIN task' = Tasks /\ \A v \in Tasks \ {u.by} : task'[v] = task[v]
      /\ task'[u.by] = [at |-> "next", ops |-> Tail(task[u.by].ops)]
  BY <1>2, <1>4
<1> QED  BY <1>1, <1>2, <1>3, <1>4, <1>5, <1>6, <1>7, <1>8

(* Types, and who waits for what, are kept by each step.                   *)
TypesWaits == Types /\ Waits

LEMMA IssueTypes ==
  ASSUME Types, Waits, NEW t \in Tasks, Issue(t)
  PROVE  TypesWaits'
<1>1. PICK op \in Op :
           /\ task[t].at = "next" /\ task[t].ops # <<>>
           /\ phase # "down" /\ Tail(task[t].ops) \in Seq(Op)
           /\ db' = db /\ cache' = cache /\ ran' = ran /\ updates' = updates
           /\ clients' = clients /\ phase' = phase /\ requests' = requests /\ downs' = downs
           /\ DOMAIN task' = Tasks /\ \A u \in Tasks \ {t} : task'[u] = task[u]
           /\ \/ /\ queue' = queue /\ apart' = apart
                 /\ task'[t] = [at |-> "next", ops |-> Tail(task[t].ops)]
              \/ /\ \E w \in OnItsWay : w.by = t /\ queue' = Append(queue, w)
                 /\ task'[t] = [at |-> "db", ops |-> task[t].ops]
                 /\ apart' \in {apart, apart \cup {op.key}}
  <2>1. PICK op \in Op :
           /\ op = Head(task[t].ops) /\ task[t].at = "next" /\ task[t].ops # <<>>
           /\ phase # "down" /\ Tail(task[t].ops) \in Seq(Op)
           /\ db' = db /\ cache' = cache /\ ran' = ran /\ updates' = updates
           /\ clients' = clients /\ phase' = phase /\ requests' = requests /\ downs' = downs
           /\ DOMAIN task' = Tasks /\ \A u \in Tasks \ {t} : task'[u] = task[u]
           /\ \/ /\ Skipped(op) /\ queue' = queue /\ apart' = apart
                 /\ task'[t] = [at |-> "next", ops |-> Tail(task[t].ops)]
              \/ /\ ~Skipped(op)
                 /\ \E w \in OnItsWay :
                      /\ w.by = t /\ w.op = Resolved(op) /\ w.blind = Blind(op)
                      /\ queue' = Append(queue, w)
                 /\ task'[t] = [at |-> "db", ops |-> task[t].ops]
                 /\ apart' = IF Blind(op) /\ InFlight(op.key) THEN apart \cup {op.key} ELSE apart
    BY IssueIs, Zenon
  <2> QED  BY <2>1
<1>2. op.key \in Keys  BY DEF Op
<1>3. /\ task \in [Tasks -> [at : {"next", "db", "publishing"}, ops : Seq(Op)]]
      /\ queue \in Seq(OnItsWay) /\ apart \subseteq Keys
  BY DEF Types
<1>4. task' \in [Tasks -> [at : {"next", "db", "publishing"}, ops : Seq(Op)]]
  <2>1. \A u \in Tasks : task'[u] \in [at : {"next", "db", "publishing"}, ops : Seq(Op)]
    <3>1. task[t].ops \in Seq(Op)  BY <1>3
    <3>2. /\ [at |-> "next", ops |-> Tail(task[t].ops)] \in [at : {"next", "db", "publishing"}, ops : Seq(Op)]
          /\ [at |-> "db", ops |-> task[t].ops] \in [at : {"next", "db", "publishing"}, ops : Seq(Op)]
      BY <1>1, <3>1
    <3>3. task'[t] \in [at : {"next", "db", "publishing"}, ops : Seq(Op)]
      BY <1>1, <3>2, Zenon
    <3> QED  BY <1>1, <1>3, <3>3
  <2>2. task' = [u \in DOMAIN task' |-> task'[u]]
    BY <1>1, <1>3 DEF Issue
  <2> QED  BY <1>1, <2>1, <2>2
<1>5. queue' \in Seq(OnItsWay) /\ apart' \subseteq Keys
  <2>1. CASE queue' = queue /\ apart' = apart  BY <1>3, <2>1
  <2>2. ASSUME NEW w \in OnItsWay, queue' = Append(queue, w), apart' \in {apart, apart \cup {op.key}}
        PROVE  queue' \in Seq(OnItsWay) /\ apart' \subseteq Keys
    <3>1. queue' \in Seq(OnItsWay)  BY <1>3, <2>2, Appended
    <3> QED  BY <1>2, <1>3, <2>2, <3>1
  <2> QED  BY <1>1, <2>1, <2>2
<1>6. Types'
  BY <1>1, <1>4, <1>5 DEF Types
<1>7. Waits'
  <2>1. \A u \in Tasks : task'[u].at # "next" => task'[u].ops # <<>>
    BY <1>1 DEF Waits
  <2>2. ran \in Seq(OnItsWay) /\ updates \in Seq(Update) /\ \A w \in OnItsWay : w.by \in Tasks
    BY DEF Types, OnItsWay
  <2>3. \A n \in DOMAIN ran : ran[n].by # t
    BY <1>1 DEF Waits
  <2>4. \A n \in DOMAIN updates : updates[n].by # t
    BY <1>1 DEF Waits
  <2>5. \A n \in DOMAIN queue : queue[n].by # t
    BY <1>1 DEF Waits
  <2>6. \A n \in DOMAIN updates : updates[n].by \in Tasks
    BY <2>2, UpdateHas
  <2>7. /\ \A n \in DOMAIN ran : task'[ran[n].by].at = "db"
        /\ \A n \in DOMAIN updates : task'[updates[n].by].at = "publishing"
        /\ \A n \in DOMAIN queue : task'[queue[n].by].at = "db"
    <3>1. \A n \in DOMAIN ran : ran[n].by \in Tasks  BY <2>2
    <3>2. \A n \in DOMAIN queue : queue[n].by \in Tasks  BY <1>3, <2>2
    <3>3. \A u \in Tasks \ {t} : task'[u] = task[u]  BY <1>1
    <3> QED  BY <2>3, <2>4, <2>5, <2>6, <3>1, <3>2, <3>3 DEF Waits
  <2>8. CASE queue' = queue
    BY <1>1, <2>1, <2>7, <2>8 DEF Waits, Different
  <2>9. ASSUME NEW w \in OnItsWay, w.by = t, queue' = Append(queue, w), task'[t].at = "db"
        PROVE  Waits'
    <3>1. /\ DOMAIN queue' = 1..(Len(queue) + 1) /\ queue'[Len(queue) + 1] = w
          /\ DOMAIN queue = 1..Len(queue) /\ Len(queue) \in Nat
          /\ \A n \in 1..Len(queue) : queue'[n] = queue[n]
      BY <1>3, <1>5, <2>9, Appended
    <3>2. \A n \in DOMAIN queue' : task'[queue'[n].by].at = "db"
      BY <2>7, <2>9, <3>1
    <3>3. Different(queue')
      BY <2>5, <2>9, <3>1 DEF Waits, Different
    <3>4. \A m \in DOMAIN queue', n \in DOMAIN ran : queue'[m].by # ran[n].by
      BY <2>3, <2>9, <3>1 DEF Waits
    <3> QED  BY <1>1, <2>1, <2>7, <3>2, <3>3, <3>4 DEF Waits, Different
  <2> QED  BY <1>1, <2>8, <2>9
<1> QED  BY <1>6, <1>7 DEF TypesWaits

LEMMA RunTypes == ASSUME Types, Waits, DatabaseRuns  PROVE TypesWaits'
<1>1. PICK w \in OnItsWay, x \in OnItsWay :
           /\ w = Head(queue) /\ queue # <<>> /\ queue' = Tail(queue) /\ phase # "down"
           /\ x.by = w.by /\ x.op = w.op /\ x.blind = w.blind /\ ran' = Append(ran, x)
           /\ w.op.key \in Keys /\ w.op.val \in Data /\ db' = [db EXCEPT ![w.op.key] = w.op.val]
           /\ cache' = cache /\ updates' = updates /\ clients' = clients /\ task' = task
           /\ phase' = phase /\ requests' = requests /\ downs' = downs /\ apart' = apart
  BY RunIs, Zenon
<1>2. queue \in Seq(OnItsWay) /\ ran \in Seq(OnItsWay) /\ db \in [Keys -> Data]
  BY DEF Types
<1>3. /\ queue' \in Seq(OnItsWay) /\ w = queue[1] /\ 1 \in DOMAIN queue
      /\ DOMAIN queue' = 1..(Len(queue) - 1) /\ DOMAIN queue = 1..Len(queue) /\ Len(queue) \in Nat
      /\ \A n \in DOMAIN queue' : queue'[n] = queue[n + 1] /\ n + 1 \in DOMAIN queue
  BY <1>1, <1>2, Popped
<1>4. /\ ran' \in Seq(OnItsWay) /\ DOMAIN ran' = 1..(Len(ran) + 1) /\ ran'[Len(ran) + 1] = x
      /\ DOMAIN ran = 1..Len(ran) /\ Len(ran) \in Nat
      /\ \A n \in DOMAIN ran : ran'[n] = ran[n]
  BY <1>1, <1>2, Appended
<1>5. Types'
  BY <1>1, <1>2, <1>3, <1>4 DEF Types
<1>6. \A n \in DOMAIN queue' : queue'[n].by # w.by
  BY <1>3 DEF Waits, Different
<1>7. \A n \in DOMAIN ran : ran[n].by # w.by
  BY <1>3 DEF Waits
<1>8. Different(queue') /\ \A n \in DOMAIN queue' : task[queue'[n].by].at = "db"
  BY <1>3 DEF Waits, Different
<1>9. Different(ran') /\ \A n \in DOMAIN ran' : task[ran'[n].by].at = "db"
  <2>1. task[x.by].at = "db"
    BY <1>1, <1>3 DEF Waits
  <2>2. \A n \in DOMAIN ran' : ran'[n] = x \/ (n \in DOMAIN ran /\ ran'[n] = ran[n])
    BY <1>4
  <2>3. \A n \in DOMAIN ran' : task[ran'[n].by].at = "db"
    BY <2>1, <2>2 DEF Waits
  <2>4. ASSUME NEW m \in DOMAIN ran', NEW n \in DOMAIN ran', ran'[m].by = ran'[n].by  PROVE m = n
    BY <1>1, <1>4, <1>7, <2>4 DEF Waits, Different
  <2> QED  BY <2>3, <2>4 DEF Different
<1>10. \A m \in DOMAIN queue', n \in DOMAIN ran' : queue'[m].by # ran'[n].by
  BY <1>1, <1>3, <1>4, <1>6 DEF Waits
<1>11. Waits'
  BY <1>1, <1>8, <1>9, <1>10 DEF Waits, Different
<1> QED  BY <1>5, <1>11 DEF TypesWaits

LEMMA ResumeTypes == ASSUME Types, Waits, Resume  PROVE TypesWaits'
<1>1. PICK w \in OnItsWay :
           /\ w = Head(ran) /\ ran # <<>> /\ ran' = Tail(ran) /\ phase # "down"
           /\ w.by \in Tasks /\ w.op \in Op /\ w.op.key \in Keys /\ w.op.val \in Data
           /\ task[w.by].at = "db" /\ task[w.by].ops # <<>> /\ Tail(task[w.by].ops) \in Seq(Op)
           /\ cache' = IF w.blind THEN cache ELSE [cache EXCEPT ![w.op.key] = w.op.val]
           /\ DOMAIN task' = Tasks /\ \A u \in Tasks \ {w.by} : task'[u] = task[u]
           /\ \/ /\ w.blind \/ w.op.what = "migrate"
                 /\ updates' = updates
                 /\ task'[w.by] = [at |-> "next", ops |-> Tail(task[w.by].ops)]
              \/ /\ w.op.what # "migrate"
                 /\ \E u \in Update : u.by = w.by /\ u.key = w.op.key /\ updates' = Append(updates, u)
                 /\ task'[w.by] = [at |-> "publishing", ops |-> task[w.by].ops]
           /\ db' = db /\ queue' = queue /\ clients' = clients
           /\ phase' = phase /\ requests' = requests /\ downs' = downs /\ apart' = apart
  BY ResumeIs, Zenon
<1>2. /\ queue \in Seq(OnItsWay) /\ ran \in Seq(OnItsWay) /\ cache \in [Keys -> Data]
      /\ updates \in Seq(Update)
      /\ task \in [Tasks -> [at : {"next", "db", "publishing"}, ops : Seq(Op)]]
  BY DEF Types
<1>3. /\ ran' \in Seq(OnItsWay) /\ w = ran[1] /\ 1 \in DOMAIN ran
      /\ DOMAIN ran' = 1..(Len(ran) - 1) /\ DOMAIN ran = 1..Len(ran) /\ Len(ran) \in Nat
      /\ \A n \in DOMAIN ran' : ran'[n] = ran[n + 1] /\ n + 1 \in DOMAIN ran
  BY <1>1, <1>2, Popped
<1>4. cache' \in [Keys -> Data]
  BY <1>1, <1>2
<1>5. task' \in [Tasks -> [at : {"next", "db", "publishing"}, ops : Seq(Op)]]
  <2>1. task[w.by].ops \in Seq(Op)  BY <1>1, <1>2
  <2>2. /\ [at |-> "next", ops |-> Tail(task[w.by].ops)] \in [at : {"next", "db", "publishing"}, ops : Seq(Op)]
        /\ [at |-> "publishing", ops |-> task[w.by].ops] \in [at : {"next", "db", "publishing"}, ops : Seq(Op)]
    BY <1>1, <2>1
  <2>3. task'[w.by] \in [at : {"next", "db", "publishing"}, ops : Seq(Op)]
    BY <1>1, <2>2, Zenon
  <2>4. \A u \in Tasks : task'[u] \in [at : {"next", "db", "publishing"}, ops : Seq(Op)]
    <3>1. \A u \in Tasks \ {w.by} : task'[u] = task[u]  BY <1>1
    <3>2. \A u \in Tasks : task[u] \in [at : {"next", "db", "publishing"}, ops : Seq(Op)]  BY <1>2
    <3> QED  BY <2>3, <3>1, <3>2, Zenon
  <2>5. task' = [u \in DOMAIN task' |-> task'[u]]
    BY <1>2 DEF Resume
  <2> QED  BY <1>1, <2>4, <2>5
<1>6. /\ \A n \in DOMAIN updates : updates[n].by # w.by /\ updates[n].by \in Tasks
      /\ \A n \in DOMAIN queue : queue[n].by # w.by /\ queue[n].by \in Tasks
      /\ \A n \in DOMAIN ran' : ran'[n].by # w.by /\ ran'[n].by \in Tasks
  <2>1. \A n \in DOMAIN updates : updates[n].by # w.by  BY <1>1 DEF Waits
  <2>2. \A n \in DOMAIN updates : updates[n].by \in Tasks  BY <1>2, UpdateHas
  <2>3. \A n \in DOMAIN queue : queue[n].by # w.by  BY <1>3 DEF Waits
  <2>4. \A n \in DOMAIN queue : queue[n].by \in Tasks  BY <1>2 DEF OnItsWay
  <2>5. \A n \in DOMAIN ran' : ran'[n].by # w.by  BY <1>3 DEF Waits, Different
  <2>6. \A n \in DOMAIN ran' : ran'[n].by \in Tasks  BY <1>3 DEF OnItsWay
  <2> QED  BY <2>1, <2>2, <2>3, <2>4, <2>5, <2>6
<1>7. /\ \A n \in DOMAIN queue : task'[queue[n].by].at = "db"
      /\ \A n \in DOMAIN updates : task'[updates[n].by].at = "publishing"
      /\ \A n \in DOMAIN ran' : task'[ran'[n].by].at = "db"
  <2>1. \A u \in Tasks \ {w.by} : task'[u] = task[u]  BY <1>1
  <2> QED  BY <1>3, <1>6, <2>1 DEF Waits
<1>8. /\ Different(ran') /\ \A m \in DOMAIN queue, n \in DOMAIN ran' : queue[m].by # ran'[n].by
  <2>1. Different(ran')  BY <1>3 DEF Waits, Different
  <2>2. \A m \in DOMAIN queue, n \in DOMAIN ran' : queue[m].by # ran'[n].by  BY <1>3 DEF Waits
  <2> QED  BY <2>1, <2>2
<1>9. \A t \in Tasks : task'[t].at # "next" => task'[t].ops # <<>>
  <2>1. task'[w.by].at # "next" => task'[w.by].ops # <<>>  BY <1>1
  <2> QED  BY <1>1, <2>1 DEF Waits
<1>10. CASE updates' = updates
  <2>1. Types'  BY <1>1, <1>2, <1>3, <1>4, <1>5, <1>10 DEF Types
  <2>2. Waits'  BY <1>1, <1>7, <1>8, <1>9, <1>10 DEF Waits, Different
  <2> QED  BY <2>1, <2>2 DEF TypesWaits
<1>11. ASSUME NEW u \in Update, u.by = w.by, updates' = Append(updates, u), task'[w.by].at = "publishing"
       PROVE  TypesWaits'
  <2>1. /\ updates' \in Seq(Update) /\ DOMAIN updates' = 1..(Len(updates) + 1)
        /\ updates'[Len(updates) + 1] = u /\ DOMAIN updates = 1..Len(updates) /\ Len(updates) \in Nat
        /\ \A n \in DOMAIN updates : updates'[n] = updates[n]
    BY <1>2, <1>11, Appended
  <2>2. \A n \in DOMAIN updates' : task'[updates'[n].by].at = "publishing"
    BY <1>7, <1>11, <2>1
  <2>3. Different(updates')
    BY <1>6, <1>11, <2>1 DEF Waits, Different
  <2>4. Types'
    BY <1>1, <1>2, <1>3, <1>4, <1>5, <2>1 DEF Types
  <2>5. Waits'
    BY <1>1, <1>7, <1>8, <1>9, <2>2, <2>3 DEF Waits, Different
  <2> QED  BY <2>4, <2>5 DEF TypesWaits
<1> QED  BY <1>1, <1>10, <1>11

LEMMA DeliverTypes == ASSUME Parameters, Types, Waits, Deliver  PROVE TypesWaits'
<1>1. PICK u \in Update :
           /\ u = Head(updates) /\ updates # <<>> /\ updates' = Tail(updates) /\ phase # "down"
           /\ u.by \in Tasks /\ u.key \in Keys
           /\ task[u.by].at = "publishing" /\ task[u.by].ops # <<>> /\ Tail(task[u.by].ops) \in Seq(Op)
           /\ clients' = IF u.key[1] \in Instances THEN [clients EXCEPT ![u.key[1]] = ClientOf(u.key[1])]
                         ELSE clients
           /\ DOMAIN task' = Tasks /\ \A v \in Tasks \ {u.by} : task'[v] = task[v]
           /\ task'[u.by] = [at |-> "next", ops |-> Tail(task[u.by].ops)]
           /\ db' = db /\ cache' = cache /\ queue' = queue /\ ran' = ran
           /\ phase' = phase /\ requests' = requests /\ downs' = downs /\ apart' = apart
  BY DeliverIs, Zenon
<1>2. /\ queue \in Seq(OnItsWay) /\ ran \in Seq(OnItsWay) /\ cache \in [Keys -> Data]
      /\ updates \in Seq(Update) /\ clients \in [Instances -> Data]
      /\ task \in [Tasks -> [at : {"next", "db", "publishing"}, ops : Seq(Op)]]
  BY DEF Types
<1>3. /\ updates' \in Seq(Update) /\ u = updates[1] /\ 1 \in DOMAIN updates
      /\ DOMAIN updates' = 1..(Len(updates) - 1) /\ DOMAIN updates = 1..Len(updates) /\ Len(updates) \in Nat
      /\ \A n \in DOMAIN updates' : updates'[n] = updates[n + 1] /\ n + 1 \in DOMAIN updates
  BY <1>1, <1>2, Popped
<1>4. clients' \in [Instances -> Data]
  <2>1. \A i \in Instances : ClientOf(i) \in Data
    BY <1>2, KeysDiffer DEF ClientOf, Data
  <2> QED  BY <1>1, <1>2, <2>1
<1>5. task' \in [Tasks -> [at : {"next", "db", "publishing"}, ops : Seq(Op)]]
  <2>1. [at |-> "next", ops |-> Tail(task[u.by].ops)] \in [at : {"next", "db", "publishing"}, ops : Seq(Op)]
    BY <1>1
  <2>2. \A v \in Tasks : task'[v] \in [at : {"next", "db", "publishing"}, ops : Seq(Op)]
    BY <1>1, <1>2, <2>1
  <2>3. task' = [v \in DOMAIN task' |-> task'[v]]
    BY <1>2 DEF Deliver
  <2> QED  BY <1>1, <2>2, <2>3
<1>6. Types'
  BY <1>1, <1>2, <1>3, <1>4, <1>5 DEF Types
<1>7. /\ \A n \in DOMAIN ran : ran[n].by # u.by /\ ran[n].by \in Tasks
      /\ \A n \in DOMAIN queue : queue[n].by # u.by /\ queue[n].by \in Tasks
      /\ \A n \in DOMAIN updates' : updates'[n].by # u.by /\ updates'[n].by \in Tasks
  <2>1. \A n \in DOMAIN ran : ran[n].by # u.by  BY <1>1 DEF Waits
  <2>2. \A n \in DOMAIN ran : ran[n].by \in Tasks  BY <1>2 DEF OnItsWay
  <2>3. \A n \in DOMAIN queue : queue[n].by # u.by  BY <1>1 DEF Waits
  <2>4. \A n \in DOMAIN queue : queue[n].by \in Tasks  BY <1>2 DEF OnItsWay
  <2>5. \A n \in DOMAIN updates' : updates'[n].by # u.by  BY <1>3 DEF Waits, Different
  <2>6. \A n \in DOMAIN updates' : updates'[n].by \in Tasks  BY <1>3, UpdateHas
  <2> QED  BY <2>1, <2>2, <2>3, <2>4, <2>5, <2>6
<1>8. /\ \A n \in DOMAIN queue : task'[queue[n].by].at = "db"
      /\ \A n \in DOMAIN ran : task'[ran[n].by].at = "db"
      /\ \A n \in DOMAIN updates' : task'[updates'[n].by].at = "publishing"
  <2>1. \A v \in Tasks \ {u.by} : task'[v] = task[v]  BY <1>1
  <2> QED  BY <1>3, <1>7, <2>1 DEF Waits
<1>9. Different(updates')
  BY <1>3 DEF Waits, Different
<1>10. \A t \in Tasks : task'[t].at # "next" => task'[t].ops # <<>>
  BY <1>1 DEF Waits
<1>11. Waits'
  BY <1>1, <1>8, <1>9, <1>10 DEF Waits, Different
<1> QED  BY <1>6, <1>11 DEF TypesWaits

(* The other steps start, end or hand out lists of writes.                 *)
LEMMA Assigned ==
  ASSUME Types, Waits, NEW t \in Tasks, NEW ops \in Seq(Op), task[t].at = "next",
         task' = [task EXCEPT ![t].ops = ops]
  PROVE  /\ task' \in [Tasks -> [at : {"next", "db", "publishing"}, ops : Seq(Op)]]
         /\ task'[t] = [at |-> "next", ops |-> ops]
         /\ \A u \in Tasks \ {t} : task'[u] = task[u]
         /\ \A u \in Tasks : task'[u].at = task[u].at
         /\ \A u \in Tasks : task'[u].at # "next" => task'[u].ops # <<>>
<1>1. task \in [Tasks -> [at : {"next", "db", "publishing"}, ops : Seq(Op)]]
  BY DEF Types
<1>2. task'[t] = [at |-> "next", ops |-> ops] /\ \A u \in Tasks \ {t} : task'[u] = task[u]
  BY <1>1
<1>3. task' \in [Tasks -> [at : {"next", "db", "publishing"}, ops : Seq(Op)]]
  BY <1>1
<1> QED  BY <1>2, <1>3 DEF Waits

LEMMA AssignTypes ==
  ASSUME Types, Waits, NEW t \in Tasks, NEW ops \in Seq(Op), task[t].at = "next",
         task' = [task EXCEPT ![t].ops = ops],
         queue' = queue, ran' = ran, updates' = updates,
         db' = db, cache' \in [Keys -> Data], clients' \in [Instances -> Data],
         phase' \in {"migrating", "seeding", "ready"}, requests' \in Nat, downs' = downs,
         apart' \subseteq Keys
  PROVE  TypesWaits'
<1>1. /\ task' \in [Tasks -> [at : {"next", "db", "publishing"}, ops : Seq(Op)]]
      /\ \A u \in Tasks : task'[u].at = task[u].at
      /\ \A u \in Tasks : task'[u].at # "next" => task'[u].ops # <<>>
  BY Assigned
<1>2. Types'
  BY <1>1 DEF Types
<1>3. /\ \A n \in DOMAIN queue : queue[n].by \in Tasks
      /\ \A n \in DOMAIN ran : ran[n].by \in Tasks
      /\ \A n \in DOMAIN updates : updates[n].by \in Tasks
  <2>1. queue \in Seq(OnItsWay) /\ ran \in Seq(OnItsWay) /\ updates \in Seq(Update)
    BY DEF Types
  <2>2. \A w \in OnItsWay : w.by \in Tasks
    BY DEF OnItsWay
  <2>3. \A n \in DOMAIN updates : updates[n].by \in Tasks
    BY <2>1, UpdateHas
  <2> QED  BY <2>1, <2>2, <2>3
<1>4. Waits'
  BY <1>1, <1>3 DEF Waits, Different
<1> QED  BY <1>2, <1>4 DEF TypesWaits

(* The boot's two lists, and its place in them.                            *)
LEMMA ListsAre ==
  ASSUME Parameters
  PROVE  /\ Migration \in Seq(Op) /\ Len(Migration) = 2
         /\ Migration[1].what = "migrate" /\ Migration[1].key = Legacy /\ Migration[1].val = "key1"
         /\ Migration[2].what = "migrate" /\ Migration[2].key = Migrated /\ Migration[2].val = "yes"
         /\ Seeding \in Seq(Op) /\ Len(Seeding) = 4
         /\ Seeding[1].what = "set" /\ Seeding[1].key = Plugin(Bundled) /\ Seeding[1].val = "openai"
         /\ Seeding[2].what = "lift" /\ Seeding[2].key = ApiKey(Bundled)
         /\ Seeding[3].what = "default" /\ Seeding[3].key = Active /\ Seeding[3].val = Bundled
         /\ Seeding[4].what = "set" /\ Seeding[4].key = Seeded /\ Seeding[4].val = "yes"
         /\ <<>> \in Seq(Op)
         /\ Migration \in Seq(FitOp) /\ Seeding \in Seq(FitOp)
<1>1. /\ Bundled \in Instances
      /\ {Legacy, Migrated, Seeded, Active, Plugin(Bundled), ApiKey(Bundled)} \subseteq Keys
  BY KeysDiffer DEF Parameters
<1>2. \A k \in Keys : \A v \in Data : Write("set", k, v) \in Op /\ Write("default", k, v) \in Op /\ Write("lift", k, v) \in Op
  BY DEF Write, Op
<1>3. \A k \in {Legacy, Migrated} : \A v \in Data : Write("migrate", k, v) \in Op
  BY <1>1 DEF Write, Op
<1>4. {"key1", "yes", "openai", None, Bundled} \subseteq Data
  BY <1>1 DEF Data
<1>5. Write("migrate", Legacy, "key1") \in Op /\ Write("migrate", Migrated, "yes") \in Op
  BY <1>3, <1>4
<1>6. /\ Write("set", Plugin(Bundled), "openai") \in Op /\ Write("lift", ApiKey(Bundled), None) \in Op
      /\ Write("default", Active, Bundled) \in Op /\ Write("set", Seeded, "yes") \in Op
  BY <1>1, <1>2, <1>4
<1>7. Migration \in Seq(Op) /\ Len(Migration) = 2
  BY <1>5 DEF Migration
<1>8. Seeding \in Seq(Op) /\ Len(Seeding) = 4
  BY <1>6 DEF Seeding, Set
<1>9. /\ Migration[1] = Write("migrate", Legacy, "key1") /\ Migration[2] = Write("migrate", Migrated, "yes")
  BY DEF Migration
<1>10. /\ Seeding[1] = Write("set", Plugin(Bundled), "openai")
       /\ Seeding[2] = Write("lift", ApiKey(Bundled), None)
       /\ Seeding[3] = Write("default", Active, Bundled) /\ Seeding[4] = Write("set", Seeded, "yes")
  BY DEF Seeding, Set
<1>a. Migration \in Seq(FitOp)
  <2>1. Fit(Write("migrate", Legacy, "key1")) /\ Fit(Write("migrate", Migrated, "yes"))
    BY ValuesAre DEF Fit, Write, ValuesOf
  <2> QED  BY <1>5, <2>1 DEF Migration, FitOp
<1>b. Seeding \in Seq(FitOp)
  <2>1. /\ Fit(Write("set", Plugin(Bundled), "openai")) /\ Fit(Write("lift", ApiKey(Bundled), None))
        /\ Fit(Write("default", Active, Bundled)) /\ Fit(Write("set", Seeded, "yes"))
    BY <1>1, ValuesAre DEF Fit, Write, ValuesOf
  <2> QED  BY <1>6, <2>1 DEF Seeding, Set, FitOp
<1>11. \A a1, b1, c1 : Write(a1, b1, c1).what = a1 /\ Write(a1, b1, c1).key = b1 /\ Write(a1, b1, c1).val = c1
  BY DEF Write
<1> QED  BY <1>7, <1>8, <1>9, <1>10, <1>11, <1>a, <1>b

(* The server: its boot, its end, and the requests it takes.               *)
LEMMA ServerTypes ==
  ASSUME Parameters, Types, Waits,
         \/ Open \/ LoadPlugins \/ Ready \/ GoDown \/ UNCHANGED vars
         \/ \E t \in Requests : \E ops \in Seq(Op) : Handle(t, ops)
  PROVE  TypesWaits'
<1>1. /\ task \in [Tasks -> [at : {"next", "db", "publishing"}, ops : Seq(Op)]] /\ "boot" \in Tasks
      /\ db \in [Keys -> Data] /\ cache \in [Keys -> Data] /\ clients \in [Instances -> Data]
      /\ None \in Data /\ requests \in Nat /\ downs \in Nat
  BY DEF Types, Tasks, Data
<1>2. CASE Open
  <2>1. /\ phase = "down" /\ phase' = "migrating" /\ cache' = db /\ apart' = {}
        /\ task' = [task EXCEPT !["boot"].ops = IF db[Migrated] = None THEN Migration ELSE <<>>]
        /\ db' = db /\ queue' = queue /\ ran' = ran /\ updates' = updates /\ clients' = clients
        /\ requests' = requests /\ downs' = downs
    BY <1>2 DEF Open, countVars
  <2>2. task["boot"].at = "next"
    BY <1>1, <2>1 DEF Waits, NoTask
  <2>3. PICK ops \in Seq(Op) : task' = [task EXCEPT !["boot"].ops = ops]
    BY <2>1, ListsAre
  <2> QED  BY <1>1, <2>1, <2>2, <2>3, AssignTypes
<1>3. CASE LoadPlugins
  <2>1. /\ phase = "migrating" /\ phase' = "seeding" /\ task["boot"].ops = <<>>
        /\ clients' = [i \in Instances |-> ClientOf(i)]
        /\ task' = [task EXCEPT !["boot"].ops = IF cache[Seeded] = None THEN Seeding ELSE <<>>]
        /\ db' = db /\ cache' = cache /\ queue' = queue /\ ran' = ran /\ updates' = updates
        /\ requests' = requests /\ downs' = downs /\ apart' = apart
    BY <1>3 DEF LoadPlugins, countVars
  <2>2. task["boot"].at = "next"
    BY <1>1, <2>1 DEF Waits
  <2>3. PICK ops \in Seq(Op) : task' = [task EXCEPT !["boot"].ops = ops]
    BY <2>1, ListsAre
  <2>4. clients' \in [Instances -> Data]
    <3>1. \A i \in Instances : ClientOf(i) \in Data
      BY <1>1, KeysDiffer DEF ClientOf, Data
    <3> QED  BY <2>1, <3>1
  <2>5. apart' \subseteq Keys
    BY <2>1 DEF Types
  <2> QED  BY <1>1, <2>1, <2>2, <2>3, <2>4, <2>5, AssignTypes
<1>4. CASE Ready
  <2>1. /\ phase = "seeding" /\ phase' = "ready" /\ task' = task
        /\ db' = db /\ cache' = cache /\ queue' = queue /\ ran' = ran /\ updates' = updates
        /\ clients' = clients /\ requests' = requests /\ downs' = downs /\ apart' = apart
    BY <1>4 DEF Ready, countVars, storeVars
  <2> QED  BY <2>1 DEF TypesWaits, Types, Waits, Different
<1>5. CASE GoDown
  <2>1. /\ downs' = downs + 1 /\ phase' = "down"
        /\ queue' = <<>> /\ ran' = <<>> /\ updates' = <<>>
        /\ cache' = [k \in Keys |-> None] /\ clients' = [i \in Instances |-> None]
        /\ task' = [t \in Tasks |-> NoTask]
        /\ db' = db /\ requests' = requests /\ apart' = apart
    BY <1>5 DEF GoDown
  <2>2. NoTask \in [at : {"next", "db", "publishing"}, ops : Seq(Op)]
    BY DEF NoTask
  <2>3. Types'
    BY <1>1, <2>1, <2>2 DEF Types
  <2>4. \A t \in Tasks : task'[t].at = "next"
    BY <2>1 DEF NoTask
  <2>5. Waits'
    BY <2>1, <2>4 DEF Waits, Different
  <2> QED  BY <2>3, <2>5 DEF TypesWaits
<1>6. CASE UNCHANGED vars
  BY <1>6 DEF vars, storeVars, countVars, TypesWaits, Types, Waits, Different
<1>7. ASSUME NEW t \in Requests, NEW ops \in Seq(Op), Handle(t, ops)  PROVE TypesWaits'
  <2>1. /\ phase \in {"seeding", "ready"} /\ phase' = phase /\ requests' = requests + 1
        /\ task[t] = NoTask /\ task' = [task EXCEPT ![t].ops = ops]
        /\ db' = db /\ cache' = cache /\ queue' = queue /\ ran' = ran /\ updates' = updates
        /\ clients' = clients /\ downs' = downs /\ apart' = apart
    BY <1>7 DEF Handle, storeVars
  <2>2. task[t].at = "next" /\ t \in Tasks
    BY <2>1 DEF NoTask, Tasks
  <2>3. apart' \subseteq Keys /\ requests' \in Nat
    BY <1>1, <2>1 DEF Types
  <2> QED  BY <1>1, <2>1, <2>2, <2>3, AssignTypes
<1> QED  BY <1>2, <1>3, <1>4, <1>5, <1>6, <1>7

-----------------------------------------------------------------------------
(* A started write keeps what the cache will catch up with: it is at the   *)
(* end of the queue, and blind only to a key the cache does not have and   *)
(* nobody is setting.                                                      *)
LEMMA IssueKeys ==
  ASSUME Types, Waits, NEW t \in Tasks, Issue(t),
         \A k \in Keys \ apart : KeyInv(k)
  PROVE  \A k \in Keys \ apart' : KeyInv(k)'
<1>1. PICK op \in Op :
           /\ op = Head(task[t].ops) /\ task[t].at = "next" /\ task[t].ops # <<>>
           /\ phase # "down" /\ Tail(task[t].ops) \in Seq(Op)
           /\ db' = db /\ cache' = cache /\ ran' = ran /\ updates' = updates
           /\ clients' = clients /\ phase' = phase /\ requests' = requests /\ downs' = downs
           /\ DOMAIN task' = Tasks /\ \A u \in Tasks \ {t} : task'[u] = task[u]
           /\ \/ /\ Skipped(op) /\ queue' = queue /\ apart' = apart
                 /\ task'[t] = [at |-> "next", ops |-> Tail(task[t].ops)]
              \/ /\ ~Skipped(op)
                 /\ \E w \in OnItsWay :
                      /\ w.by = t /\ w.op = Resolved(op) /\ w.blind = Blind(op)
                      /\ queue' = Append(queue, w)
                 /\ task'[t] = [at |-> "db", ops |-> task[t].ops]
                 /\ apart' = IF Blind(op) /\ InFlight(op.key) THEN apart \cup {op.key} ELSE apart
  BY IssueIs, Zenon
<1>2. CASE queue' = queue /\ apart' = apart
  BY <1>1, <1>2 DEF KeyInv, BlindToNothing, CatchesUp, Unwritten, Unsets
<1>3. ASSUME NEW w \in OnItsWay, w.op = Resolved(op), w.blind = Blind(op),
             queue' = Append(queue, w),
             apart' = IF Blind(op) /\ InFlight(op.key) THEN apart \cup {op.key} ELSE apart,
             NEW k \in Keys \ apart'
      PROVE  KeyInv(k)'
  <2>1. /\ DOMAIN queue' = 1..(Len(queue) + 1) /\ queue'[Len(queue) + 1] = w
        /\ DOMAIN queue = 1..Len(queue) /\ Len(queue) \in Nat
        /\ \A n \in DOMAIN queue : queue'[n] = queue[n]
    BY <1>3, Appended DEF Types
  <2>2. k \in Keys \ apart /\ KeyInv(k)
    BY <1>3
  <2>3. w.op.key = op.key
    BY <1>3 DEF Resolved
  <2>4. CatchesUp(k)'
    BY <1>1, <2>2 DEF KeyInv, CatchesUp, Unwritten
  <2>5. /\ DOMAIN ran = 1..Len(ran) /\ Len(ran) \in Nat
    BY DEF Types
  <2>6. ASSUME w.blind, w.op.key = k
        PROVE  cache[k] = None /\ Unsets(k, ran, 1, Len(ran)) /\ Unsets(k, queue, 1, Len(queue))
    <3>1. Blind(op) /\ ~InFlight(op.key)
      BY <1>3, <2>3, <2>6
    <3>2. cache[k] = None
      BY <2>3, <2>6, <3>1 DEF Blind
    <3>3. \A n \in DOMAIN queue : queue[n].op.key = k => queue[n].op.what = "unset"
      BY <2>3, <2>6, <3>1 DEF InFlight, Range
    <3>4. \A n \in DOMAIN ran : ran[n].op.key = k => ran[n].op.what = "unset"
      BY <2>3, <2>6, <3>1 DEF InFlight, Range
    <3> QED  BY <2>1, <2>5, <3>2, <3>3, <3>4 DEF Unsets
  <2>7. ASSUME NEW n \in DOMAIN queue', queue'[n].blind, queue'[n].op.key = k
        PROVE  cache[k] = None /\ Unsets(k, ran, 1, Len(ran)) /\ Unsets(k, queue', 1, n)
    <3>1. CASE n \in DOMAIN queue
      <4>1. cache[k] = None /\ Unsets(k, ran, 1, Len(ran)) /\ Unsets(k, queue, 1, n)
        BY <2>1, <2>2, <2>7, <3>1 DEF KeyInv, BlindToNothing
      <4> QED  BY <2>1, <3>1, <4>1 DEF Unsets
    <3>2. CASE n = Len(queue) + 1
      <4>1. cache[k] = None /\ Unsets(k, ran, 1, Len(ran)) /\ Unsets(k, queue, 1, Len(queue))
        BY <2>1, <2>6, <2>7, <3>2
      <4>2. w.op.what = "unset"
        BY <2>1, <2>7, <3>2 DEF OnItsWay
      <4> QED  BY <2>1, <3>2, <4>1, <4>2 DEF Unsets
    <3> QED  BY <2>1, <3>1, <3>2
  <2>8. BlindToNothing(k)'
    BY <1>1, <2>2, <2>7 DEF KeyInv, BlindToNothing, Unsets
  <2> QED  BY <2>4, <2>8 DEF KeyInv
<1> QED  BY <1>1, <1>2, <1>3

(* The database runs the writes in the order they were queued.             *)
LEMMA RunKeys ==
  ASSUME Types, Waits, DatabaseRuns, \A k \in Keys \ apart : KeyInv(k)
  PROVE  \A k \in Keys \ apart' : KeyInv(k)'
<1>1. PICK w \in OnItsWay, x \in OnItsWay :
           /\ w = Head(queue) /\ queue # <<>> /\ queue' = Tail(queue) /\ phase # "down"
           /\ x.by = w.by /\ x.op = w.op /\ x.blind = w.blind /\ ran' = Append(ran, x)
           /\ w.op.key \in Keys /\ w.op.val \in Data /\ db' = [db EXCEPT ![w.op.key] = w.op.val]
           /\ cache' = cache /\ updates' = updates /\ clients' = clients /\ task' = task
           /\ phase' = phase /\ requests' = requests /\ downs' = downs /\ apart' = apart
  BY RunIs, Zenon
<1>2. queue \in Seq(OnItsWay) /\ ran \in Seq(OnItsWay) /\ db \in [Keys -> Data]
  BY DEF Types
<1>3. /\ w = queue[1] /\ 1 \in DOMAIN queue
      /\ DOMAIN queue' = 1..(Len(queue) - 1) /\ DOMAIN queue = 1..Len(queue) /\ Len(queue) \in Nat
      /\ \A n \in DOMAIN queue' : queue'[n] = queue[n + 1] /\ n + 1 \in DOMAIN queue
  BY <1>1, <1>2, Popped
<1>4. /\ DOMAIN ran' = 1..(Len(ran) + 1) /\ ran'[Len(ran) + 1] = x /\ Len(ran') = Len(ran) + 1
      /\ DOMAIN ran = 1..Len(ran) /\ Len(ran) \in Nat
      /\ \A n \in DOMAIN ran : ran'[n] = ran[n]
  BY <1>1, <1>2, Appended
<1>5. ASSUME NEW k \in Keys \ apart'  PROVE KeyInv(k)'
  <2>1. KeyInv(k)
    BY <1>1, <1>5
  <2>2. Unwritten(k, ran', 1, Len(ran')) => cache[k] = db'[k]
    <3>1. ASSUME Unwritten(k, ran', 1, Len(ran'))  PROVE cache[k] = db'[k]
      <4>1. x.op.key # k  BY <1>4, <3>1 DEF Unwritten
      <4>2. Unwritten(k, ran, 1, Len(ran))  BY <1>4, <3>1 DEF Unwritten
      <4>3. cache[k] = db[k]  BY <2>1, <4>2 DEF KeyInv, CatchesUp
      <4> QED  BY <1>1, <1>2, <4>1, <4>3
    <3> QED  BY <3>1
  <2>3. ASSUME NEW n \in DOMAIN ran', ran'[n].op.key = k, Unwritten(k, ran', n + 1, Len(ran'))
        PROVE  db'[k] = ran'[n].op.val
    <3>1. CASE n = Len(ran) + 1
      BY <1>1, <1>2, <1>4, <2>3, <3>1
    <3>2. CASE n \in DOMAIN ran
      <4>1. x.op.key # k  BY <1>4, <2>3, <3>2 DEF Unwritten
      <4>2. Unwritten(k, ran, n + 1, Len(ran))  BY <1>4, <2>3, <3>2 DEF Unwritten
      <4>3. db[k] = ran[n].op.val  BY <1>4, <2>1, <2>3, <3>2, <4>2 DEF KeyInv, CatchesUp
      <4> QED  BY <1>1, <1>2, <1>4, <3>2, <4>1, <4>3
    <3> QED  BY <1>4, <3>1, <3>2
  <2>4. ASSUME NEW n \in DOMAIN ran', ran'[n].blind, ran'[n].op.key = k
        PROVE  cache[k] = None /\ Unsets(k, ran', 1, n)
    <3>1. CASE n \in DOMAIN ran
      <4>1. cache[k] = None /\ Unsets(k, ran, 1, n)
        BY <1>4, <2>1, <2>4, <3>1 DEF KeyInv, BlindToNothing
      <4> QED  BY <1>4, <3>1, <4>1 DEF Unsets
    <3>2. CASE n = Len(ran) + 1
      <4>1. w.blind /\ w.op.key = k
        BY <1>1, <1>4, <2>4, <3>2
      <4>2. cache[k] = None /\ Unsets(k, ran, 1, Len(ran))
        BY <1>3, <2>1, <4>1 DEF KeyInv, BlindToNothing
      <4>3. x.op.what = "unset"
        BY <1>1, <4>1 DEF OnItsWay
      <4> QED  BY <1>4, <3>2, <4>2, <4>3 DEF Unsets
    <3> QED  BY <1>4, <3>1, <3>2
  <2>5. ASSUME NEW n \in DOMAIN queue', queue'[n].blind, queue'[n].op.key = k
        PROVE  cache[k] = None /\ Unsets(k, ran', 1, Len(ran')) /\ Unsets(k, queue', 1, n)
    <3>1. n + 1 \in DOMAIN queue /\ queue[n + 1].blind /\ queue[n + 1].op.key = k
      BY <1>3, <2>5
    <3>2. cache[k] = None /\ Unsets(k, ran, 1, Len(ran)) /\ Unsets(k, queue, 1, n + 1)
      BY <2>1, <3>1 DEF KeyInv, BlindToNothing
    <3>3. x.op.key = k => x.op.what = "unset"
      BY <1>1, <1>3, <2>5, <3>2 DEF Unsets
    <3>4. Unsets(k, ran', 1, Len(ran'))
      BY <1>4, <3>2, <3>3 DEF Unsets
    <3>5. Unsets(k, queue', 1, n)
      BY <1>3, <2>5, <3>2 DEF Unsets
    <3> QED  BY <3>2, <3>4, <3>5
  <2>6. CatchesUp(k)'
    BY <1>1, <2>2, <2>3 DEF CatchesUp, Unwritten
  <2>7. BlindToNothing(k)'
    BY <1>1, <2>4, <2>5 DEF BlindToNothing, Unsets
  <2> QED  BY <2>6, <2>7 DEF KeyInv
<1> QED  BY <1>5

(* The coroutines resume in that order too.                                *)
LEMMA ResumeKeys ==
  ASSUME Types, Waits, Resume, \A k \in Keys \ apart : KeyInv(k)
  PROVE  \A k \in Keys \ apart' : KeyInv(k)'
<1>1. PICK w \in OnItsWay :
           /\ w = Head(ran) /\ ran # <<>> /\ ran' = Tail(ran)
           /\ cache' = IF w.blind THEN cache ELSE [cache EXCEPT ![w.op.key] = w.op.val]
           /\ w.op.key \in Keys /\ w.op \in Op
           /\ db' = db /\ queue' = queue /\ apart' = apart
  BY ResumeIs
<1>2. queue \in Seq(OnItsWay) /\ ran \in Seq(OnItsWay) /\ cache \in [Keys -> Data]
  BY DEF Types
<1>3. /\ w = ran[1] /\ 1 \in DOMAIN ran /\ Len(ran') = Len(ran) - 1
      /\ DOMAIN ran' = 1..(Len(ran) - 1) /\ DOMAIN ran = 1..Len(ran) /\ Len(ran) \in Nat
      /\ \A n \in DOMAIN ran' : ran'[n] = ran[n + 1] /\ n + 1 \in DOMAIN ran
  BY <1>1, <1>2, Popped
<1>4. ASSUME NEW k \in Keys \ apart'  PROVE KeyInv(k)'
  <2>1. KeyInv(k)
    BY <1>1, <1>4
  <2>2. w.blind /\ w.op.key = k => cache[k] = None /\ w.op.val = None
    BY <1>1, <1>3, <2>1 DEF KeyInv, BlindToNothing, OnItsWay, Op
  <2>3. cache'[k] = IF w.op.key = k THEN w.op.val ELSE cache[k]
    BY <1>1, <1>2, <2>2
  <2>4. ASSUME NEW n \in DOMAIN ran', Unwritten(k, ran', n + 1, Len(ran')), ran'[n].op.key = k
        PROVE  db[k] = ran'[n].op.val
    <3>1. Unwritten(k, ran, n + 2, Len(ran))
      <4>1. ASSUME NEW j \in (n + 2)..Len(ran)  PROVE ran[j].op.key # k
        <5>1. j - 1 \in (n + 1)..Len(ran') /\ j - 1 \in DOMAIN ran' /\ (j - 1) + 1 = j
          BY <1>3, <2>4, <4>1
        <5> QED  BY <1>3, <2>4, <5>1 DEF Unwritten
      <4> QED  BY <4>1 DEF Unwritten
    <3>2. n + 1 \in DOMAIN ran /\ ran[n + 1] = ran'[n] /\ (n + 1) + 1 = n + 2
      BY <1>3, <2>4
    <3> QED  BY <2>1, <2>4, <3>1, <3>2 DEF KeyInv, CatchesUp
  <2>5. Unwritten(k, ran', 1, Len(ran')) => cache'[k] = db[k]
    <3>1. ASSUME Unwritten(k, ran', 1, Len(ran'))  PROVE cache'[k] = db[k]
      <4>1. Unwritten(k, ran, 2, Len(ran))
        <5>1. ASSUME NEW j \in 2..Len(ran)  PROVE ran[j].op.key # k
          <6>1. j - 1 \in 1..Len(ran') /\ j - 1 \in DOMAIN ran' /\ (j - 1) + 1 = j
            BY <1>3, <5>1
          <6> QED  BY <1>3, <3>1, <6>1 DEF Unwritten
        <5> QED  BY <5>1 DEF Unwritten
      <4>2. CASE w.op.key = k
        BY <1>3, <2>1, <2>3, <4>1, <4>2 DEF KeyInv, CatchesUp
      <4>3. CASE w.op.key # k
        <5>1. Unwritten(k, ran, 1, Len(ran))
          BY <1>3, <4>1, <4>3 DEF Unwritten
        <5> QED  BY <2>1, <2>3, <4>3, <5>1 DEF KeyInv, CatchesUp
      <4> QED  BY <4>2, <4>3
    <3> QED  BY <3>1
  <2>6. ASSUME cache[k] = None, w.op.key = k => w.op.what = "unset"
        PROVE  cache'[k] = None
    BY <1>1, <2>3, <2>6 DEF Op
  <2>7. ASSUME NEW n \in DOMAIN ran', ran'[n].blind, ran'[n].op.key = k
        PROVE  cache'[k] = None /\ Unsets(k, ran', 1, n)
    <3>1. n + 1 \in DOMAIN ran /\ ran[n + 1].blind /\ ran[n + 1].op.key = k
      BY <1>3, <2>7
    <3>2. cache[k] = None /\ Unsets(k, ran, 1, n + 1)
      BY <2>1, <3>1 DEF KeyInv, BlindToNothing
    <3>3. w.op.key = k => w.op.what = "unset"
      BY <1>3, <2>7, <3>2 DEF Unsets
    <3>4. Unsets(k, ran', 1, n)
      BY <1>3, <2>7, <3>2 DEF Unsets
    <3> QED  BY <2>6, <3>2, <3>3, <3>4
  <2>8. ASSUME NEW n \in DOMAIN queue, queue[n].blind, queue[n].op.key = k
        PROVE  cache'[k] = None /\ Unsets(k, ran', 1, Len(ran')) /\ Unsets(k, queue, 1, n)
    <3>1. cache[k] = None /\ Unsets(k, ran, 1, Len(ran)) /\ Unsets(k, queue, 1, n)
      BY <2>1, <2>8 DEF KeyInv, BlindToNothing
    <3>2. w.op.key = k => w.op.what = "unset"
      BY <1>3, <3>1 DEF Unsets
    <3>3. Unsets(k, ran', 1, Len(ran'))
      BY <1>3, <3>1 DEF Unsets
    <3> QED  BY <2>6, <3>1, <3>2, <3>3
  <2>9. CatchesUp(k)'
    BY <1>1, <2>4, <2>5 DEF CatchesUp, Unwritten
  <2>10. BlindToNothing(k)'
    BY <1>1, <2>7, <2>8 DEF BlindToNothing, Unsets
  <2> QED  BY <2>9, <2>10 DEF KeyInv
<1> QED  BY <1>4

(* What moves neither a write nor the cache moves no key.                  *)
LEMMA StillKeys ==
  ASSUME queue' = queue, ran' = ran, db' = db, cache' = cache, apart' = apart,
         \A k \in Keys \ apart : KeyInv(k)
  PROVE  \A k \in Keys \ apart' : KeyInv(k)'
BY DEF KeyInv, BlindToNothing, CatchesUp, Unwritten, Unsets

(* A cache that was just read from the database has nothing to catch up.   *)
LEMMA OpenKeys ==
  ASSUME Types, Waits, Open
  PROVE  \A k \in Keys \ apart' : KeyInv(k)'
<1>1. queue' = <<>> /\ ran' = <<>> /\ cache' = db /\ db' = db
  BY DEF Open, Waits
<1>2. DOMAIN queue' = {} /\ DOMAIN ran' = {}
  BY <1>1
<1> QED  BY <1>1, <1>2 DEF KeyInv, BlindToNothing, CatchesUp

(* A key nobody is writing has one value.                                  *)
LEMMA KeysAtRest ==
  ASSUME Types, phase # "down" => \A k \in Keys \ apart : KeyInv(k)
  PROVE  CacheTellsDb
<1>1. ASSUME NEW k \in Keys, KeyInv(k), AtRest(k)  PROVE cache[k] = db[k]
  <2>1. DOMAIN ran = 1..Len(ran)  BY DEF Types
  <2>2. \A n \in DOMAIN ran : ran[n].op.key # k
    BY <1>1 DEF AtRest, Range
  <2> QED  BY <1>1, <2>1, <2>2 DEF KeyInv, CatchesUp, Unwritten
<1> QED  BY <1>1 DEF CacheTellsDb, LockStep

-----------------------------------------------------------------------------
(* A client is rebuilt whenever a row of its instance has changed.         *)
LEMMA SameRows ==
  ASSUME NEW i, cache'[Plugin(i)] = cache[Plugin(i)], cache'[ApiKey(i)] = cache[ApiKey(i)]
  PROVE  ClientOf(i)' = ClientOf(i)
BY DEF ClientOf, PluginOf

LEMMA ResumeClients ==
  ASSUME Parameters, Types, Waits, Resume, ClientsFollow
  PROVE  ClientsFollow'
<1>1. PICK w \in OnItsWay :
           /\ w.op \in Op /\ w.op.key \in Keys
           /\ cache' = IF w.blind THEN cache ELSE [cache EXCEPT ![w.op.key] = w.op.val]
           /\ \/ (w.blind \/ w.op.what = "migrate") /\ updates' = updates
              \/ \E u \in Update : u.key = w.op.key /\ updates' = Append(updates, u)
           /\ clients' = clients /\ phase' = phase
  BY ResumeIs
<1>2. /\ cache \in [Keys -> Data] /\ updates \in Seq(Update)
  BY DEF Types
<1>3. ASSUME phase' \in {"seeding", "ready"}, NEW i \in Instances,
             \A u \in Range(updates') : u.key[1] # i
      PROVE  clients'[i] = ClientOf(i)'
  <2>1. /\ \A u \in Range(updates) : u.key[1] # i
        /\ \/ updates' = updates \/ w.op.key[1] # i
    <3>1. CASE updates' = updates
      BY <1>3, <3>1
    <3>2. ASSUME NEW u \in Update, u.key = w.op.key, updates' = Append(updates, u)
          PROVE  w.op.key[1] # i /\ \A v \in Range(updates) : v.key[1] # i
      <4>1. /\ DOMAIN updates' = 1..(Len(updates) + 1) /\ updates'[Len(updates) + 1] = u
            /\ DOMAIN updates = 1..Len(updates) /\ Len(updates) \in Nat
            /\ \A n \in DOMAIN updates : updates'[n] = updates[n]
        BY <1>2, <3>2, Appended
      <4>2. \A n \in DOMAIN updates' : updates'[n].key[1] # i
        BY <1>3 DEF Range
      <4> QED  BY <3>2, <4>1, <4>2 DEF Range
    <3> QED  BY <1>1, <3>1, <3>2
  <2>2. clients[i] = ClientOf(i)
    BY <1>1, <1>3, <2>1 DEF ClientsFollow
  <2>3. w.blind \/ w.op.key \notin {Plugin(i), ApiKey(i)}
    <3>1. CASE w.op.key[1] # i
      BY <3>1, KeysDiffer
    <3>2. CASE w.op.what = "migrate"
      <4>1. w.op.key \in {Legacy, Migrated}
        BY <1>1, <3>2 DEF Op
      <4> QED  BY <4>1, KeysDiffer
    <3>3. CASE w.blind  BY <3>3
    <3> QED  BY <1>1, <1>2, <2>1, <3>1, <3>2, <3>3
  <2>4. cache'[Plugin(i)] = cache[Plugin(i)] /\ cache'[ApiKey(i)] = cache[ApiKey(i)]
    BY <1>1, <1>2, <2>3, KeysDiffer
  <2> QED  BY <1>1, <2>2, <2>4, SameRows
<1> QED  BY <1>3 DEF ClientsFollow

LEMMA DeliverClients ==
  ASSUME Parameters, Types, Waits, Deliver, ClientsFollow
  PROVE  ClientsFollow'
<1>1. PICK u \in Update :
           /\ u = Head(updates) /\ updates # <<>> /\ updates' = Tail(updates) /\ u.key \in Keys
           /\ clients' = IF u.key[1] \in Instances THEN [clients EXCEPT ![u.key[1]] = ClientOf(u.key[1])]
                         ELSE clients
           /\ cache' = cache /\ phase' = phase
  BY DeliverIs
<1>2. updates \in Seq(Update) /\ clients \in [Instances -> Data]
  BY DEF Types
<1>3. /\ u = updates[1] /\ DOMAIN updates' = 1..(Len(updates) - 1)
      /\ DOMAIN updates = 1..Len(updates) /\ Len(updates) \in Nat
      /\ \A n \in DOMAIN updates' : updates'[n] = updates[n + 1]
  BY <1>1, <1>2, Popped
<1>4. \A i \in Instances : ClientOf(i)' = ClientOf(i)
  BY <1>1, SameRows
<1>5. ASSUME phase' \in {"seeding", "ready"}, NEW i \in Instances,
             \A v \in Range(updates') : v.key[1] # i
      PROVE  clients'[i] = ClientOf(i)'
  <2>1. CASE u.key[1] = i
    BY <1>1, <1>2, <1>4, <2>1
  <2>2. CASE u.key[1] # i
    <3>1. \A n \in DOMAIN updates : updates[n].key[1] # i
      <4>1. \A n \in DOMAIN updates' : updates'[n].key[1] # i
        BY <1>5 DEF Range
      <4>2. ASSUME NEW n \in DOMAIN updates, n # 1  PROVE updates[n].key[1] # i
        <5>1. n - 1 \in DOMAIN updates' /\ (n - 1) + 1 = n
          BY <1>3, <4>2
        <5> QED  BY <1>3, <4>1, <5>1
      <4> QED  BY <1>3, <2>2, <4>2
    <3>2. clients[i] = ClientOf(i)
      BY <1>1, <1>5, <3>1 DEF ClientsFollow, Range
    <3> QED  BY <1>1, <1>2, <1>4, <2>2, <3>2
  <2> QED  BY <2>1, <2>2
<1> QED  BY <1>5 DEF ClientsFollow

LEMMA StillClients ==
  ASSUME clients' = clients, cache' = cache, updates' = updates, ClientsFollow,
         phase' \in {"seeding", "ready"} => phase \in {"seeding", "ready"}
  PROVE  ClientsFollow'
BY SameRows DEF ClientsFollow, Range

LEMMA LoadClients == ASSUME LoadPlugins  PROVE ClientsFollow'
<1>1. clients' = [i \in Instances |-> ClientOf(i)] /\ cache' = cache
  BY DEF LoadPlugins
<1> QED  BY <1>1, SameRows DEF ClientsFollow

-----------------------------------------------------------------------------
(* Before the first request: the boot.                                     *)
(* A write on its way then is the boot's, and the only one.                *)
LEMMA BootAlone ==
  ASSUME Parameters, Types, Waits, BootInv
  PROVE  /\ \A n \in DOMAIN queue : queue[n].by = "boot" /\ n = 1 /\ ran = <<>> /\ updates = <<>>
         /\ \A n \in DOMAIN ran : ran[n].by = "boot" /\ n = 1 /\ queue = <<>> /\ updates = <<>>
         /\ \A n \in DOMAIN updates : updates[n].by = "boot"
         /\ task["boot"].at = "next" => queue = <<>> /\ ran = <<>> /\ updates = <<>>
         /\ task["boot"].at = "publishing" => queue = <<>> /\ ran = <<>>
<1>1. \A t \in Requests : task[t].at = "next"
  BY DEF BootInv, NoTask
<1>2. queue \in Seq(OnItsWay) /\ ran \in Seq(OnItsWay) /\ updates \in Seq(Update)
  BY DEF Types
<1>3. /\ \A n \in DOMAIN queue : queue[n].by \in Tasks
      /\ \A n \in DOMAIN ran : ran[n].by \in Tasks
      /\ \A n \in DOMAIN updates : updates[n].by \in Tasks
  <2>1. \A w \in OnItsWay : w.by \in Tasks  BY DEF OnItsWay
  <2>2. \A n \in DOMAIN updates : updates[n].by \in Tasks  BY <1>2, UpdateHas
  <2> QED  BY <1>2, <2>1, <2>2
<1>4. /\ \A n \in DOMAIN queue : queue[n].by = "boot"
      /\ \A n \in DOMAIN ran : ran[n].by = "boot"
      /\ \A n \in DOMAIN updates : updates[n].by = "boot"
  BY <1>1, <1>3 DEF Waits, Tasks
<1>5. /\ queue # <<>> => 1 \in DOMAIN queue
      /\ ran # <<>> => 1 \in DOMAIN ran
      /\ updates # <<>> => 1 \in DOMAIN updates
  BY <1>2
<1>6. /\ \A n \in DOMAIN queue : n = 1 /\ ran = <<>> /\ updates = <<>>
      /\ \A n \in DOMAIN ran : n = 1 /\ queue = <<>> /\ updates = <<>>
  <2>1. \A m, n \in DOMAIN queue : m = n  BY <1>4 DEF Waits, Different
  <2>2. \A m, n \in DOMAIN ran : m = n  BY <1>4 DEF Waits, Different
  <2>3. queue # <<>> => ran = <<>>  BY <1>4, <1>5 DEF Waits
  <2>4. queue # <<>> => updates = <<>>
    <3>1. ASSUME queue # <<>>, updates # <<>>  PROVE FALSE
      <4>1. task["boot"].at = "db" /\ task["boot"].at = "publishing"
        BY <1>4, <1>5, <3>1 DEF Waits
      <4> QED  BY <4>1
    <3> QED  BY <3>1
  <2>5. ran # <<>> => updates = <<>>
    <3>1. ASSUME ran # <<>>, updates # <<>>  PROVE FALSE
      <4>1. task["boot"].at = "db" /\ task["boot"].at = "publishing"
        BY <1>4, <1>5, <3>1 DEF Waits
      <4> QED  BY <4>1
    <3> QED  BY <3>1
  <2> QED  BY <1>5, <2>1, <2>2, <2>3, <2>4, <2>5
<1>7. /\ queue # <<>> => task["boot"].at = "db"
      /\ ran # <<>> => task["boot"].at = "db"
      /\ updates # <<>> => task["boot"].at = "publishing"
  BY <1>4, <1>5 DEF Waits
<1> QED  BY <1>4, <1>6, <1>7

(* What is left of a list after its next entry.                            *)
LEMMA NextOf ==
  ASSUME NEW S, NEW s \in Seq(S), NEW n \in 1..(Len(s) + 1), SubSeq(s, n, Len(s)) # <<>>
  PROVE  /\ n \in 1..Len(s) /\ n + 1 \in 1..(Len(s) + 1)
         /\ Head(SubSeq(s, n, Len(s))) = s[n]
         /\ Tail(SubSeq(s, n, Len(s))) = SubSeq(s, n + 1, Len(s))
<1>1. n \in 1..Len(s) /\ n + 1 \in 1..(Len(s) + 1)
  <2>1. Len(s) \in Nat  OBVIOUS
  <2>2. n = Len(s) + 1 => SubSeq(s, n, Len(s)) = <<>>
    BY <2>1, SubSeqEmpty
  <2> QED  BY <2>1, <2>2
<1>2. /\ Head(SubSeq(s, n, Len(s))) = s[n]
      /\ Tail(SubSeq(s, n, Len(s))) = SubSeq(s, n + 1, Len(s))
  BY <1>1, HeadTailOfSubSeq
<1> QED  BY <1>1, <1>2

(* The goals of the boot, and where each list takes it.                    *)
LEMMA GoalsAre ==
  ASSUME Parameters
  PROVE  /\ Goal(Legacy) = "key1" /\ Goal(Migrated) = "yes" /\ Goal(Seeded) = "yes"
         /\ Goal(Plugin(Bundled)) = "openai" /\ Goal(ApiKey(Bundled)) = "key1" /\ Goal(Active) = Bundled
         /\ \A k \in BootKeys : Goal(k) # None /\ k \in Keys
BY KeysDiffer DEF Goal, BootKeys, Parameters

LEMMA BootEntries ==
  ASSUME Parameters
  PROVE  /\ \A n \in 1..2 : Migration[n].what \notin {"unset", "lift", "default"}
         /\ \A n \in 1..2 : Migration[n].key \in BootKeys
         /\ \A n \in 1..2 : Migration[n].val = Goal(Migration[n].key)
         /\ \A n \in 1..4 : Seeding[n].what # "unset" /\ Seeding[n].key \in BootKeys
         /\ \A n \in 1..4 : Seeding[n].what # "lift" => Seeding[n].val = Goal(Seeding[n].key)
         /\ \A n \in 1..4 : Seeding[n].what = "lift" => Seeding[n].key = ApiKey(Bundled)
<1>1. \A n \in 1..2 : n = 1 \/ n = 2  OBVIOUS
<1>2. \A n \in 1..4 : n = 1 \/ n = 2 \/ n = 3 \/ n = 4  OBVIOUS
<1>3. \A k \in {Legacy, Migrated, Plugin(Bundled), ApiKey(Bundled), Active, Seeded} : k \in BootKeys
  BY DEF BootKeys
<1> QED  BY <1>1, <1>2, <1>3, ListsAre, GoalsAre

(* Each list ends with its marker, and has it nowhere else.                *)
LEMMA MarkersLast ==
  ASSUME Parameters
  PROVE  /\ \A n \in 1..2 : Migration[n].key # Seeded /\ (Migration[n].key = Migrated => n = 2)
         /\ \A n \in 1..4 : Seeding[n].key # Migrated /\ (Seeding[n].key = Seeded => n = 4)
<1>1. /\ Legacy # Seeded /\ Migrated # Seeded /\ Legacy # Migrated
      /\ Active # Seeded /\ Active # Migrated
  BY KeysDiffer
<1>2. Plugin(Bundled) \notin {Migrated, Seeded} /\ ApiKey(Bundled) \notin {Migrated, Seeded}
  <2>1. Bundled \in Instances  BY DEF Parameters
  <2> QED  BY <2>1, KeysDiffer
<1>3. /\ Migration[1].key # Seeded /\ Migration[2].key # Seeded /\ Migration[1].key # Migrated
  BY <1>1, ListsAre
<1>4. /\ Seeding[1].key \notin {Migrated, Seeded} /\ Seeding[2].key \notin {Migrated, Seeded}
      /\ Seeding[3].key \notin {Migrated, Seeded} /\ Seeding[4].key # Migrated
  BY <1>1, <1>2, ListsAre
<1>5. \A n \in 1..2 : n = 1 \/ n = 2  OBVIOUS
<1>6. \A n \in 1..4 : n = 1 \/ n = 2 \/ n = 3 \/ n = 4  OBVIOUS
<1> QED  BY <1>3, <1>4, <1>5, <1>6

(* Where the boot is in its lists, when it has a write left.               *)
LEMMA BootPlace ==
  ASSUME Parameters, Types, Waits, BootInv, task["boot"].ops # <<>>
  PROVE  \E s \in {Migration, Seeding} : \E n \in 1..Len(s) :
           /\ s \in Seq(Op) /\ Reached(s, n) /\ n + 1 \in 1..(Len(s) + 1)
           /\ Head(task["boot"].ops) = s[n] /\ Tail(task["boot"].ops) = SubSeq(s, n + 1, Len(s))
           /\ \/ s = Migration /\ Len(s) = 2 /\ phase = "migrating"
              \/ s = Seeding /\ Len(s) = 4 /\ phase = "seeding" /\ db[Migrated] # None
<1>1. phase \in {"migrating", "seeding"}
  <2>1. phase # "down"  BY DEF Waits, BootInv, NoTask, Tasks
  <2>2. phase # "ready"  BY DEF BootInv
  <2> QED  BY <2>1, <2>2 DEF Types
<1>2. CASE phase = "migrating"
  <2>1. PICK n \in 1..3 : Reached(Migration, n)  BY <1>2 DEF BootInv
  <2>2. task["boot"].ops = SubSeq(Migration, n, Len(Migration))  BY <2>1 DEF Reached
  <2>3. Migration \in Seq(Op) /\ Len(Migration) = 2 /\ n \in 1..(Len(Migration) + 1)
    <3>1. Migration \in Seq(Op) /\ Len(Migration) = 2  BY ListsAre
    <3>2. 1..(Len(Migration) + 1) = 1..3  BY <3>1
    <3> QED  BY <2>1, <3>1, <3>2, Zenon
  <2>4. /\ n \in 1..Len(Migration) /\ n + 1 \in 1..(Len(Migration) + 1)
        /\ Head(SubSeq(Migration, n, Len(Migration))) = Migration[n]
        /\ Tail(SubSeq(Migration, n, Len(Migration))) = SubSeq(Migration, n + 1, Len(Migration))
    BY <2>2, <2>3, NextOf
  <2> QED  BY <1>2, <2>1, <2>2, <2>3, <2>4, Zenon
<1>3. CASE phase = "seeding"
  <2>1. PICK n \in 1..5 : Reached(Seeding, n)  BY <1>3 DEF BootInv
  <2>2. task["boot"].ops = SubSeq(Seeding, n, Len(Seeding))  BY <2>1 DEF Reached
  <2>3. Seeding \in Seq(Op) /\ Len(Seeding) = 4 /\ n \in 1..(Len(Seeding) + 1)
    <3>1. Seeding \in Seq(Op) /\ Len(Seeding) = 4  BY ListsAre
    <3>2. 1..(Len(Seeding) + 1) = 1..5  BY <3>1
    <3> QED  BY <2>1, <3>1, <3>2, Zenon
  <2>4. /\ n \in 1..Len(Seeding) /\ n + 1 \in 1..(Len(Seeding) + 1)
        /\ Head(SubSeq(Seeding, n, Len(Seeding))) = Seeding[n]
        /\ Tail(SubSeq(Seeding, n, Len(Seeding))) = SubSeq(Seeding, n + 1, Len(Seeding))
    BY <2>2, <2>3, NextOf
  <2>5. db[Migrated] # None  BY <1>3 DEF BootInv
  <2> QED  BY <1>3, <2>1, <2>2, <2>3, <2>4, <2>5, Zenon
<1> QED  BY <1>1, <1>2, <1>3

(* When it has none, it went through its list.                             *)
LEMMA BootThrough ==
  ASSUME Parameters, Types, Waits, BootInv, task["boot"].ops = <<>>
  PROVE  /\ phase = "migrating" => db[Migrated] # None
         /\ phase \in {"seeding", "ready"} => \A k \in BootKeys : db[k] # None
<1>1. CASE phase = "migrating"
  <2>1. PICK n \in 1..3 : Reached(Migration, n)  BY <1>1 DEF BootInv
  <2>2. SubSeq(Migration, n, 2) = <<>> /\ Migration \in Seq(Op) /\ Len(Migration) = 2
    BY <2>1, ListsAre DEF Reached
  <2>3. n = 3
    <3>1. ASSUME n <= 2  PROVE FALSE
      <4>1. n \in 1..2 /\ n \in Int /\ 2 \in Int  BY <2>1, <3>1
      <4>2. Len(SubSeq(Migration, n, 2)) = 2 - n + 1
        <5>1. \A i \in n..2 : i \in 1..Len(Migration)  BY <2>2, <4>1
        <5> QED  BY <2>2, <4>1, <5>1, SubSeqProperties
      <4>3. 2 - n + 1 = 0  BY <2>2, <4>2
      <4> QED  BY <3>1, <4>1, <4>3
    <3> QED  BY <2>1, <3>1
  <2>4. db[Migration[2].key] # None  BY <2>1, <2>3 DEF Reached
  <2> QED  BY <1>1, <2>4, ListsAre
<1>2. CASE phase \in {"seeding", "ready"}
  <2>1. PICK n \in 1..5 : Reached(Seeding, n)  BY <1>2 DEF BootInv
  <2>2. SubSeq(Seeding, n, 4) = <<>> /\ Seeding \in Seq(Op) /\ Len(Seeding) = 4
    BY <2>1, ListsAre DEF Reached
  <2>3. n = 5
    <3>1. ASSUME n <= 4  PROVE FALSE
      <4>1. n \in 1..4 /\ n \in Int /\ 4 \in Int  BY <2>1, <3>1
      <4>2. Len(SubSeq(Seeding, n, 4)) = 4 - n + 1
        <5>1. \A i \in n..4 : i \in 1..Len(Seeding)  BY <2>2, <4>1
        <5> QED  BY <2>2, <4>1, <5>1, SubSeqProperties
      <4>3. 4 - n + 1 = 0  BY <2>2, <4>2
      <4> QED  BY <3>1, <4>1, <4>3
    <3> QED  BY <2>1, <3>1
  <2>4. db[Seeding[4].key] # None  BY <2>1, <2>3 DEF Reached
  <2> QED  BY <1>2, <2>4, ListsAre DEF BootInv
<1> QED  BY <1>1, <1>2

(* With no write on its way, the cache is the database.                    *)
LEMMA BootCache ==
  ASSUME Types, BootInv, ran = <<>>, \A k \in Keys \ apart : KeyInv(k)
  PROVE  \A k \in Keys : cache[k] = db[k]
BY DEF BootInv, KeyInv, CatchesUp, Unwritten

(* The boot starts its next write, or skips it: then the key is set.       *)
LEMMA IssueBoots ==
  ASSUME Parameters, Types, Waits, BootInv, \A k \in Keys \ apart : KeyInv(k),
         NEW t \in Tasks, Issue(t)
  PROVE  BootInv'
<1>1. PICK op \in Op :
           /\ op = Head(task[t].ops) /\ task[t].at = "next" /\ task[t].ops # <<>>
           /\ phase # "down" /\ Tail(task[t].ops) \in Seq(Op)
           /\ db' = db /\ cache' = cache /\ ran' = ran /\ updates' = updates
           /\ clients' = clients /\ phase' = phase /\ requests' = requests /\ downs' = downs
           /\ DOMAIN task' = Tasks /\ \A u \in Tasks \ {t} : task'[u] = task[u]
           /\ \/ /\ Skipped(op) /\ queue' = queue /\ apart' = apart
                 /\ task'[t] = [at |-> "next", ops |-> Tail(task[t].ops)]
              \/ /\ ~Skipped(op)
                 /\ \E w \in OnItsWay :
                      /\ w.by = t /\ w.op = Resolved(op) /\ w.blind = Blind(op)
                      /\ queue' = Append(queue, w)
                 /\ task'[t] = [at |-> "db", ops |-> task[t].ops]
                 /\ apart' = IF Blind(op) /\ InFlight(op.key) THEN apart \cup {op.key} ELSE apart
  BY IssueIs, Zenon
<1>2. t = "boot"
  BY <1>1 DEF Tasks, BootInv, NoTask
<1>3. queue = <<>> /\ ran = <<>> /\ updates = <<>>
  BY <1>1, <1>2, BootAlone
<1>4. \A k \in Keys : cache[k] = db[k]
  BY <1>3, BootCache
<1>5. PICK s \in {Migration, Seeding} : \E n \in 1..Len(s) :
           /\ s \in Seq(Op) /\ Reached(s, n) /\ n + 1 \in 1..(Len(s) + 1)
           /\ Head(task["boot"].ops) = s[n] /\ Tail(task["boot"].ops) = SubSeq(s, n + 1, Len(s))
           /\ \/ s = Migration /\ Len(s) = 2 /\ phase = "migrating"
              \/ s = Seeding /\ Len(s) = 4 /\ phase = "seeding" /\ db[Migrated] # None
  BY <1>1, <1>2, BootPlace
<1>6. PICK n \in 1..Len(s) :
           /\ s \in Seq(Op) /\ Reached(s, n) /\ n + 1 \in 1..(Len(s) + 1)
           /\ Head(task["boot"].ops) = s[n] /\ Tail(task["boot"].ops) = SubSeq(s, n + 1, Len(s))
           /\ \/ s = Migration /\ Len(s) = 2 /\ phase = "migrating"
              \/ s = Seeding /\ Len(s) = 4 /\ phase = "seeding" /\ db[Migrated] # None
  BY <1>5
<1>7. /\ op = s[n] /\ op.what # "unset" /\ op.key \in BootKeys
      /\ op.what \in {"lift", "default"} => phase = "seeding" /\ db[Legacy] # None
      /\ op.what # "lift" => op.val = Goal(op.key)
      /\ op.what = "lift" => op.key = ApiKey(Bundled)
  <2>1. op = s[n]  BY <1>1, <1>2, <1>6
  <2>2. CASE s = Migration /\ Len(s) = 2 /\ phase = "migrating"
    <3>1. n \in 1..2  BY <2>2
    <3> QED  BY <2>1, <2>2, <3>1, BootEntries
  <2>3. CASE s = Seeding /\ Len(s) = 4 /\ phase = "seeding" /\ db[Migrated] # None
    <3>1. n \in 1..4  BY <2>3
    <3>2. db[Legacy] # None  BY <2>3 DEF BootInv
    <3> QED  BY <2>1, <2>3, <3>1, <3>2, BootEntries
  <2> QED  BY <1>6, <2>2, <2>3
<1>8. Legacy \in Keys /\ Legacy \in BootKeys /\ op.key \in Keys
  BY <1>7, GoalsAre DEF BootKeys
<1>9. \A u \in Requests : task'[u] = NoTask
  BY <1>1, <1>2 DEF BootInv, Tasks, Parameters
<1>10. CASE /\ Skipped(op) /\ queue' = queue /\ apart' = apart
            /\ task'[t] = [at |-> "next", ops |-> Tail(task[t].ops)]
  <2>1. db[s[n].key] # None
    BY <1>4, <1>7, <1>8, <1>10 DEF Skipped
  <2>2. Reached(s, n + 1)'
    <3>1. \A j \in 1..n : db[s[j].key] # None
      <4>1. \A j \in 1..(n - 1) : db[s[j].key] # None  BY <1>6 DEF Reached
      <4>2. \A j \in 1..n : j = n \/ j \in 1..(n - 1)  BY <1>6
      <4> QED  BY <2>1, <4>1, <4>2
    <3>2. task'["boot"].ops = SubSeq(s, n + 1, Len(s)) /\ db' = db /\ (n + 1) - 1 = n
      BY <1>1, <1>2, <1>6, <1>10
    <3> QED  BY <3>1, <3>2 DEF Reached
  <2>3. /\ phase' = "migrating" => \E m \in 1..3 : Reached(Migration, m)'
        /\ phase' \in {"seeding", "ready"} => db'[Migrated] # None /\ \E m \in 1..5 : Reached(Seeding, m)'
        /\ phase' # "ready"
    <3>1. CASE s = Migration /\ Len(s) = 2 /\ phase = "migrating"
      <4>1. Reached(Migration, n + 1)' /\ n + 1 \in 1..3  BY <1>6, <2>2, <3>1
      <4> QED  BY <1>1, <3>1, <4>1
    <3>2. CASE s = Seeding /\ Len(s) = 4 /\ phase = "seeding" /\ db[Migrated] # None
      <4>1. Reached(Seeding, n + 1)' /\ n + 1 \in 1..5  BY <1>6, <2>2, <3>2
      <4> QED  BY <1>1, <3>2, <4>1
    <3> QED  BY <1>6, <3>1, <3>2
  <2>4. Range(queue') = {} /\ Range(ran') = {} /\ Range(queue)' = Range(queue') /\ Range(ran)' = Range(ran')
    BY <1>1, <1>3, <1>10 DEF Range
  <2>5. task'["boot"].at = "next"
    BY <1>2, <1>10
  <2> QED  BY <1>1, <1>9, <1>10, <2>3, <2>4, <2>5 DEF BootInv
<1>11. ASSUME NEW w \in OnItsWay, w.op = Resolved(op), queue' = Append(queue, w), ~Skipped(op),
              task'[t] = [at |-> "db", ops |-> task[t].ops], apart' = apart
       PROVE  BootInv'
  <2>1. w.op.what # "unset" /\ w.op.key = op.key /\ w.op.val = Goal(op.key)
    <3>1. CASE op.what = "lift"
      <4>1. cache[Legacy] = "key1"
        BY <1>4, <1>7, <1>8, <3>1, GoalsAre DEF BootInv
      <4>2. w.op = [op EXCEPT !.val = "key1"]
        BY <1>11, <3>1, <4>1 DEF Resolved
      <4> QED  BY <1>7, <3>1, <4>2, GoalsAre DEF Op
    <3>2. CASE op.what # "lift"
      BY <1>7, <1>11, <3>2 DEF Resolved
    <3> QED  BY <3>1, <3>2
  <2>2. \A x \in Range(queue') \cup Range(ran') : x = w
    BY <1>1, <1>3, <1>11 DEF Range
  <2>3. /\ task'["boot"].ops = task["boot"].ops /\ task'["boot"].at = "db" /\ op = Head(task["boot"].ops)
    BY <1>1, <1>2, <1>11
  <2>4. \A r, m : Reached(r, m) => Reached(r, m)'
    BY <1>1, <2>3 DEF Reached
  <2>5. Range(queue)' = Range(queue') /\ Range(ran)' = Range(ran')
    BY DEF Range
  <2>6. \A x \in Range(queue)' \cup Range(ran)' :
          x.op.what # "unset" /\ x.op.key = Head(task'["boot"].ops).key /\ x.op.val = Goal(x.op.key)
    BY <2>1, <2>2, <2>3, <2>5
  <2>7. /\ phase' = "migrating" => \E m \in 1..3 : Reached(Migration, m)'
        /\ phase' \in {"seeding", "ready"} => db'[Migrated] # None /\ \E m \in 1..5 : Reached(Seeding, m)'
        /\ phase' = "ready" => task'["boot"].ops = <<>>
    BY <1>1, <2>3, <2>4 DEF BootInv
  <2> QED  BY <1>1, <1>9, <1>11, <2>3, <2>6, <2>7 DEF BootInv
<1>12. ~Blind(op)
  BY <1>7 DEF Blind
<1> QED  BY <1>1, <1>10, <1>11, <1>12

(* The database runs the boot's write: one more of its keys is set.        *)
LEMMA RunBoots ==
  ASSUME Parameters, Types, Waits, BootInv, DatabaseRuns
  PROVE  BootInv'
<1>1. PICK w \in OnItsWay, x \in OnItsWay :
           /\ w = Head(queue) /\ queue # <<>> /\ queue' = Tail(queue) /\ phase # "down"
           /\ x.by = w.by /\ x.op = w.op /\ x.blind = w.blind /\ ran' = Append(ran, x)
           /\ w.op.key \in Keys /\ w.op.val \in Data /\ db' = [db EXCEPT ![w.op.key] = w.op.val]
           /\ cache' = cache /\ updates' = updates /\ clients' = clients /\ task' = task
           /\ phase' = phase /\ requests' = requests /\ downs' = downs /\ apart' = apart
  BY RunIs, Zenon
<1>2. queue \in Seq(OnItsWay) /\ ran \in Seq(OnItsWay) /\ db \in [Keys -> Data]
  BY DEF Types
<1>3. w = queue[1] /\ 1 \in DOMAIN queue /\ DOMAIN queue = 1..Len(queue) /\ Len(queue) \in Nat
      /\ queue' \in Seq(OnItsWay) /\ Len(queue') = Len(queue) - 1
  BY <1>1, <1>2, Popped
<1>4. w.by = "boot" /\ ran = <<>> /\ Len(queue) = 1
  <2>1. w.by = "boot" /\ ran = <<>> /\ \A n \in DOMAIN queue : n = 1
    BY <1>3, BootAlone
  <2>2. Len(queue) \in DOMAIN queue
    BY <1>3
  <2> QED  BY <2>1, <2>2
<1>5. DOMAIN queue' = {} /\ \A n \in DOMAIN ran' : ran'[n] = x
  <2>1. DOMAIN queue' = {}  BY <1>3, <1>4
  <2>2. ran' = <<x>>  BY <1>1, <1>4
  <2> QED  BY <2>1, <2>2
<1>6. /\ w.op.what # "unset" /\ w.op.key = Head(task["boot"].ops).key
      /\ w.op.val = Goal(w.op.key)
  <2>1. w \in Range(queue)  BY <1>3 DEF Range
  <2> QED  BY <2>1 DEF BootInv
<1>7. task["boot"].at = "db" /\ task["boot"].ops # <<>>
  BY <1>3, <1>4 DEF Waits, Tasks
<1>8. PICK s \in {Migration, Seeding} : \E n \in 1..Len(s) :
           /\ s \in Seq(Op) /\ Reached(s, n)
           /\ Head(task["boot"].ops) = s[n]
           /\ \/ s = Migration /\ Len(s) = 2 /\ phase = "migrating"
              \/ s = Seeding /\ Len(s) = 4 /\ phase = "seeding" /\ db[Migrated] # None
  BY <1>7, BootPlace
<1>9. PICK n \in 1..Len(s) :
           /\ s \in Seq(Op) /\ Reached(s, n)
           /\ Head(task["boot"].ops) = s[n]
           /\ \/ s = Migration /\ Len(s) = 2 /\ phase = "migrating"
              \/ s = Seeding /\ Len(s) = 4 /\ phase = "seeding" /\ db[Migrated] # None
  BY <1>8
<1>10. PICK k : k = w.op.key  OBVIOUS
<1>11. k = s[n].key /\ k \in BootKeys /\ k \in Keys /\ Goal(k) # None
  <2>1. k = s[n].key  BY <1>6, <1>9, <1>10
  <2>2. CASE s = Migration /\ Len(s) = 2 /\ phase = "migrating"
    <3>1. n \in 1..2  BY <2>2
    <3> QED  BY <2>1, <2>2, <3>1, BootEntries, GoalsAre
  <2>3. CASE s = Seeding /\ Len(s) = 4 /\ phase = "seeding" /\ db[Migrated] # None
    <3>1. n \in 1..4  BY <2>3
    <3> QED  BY <2>1, <2>3, <3>1, BootEntries, GoalsAre
  <2> QED  BY <1>9, <2>2, <2>3
<1>12. \A j \in Keys : db'[j] = IF j = k THEN Goal(k) ELSE db[j]
  BY <1>1, <1>2, <1>6, <1>10
<1>13. BootKeys \subseteq Keys /\ Legacy \in BootKeys /\ Migrated \in BootKeys /\ Seeded \in BootKeys
  BY GoalsAre DEF BootKeys
<1>14. \A j \in Keys : db[j] # None => db'[j] # None
  BY <1>11, <1>12
<1>15. \A j \in BootKeys : db'[j] \in {None, Goal(j)}
  BY <1>12, <1>13 DEF BootInv
<1>16. db'[Migrated] # None => db'[Legacy] # None
  <2>1. CASE k # Migrated
    BY <1>12, <1>13, <1>14, <2>1 DEF BootInv
  <2>2. CASE k = Migrated
    <3>1. s = Migration /\ n = 2
      <4>1. CASE s = Migration /\ Len(s) = 2
        <5>1. n \in 1..2  BY <4>1
        <5> QED  BY <1>11, <2>2, <4>1, <5>1, MarkersLast
      <4>2. CASE s = Seeding /\ Len(s) = 4
        <5>1. n \in 1..4  BY <4>2
        <5> QED  BY <1>11, <2>2, <4>2, <5>1, MarkersLast
      <4> QED  BY <1>9, <4>1, <4>2
    <3>2. db[Migration[1].key] # None
      BY <1>9, <3>1 DEF Reached
    <3> QED  BY <1>13, <1>14, <3>2, ListsAre
  <2> QED  BY <2>1, <2>2
<1>17. db'[Seeded] # None => \A j \in BootKeys : db'[j] # None
  <2>1. CASE k # Seeded
    BY <1>12, <1>13, <1>14, <2>1 DEF BootInv
  <2>2. CASE k = Seeded
    <3>1. s = Seeding /\ n = 4 /\ db[Migrated] # None
      <4>1. CASE s = Migration /\ Len(s) = 2
        <5>1. n \in 1..2  BY <4>1
        <5> QED  BY <1>11, <2>2, <4>1, <5>1, MarkersLast
      <4>2. CASE s = Seeding /\ Len(s) = 4 /\ db[Migrated] # None
        <5>1. n \in 1..4  BY <4>2
        <5> QED  BY <1>11, <2>2, <4>2, <5>1, MarkersLast
      <4> QED  BY <1>9, <4>1, <4>2
    <3>2. db[Seeding[1].key] # None /\ db[Seeding[2].key] # None /\ db[Seeding[3].key] # None
      BY <1>9, <3>1 DEF Reached
    <3>3. db[Legacy] # None
      BY <3>1 DEF BootInv
    <3>4. \A j \in BootKeys : j = Seeded \/ db[j] # None
      BY <3>1, <3>2, <3>3, ListsAre DEF BootKeys
    <3> QED  BY <1>11, <1>12, <1>13, <1>14, <2>2, <3>4
  <2> QED  BY <2>1, <2>2
<1>18. ASSUME NEW r \in {Migration, Seeding}, NEW m \in 1..(Len(r) + 1), Reached(r, m)
       PROVE  Reached(r, m)'
  <2>1. ASSUME NEW j \in 1..(m - 1)  PROVE db'[r[j].key] # None
    <3>1. db[r[j].key] # None  BY <1>18 DEF Reached
    <3>2. r[j].key \in Keys
      <4>1. r \in Seq(Op) /\ Len(r) \in Nat  BY <1>18, ListsAre
      <4>2. r[j] \in Op  BY <4>1
      <4> QED  BY <4>2 DEF Op
    <3> QED  BY <1>14, <3>1, <3>2
  <2> QED  BY <1>1, <1>18, <2>1 DEF Reached
<1>19. /\ phase' = "migrating" => \E m \in 1..3 : Reached(Migration, m)'
       /\ phase' \in {"seeding", "ready"} => db'[Migrated] # None /\ \E m \in 1..5 : Reached(Seeding, m)'
       /\ phase' = "ready" => task'["boot"].ops = <<>>
  <2>1. ASSUME NEW m \in 1..3, Reached(Migration, m)  PROVE Reached(Migration, m)'
    <3>1. m \in 1..(Len(Migration) + 1)
      <4>1. Len(Migration) = 2  BY ListsAre
      <4> QED  BY <4>1
    <3> QED  BY <1>18, <2>1, <3>1
  <2>2. ASSUME NEW m \in 1..5, Reached(Seeding, m)  PROVE Reached(Seeding, m)'
    <3>1. m \in 1..(Len(Seeding) + 1)
      <4>1. Len(Seeding) = 4  BY ListsAre
      <4> QED  BY <4>1
    <3> QED  BY <1>18, <2>2, <3>1
  <2>3. db[Migrated] # None => db'[Migrated] # None
    BY <1>13, <1>14
  <2> QED  BY <1>1, <2>1, <2>2, <2>3 DEF BootInv
<1>20. \A y \in Range(queue)' \cup Range(ran)' :
         y.op.what # "unset" /\ y.op.key = Head(task'["boot"].ops).key /\ y.op.val = Goal(y.op.key)
  BY <1>1, <1>5, <1>6 DEF Range
<1> QED  BY <1>1, <1>7, <1>15, <1>16, <1>17, <1>19, <1>20 DEF BootInv

(* The boot goes on to its next write: the key of the last is set.         *)
LEMMA NextBoots ==
  ASSUME Parameters, Types, Waits, BootInv, task["boot"].ops # <<>>,
         db[Head(task["boot"].ops).key] # None,
         task'["boot"] = [at |-> "next", ops |-> Tail(task["boot"].ops)],
         \A t \in Requests : task'[t] = task[t],
         db' = db, phase' = phase, apart' = apart, Range(queue)' = {}, Range(ran)' = {}
  PROVE  BootInv'
<1>1. PICK s \in {Migration, Seeding} : \E n \in 1..Len(s) :
           /\ s \in Seq(Op) /\ Reached(s, n) /\ n + 1 \in 1..(Len(s) + 1)
           /\ Head(task["boot"].ops) = s[n] /\ Tail(task["boot"].ops) = SubSeq(s, n + 1, Len(s))
           /\ \/ s = Migration /\ Len(s) = 2 /\ phase = "migrating"
              \/ s = Seeding /\ Len(s) = 4 /\ phase = "seeding" /\ db[Migrated] # None
  BY BootPlace
<1>2. PICK n \in 1..Len(s) :
           /\ s \in Seq(Op) /\ Reached(s, n) /\ n + 1 \in 1..(Len(s) + 1)
           /\ Head(task["boot"].ops) = s[n] /\ Tail(task["boot"].ops) = SubSeq(s, n + 1, Len(s))
           /\ \/ s = Migration /\ Len(s) = 2 /\ phase = "migrating"
              \/ s = Seeding /\ Len(s) = 4 /\ phase = "seeding" /\ db[Migrated] # None
  BY <1>1
<1>3. Reached(s, n + 1)'
  <2>1. \A j \in 1..n : db[s[j].key] # None
    <3>1. \A j \in 1..(n - 1) : db[s[j].key] # None  BY <1>2 DEF Reached
    <3>2. \A j \in 1..n : j = n \/ j \in 1..(n - 1)  BY <1>2
    <3> QED  BY <1>2, <3>1, <3>2
  <2>2. task'["boot"].ops = SubSeq(s, n + 1, Len(s)) /\ (n + 1) - 1 = n
    BY <1>2
  <2> QED  BY <2>1, <2>2 DEF Reached
<1>4. /\ phase' = "migrating" => \E m \in 1..3 : Reached(Migration, m)'
      /\ phase' \in {"seeding", "ready"} => db'[Migrated] # None /\ \E m \in 1..5 : Reached(Seeding, m)'
      /\ phase' # "ready"
  <2>1. CASE s = Migration /\ Len(s) = 2 /\ phase = "migrating"
    <3>1. Reached(Migration, n + 1)' /\ n + 1 \in 1..3  BY <1>2, <1>3, <2>1
    <3> QED  BY <2>1, <3>1
  <2>2. CASE s = Seeding /\ Len(s) = 4 /\ phase = "seeding" /\ db[Migrated] # None
    <3>1. Reached(Seeding, n + 1)' /\ n + 1 \in 1..5  BY <1>2, <1>3, <2>2
    <3> QED  BY <2>2, <3>1
  <2> QED  BY <1>2, <2>1, <2>2
<1>5. \A t \in Requests : task'[t] = NoTask
  BY DEF BootInv
<1>6. task'["boot"].at = "next"
  OBVIOUS
<1>7. /\ apart' = {} /\ \A k \in BootKeys : db'[k] \in {None, Goal(k)}
      /\ db'[Migrated] # None => db'[Legacy] # None
      /\ db'[Seeded] # None => \A k \in BootKeys : db'[k] # None
  BY DEF BootInv
<1> QED  BY <1>4, <1>5, <1>6, <1>7 DEF BootInv

LEMMA ResumeBoots ==
  ASSUME Parameters, Types, Waits, BootInv, \A k \in Keys \ apart : KeyInv(k), Resume
  PROVE  BootInv'
<1>1. PICK w \in OnItsWay :
           /\ w = Head(ran) /\ ran # <<>> /\ ran' = Tail(ran) /\ phase # "down"
           /\ w.by \in Tasks /\ w.op \in Op /\ w.op.key \in Keys /\ w.op.val \in Data
           /\ task[w.by].at = "db" /\ task[w.by].ops # <<>> /\ Tail(task[w.by].ops) \in Seq(Op)
           /\ cache' = IF w.blind THEN cache ELSE [cache EXCEPT ![w.op.key] = w.op.val]
           /\ DOMAIN task' = Tasks /\ \A u \in Tasks \ {w.by} : task'[u] = task[u]
           /\ \/ /\ w.blind \/ w.op.what = "migrate"
                 /\ updates' = updates
                 /\ task'[w.by] = [at |-> "next", ops |-> Tail(task[w.by].ops)]
              \/ /\ w.op.what # "migrate"
                 /\ \E u \in Update : u.by = w.by /\ u.key = w.op.key /\ updates' = Append(updates, u)
                 /\ task'[w.by] = [at |-> "publishing", ops |-> task[w.by].ops]
           /\ db' = db /\ queue' = queue /\ clients' = clients
           /\ phase' = phase /\ requests' = requests /\ downs' = downs /\ apart' = apart
  BY ResumeIs, Zenon
<1>2. ran \in Seq(OnItsWay)
  BY DEF Types
<1>3. w = ran[1] /\ 1 \in DOMAIN ran /\ DOMAIN ran = 1..Len(ran) /\ Len(ran) \in Nat
      /\ ran' \in Seq(OnItsWay) /\ Len(ran') = Len(ran) - 1
  BY <1>1, <1>2, Popped
<1>4. w.by = "boot" /\ queue = <<>> /\ Len(ran) = 1
  <2>1. w.by = "boot" /\ queue = <<>> /\ \A n \in DOMAIN ran : n = 1
    BY <1>3, BootAlone
  <2>2. Len(ran) \in DOMAIN ran
    BY <1>3
  <2> QED  BY <2>1, <2>2
<1>5. Range(queue)' = {} /\ Range(ran)' = {}
  <2>1. DOMAIN ran' = {}  BY <1>3, <1>4
  <2> QED  BY <1>1, <1>4, <2>1 DEF Range
<1>6. /\ w.op.what # "unset" /\ w.op.key = Head(task["boot"].ops).key
      /\ w.op.val = Goal(w.op.key)
  <2>1. w \in Range(ran)  BY <1>3 DEF Range
  <2> QED  BY <2>1 DEF BootInv
<1>7. task["boot"].ops # <<>>
  BY <1>1, <1>4
<1>8. db[Head(task["boot"].ops).key] # None
  <2>1. db[w.op.key] = w.op.val
    <3>1. Unwritten(w.op.key, ran, 2, Len(ran))  BY <1>4 DEF Unwritten
    <3>2. w.op.key \in Keys \ apart  BY <1>1 DEF BootInv
    <3> QED  BY <1>3, <3>1, <3>2 DEF KeyInv, CatchesUp
  <2>2. Head(task["boot"].ops).key \in BootKeys
    <3>1. PICK s \in {Migration, Seeding} : \E n \in 1..Len(s) :
             /\ Head(task["boot"].ops) = s[n]
             /\ (s = Migration /\ Len(s) = 2) \/ (s = Seeding /\ Len(s) = 4)
      BY <1>7, BootPlace
    <3>2. PICK n \in 1..Len(s) : Head(task["boot"].ops) = s[n]
      BY <3>1
    <3>3. CASE s = Migration /\ Len(s) = 2
      <4>1. n \in 1..2  BY <3>3
      <4> QED  BY <3>2, <3>3, <4>1, BootEntries
    <3>4. CASE s = Seeding /\ Len(s) = 4
      <4>1. n \in 1..4  BY <3>4
      <4> QED  BY <3>2, <3>4, <4>1, BootEntries
    <3> QED  BY <3>1, <3>3, <3>4
  <2> QED  BY <1>6, <2>1, <2>2, GoalsAre
<1>9. \A t \in Requests : task'[t] = task[t]
  BY <1>1, <1>4 DEF Tasks, Parameters
<1>10. CASE task'[w.by] = [at |-> "next", ops |-> Tail(task[w.by].ops)]
  <2>1. task'["boot"] = [at |-> "next", ops |-> Tail(task["boot"].ops)]
    BY <1>4, <1>10
  <2>2. db' = db /\ phase' = phase /\ apart' = apart
    BY <1>1
  <2> QED  BY <1>5, <1>7, <1>8, <1>9, <2>1, <2>2, NextBoots
<1>11. CASE task'[w.by] = [at |-> "publishing", ops |-> task[w.by].ops]
  <2>1. task'["boot"].at = "publishing" /\ task'["boot"].ops = task["boot"].ops
    BY <1>4, <1>11
  <2>2. \A r, m : Reached(r, m) => Reached(r, m)'
    BY <1>1, <2>1 DEF Reached
  <2> QED  BY <1>1, <1>5, <1>8, <1>9, <2>1, <2>2 DEF BootInv
<1> QED  BY <1>1, <1>10, <1>11

LEMMA DeliverBoots ==
  ASSUME Parameters, Types, Waits, BootInv, Deliver
  PROVE  BootInv'
<1>1. PICK u \in Update :
           /\ u = Head(updates) /\ updates # <<>> /\ u.by \in Tasks
           /\ task[u.by].at = "publishing" /\ task[u.by].ops # <<>>
           /\ \A v \in Tasks \ {u.by} : task'[v] = task[v]
           /\ task'[u.by] = [at |-> "next", ops |-> Tail(task[u.by].ops)]
           /\ db' = db /\ queue' = queue /\ ran' = ran /\ phase' = phase /\ apart' = apart
  BY DeliverIs
<1>2. u = updates[1] /\ 1 \in DOMAIN updates
  BY <1>1, Popped DEF Types
<1>3. u.by = "boot" /\ queue = <<>> /\ ran = <<>>
  BY <1>1, <1>2, BootAlone
<1>4. Range(queue)' = {} /\ Range(ran)' = {}
  BY <1>1, <1>3 DEF Range
<1>5. db[Head(task["boot"].ops).key] # None
  BY <1>1, <1>3 DEF BootInv
<1>6. \A t \in Requests : task'[t] = task[t]
  BY <1>1, <1>3 DEF Tasks, Parameters
<1>7. task'["boot"] = [at |-> "next", ops |-> Tail(task["boot"].ops)] /\ task["boot"].ops # <<>>
  BY <1>1, <1>3
<1> QED  BY <1>1, <1>4, <1>5, <1>6, <1>7, NextBoots

(* The server goes up and down.                                            *)
LEMMA ServerBoots ==
  ASSUME Parameters, Types, Waits, BootInv, phase # "down" => \A k \in Keys \ apart : KeyInv(k),
         Open \/ LoadPlugins \/ Ready \/ GoDown \/ UNCHANGED vars
  PROVE  BootInv'
<1>1. "boot" \in Tasks /\ Requests \subseteq Tasks /\ "boot" \notin Requests
  BY DEF Tasks, Parameters
<1>2. task \in [Tasks -> [at : {"next", "db", "publishing"}, ops : Seq(Op)]]
  BY DEF Types
<1>3. \A s : \A t : Range(t)' = Range(t')
  BY DEF Range
<1>4. Range(<<>>) = {}
  BY DEF Range
<1>5. CASE Open
  <2>1. /\ phase = "down" /\ phase' = "migrating" /\ apart' = {} /\ db' = db
        /\ task' = [task EXCEPT !["boot"].ops = IF db[Migrated] = None THEN Migration ELSE <<>>]
        /\ queue' = queue /\ ran' = ran
    BY <1>5 DEF Open
  <2>2. queue = <<>> /\ ran = <<>> /\ \A t \in Tasks : task[t] = NoTask
    BY <2>1 DEF Waits
  <2>3. /\ task'["boot"].ops = IF db[Migrated] = None THEN Migration ELSE <<>>
        /\ task'["boot"].at = "next" /\ \A t \in Requests : task'[t] = NoTask
    BY <1>1, <1>2, <2>1, <2>2 DEF NoTask
  <2>4. \E n \in 1..3 : Reached(Migration, n)'
    <3>1. Migration \in Seq(Op) /\ Len(Migration) = 2  BY ListsAre
    <3>2. CASE db[Migrated] = None
      <4>1. SubSeq(Migration, 1, Len(Migration)) = Migration  BY <3>1, SubSeqFull
      <4>2. task'["boot"].ops = Migration  BY <2>3, <3>2
      <4>3. Reached(Migration, 1)'  BY <4>1, <4>2 DEF Reached
      <4> QED  BY <4>3
    <3>3. CASE db[Migrated] # None
      <4>1. SubSeq(Migration, 3, Len(Migration)) = <<>>  BY <3>1, SubSeqEmpty
      <4>2. task'["boot"].ops = <<>>  BY <2>3, <3>3
      <4>3. \A j \in 1..2 : db[Migration[j].key] # None
        <5>1. db[Legacy] # None  BY <3>3 DEF BootInv
        <5>2. \A j \in 1..2 : j = 1 \/ j = 2  OBVIOUS
        <5> QED  BY <3>3, <5>1, <5>2, ListsAre
      <4>4. \A j \in 1..(3 - 1) : db'[Migration[j].key] # None  BY <2>1, <4>3
      <4>5. Reached(Migration, 3)'  BY <4>1, <4>2, <4>4, Zenon DEF Reached
      <4> QED  BY <4>5
    <3> QED  BY <3>2, <3>3
  <2>5. Range(queue)' = {} /\ Range(ran)' = {}
    BY <1>3, <1>4, <2>1, <2>2
  <2> QED  BY <2>1, <2>3, <2>4, <2>5 DEF BootInv
<1>6. CASE LoadPlugins
  <2>1. /\ phase = "migrating" /\ phase' = "seeding" /\ task["boot"].ops = <<>> /\ db' = db
        /\ task' = [task EXCEPT !["boot"].ops = IF cache[Seeded] = None THEN Seeding ELSE <<>>]
        /\ queue' = queue /\ ran' = ran /\ apart' = apart
    BY <1>6 DEF LoadPlugins
  <2>2. task["boot"].at = "next"
    BY <1>1, <2>1 DEF Waits
  <2>3. queue = <<>> /\ ran = <<>>
    BY <2>2, BootAlone
  <2>4. \A k \in Keys : cache[k] = db[k]
    BY <2>1, <2>3, BootCache
  <2>5. /\ task'["boot"].ops = IF cache[Seeded] = None THEN Seeding ELSE <<>>
        /\ task'["boot"].at = "next" /\ \A t \in Requests : task'[t] = NoTask
    BY <1>1, <1>2, <2>1, <2>2 DEF BootInv
  <2>6. db[Migrated] # None
    BY <2>1, BootThrough
  <2>7. \E n \in 1..5 : Reached(Seeding, n)'
    <3>1. Seeding \in Seq(Op) /\ Len(Seeding) = 4  BY ListsAre
    <3>2. CASE cache[Seeded] = None
      <4>1. SubSeq(Seeding, 1, Len(Seeding)) = Seeding  BY <3>1, SubSeqFull
      <4>2. task'["boot"].ops = Seeding  BY <2>5, <3>2
      <4>3. Reached(Seeding, 1)'  BY <4>1, <4>2 DEF Reached
      <4> QED  BY <4>3
    <3>3. CASE cache[Seeded] # None
      <4>1. SubSeq(Seeding, 5, Len(Seeding)) = <<>>  BY <3>1, SubSeqEmpty
      <4>2. task'["boot"].ops = <<>>  BY <2>5, <3>3
      <4>3. \A k \in BootKeys : db[k] # None
        <5>1. Seeded \in Keys  BY GoalsAre DEF BootKeys
        <5> QED  BY <2>4, <3>3, <5>1 DEF BootInv
      <4>4. \A j \in 1..4 : db[Seeding[j].key] # None
        BY <4>3, BootEntries
      <4>5. \A j \in 1..(5 - 1) : db'[Seeding[j].key] # None  BY <2>1, <4>4
      <4>6. Reached(Seeding, 5)'  BY <4>1, <4>2, <4>5, Zenon DEF Reached
      <4> QED  BY <4>6
    <3> QED  BY <3>2, <3>3
  <2>8. Range(queue)' = {} /\ Range(ran)' = {}
    BY <1>3, <1>4, <2>1, <2>3
  <2> QED  BY <2>1, <2>5, <2>6, <2>7, <2>8 DEF BootInv
<1>7. CASE Ready
  <2>1. /\ phase = "seeding" /\ phase' = "ready" /\ task["boot"].ops = <<>> /\ task' = task /\ db' = db
        /\ queue' = queue /\ ran' = ran /\ apart' = apart
    BY <1>7 DEF Ready, storeVars
  <2>2. \A r, m : Reached(r, m) => Reached(r, m)'
    BY <2>1 DEF Reached
  <2>3. Range(queue)' = Range(queue) /\ Range(ran)' = Range(ran)
    BY <2>1 DEF Range
  <2> QED  BY <2>1, <2>2, <2>3 DEF BootInv
<1>8. CASE GoDown
  <2>1. /\ phase' = "down" /\ queue' = <<>> /\ ran' = <<>> /\ db' = db /\ apart' = apart
        /\ task' = [t \in Tasks |-> NoTask]
    BY <1>8 DEF GoDown
  <2>2. \A t \in Tasks : task'[t] = NoTask
    BY <2>1
  <2>3. task'["boot"].at = "next"
    BY <1>1, <2>2 DEF NoTask
  <2>4. Range(queue)' = {} /\ Range(ran)' = {}
    BY <1>3, <1>4, <2>1
  <2> QED  BY <1>1, <2>1, <2>2, <2>3, <2>4 DEF BootInv
<1>9. CASE UNCHANGED vars
  <2>1. /\ phase' = phase /\ task' = task /\ db' = db /\ queue' = queue /\ ran' = ran /\ apart' = apart
    BY <1>9 DEF vars, storeVars
  <2>2. \A r, m : Reached(r, m) => Reached(r, m)'
    BY <2>1 DEF Reached
  <2>3. Range(queue)' = Range(queue) /\ Range(ran)' = Range(ran)
    BY <2>1 DEF Range
  <2> QED  BY <2>1, <2>2, <2>3 DEF BootInv
<1> QED  BY <1>5, <1>6, <1>7, <1>8, <1>9

-----------------------------------------------------------------------------
(* The inductive invariant of ConfigStore holds at first.                  *)
LEMMA ConfigInit == Parameters /\ Init => ConfigInv
<1> SUFFICES ASSUME Parameters, Init  PROVE ConfigInv
  OBVIOUS
<1>1. /\ db = [k \in Keys |-> None] /\ cache = db /\ queue = <<>> /\ ran = <<>> /\ updates = <<>>
      /\ task = [t \in Tasks |-> NoTask] /\ phase = "down" /\ clients = [i \in Instances |-> None]
      /\ requests = 0 /\ downs = 0 /\ apart = {}
  BY DEF Init
<1>2. NoTask \in [at : {"next", "db", "publishing"}, ops : Seq(Op)] /\ NoTask.at = "next"
  BY DEF NoTask
<1>3. Types
  BY <1>1, <1>2 DEF Types, Data
<1>4. Waits
  BY <1>1, <1>2 DEF Waits, Different
<1>5. ClientsFollow
  BY <1>1 DEF ClientsFollow
<1>6. BootInv
  <2>1. \A k \in BootKeys : db[k] = None
    BY <1>1, GoalsAre
  <2>2. db[Migrated] = None /\ db[Seeded] = None
    BY <2>1 DEF BootKeys
  <2>3. Range(queue) = {} /\ Range(ran) = {}
    BY <1>1 DEF Range
  <2>4. (\A t \in Requests : task[t] = NoTask) /\ task["boot"].at = "next"
    BY <1>1, <1>2 DEF Tasks
  <2> QED  BY <1>1, <2>1, <2>2, <2>3, <2>4 DEF BootInv
<1> QED  BY <1>1, <1>3, <1>4, <1>5, <1>6 DEF ConfigInv

(* The step of it: by what moves, the keys, the clients or the boot.       *)
LEMMA ConfigStep == ConfigInv /\ [Next]_vars => ConfigInv'
<1> SUFFICES ASSUME ConfigInv, [Next]_vars  PROVE ConfigInv'
  OBVIOUS
<1>1. /\ Parameters /\ Types /\ Waits /\ ClientsFollow
      /\ phase # "down" => \A k \in Keys \ apart : KeyInv(k)
      /\ requests = 0 => BootInv
  BY DEF ConfigInv
<1> DEFINE KeysHold == phase # "down" => \A k \in Keys \ apart : KeyInv(k)
           BootHolds == requests = 0 => BootInv
<1>2. Parameters'
  BY <1>1 DEF Parameters
<1>3. ASSUME TypesWaits', ClientsFollow', KeysHold', BootHolds'  PROVE ConfigInv'
  BY <1>2, <1>3 DEF ConfigInv, TypesWaits
<1>4. ASSUME NEW t \in Tasks, Issue(t)  PROVE ConfigInv'
  <2>1. TypesWaits'  BY <1>1, <1>4, IssueTypes
  <2>2. phase # "down" /\ phase' = phase /\ requests' = requests /\ clients' = clients
        /\ cache' = cache /\ updates' = updates
    <3>1. phase # "down"  BY <1>1, <1>4 DEF Waits, Issue, NoTask
    <3> QED  BY <1>4, <3>1 DEF Issue, countVars
  <2>3. KeysHold'  BY <1>1, <1>4, <2>2, IssueKeys
  <2>4. ClientsFollow'  BY <1>1, <2>2, StillClients
  <2>5. BootHolds'  BY <1>1, <1>4, <2>2, IssueBoots
  <2> QED  BY <1>3, <2>1, <2>3, <2>4, <2>5
<1>5. CASE DatabaseRuns
  <2>1. TypesWaits'  BY <1>1, <1>5, RunTypes
  <2>2. phase # "down" /\ phase' = phase /\ requests' = requests /\ clients' = clients
        /\ cache' = cache /\ updates' = updates
    BY <1>1, <1>5 DEF Waits, DatabaseRuns, countVars
  <2>3. KeysHold'  BY <1>1, <1>5, <2>2, RunKeys
  <2>4. ClientsFollow'  BY <1>1, <2>2, StillClients
  <2>5. BootHolds'  BY <1>1, <1>5, <2>2, RunBoots
  <2> QED  BY <1>3, <2>1, <2>3, <2>4, <2>5
<1>6. CASE Resume
  <2>1. TypesWaits'  BY <1>1, <1>6, ResumeTypes
  <2>2. phase # "down" /\ phase' = phase /\ requests' = requests
    BY <1>1, <1>6 DEF Waits, Resume, countVars
  <2>3. KeysHold'  BY <1>1, <1>6, <2>2, ResumeKeys
  <2>4. ClientsFollow'  BY <1>1, <1>6, ResumeClients
  <2>5. BootHolds'  BY <1>1, <1>6, <2>2, ResumeBoots
  <2> QED  BY <1>3, <2>1, <2>3, <2>4, <2>5
<1>7. CASE Deliver
  <2>1. TypesWaits'  BY <1>1, <1>7, DeliverTypes
  <2>2. /\ phase # "down" /\ phase' = phase /\ requests' = requests
        /\ queue' = queue /\ ran' = ran /\ db' = db /\ cache' = cache /\ apart' = apart
    BY <1>1, <1>7 DEF Waits, Deliver, countVars
  <2>3. KeysHold'  BY <1>1, <2>2, StillKeys
  <2>4. ClientsFollow'  BY <1>1, <1>7, DeliverClients
  <2>5. BootHolds'  BY <1>1, <1>7, <2>2, DeliverBoots
  <2> QED  BY <1>3, <2>1, <2>3, <2>4, <2>5
<1>8. CASE Open
  <2>1. TypesWaits'  BY <1>1, <1>8, ServerTypes
  <2>2. phase' = "migrating" /\ requests' = requests
    BY <1>8 DEF Open, countVars
  <2>3. KeysHold'  BY <1>1, <1>8, OpenKeys
  <2>4. ClientsFollow'  BY <2>2 DEF ClientsFollow
  <2>5. BootHolds'  BY <1>1, <1>8, <2>2, ServerBoots
  <2> QED  BY <1>3, <2>1, <2>3, <2>4, <2>5
<1>9. CASE LoadPlugins
  <2>1. TypesWaits'  BY <1>1, <1>9, ServerTypes
  <2>2. /\ phase # "down" /\ requests' = requests
        /\ queue' = queue /\ ran' = ran /\ db' = db /\ cache' = cache /\ apart' = apart
    BY <1>9 DEF LoadPlugins, countVars
  <2>3. KeysHold'  BY <1>1, <2>2, StillKeys
  <2>4. ClientsFollow'  BY <1>9, LoadClients
  <2>5. BootHolds'  BY <1>1, <1>9, <2>2, ServerBoots
  <2> QED  BY <1>3, <2>1, <2>3, <2>4, <2>5
<1>10. CASE Ready
  <2>1. TypesWaits'  BY <1>1, <1>10, ServerTypes
  <2>2. /\ phase = "seeding" /\ requests' = requests /\ updates' = updates /\ clients' = clients
        /\ queue' = queue /\ ran' = ran /\ db' = db /\ cache' = cache /\ apart' = apart
    BY <1>10 DEF Ready, storeVars, countVars
  <2>3. KeysHold'  BY <1>1, <2>2, StillKeys
  <2>4. ClientsFollow'  BY <1>1, <2>2, StillClients
  <2>5. BootHolds'  BY <1>1, <1>10, <2>2, ServerBoots
  <2> QED  BY <1>3, <2>1, <2>3, <2>4, <2>5
<1>11. CASE GoDown
  <2>1. TypesWaits'  BY <1>1, <1>11, ServerTypes
  <2>2. phase' = "down" /\ requests' = requests
    BY <1>11 DEF GoDown
  <2>3. KeysHold'  BY <2>2
  <2>4. ClientsFollow'  BY <2>2 DEF ClientsFollow
  <2>5. BootHolds'  BY <1>1, <1>11, <2>2, ServerBoots
  <2> QED  BY <1>3, <2>1, <2>3, <2>4, <2>5
<1>12. ASSUME NEW t \in Requests, NEW ops \in Seq(Op), Handle(t, ops)  PROVE ConfigInv'
  <2>1. TypesWaits'  BY <1>1, <1>12, ServerTypes
  <2>2. /\ phase' = phase /\ phase # "down" /\ requests' = requests + 1 /\ updates' = updates
        /\ queue' = queue /\ ran' = ran /\ db' = db /\ cache' = cache /\ apart' = apart
        /\ clients' = clients
    BY <1>12 DEF Handle, storeVars
  <2>3. KeysHold'  BY <1>1, <2>2, StillKeys
  <2>4. ClientsFollow'  BY <1>1, <2>2, StillClients
  <2>5. BootHolds'
    <3>1. requests' # 0  BY <1>1, <2>2 DEF Types
    <3> QED  BY <3>1
  <2> QED  BY <1>3, <2>1, <2>3, <2>4, <2>5
<1>13. CASE UNCHANGED vars
  <2>1. TypesWaits'  BY <1>1, <1>13, ServerTypes
  <2>2. /\ phase' = phase /\ requests' = requests /\ updates' = updates
        /\ queue' = queue /\ ran' = ran /\ db' = db /\ cache' = cache /\ apart' = apart
        /\ clients' = clients
    BY <1>13 DEF vars, storeVars, countVars
  <2>3. KeysHold'  BY <1>1, <2>2, StillKeys
  <2>4. ClientsFollow'  BY <1>1, <2>2, StillClients
  <2>5. BootHolds'  BY <1>1, <1>13, <2>2, ServerBoots
  <2> QED  BY <1>3, <2>1, <2>3, <2>4, <2>5
<1>14. ASSUME Next  PROVE ConfigInv'
  <2>1. \/ \E t \in Requests, i \in Instances :
             CreateInstance(t, i) \/ PatchInstance(t, i) \/ DeleteInstance(t, i) \/ SetActive(t, i)
        \/ \E t \in Requests, k \in Writable : ConfigPatch(t, k) \/ ConfigDelete(t, k)
        => \E t \in Requests : \E ops \in Seq(Op) : Handle(t, ops)
    BY <1>1, RequestIs, FitList
  <2> QED  BY <1>4, <1>5, <1>6, <1>7, <1>8, <1>9, <1>10, <1>11, <1>12, <1>14, <2>1 DEF Next
<1> QED  BY <1>13, <1>14

(* What the invariant says of the cache, the clients and the seeding.      *)
LEMMA ConfigTells == ConfigInv => CacheTellsDb /\ ClientsFollow /\ SeedsWhole
<1> SUFFICES ASSUME ConfigInv  PROVE CacheTellsDb /\ ClientsFollow /\ SeedsWhole
  OBVIOUS
<1>1. /\ Parameters /\ Types /\ Waits /\ ClientsFollow
      /\ phase # "down" => \A k \in Keys \ apart : KeyInv(k)
      /\ requests = 0 => BootInv
  BY DEF ConfigInv
<1>2. CacheTellsDb
  BY <1>1, KeysAtRest
<1>3. ASSUME requests = 0, phase = "ready" \/ db[Seeded] # None
      PROVE  db[Plugin(Bundled)] = "openai" /\ db[ApiKey(Bundled)] = "key1" /\ db[Active] = Bundled
  <2>1. BootInv  BY <1>1, <1>3
  <2>2. \A k \in BootKeys : db[k] # None
    <3>1. phase = "ready" => task["boot"].ops = <<>>  BY <2>1 DEF BootInv
    <3>2. phase = "ready" => \A k \in BootKeys : db[k] # None  BY <1>1, <2>1, <3>1, BootThrough
    <3>3. db[Seeded] # None => \A k \in BootKeys : db[k] # None  BY <2>1 DEF BootInv
    <3> QED  BY <1>3, <3>2, <3>3
  <2>3. \A k \in BootKeys : db[k] = Goal(k)  BY <2>1, <2>2 DEF BootInv
  <2>4. {Plugin(Bundled), ApiKey(Bundled), Active} \subseteq BootKeys  BY DEF BootKeys
  <2> QED  BY <1>1, <2>3, <2>4, GoalsAre
<1> QED  BY <1>1, <1>2, <1>3 DEF SeedsWhole

(* ConfigInv is an invariant of the configuration.                         *)
LEMMA ConfigInvariance == Parameters /\ Spec => []ConfigInv
<1> QED  BY ConfigInit, ConfigStep, PTL DEF Spec

(* A key that nobody is writing has one value in the cache and in the      *)
(* database, whatever requests overlap and wherever the server goes down,  *)
(* unless it was unset while its first write was on its way                *)
(* (config_store.py:321-374).                                              *)
THEOREM CacheIsTheDatabase == Parameters /\ Spec => []CacheTellsDb
<1>1. ConfigInv => CacheTellsDb  BY ConfigTells
<1> QED  BY <1>1, ConfigInvariance, PTL

(* The clients of an instance are those its rows call for, once the plugin *)
(* was told of every change (llm_openai/plugin.py:286-341).                *)
THEOREM ClientsAreCurrent == Parameters /\ Spec => []ClientsFollow
<1>1. ConfigInv => ClientsFollow  BY ConfigTells
<1> QED  BY <1>1, ConfigInvariance, PTL

(* A boot that gets through, after however many that did not, leaves the   *)
(* whole bundled instance (registry.py:556-618).                           *)
THEOREM BootsSeedTheWhole == Parameters /\ Spec => []SeedsWhole
<1>1. ConfigInv => SeedsWhole  BY ConfigTells
<1> QED  BY <1>1, ConfigInvariance, PTL

-----------------------------------------------------------------------------
(* Types.  Each part of what TypeOK says that ConfigInv does not, through  *)
(* the steps: the values first.                                            *)
LEMMA FitTail ==
  ASSUME NEW s \in Seq(Op), s # <<>>, \A n \in DOMAIN s : Fit(s[n])
  PROVE  \A n \in DOMAIN Tail(s) : Fit(Tail(s)[n])
<1>1. \A n \in DOMAIN Tail(s) : n + 1 \in DOMAIN s /\ Tail(s)[n] = s[n + 1]
  OBVIOUS
<1> QED  BY <1>1

(* What a write that is issued moves.                                      *)
LEMMA IssueMoves ==
  ASSUME Types, Waits, NEW t \in Tasks, Issue(t)
  PROVE  \E op \in Op :
           /\ op = Head(task[t].ops) /\ task[t].at = "next" /\ task[t].ops # <<>>
           /\ db' = db /\ cache' = cache /\ ran' = ran /\ updates' = updates
           /\ DOMAIN task' = Tasks /\ \A u \in Tasks \ {t} : task'[u] = task[u]
           /\ \/ /\ queue' = queue
                 /\ task'[t] = [at |-> "next", ops |-> Tail(task[t].ops)]
              \/ /\ \E w \in OnItsWay :
                      w.by = t /\ w.op = Resolved(op) /\ queue' = Append(queue, w)
                 /\ task'[t] = [at |-> "db", ops |-> task[t].ops]
<1>1. PICK op \in Op :
           /\ op = Head(task[t].ops) /\ task[t].at = "next" /\ task[t].ops # <<>>
           /\ db' = db /\ cache' = cache /\ ran' = ran /\ updates' = updates
           /\ DOMAIN task' = Tasks /\ \A u \in Tasks \ {t} : task'[u] = task[u]
           /\ \/ /\ Skipped(op) /\ queue' = queue /\ apart' = apart
                 /\ task'[t] = [at |-> "next", ops |-> Tail(task[t].ops)]
              \/ /\ ~Skipped(op)
                 /\ \E w \in OnItsWay :
                      /\ w.by = t /\ w.op = Resolved(op) /\ w.blind = Blind(op)
                      /\ queue' = Append(queue, w)
                 /\ task'[t] = [at |-> "db", ops |-> task[t].ops]
                 /\ apart' = IF Blind(op) /\ InFlight(op.key) THEN apart \cup {op.key} ELSE apart
  BY IssueIs
<1> QED  BY <1>1

(* A write is issued.                                                      *)
LEMMA IssueValues ==
  ASSUME Parameters, Types, Waits, ValuesInv, NEW t \in Tasks, Issue(t)
  PROVE  ValuesInv'
<1>1. PICK op \in Op :
           /\ op = Head(task[t].ops) /\ task[t].ops # <<>>
           /\ db' = db /\ cache' = cache /\ ran' = ran
           /\ DOMAIN task' = Tasks /\ \A u \in Tasks \ {t} : task'[u] = task[u]
           /\ \/ /\ queue' = queue
                 /\ task'[t] = [at |-> "next", ops |-> Tail(task[t].ops)]
              \/ /\ \E w \in OnItsWay :
                      w.by = t /\ w.op = Resolved(op) /\ queue' = Append(queue, w)
                 /\ task'[t] = [at |-> "db", ops |-> task[t].ops]
  BY IssueMoves
<1>2. task[t].ops \in Seq(Op) /\ queue \in Seq(OnItsWay)
  BY DEF Types
<1>7. task'[t].ops = task[t].ops \/ task'[t].ops = Tail(task[t].ops)
  <2>1. PICK s, o : s = task[t].ops /\ o = Tail(s)
    OBVIOUS
  <2>2. task'[t] = [at |-> "next", ops |-> o] \/ task'[t] = [at |-> "db", ops |-> s]
    BY <1>1, <2>1
  <2>3. task'[t].ops = o \/ task'[t].ops = s
    BY <2>2
  <2> QED  BY <2>1, <2>3
<1>3. Fit(op) /\ \A n \in DOMAIN Tail(task[t].ops) : Fit(Tail(task[t].ops)[n])
  <2>1. PICK s \in Seq(Op) : s = task[t].ops  BY <1>2
  <2>2. /\ \A n \in DOMAIN s : Fit(s[n])
        /\ Head(s) = s[1] /\ 1 \in DOMAIN s
        /\ \A n \in DOMAIN Tail(s) : n + 1 \in DOMAIN s /\ Tail(s)[n] = s[n + 1]
    BY <1>1, <2>1 DEF ValuesInv
  <2> QED  BY <1>1, <2>1, <2>2
<1>4. Fit(Resolved(op))
  <2>1. CASE op.what = "lift"
    <3>1. op.key = ApiKey(Bundled) /\ cache[Legacy] \in ValuesOf(Legacy) /\ Bundled \in Instances
      BY <1>3, <2>1, KeysDiffer DEF Fit, ValuesInv, Parameters
    <3>2. ValuesOf(op.key) = ValuesOf(Legacy)
      BY <3>1, ValuesAre DEF ValuesOf
    <3>3. Resolved(op) = [op EXCEPT !.val = cache[Legacy]]
      BY <2>1 DEF Resolved
    <3>4. Resolved(op).val = cache[Legacy] /\ Resolved(op).key = op.key
      BY <3>3 DEF Op
    <3> QED  BY <3>1, <3>2, <3>4 DEF Fit
  <2>2. CASE op.what # "lift"
    BY <1>3, <2>2 DEF Resolved
  <2> QED  BY <2>1, <2>2
<1>5. \A u \in Tasks : \A n \in DOMAIN task'[u].ops : Fit(task'[u].ops[n])
  <2>1. \A n \in DOMAIN task'[t].ops : Fit(task'[t].ops[n])
    BY <1>1, <1>3, <1>7 DEF ValuesInv
  <2> QED  BY <1>1, <2>1 DEF ValuesInv
<1>6. \A n \in DOMAIN queue' : Fit(queue'[n].op)
  <2>1. CASE queue' = queue  BY <2>1 DEF ValuesInv
  <2>2. ASSUME NEW w \in OnItsWay, w.op = Resolved(op), queue' = Append(queue, w)
        PROVE  \A n \in DOMAIN queue' : Fit(queue'[n].op)
    <3>1. PICK q : q = Append(queue, w)  OBVIOUS
    <3>2. /\ DOMAIN q = DOMAIN queue \cup {Len(queue) + 1} /\ q[Len(queue) + 1] = w
          /\ \A n \in DOMAIN queue : q[n] = queue[n]
      BY <1>2, <3>1
    <3>3. \A n \in DOMAIN q : Fit(q[n].op)
      BY <1>4, <2>2, <3>2 DEF ValuesInv
    <3> QED  BY <2>2, <3>1, <3>3
  <2> QED  BY <1>1, <2>1, <2>2
<1> QED  BY <1>1, <1>5, <1>6 DEF ValuesInv

(* The database runs a write.                                              *)
LEMMA RunValues ==
  ASSUME Types, Waits, ValuesInv, DatabaseRuns
  PROVE  ValuesInv'
<1>1. PICK w \in OnItsWay, x \in OnItsWay :
           /\ w = Head(queue) /\ queue # <<>> /\ queue' = Tail(queue)
           /\ x.op = w.op /\ ran' = Append(ran, x)
           /\ w.op.key \in Keys /\ db' = [db EXCEPT ![w.op.key] = w.op.val]
           /\ cache' = cache /\ task' = task
  BY RunIs
<1>2. ran \in Seq(OnItsWay) /\ queue \in Seq(OnItsWay) /\ db \in [Keys -> Data]
  BY DEF Types
<1>3. Fit(w.op) /\ \A n \in DOMAIN queue' : Fit(queue'[n].op)
  <2>1. /\ Head(queue) = queue[1] /\ 1 \in DOMAIN queue
        /\ \A n \in DOMAIN Tail(queue) : n + 1 \in DOMAIN queue /\ Tail(queue)[n] = queue[n + 1]
    BY <1>1, <1>2
  <2> QED  BY <1>1, <2>1 DEF ValuesInv
<1>4. \A n \in DOMAIN ran' : Fit(ran'[n].op)
  <2>1. PICK q : q = Append(ran, x)  OBVIOUS
  <2>2. /\ DOMAIN q = DOMAIN ran \cup {Len(ran) + 1} /\ q[Len(ran) + 1] = x
        /\ \A n \in DOMAIN ran : q[n] = ran[n]
    BY <1>2, <2>1
  <2>3. \A n \in DOMAIN q : Fit(q[n].op)
    BY <1>1, <1>3, <2>2 DEF ValuesInv
  <2> QED  BY <1>1, <2>1, <2>3
<1>5. \A k \in Keys : db'[k] \in ValuesOf(k)
  BY <1>1, <1>2, <1>3 DEF ValuesInv, Fit
<1> QED  BY <1>1, <1>3, <1>4, <1>5 DEF ValuesInv

(* A coroutine resumes.                                                    *)
LEMMA ResumeValues ==
  ASSUME Types, Waits, ValuesInv, Resume
  PROVE  ValuesInv'
<1>1. PICK w \in OnItsWay :
           /\ w = Head(ran) /\ ran # <<>> /\ ran' = Tail(ran)
           /\ w.by \in Tasks /\ w.op.key \in Keys /\ task[w.by].ops # <<>>
           /\ cache' = IF w.blind THEN cache ELSE [cache EXCEPT ![w.op.key] = w.op.val]
           /\ \A u \in Tasks \ {w.by} : task'[u] = task[u]
           /\ \/ task'[w.by] = [at |-> "next", ops |-> Tail(task[w.by].ops)]
              \/ task'[w.by] = [at |-> "publishing", ops |-> task[w.by].ops]
           /\ db' = db /\ queue' = queue
  BY ResumeIs
<1>2. ran \in Seq(OnItsWay) /\ cache \in [Keys -> Data] /\ task[w.by].ops \in Seq(Op)
  BY <1>1 DEF Types
<1>6. task'[w.by].ops = task[w.by].ops \/ task'[w.by].ops = Tail(task[w.by].ops)
  <2>1. PICK s, o : s = task[w.by].ops /\ o = Tail(s)
    OBVIOUS
  <2>2. task'[w.by] = [at |-> "next", ops |-> o] \/ task'[w.by] = [at |-> "publishing", ops |-> s]
    BY <1>1, <2>1
  <2>3. task'[w.by].ops = o \/ task'[w.by].ops = s
    BY <2>2
  <2> QED  BY <2>1, <2>3
<1>3. Fit(w.op) /\ \A n \in DOMAIN ran' : Fit(ran'[n].op)
  <2>1. /\ Head(ran) = ran[1] /\ 1 \in DOMAIN ran
        /\ \A n \in DOMAIN Tail(ran) : n + 1 \in DOMAIN ran /\ Tail(ran)[n] = ran[n + 1]
    BY <1>1, <1>2
  <2> QED  BY <1>1, <2>1 DEF ValuesInv
<1>4. \A k \in Keys : cache'[k] \in ValuesOf(k)
  BY <1>1, <1>2, <1>3 DEF ValuesInv, Fit
<1>5. \A u \in Tasks : \A n \in DOMAIN task'[u].ops : Fit(task'[u].ops[n])
  <2>1. \A n \in DOMAIN task'[w.by].ops : Fit(task'[w.by].ops[n])
    BY <1>1, <1>2, <1>6, FitTail DEF ValuesInv
  <2> QED  BY <1>1, <2>1 DEF ValuesInv
<1> QED  BY <1>1, <1>3, <1>4, <1>5 DEF ValuesInv

(* Its event is delivered.                                                 *)
LEMMA DeliverValues ==
  ASSUME Types, Waits, ValuesInv, Deliver
  PROVE  ValuesInv'
<1>1. PICK u \in Update :
           /\ u.by \in Tasks /\ task[u.by].ops # <<>>
           /\ \A v \in Tasks \ {u.by} : task'[v] = task[v]
           /\ task'[u.by] = [at |-> "next", ops |-> Tail(task[u.by].ops)]
           /\ db' = db /\ cache' = cache /\ queue' = queue /\ ran' = ran
  BY DeliverIs
<1>2. task[u.by].ops \in Seq(Op) /\ task'[u.by].ops = Tail(task[u.by].ops)
  BY <1>1 DEF Types
<1>3. \A v \in Tasks : \A n \in DOMAIN task'[v].ops : Fit(task'[v].ops[n])
  <2>1. \A n \in DOMAIN task'[u.by].ops : Fit(task'[u.by].ops[n])
    BY <1>1, <1>2, FitTail DEF ValuesInv
  <2> QED  BY <1>1, <2>1 DEF ValuesInv
<1> QED  BY <1>1, <1>3 DEF ValuesInv

(* The server comes up, takes a request, or goes down.                     *)
LEMMA ServerValues ==
  ASSUME Parameters, Types, Waits, ValuesInv,
         \/ Open \/ LoadPlugins \/ Ready \/ GoDown \/ UNCHANGED vars
         \/ \E t \in Requests : \E ops \in Seq(FitOp) : Handle(t, ops)
  PROVE  ValuesInv'
<1>1. /\ task \in [Tasks -> [at : {"next", "db", "publishing"}, ops : Seq(Op)]] /\ "boot" \in Tasks
      /\ Requests \subseteq Tasks
  BY DEF Types, Tasks
<1>2. ASSUME NEW t \in Tasks, NEW ops \in Seq(FitOp), task' = [task EXCEPT ![t].ops = ops],
             queue' = queue, ran' = ran, db' = db, cache' \in {cache, db}
      PROVE  ValuesInv'
  <2>1. task'[t].ops = ops /\ \A u \in Tasks \ {t} : task'[u] = task[u]
    BY <1>1, <1>2
  <2>2. \A n \in DOMAIN ops : Fit(ops[n])
    BY FitList
  <2>3. \A u \in Tasks : \A n \in DOMAIN task'[u].ops : Fit(task'[u].ops[n])
    BY <2>1, <2>2 DEF ValuesInv
  <2>4. \A k \in Keys : cache'[k] \in ValuesOf(k)
    BY <1>2 DEF ValuesInv
  <2> QED  BY <1>2, <2>3, <2>4 DEF ValuesInv
<1>3. <<>> \in Seq(FitOp)
  OBVIOUS
<1>4. CASE Open
  <2>1. PICK ops \in Seq(FitOp) : task' = [task EXCEPT !["boot"].ops = ops]
    BY <1>3, <1>4, ListsAre DEF Open
  <2> QED  BY <1>1, <1>2, <1>4, <2>1 DEF Open
<1>5. CASE LoadPlugins
  <2>1. PICK ops \in Seq(FitOp) : task' = [task EXCEPT !["boot"].ops = ops]
    BY <1>3, <1>5, ListsAre DEF LoadPlugins
  <2> QED  BY <1>1, <1>2, <1>5, <2>1 DEF LoadPlugins
<1>6. CASE Ready
  BY <1>6 DEF Ready, storeVars, ValuesInv
<1>7. CASE GoDown
  <2>1. \A t \in Tasks : task'[t].ops = <<>>
    BY <1>7 DEF GoDown, NoTask
  <2>2. queue' = <<>> /\ ran' = <<>> /\ db' = db /\ \A k \in Keys : cache'[k] = None
    BY <1>7 DEF GoDown
  <2> QED  BY <2>1, <2>2 DEF ValuesInv, ValuesOf
<1>8. CASE UNCHANGED vars
  BY <1>8 DEF vars, storeVars, ValuesInv
<1>9. ASSUME NEW t \in Requests, NEW ops \in Seq(FitOp), Handle(t, ops)  PROVE ValuesInv'
  BY <1>1, <1>2, <1>9 DEF Handle, storeVars
<1> QED  BY <1>4, <1>5, <1>6, <1>7, <1>8, <1>9

(* The head of a queue is of one task; every other keeps what it has.      *)
LEMMA OthersKeep ==
  ASSUME NEW S, NEW s \in Seq(S), s # <<>>, NEW t
  PROVE  Owns(s, t) => Head(s).by = t \/ Owns(Tail(s), t)
<1>1. Head(s) = s[1] /\ \A n \in DOMAIN s \ {1} : n - 1 \in DOMAIN Tail(s) /\ Tail(s)[n - 1] = s[n]
  OBVIOUS
<1> QED  BY <1>1 DEF Owns

(* One more behind them takes nothing away.                                *)
LEMMA OneMoreKeeps ==
  ASSUME NEW S, NEW s \in Seq(S), NEW x \in S
  PROVE  /\ Owns(Append(s, x), x.by)
         /\ \A t : Owns(s, t) => Owns(Append(s, x), t)
<1>1. PICK q : q = Append(s, x)  OBVIOUS
<1>2. /\ DOMAIN q = DOMAIN s \cup {Len(s) + 1} /\ q[Len(s) + 1] = x
      /\ \A n \in DOMAIN s : q[n] = s[n]
  BY <1>1
<1> QED  BY <1>1, <1>2 DEF Owns

(* Who waits for a thing of its own goes on waiting for it, or is told.    *)
LEMMA IssueAwaits ==
  ASSUME Types, Waits, Awaits, NEW t \in Tasks, Issue(t)
  PROVE  Awaits'
<1>1. PICK op \in Op :
           /\ ran' = ran /\ updates' = updates
           /\ \A u \in Tasks \ {t} : task'[u] = task[u]
           /\ \/ /\ queue' = queue
                 /\ task'[t] = [at |-> "next", ops |-> Tail(task[t].ops)]
              \/ /\ \E w \in OnItsWay :
                      w.by = t /\ w.op = Resolved(op) /\ queue' = Append(queue, w)
                 /\ task'[t] = [at |-> "db", ops |-> task[t].ops]
  BY IssueMoves
<1>2. queue \in Seq(OnItsWay)
  BY DEF Types
<1>3. CASE queue' = queue /\ task'[t] = [at |-> "next", ops |-> Tail(task[t].ops)]
  <2>1. task'[t].at = "next"  BY <1>3
  <2> QED  BY <1>1, <1>3, <2>1 DEF Awaits
<1>4. ASSUME NEW w \in OnItsWay, w.by = t, queue' = Append(queue, w),
             task'[t] = [at |-> "db", ops |-> task[t].ops]
      PROVE  Awaits'
  <2>1. PICK q : q = Append(queue, w)  OBVIOUS
  <2>2. Owns(q, t) /\ \A u : Owns(queue, u) => Owns(q, u)
    BY <1>2, <1>4, <2>1, OneMoreKeeps
  <2>3. queue' = q /\ task'[t].at = "db"
    BY <1>4, <2>1
  <2> QED  BY <1>1, <2>2, <2>3 DEF Awaits
<1> QED  BY <1>1, <1>3, <1>4

(* The other steps.                                                        *)
LEMMA RunAwaits ==
  ASSUME Types, Waits, Awaits, DatabaseRuns
  PROVE  Awaits'
<1>1. PICK w \in OnItsWay, x \in OnItsWay :
           /\ w = Head(queue) /\ queue # <<>> /\ queue' = Tail(queue)
           /\ x.by = w.by /\ ran' = Append(ran, x)
           /\ updates' = updates /\ task' = task
  BY RunIs
<1>2. queue \in Seq(OnItsWay) /\ ran \in Seq(OnItsWay)
  BY DEF Types
<1>3. ASSUME NEW t \in Tasks,
             Owns(queue, t) \/ Owns(ran, t)
      PROVE  Owns(queue', t) \/ Owns(ran', t)
  <2>1. CASE Owns(queue, t)
    <3>1. w.by = t \/ Owns(Tail(queue), t)
      BY <1>1, <1>2, <2>1, OthersKeep
    <3>2. Owns(ran', w.by)
      BY <1>1, <1>2, OneMoreKeeps
    <3> QED  BY <1>1, <3>1, <3>2
  <2>2. CASE Owns(ran, t)
    BY <1>1, <1>2, <2>2, OneMoreKeeps
  <2> QED  BY <1>3, <2>1, <2>2
<1> QED  BY <1>1, <1>3 DEF Awaits

(* A coroutine resumes: it is told, or waits for its event.                *)
LEMMA ResumeAwaits ==
  ASSUME Types, Waits, Awaits, Resume
  PROVE  Awaits'
<1>1. PICK w \in OnItsWay :
           /\ w = Head(ran) /\ ran # <<>> /\ ran' = Tail(ran) /\ w.by \in Tasks
           /\ \A u \in Tasks \ {w.by} : task'[u] = task[u]
           /\ \/ /\ updates' = updates
                 /\ task'[w.by] = [at |-> "next", ops |-> Tail(task[w.by].ops)]
              \/ /\ \E u \in Update :
                      u.by = w.by /\ u.key = w.op.key /\ updates' = Append(updates, u)
                 /\ task'[w.by] = [at |-> "publishing", ops |-> task[w.by].ops]
           /\ queue' = queue
  BY ResumeIs
<1>2. ran \in Seq(OnItsWay) /\ updates \in Seq(Update)
  BY DEF Types
<1>3. \A t \in Tasks \ {w.by} :
        Owns(ran, t) => Owns(ran', t)
  BY <1>1, <1>2, OthersKeep
<1>4. /\ \A t : Owns(updates, t) => Owns(updates', t)
      /\ task'[w.by].at = "publishing" => Owns(updates', w.by)
      /\ task'[w.by].at \in {"next", "publishing"}
  <2>1. CASE updates' = updates /\ task'[w.by] = [at |-> "next", ops |-> Tail(task[w.by].ops)]
    BY <2>1
  <2>2. ASSUME NEW u \in Update, u.by = w.by, updates' = Append(updates, u),
               task'[w.by] = [at |-> "publishing", ops |-> task[w.by].ops]
        PROVE  /\ \A t : Owns(updates, t)
                          => Owns(updates', t)
               /\ task'[w.by].at = "publishing" /\ Owns(updates', w.by)
    BY <1>2, <2>2, OneMoreKeeps
  <2> QED  BY <1>1, <2>1, <2>2
<1> QED  BY <1>1, <1>3, <1>4 DEF Awaits

(* Its event is delivered.                                                 *)
LEMMA DeliverAwaits ==
  ASSUME Types, Waits, Awaits, Deliver
  PROVE  Awaits'
<1>1. PICK u \in Update :
           /\ u = Head(updates) /\ updates # <<>> /\ updates' = Tail(updates) /\ u.by \in Tasks
           /\ \A v \in Tasks \ {u.by} : task'[v] = task[v]
           /\ task'[u.by] = [at |-> "next", ops |-> Tail(task[u.by].ops)]
           /\ queue' = queue /\ ran' = ran
  BY DeliverIs
<1>2. updates \in Seq(Update) /\ task'[u.by].at = "next"
  BY <1>1 DEF Types
<1>3. \A t \in Tasks \ {u.by} :
        Owns(updates, t) => Owns(updates', t)
  BY <1>1, <1>2, OthersKeep
<1> QED  BY <1>1, <1>2, <1>3 DEF Awaits

(* The server: nobody waits when it goes down, and nobody starts to.       *)
LEMMA ServerAwaits ==
  ASSUME Types, Waits, Awaits,
         \/ Open \/ LoadPlugins \/ Ready \/ GoDown \/ UNCHANGED vars
         \/ \E t \in Requests : \E ops \in Seq(FitOp) : Handle(t, ops)
  PROVE  Awaits'
<1>1. task \in [Tasks -> [at : {"next", "db", "publishing"}, ops : Seq(Op)]]
  BY DEF Types
<1>2. CASE GoDown
  <2>1. \A t \in Tasks : task'[t].at = "next"
    BY <1>2 DEF GoDown, NoTask
  <2> QED  BY <2>1 DEF Awaits
<1>3. ASSUME queue' = queue, ran' = ran, updates' = updates,
             \A t \in Tasks : task'[t].at = task[t].at
      PROVE  Awaits'
  BY <1>3 DEF Awaits
<1>4. CASE Open
  BY <1>1, <1>3, <1>4 DEF Open
<1>5. CASE LoadPlugins
  BY <1>1, <1>3, <1>5 DEF LoadPlugins
<1>6. CASE Ready
  BY <1>3, <1>6 DEF Ready, storeVars
<1>7. CASE UNCHANGED vars
  BY <1>3, <1>7 DEF vars, storeVars
<1>8. ASSUME NEW t \in Requests, NEW ops \in Seq(FitOp), Handle(t, ops)  PROVE Awaits'
  BY <1>1, <1>3, <1>8 DEF Handle, storeVars
<1> QED  BY <1>2, <1>4, <1>5, <1>6, <1>7, <1>8

(* Both are kept by every step.                                            *)
LEMMA ValuesStep ==
  ConfigInv /\ ValuesInv /\ Awaits /\ [Next]_vars => ValuesInv' /\ Awaits'
<1> SUFFICES ASSUME ConfigInv, ValuesInv, Awaits, [Next]_vars  PROVE ValuesInv' /\ Awaits'
  OBVIOUS
<1>1. Parameters /\ Types /\ Waits
  BY DEF ConfigInv
<1>2. CASE \E t \in Tasks : Issue(t)
  BY <1>1, <1>2, IssueValues, IssueAwaits
<1>3. CASE DatabaseRuns \/ Resume \/ Deliver
  BY <1>1, <1>3, RunValues, ResumeValues, DeliverValues, RunAwaits, ResumeAwaits, DeliverAwaits
<1>4. CASE \/ Open \/ LoadPlugins \/ Ready \/ GoDown \/ UNCHANGED vars
           \/ \E t \in Requests : \E ops \in Seq(FitOp) : Handle(t, ops)
  BY <1>1, <1>4, ServerValues, ServerAwaits
<1>5. CASE \/ \E t \in Requests, i \in Instances :
                CreateInstance(t, i) \/ PatchInstance(t, i) \/ DeleteInstance(t, i) \/ SetActive(t, i)
           \/ \E t \in Requests, k \in Writable : ConfigPatch(t, k) \/ ConfigDelete(t, k)
  <2>1. \E t \in Requests : \E ops \in Seq(FitOp) : Handle(t, ops)
    BY <1>1, <1>5, RequestIs
  <2> QED  BY <1>4, <2>1
<1> QED  BY <1>2, <1>3, <1>4, <1>5 DEF Next

(* They hold at first.                                                     *)
LEMMA ValuesInit == Parameters /\ Init => ValuesInv /\ Awaits
<1> SUFFICES ASSUME Parameters, Init  PROVE ValuesInv /\ Awaits
  OBVIOUS
<1>1. /\ \A k \in Keys : db[k] = None /\ cache[k] = None
      /\ queue = <<>> /\ ran = <<>>
      /\ \A t \in Tasks : task[t].at = "next" /\ task[t].ops = <<>>
  BY DEF Init, NoTask
<1> QED  BY <1>1 DEF ValuesInv, Awaits, ValuesOf

(* What a task has in a queue in which all tasks are different.            *)
LEMMA OneOrNone ==
  ASSUME NEW S, NEW s \in Seq(S), Different(s), NEW t
  PROVE  Held(s, t) = IF Owns(s, t) THEN 1 ELSE 0
<1>1. CASE Owns(s, t)
  <2>1. PICK n \in DOMAIN s : s[n].by = t
    BY <1>1 DEF Owns
  <2>2. {m \in DOMAIN s : s[m].by = t} = {n}
    BY <2>1 DEF Different
  <2> QED  BY <1>1, <2>2, FS_Singleton DEF Held
<1>2. CASE ~Owns(s, t)
  <2>1. {m \in DOMAIN s : s[m].by = t} = {}
    BY <1>2 DEF Owns
  <2> QED  BY <1>2, <2>1, FS_EmptySet DEF Held
<1> QED  BY <1>1, <1>2

(* The types follow.                                                       *)
LEMMA TypesTell == ConfigInv /\ ValuesInv /\ Awaits => TypeOK
<1> SUFFICES ASSUME ConfigInv, ValuesInv, Awaits  PROVE TypeOK
  OBVIOUS
<1>1. Types /\ Waits
  BY DEF ConfigInv
<1>2. /\ queue \in Seq(OnItsWay) /\ ran \in Seq(OnItsWay) /\ updates \in Seq(Update)
      /\ task \in [Tasks -> [at : {"next", "db", "publishing"}, ops : Seq(Op)]]
      /\ phase \in {"down", "migrating", "seeding", "ready"} /\ apart \subseteq Keys
  BY <1>1 DEF Types
<1>3. \A k \in Keys : {db[k], cache[k]} \subseteq Values(k) \cup {None, "yes"}
  BY DEF ValuesInv, ValuesOf
<1>4. \A w \in Range(queue) \cup Range(ran) : w.by \in Tasks /\ w.op.key \in Keys
  <2>1. \A w \in OnItsWay : w.by \in Tasks /\ w.op.key \in Keys
    BY DEF OnItsWay, Op
  <2>2. Range(queue) \subseteq OnItsWay /\ Range(ran) \subseteq OnItsWay
    BY <1>2 DEF Range
  <2> QED  BY <2>1, <2>2
<1>5. ASSUME NEW t \in Tasks
      PROVE  /\ Held(queue, t) + Held(ran, t) = IF task[t].at = "db" THEN 1 ELSE 0
             /\ Held(updates, t) = IF task[t].at = "publishing" THEN 1 ELSE 0
  <2>1. /\ Held(queue, t) = IF Owns(queue, t) THEN 1 ELSE 0
        /\ Held(ran, t) = IF Owns(ran, t) THEN 1 ELSE 0
        /\ Held(updates, t) = IF Owns(updates, t) THEN 1 ELSE 0
    BY <1>1, <1>2, OneOrNone DEF Waits
  <2>2. /\ Owns(queue, t) => task[t].at = "db"
        /\ Owns(ran, t) => task[t].at = "db"
        /\ Owns(updates, t) => task[t].at = "publishing"
        /\ ~(Owns(queue, t) /\ Owns(ran, t))
    BY <1>1 DEF Waits, Owns
  <2>3. /\ task[t].at = "db" =>
             Owns(queue, t) \/ Owns(ran, t)
        /\ task[t].at = "publishing" => Owns(updates, t)
    BY DEF Awaits
  <2> QED  BY <2>1, <2>2, <2>3
<1> QED  BY <1>2, <1>3, <1>4, <1>5 DEF TypeOK

(* Types of the two copies and of the writes on their way; and a task that *)
(* waits has one write with the database or one event on the bus, which    *)
(* are its own (config_store.py:321-374).                                  *)
THEOREM ConfigTypes == Parameters /\ Spec => []TypeOK
<1>1. ConfigInv /\ ValuesInv /\ Awaits /\ [Next]_vars => ValuesInv' /\ Awaits'
  BY ValuesStep
<1>2. Parameters /\ Init => ValuesInv /\ Awaits
  BY ValuesInit
<1>3. ConfigInv /\ ValuesInv /\ Awaits => TypeOK
  BY TypesTell
<1> QED  BY <1>1, <1>2, <1>3, ConfigInvariance, PTL DEF Spec
=============================================================================
