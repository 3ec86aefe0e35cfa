-------------------------- MODULE SessionTapeProofs --------------------------
(***************************************************************************)
(* Proofs about the tape of a session, for every number of turns, events,  *)
(* upsets and compaction tasks: what is on the tape, what the readers make *)
(* of it and what compaction leaves.                                       *)
(***************************************************************************)
EXTENDS SessionTape, FiniteSetTheorems, TLAPS

(* What is known of an event that is queued, being delivered or delivered. *)
Known(ev) ==
  /\ \A t \in Turns : ev = User(t) => t <= users
  /\ \A t \in Turns : ev = Assistant(t) => turn[t] = "over"
  /\ \A n \in 1..MaxOthers : ev = Other(n) => n <= others

Delivering == event # None /\ step \in {"loop", "persist"}

(* An event is published once, so it is in one place at most.              *)
EventsInv ==
  /\ \A i \in DOMAIN chan : Known(chan[i])
  /\ \A i \in DOMAIN delivered : Known(delivered[i])
  /\ event # None => Known(event)
  /\ \A i, j \in DOMAIN chan : chan[i] = chan[j] => i = j
  /\ \A i, j \in DOMAIN delivered : delivered[i] = delivered[j] => i = j
  /\ \A i \in DOMAIN chan : chan[i] # event /\ \A j \in DOMAIN delivered : chan[i] # delivered[j]
  /\ Delivering => \A j \in DOMAIN delivered : event # delivered[j]

(* Turns start in the order of their messages, and the one that runs is    *)
(* the last that did.                                                      *)
Started(t) == turn[t] # "off"
TurnsInv ==
  /\ \A i, j \in DOMAIN chan, t, u \in Turns :
       chan[i] = User(t) /\ chan[j] = User(u) /\ i < j => t < u
  /\ \A i \in DOMAIN chan, t, u \in Turns :
       /\ chan[i] = User(t) /\ Started(u) => u < t
       /\ chan[i] = User(t) /\ event = User(u) => u < t
  /\ event # None /\ step = "loop" => \E w \in Turns : event = User(w)
  /\ \A w, u \in Turns : event = User(w) =>
       /\ step = "loop" /\ Started(u) => u < w
       /\ step = "persist" => Started(w) /\ (Started(u) => u <= w)
       /\ step = "check" => Started(w)
  /\ \A j \in DOMAIN delivered, t \in Turns : delivered[j] = User(t) => Started(t)
  /\ \A u \in Turns : Started(u) => u <= users
  /\ \A t, u \in Turns : turn[t] \in {"load", "run"} /\ Started(u) => u <= t

(* The tape carries what was delivered; anchors carry no message.          *)
MirroredAt == {i \in DOMAIN tape : tape[i].kind \in {"message", "event"}}
WrittenAt == {i \in DOMAIN delivered : delivered[i] \notin lost}
EntriesInv ==
  /\ \A i \in DOMAIN tape :
       /\ tape[i].kind = "message" => tape[i].msg \in Message
       /\ tape[i].kind = "event" => tape[i].msg \in Event \ Message
  /\ \A x \in lost : \E j \in DOMAIN delivered : delivered[j] = x

(* Behind the message of the turn that is to load its history there are    *)
(* only replies of turns before it.                                        *)
OwnInv ==
  \A t \in Turns, i, j \in DOMAIN tape :
    (/\ turn[t] = "load" /\ i < j /\ tape[i].kind = "message" /\ tape[i].msg = User(t)
     /\ tape[j].kind = "message")
      => \E u \in Turns : u < t /\ tape[j].msg = Assistant(u)

(* A summary was made of messages between the compaction before it and     *)
(* itself, and the one that is being made of those after the last.         *)
SummariesInv ==
  \A i \in Compactions(tape) : \A m \in tape[i].sum :
    \E j \in 1..(i - 1) : /\ tape[j].kind = "message" /\ tape[j].msg = m
                          /\ \A k \in (j + 1)..(i - 1) : tape[k].kind # "compaction"
CapturedInv ==
  \A k \in Tasks : \A m \in task[k].captured :
    \E j \in VerbatimAt(tape) : tape[j].msg = m

(* The manager's bookkeeping.                                              *)
ManagerInv ==
  /\ OneCompaction /\ ToldOnce
  /\ \A k \in Tasks :
       /\ task[k].pc \in {"begin", "sleep"} => attempts < MaxRetries
       /\ task[k].pc # "summarise" => task[k].captured = {}
       /\ task[k].pc \in {"failed", "ended"} => attempts = 0
  /\ failed # 0 => disabled \/ stopped
  /\ stopped => \A k \in Tasks : task[k].pc = "off"

TapeInv == /\ Parameters /\ TypeOK /\ EventsInv /\ TurnsInv /\ EntriesInv
           /\ TapeTellsTheSession /\ OwnInv /\ SummariesInv /\ CapturedInv /\ ManagerInv
           /\ OwnMessageOnce

-----------------------------------------------------------------------------
(* The n-th of a set of positions: where it is, and that none is between   *)
(* one and the next.                                                       *)
Rank(at, i) == Cardinality({j \in at : j <= i})

(* Ranks number a finite set of positions from one on, in order.           *)
LEMMA RankIs ==
  ASSUME NEW N \in Nat, NEW at \in SUBSET (1..N)
  PROVE  /\ IsFiniteSet(at) /\ Cardinality(at) \in Nat
         /\ \A i \in at : Rank(at, i) \in 1..Cardinality(at)
         /\ \A i, k \in at : i < k => Rank(at, i) < Rank(at, k)
<1>1. IsFiniteSet(at) /\ Cardinality(at) \in Nat
  <2>1. IsFiniteSet(1..N)  BY FS_Interval
  <2> QED  BY <2>1, FS_Subset, FS_CardinalityType
<1>2. \A i \in at : /\ IsFiniteSet({j \in at : j <= i}) /\ Rank(at, i) \in Nat
                    /\ Rank(at, i) <= Cardinality(at)
  <2> TAKE i \in at
  <2>1. {j \in at : j <= i} \in SUBSET at  OBVIOUS
  <2> QED  BY <1>1, <2>1, FS_Subset, FS_CardinalityType DEF Rank
<1>3. \A i \in at : Rank(at, i) # 0
  BY <1>2, FS_EmptySet DEF Rank
<1>4. ASSUME NEW i \in at, NEW k \in at, i < k  PROVE Rank(at, i) < Rank(at, k)
  <2>0. at \in SUBSET Nat /\ i \in Nat /\ k \in Nat  OBVIOUS
  <2>1. {j \in at : j <= i} \in SUBSET {j \in at : j <= k}
    <3>1. \A j \in at : j <= i => j <= k  BY <1>4, <2>0
    <3> QED  BY <3>1
  <2>2. k \in {j \in at : j <= k} /\ k \notin {j \in at : j <= i}  BY <1>4, <2>0
  <2>3. Rank(at, i) <= Rank(at, k) /\ Rank(at, i) # Rank(at, k)
    <3>1. IsFiniteSet({j \in at : j <= k})  BY <1>2
    <3>2. {j \in at : j <= i} # {j \in at : j <= k}  BY <2>2
    <3> QED  BY <2>1, <3>1, <3>2, FS_Subset DEF Rank
  <2>4. PICK a \in Nat, b \in Nat : a = Rank(at, i) /\ b = Rank(at, k)  BY <1>2
  <2>5. a <= b /\ a # b  BY <2>3, <2>4
  <2>6. a < b  BY <2>5
  <2> HIDE DEF Rank
  <2> QED  BY <2>4, <2>6
<1>5. ASSUME NEW i \in at  PROVE Rank(at, i) \in 1..Cardinality(at)
  <2>1. Rank(at, i) \in Nat /\ Rank(at, i) <= Cardinality(at) /\ Rank(at, i) # 0
    BY <1>2, <1>3
  <2>2. Cardinality(at) \in Nat  BY <1>1
  <2>3. \A a, b \in Nat : a <= b /\ a # 0 => a \in 1..b  OBVIOUS
  <2> QED  BY <2>1, <2>2, <2>3
<1>6. \A i, k \in at : i < k => Rank(at, i) < Rank(at, k)  BY ONLY <1>4
<1> QED  BY ONLY <1>1, <1>5, <1>6

(* The n-th position of a set is the one of rank n.                        *)
LEMMA NthIs ==
  ASSUME NEW N \in Nat, NEW at \in SUBSET (1..N)
  PROVE  /\ Cardinality(at) \in Nat
         /\ \A n \in 1..Cardinality(at) : Nth(at, n) \in at /\ Rank(at, Nth(at, n)) = n
         /\ \A i \in at : Rank(at, i) \in 1..Cardinality(at) /\ Nth(at, Rank(at, i)) = i
         /\ \A m, n \in 1..Cardinality(at) : m < n <=> Nth(at, m) < Nth(at, n)
<1> DEFINE c == Cardinality(at)
           f == [i \in at |-> Rank(at, i)]
<1>1. /\ IsFiniteSet(at) /\ c \in Nat
      /\ \A i \in at : Rank(at, i) \in 1..c
      /\ \A i, k \in at : i < k => Rank(at, i) < Rank(at, k)
  BY RankIs
<1>2. \A i, k \in at : Rank(at, i) = Rank(at, k) => i = k
  BY <1>1
<1>3. f \in Injection(at, 1..c)
  BY <1>1, <1>2 DEF Injection, IsInjective
<1>4. f \in Surjection(at, 1..c)
  <2>1. IsFiniteSet(1..c) /\ Cardinality(1..c) = c
    BY <1>1, FS_Interval
  <2> QED  BY <1>3, <2>1, FS_Injection
<1>5. \A n \in 1..c : \E i \in at : Rank(at, i) = n
  BY <1>4 DEF Surjection
<1>6. ASSUME NEW n \in 1..c  PROVE Nth(at, n) \in at /\ Rank(at, Nth(at, n)) = n
  BY <1>5 DEF Nth, Rank
<1>7. ASSUME NEW i \in at  PROVE Nth(at, Rank(at, i)) = i
  BY <1>1, <1>2, <1>6
<1>8. ASSUME NEW m \in 1..c, NEW n \in 1..c  PROVE m < n <=> Nth(at, m) < Nth(at, n)
  <2> DEFINE i == Nth(at, m)
             k == Nth(at, n)
  <2>1. i \in at /\ k \in at /\ Rank(at, i) = m /\ Rank(at, k) = n  BY <1>6
  <2>2. i < k => m < n  BY <1>1, <2>1
  <2>3. k < i => n < m  BY <1>1, <2>1
  <2>4. i = k => m = n  BY <2>1
  <2>5. at \in SUBSET Nat /\ c \in Nat  BY <1>1
  <2> HIDE DEF c
  <2>6. m \in Nat /\ n \in Nat  BY <2>5
  <2>7. PICK a \in at, b \in at : a = i /\ b = k  BY <2>1
  <2>8. a \in Nat /\ b \in Nat  BY <2>5
  <2> HIDE DEF i, k
  <2>9. m < n <=> a < b  BY <2>2, <2>3, <2>4, <2>6, <2>7, <2>8
  <2>10. m < n <=> i < k  BY <2>7, <2>9
  <2> QED  BY <2>10 DEF i, k
<1> QED  BY <1>1, <1>6, <1>7, <1>8

(* Listing the positions of a set lists each once, in order.               *)
LEMMA ListedIs ==
  ASSUME NEW S, NEW s \in Seq(S), NEW at \in SUBSET DOMAIN s
  PROVE  /\ Cardinality(at) \in Nat
         /\ Listed(s, at) \in Seq(S) /\ Len(Listed(s, at)) = Cardinality(at)
         /\ \A n \in 1..Cardinality(at) : Listed(s, at)[n] = s[Nth(at, n)] /\ Nth(at, n) \in at
         /\ \A i \in at : \E n \in 1..Cardinality(at) : Nth(at, n) = i
         /\ \A m, n \in 1..Cardinality(at) : m < n <=> Nth(at, m) < Nth(at, n)
<1>1. Len(s) \in Nat /\ at \in SUBSET (1..Len(s))  OBVIOUS
<1>2. /\ Cardinality(at) \in Nat
      /\ \A n \in 1..Cardinality(at) : Nth(at, n) \in at
      /\ \A i \in at : \E n \in 1..Cardinality(at) : Nth(at, n) = i
      /\ \A m, n \in 1..Cardinality(at) : m < n <=> Nth(at, m) < Nth(at, n)
  BY <1>1, NthIs
<1>3. \A n \in 1..Cardinality(at) : s[Nth(at, n)] \in S  BY <1>2
<1>4. Listed(s, at) \in [1..Cardinality(at) -> S]  BY <1>3 DEF Listed
<1>5. Listed(s, at) \in Seq(S) /\ Len(Listed(s, at)) = Cardinality(at)
  BY <1>2, <1>4
<1> QED  BY <1>2, <1>5 DEF Listed

(* What is appended is listed last, or not at all.                         *)
Extends(list, more, e, c) ==
  /\ Len(more) = c + 1
  /\ \A n \in 1..c : more[n] = list[n]
  /\ more[c + 1] = e

(* Listing one position more, the last, adds one entry at the end.         *)
LEMMA ListedMore ==
  ASSUME NEW S, NEW s \in Seq(S), NEW e \in S, NEW at \in SUBSET DOMAIN s
  PROVE  /\ Listed(Append(s, e), at) = Listed(s, at)
         /\ Extends(Listed(s, at), Listed(Append(s, e), at \cup {Len(s) + 1}), e,
                    Cardinality(at))
<1> DEFINE z == Len(s) + 1
           up == at \cup {z}
           c == Cardinality(at)
<1>0. Len(s) \in Nat /\ at \in SUBSET (1..Len(s)) /\ z \notin at /\ up \in SUBSET (1..z) /\ z \in Nat
  OBVIOUS
<1>1. c \in Nat /\ Cardinality(up) = c + 1
  BY <1>0, RankIs, FS_AddElement
<1>2. \A i \in 1..Len(s) : Append(s, e)[i] = s[i]  OBVIOUS
<1>3. Listed(Append(s, e), at) = Listed(s, at)
  <2>1. \A n \in 1..c : Nth(at, n) \in 1..Len(s)  BY <1>0, NthIs
  <2> QED  BY <1>2, <2>1 DEF Listed
<1>4. \A i \in at : Rank(up, i) = Rank(at, i)
  <2> TAKE i \in at
  <2>1. {j \in up : j <= i} = {j \in at : j <= i}  BY <1>0
  <2> QED  BY <2>1 DEF Rank
<1>5. Rank(up, z) = c + 1
  <2>1. {j \in up : j <= z} = up  BY <1>0
  <2> QED  BY <1>1, <2>1 DEF Rank
<1>u. \A i \in up : Nth(up, Rank(up, i)) = i
  <2> HIDE DEF z, up
  <2> QED  BY <1>0, NthIs
<1>6. ASSUME NEW n \in 1..c  PROVE Nth(up, n) = Nth(at, n) /\ Nth(at, n) \in 1..Len(s)
  <2>1. Nth(at, n) \in at /\ Rank(at, Nth(at, n)) = n  BY <1>0, NthIs
  <2>2. PICK i \in at : i = Nth(at, n)  BY <2>1
  <2>3. Rank(up, i) = n  BY <1>4, <2>1, <2>2
  <2>4. i \in up  OBVIOUS
  <2>5. Nth(up, Rank(up, i)) = i  BY <1>u, <2>4
  <2> QED  BY <1>0, <2>2, <2>3, <2>5
<1>7. Nth(up, c + 1) = z
  <2>1. Nth(up, Rank(up, z)) = z  BY <1>u
  <2> QED  BY <1>5, <2>1
<1> HIDE DEF up, c
<1>8. Append(s, e) \in Seq(S) /\ up \in SUBSET DOMAIN Append(s, e)
  BY <1>0
<1>9. /\ Len(Listed(Append(s, e), up)) = c + 1
      /\ \A n \in 1..(c + 1) : Listed(Append(s, e), up)[n] = Append(s, e)[Nth(up, n)]
  <2>1. /\ Len(Listed(Append(s, e), up)) = Cardinality(up)
        /\ \A n \in 1..Cardinality(up) : Listed(Append(s, e), up)[n] = Append(s, e)[Nth(up, n)]
    BY <1>8, ListedIs
  <2> QED  BY <1>1, <2>1
<1>10. ASSUME NEW n \in 1..c  PROVE Listed(Append(s, e), up)[n] = Listed(s, at)[n]
  <2>1. Listed(s, at)[n] = s[Nth(at, n)]  BY <1>0, <1>1, ListedIs DEF c
  <2>2. n \in 1..(c + 1)  BY <1>1
  <2> QED  BY <1>2, <1>6, <1>9, <2>1, <2>2
<1>11. Listed(Append(s, e), up)[c + 1] = e
  <2>1. c + 1 \in 1..(c + 1)  BY <1>1
  <2>2. Append(s, e)[z] = e  OBVIOUS
  <2> QED  BY <1>7, <1>9, <2>1, <2>2
<1> QED  BY <1>3, <1>9, <1>10, <1>11 DEF up, c, Extends

(* What the readers see verbatim.                                          *)
LEMMA VerbatimIs ==
  ASSUME TypeOK, EntriesInv
  PROVE  LET at == VerbatimAt(tape)
             c == Cardinality(at)
         IN  /\ c \in Nat /\ Verbatim(tape) \in Seq(Message) /\ Len(Verbatim(tape)) = c
             /\ \A n \in 1..c : Nth(at, n) \in at /\ Verbatim(tape)[n] = tape[Nth(at, n)].msg
             /\ \A m, n \in 1..c : m < n <=> Nth(at, m) < Nth(at, n)
             /\ ToSet(Verbatim(tape)) = {tape[i].msg : i \in at}
<1> DEFINE at == VerbatimAt(tape)
           c == Cardinality(at)
           kept == Listed(tape, at)
<1>1. tape \in Seq(TapeEntry) /\ at \in SUBSET DOMAIN tape
  BY DEF TypeOK, VerbatimAt
<1>2. /\ c \in Nat /\ kept \in Seq(TapeEntry) /\ Len(kept) = c
      /\ \A n \in 1..c : kept[n] = tape[Nth(at, n)] /\ Nth(at, n) \in at
      /\ \A i \in at : \E n \in 1..c : Nth(at, n) = i
      /\ \A m, n \in 1..c : m < n <=> Nth(at, m) < Nth(at, n)
  BY <1>1, ListedIs
<1>3. \A i \in at : tape[i].msg \in Message
  BY DEF EntriesInv, VerbatimAt
<1>4. Verbatim(tape) = [n \in 1..c |-> kept[n].msg]
  BY <1>2 DEF Verbatim
<1> HIDE DEF at, c, kept
<1>5. Verbatim(tape) \in [1..c -> Message]  BY <1>2, <1>3, <1>4
<1>6. Verbatim(tape) \in Seq(Message) /\ Len(Verbatim(tape)) = c
  BY <1>2, <1>5
<1>7. \A n \in 1..c : Verbatim(tape)[n] = tape[Nth(at, n)].msg
  BY <1>2, <1>4
<1>8. ToSet(Verbatim(tape)) = {tape[i].msg : i \in at}
  BY <1>2, <1>6, <1>7 DEF ToSet
<1> QED  BY <1>2, <1>6, <1>7, <1>8 DEF at, c

-----------------------------------------------------------------------------
(* What an appended sequence is made of.                                   *)
LEMMA AppendIs ==
  ASSUME NEW S, NEW s \in Seq(S), NEW e \in S
  PROVE  /\ Append(s, e) \in Seq(S)
         /\ Len(s) \in Nat /\ DOMAIN s = 1..Len(s)
         /\ DOMAIN Append(s, e) = 1..(Len(s) + 1)
         /\ DOMAIN Append(s, e) = DOMAIN s \cup {Len(s) + 1}
         /\ Len(s) + 1 \notin DOMAIN s
         /\ Append(s, e)[Len(s) + 1] = e
         /\ \A i \in DOMAIN s : Append(s, e)[i] = s[i] /\ i \in Nat /\ i < Len(s) + 1
  OBVIOUS

(* What an event is.                                                       *)
LEMMA EventIs ==
  /\ \A t \in Turns : t \in Nat /\ User(t) \in Message /\ Assistant(t) \in Message
  /\ \A t, u \in Turns : /\ User(t) = User(u) => t = u
                         /\ Assistant(t) = Assistant(u) => t = u
                         /\ User(t) # Assistant(u)
                         /\ User(t)[1] = "user" /\ User(t)[2] = t /\ Assistant(t)[1] = "assistant"
                         /\ Assistant(t)[2] = t
  /\ \A t \in Turns, n \in 1..MaxOthers : User(t) # Other(n) /\ Assistant(t) # Other(n)
  /\ \A n, m \in 1..MaxOthers : Other(n) = Other(m) => n = m
  /\ \A n \in 1..MaxOthers : Other(n) \in Event /\ Other(n) \notin Message /\ Other(n)[1] = "other"
  /\ Message \in SUBSET Event
  /\ \A m \in Message : \E t \in Turns : m = User(t) \/ m = Assistant(t)
  /\ \A ev \in Event : ev \in Message \/ \E n \in 1..MaxOthers : ev = Other(n)
<1>1. \A t \in Turns : t \in Nat /\ User(t) \in Message /\ Assistant(t) \in Message
  BY DEF Turns, User, Assistant, Message
<1>2. \A t, u \in Turns : /\ User(t) = User(u) => t = u
                          /\ Assistant(t) = Assistant(u) => t = u
                          /\ User(t) # Assistant(u)
                          /\ User(t)[1] = "user" /\ User(t)[2] = t
                          /\ Assistant(t)[1] = "assistant" /\ Assistant(t)[2] = t
  BY DEF User, Assistant
<1>3. \A t \in Turns, n \in 1..MaxOthers : User(t) # Other(n) /\ Assistant(t) # Other(n)
  BY DEF User, Assistant, Other
<1>4. /\ \A n, m \in 1..MaxOthers : Other(n) = Other(m) => n = m
      /\ \A n \in 1..MaxOthers : Other(n) \in Event /\ Other(n) \notin Message
                                 /\ Other(n)[1] = "other"
  BY DEF Other, Event, Message
<1>5. /\ Message \in SUBSET Event
      /\ \A m \in Message : \E t \in Turns : m = User(t) \/ m = Assistant(t)
      /\ \A ev \in Event : ev \in Message \/ \E n \in 1..MaxOthers : ev = Other(n)
  BY DEF Event, Message, User, Assistant, Turns
<1> QED  BY <1>1, <1>2, <1>3, <1>4, <1>5

(* What the persister writes for an event carries the event.               *)
LEMMA EntryIs ==
  ASSUME NEW ev \in Event
  PROVE  /\ Entry(ev) \in TapeEntry /\ Entry(ev).msg = ev
         /\ Entry(ev).kind = IF ev \in Message THEN "message" ELSE "event"
  BY DEF Entry, TapeEntry

(* Anchors are entries; a compaction's carries its summary.                *)
LEMMA AnchorIs ==
  /\ Anchor \in TapeEntry /\ Anchor.kind = "anchor"
  /\ \A sum \in SUBSET Message :
       /\ CompactionAnchor(sum) \in TapeEntry /\ CompactionAnchor(sum).kind = "compaction"
       /\ CompactionAnchor(sum).sum = sum
  BY DEF Anchor, CompactionAnchor, TapeEntry

(* What is on the tape was delivered, and is on it once.                   *)
LEMMA OnTapeOnce ==
  ASSUME TypeOK, EventsInv, TapeTellsTheSession
  PROVE  /\ \A i \in MirroredAt : \E j \in DOMAIN delivered : delivered[j] = tape[i].msg
         /\ \A i, k \in MirroredAt : tape[i].msg = tape[k].msg => i = k
<1> DEFINE said == Listed(tape, MirroredAt)
           due == Listed(delivered, WrittenAt)
           c == Cardinality(MirroredAt)
<1>1. tape \in Seq(TapeEntry) /\ MirroredAt \in SUBSET DOMAIN tape
  BY DEF TypeOK, MirroredAt
<1>2. delivered \in Seq(Event) /\ WrittenAt \in SUBSET DOMAIN delivered
  BY DEF TypeOK, WrittenAt
<1>3. /\ c \in Nat /\ Len(said) = c
      /\ \A n \in 1..c : said[n] = tape[Nth(MirroredAt, n)]
      /\ \A i \in MirroredAt : \E n \in 1..c : Nth(MirroredAt, n) = i
  BY <1>1, ListedIs
<1>4. /\ due \in Seq(Event) /\ Len(due) = Cardinality(WrittenAt)
      /\ \A n \in 1..Cardinality(WrittenAt) : /\ due[n] = delivered[Nth(WrittenAt, n)]
                                              /\ Nth(WrittenAt, n) \in WrittenAt
      /\ \A m, n \in 1..Cardinality(WrittenAt) : m < n <=> Nth(WrittenAt, m) < Nth(WrittenAt, n)
  BY <1>2, ListedIs
<1>5. Len(said) = Len(due) /\ \A n \in DOMAIN due : said[n].msg = due[n]
  BY DEF TapeTellsTheSession, MirroredAt, WrittenAt
<1> HIDE DEF said, due, c
<1>6. c = Cardinality(WrittenAt) /\ DOMAIN due = 1..c  BY <1>3, <1>4, <1>5
<1>7. \A i \in MirroredAt : \E n \in 1..c :
        Nth(MirroredAt, n) = i /\ tape[i].msg = delivered[Nth(WrittenAt, n)]
  BY <1>3, <1>4, <1>5, <1>6
<1>8. ASSUME NEW m \in 1..c, NEW n \in 1..c,
             delivered[Nth(WrittenAt, m)] = delivered[Nth(WrittenAt, n)]
      PROVE  m = n
  <2>1. Nth(WrittenAt, m) \in DOMAIN delivered /\ Nth(WrittenAt, n) \in DOMAIN delivered
    BY <1>2, <1>4, <1>6
  <2>2. Nth(WrittenAt, m) = Nth(WrittenAt, n)  BY <1>8, <2>1 DEF EventsInv
  <2>3. m < n <=> Nth(WrittenAt, m) < Nth(WrittenAt, n)  BY <1>4, <1>6
  <2>4. n < m <=> Nth(WrittenAt, n) < Nth(WrittenAt, m)  BY <1>4, <1>6
  <2>5. Nth(WrittenAt, m) \in Nat  BY <1>2, <2>1
  <2>6. ~ (m < n) /\ ~ (n < m)  BY <2>2, <2>3, <2>4, <2>5
  <2> QED  BY <2>6, <1>3
<1>9. \A i \in MirroredAt : \E j \in DOMAIN delivered : delivered[j] = tape[i].msg
  BY <1>2, <1>4, <1>6, <1>7
<1>10. \A i, k \in MirroredAt : tape[i].msg = tape[k].msg => i = k
  BY <1>7, <1>8
<1> QED  BY <1>9, <1>10

-----------------------------------------------------------------------------
(* What a step leaves of the invariant, by what it writes.                 *)
TapeFacts == EntriesInv /\ TapeTellsTheSession /\ SummariesInv

(* A step that neither writes nor delivers.                                *)
LEMMA TapeSame ==
  ASSUME TapeFacts, UNCHANGED <<tape, delivered, lost>>
  PROVE  TapeFacts'
<1>1. EntriesInv'  BY DEF TapeFacts, EntriesInv
<1>2. SummariesInv'  BY DEF TapeFacts, SummariesInv, Compactions
<1>3. TapeTellsTheSession'  BY DEF TapeFacts, TapeTellsTheSession
<1> QED  BY <1>1, <1>2, <1>3 DEF TapeFacts

(* An entry that is no compaction moves nothing out of the readers' sight. *)
LEMMA StillVerbatim ==
  ASSUME TypeOK, NEW e \in TapeEntry, e.kind # "compaction", tape' = Append(tape, e)
  PROVE  /\ Compactions(tape') = Compactions(tape)
         /\ \A j \in VerbatimAt(tape) : j \in VerbatimAt(tape') /\ tape'[j] = tape[j]
<1>1. tape \in Seq(TapeEntry)  BY DEF TypeOK
<1>2. /\ DOMAIN tape' = DOMAIN tape \cup {Len(tape) + 1} /\ tape'[Len(tape) + 1] = e
      /\ \A i \in DOMAIN tape : tape'[i] = tape[i]
  BY <1>1, AppendIs
<1> QED  BY <1>2 DEF Compactions, VerbatimAt

(* Anchors carry no message: what is said is as before.                    *)
LEMMA AnchorAdded ==
  ASSUME TypeOK, TapeFacts, NEW e \in TapeEntry, e.kind \in {"anchor", "compaction"},
         e.kind = "compaction" => \A m \in e.sum : \E j \in VerbatimAt(tape) : tape[j].msg = m,
         tape' = Append(tape, e), UNCHANGED <<delivered, lost>>
  PROVE  TapeFacts' /\ MirroredAt' = MirroredAt
<1> DEFINE z == Len(tape) + 1
<1>1. tape \in Seq(TapeEntry)  BY DEF TypeOK
<1>2. /\ DOMAIN tape' = DOMAIN tape \cup {z} /\ tape'[z] = e /\ z \notin DOMAIN tape
      /\ Len(tape) \in Nat /\ DOMAIN tape = 1..Len(tape)
      /\ \A i \in DOMAIN tape : tape'[i] = tape[i] /\ i < z
  BY <1>1, AppendIs
<1>3. EntriesInv'  BY <1>2 DEF TapeFacts, EntriesInv
<1>4. MirroredAt' = MirroredAt /\ MirroredAt \in SUBSET DOMAIN tape
  BY <1>2 DEF MirroredAt
<1>5. Listed(tape', MirroredAt) = Listed(tape, MirroredAt)
  BY <1>1, <1>4, ListedMore
<1>6. Len(Listed(tape, MirroredAt)) = Len(Listed(delivered, WrittenAt))
      /\ \A i \in DOMAIN Listed(delivered, WrittenAt) :
           Listed(tape, MirroredAt)[i].msg = Listed(delivered, WrittenAt)[i]
  BY DEF TapeFacts, TapeTellsTheSession, MirroredAt, WrittenAt
<1>7. TapeTellsTheSession'
  <2>1. WrittenAt' = WrittenAt /\ delivered' = delivered  BY DEF WrittenAt
  <2>2. Len(Listed(tape', MirroredAt')) = Len(Listed(delivered', WrittenAt'))
        /\ \A i \in DOMAIN Listed(delivered', WrittenAt') :
             Listed(tape', MirroredAt')[i].msg = Listed(delivered', WrittenAt')[i]
    BY <1>4, <1>5, <1>6, <2>1
  <2> QED  BY <2>2 DEF TapeTellsTheSession, MirroredAt, WrittenAt
<1>8. SummariesInv'
  <2> SUFFICES ASSUME NEW i \in Compactions(tape'), NEW m \in tape'[i].sum
               PROVE  \E j \in 1..(i - 1) :
                        /\ tape'[j].kind = "message" /\ tape'[j].msg = m
                        /\ \A k \in (j + 1)..(i - 1) : tape'[k].kind # "compaction"
    BY DEF SummariesInv
  <2>1. CASE i \in DOMAIN tape
    <3>1. i \in Compactions(tape) /\ m \in tape[i].sum  BY <1>2, <2>1 DEF Compactions
    <3>2. PICK j \in 1..(i - 1) : /\ tape[j].kind = "message" /\ tape[j].msg = m
                                  /\ \A k \in (j + 1)..(i - 1) : tape[k].kind # "compaction"
      BY <3>1 DEF TapeFacts, SummariesInv
    <3>3. i \in Nat /\ \A k \in 1..(i - 1) : tape'[k] = tape[k]  BY <1>2, <2>1
    <3>4. j \in Nat /\ \A k \in (j + 1)..(i - 1) : k \in 1..(i - 1)  BY <3>3
    <3> QED  BY <3>2, <3>3, <3>4
  <2>2. CASE i = z
    <3>1. PICK j \in VerbatimAt(tape) : tape[j].msg = m
      BY <1>2, <2>2 DEF Compactions
    <3>2. /\ j \in DOMAIN tape /\ tape[j].kind = "message" /\ j \in 1..(i - 1)
          /\ \A k \in DOMAIN tape : j < k => tape[k].kind # "compaction"
      BY <1>2, <2>2, <3>1 DEF VerbatimAt, Compactions
    <3>3. \A k \in (j + 1)..(i - 1) : k \in DOMAIN tape /\ j < k  BY <1>2, <2>2, <3>2
    <3> QED  BY <1>2, <3>1, <3>2, <3>3
  <2> QED  BY <1>2, <2>1, <2>2 DEF Compactions
<1> QED  BY <1>3, <1>4, <1>7, <1>8 DEF TapeFacts

(* The turn that is to load its history finds what it did.                 *)
LEMMA OwnSame ==
  ASSUME OwnInv, UNCHANGED tape, \A t \in Turns : turn'[t] = "load" => turn[t] = "load"
  PROVE  OwnInv'
BY DEF OwnInv

(* An anchor at the end of the tape gives no turn a message.               *)
LEMMA OwnAnchored ==
  ASSUME TypeOK, OwnInv, NEW e \in TapeEntry, e.kind \in {"anchor", "compaction"},
         tape' = Append(tape, e), \A t \in Turns : turn'[t] = "load" => turn[t] = "load"
  PROVE  OwnInv'
<1>1. tape \in Seq(TapeEntry)  BY DEF TypeOK
<1>2. /\ DOMAIN tape' = DOMAIN tape \cup {Len(tape) + 1} /\ tape'[Len(tape) + 1] = e
      /\ \A i \in DOMAIN tape : tape'[i] = tape[i]
  BY <1>1, AppendIs
<1> QED  BY <1>2 DEF OwnInv

(* What was captured is still there to be summarised.                      *)
LEMMA CapturedSame ==
  ASSUME CapturedInv, \A k \in Tasks : task'[k].captured \in SUBSET task[k].captured,
         \A j \in VerbatimAt(tape) : j \in VerbatimAt(tape') /\ tape'[j] = tape[j]
  PROVE  CapturedInv'
BY DEF CapturedInv

(* The events that are under way, when nothing is published or delivered   *)
(* and turns may end but not start.                                        *)
LEMMA EventsSame ==
  ASSUME EventsInv, TurnsInv, UNCHANGED <<chan, event, step, delivered, users, others>>,
         \A t \in Turns : /\ turn[t] = "over" => turn'[t] = "over"
                          /\ turn'[t] # "off" <=> turn[t] # "off"
                          /\ turn'[t] \in {"load", "run"} => turn[t] \in {"load", "run"}
  PROVE  EventsInv' /\ TurnsInv'
<1>1. \A ev : Known(ev) => Known(ev)'  BY DEF Known
<1>2. EventsInv'  BY <1>1 DEF EventsInv, Delivering
<1>3. \A t \in Turns : Started(t)' <=> Started(t)  BY DEF Started
<1>4. TurnsInv'  BY <1>3 DEF TurnsInv
<1> QED  BY <1>2, <1>4

(* What does not touch the compaction manager keeps its invariant.         *)
LEMMA ManagerSame ==
  ASSUME ManagerInv, UNCHANGED <<task, inflight, attempts, disabled, failed, stopped>>
  PROVE  ManagerInv'
BY DEF ManagerInv, OneCompaction, ToldOnce

-----------------------------------------------------------------------------
(* Each step keeps the types.                                              *)
LEMMA TapeTypes ==
  ASSUME Parameters, TypeOK, EntriesInv, ManagerInv, EventsInv, TurnsInv, [Next]_vars
  PROVE  TypeOK'
<1> USE DEF TypeOK
<1>0. Len(chan) \in Nat /\ MaxTurns \in Nat /\ MaxOthers \in Nat /\ MaxUpsets \in Nat
      /\ MaxRetries \in Nat
  BY DEF Parameters
<1>1. CASE SendMessage
  <2>1. users + 1 \in Turns /\ users + 1 \in 0..MaxTurns  BY <1>0, <1>1 DEF SendMessage, Turns
  <2>2. User(users + 1) \in Event  BY <2>1, EventIs
  <2>3. chan' \in Seq(Event)  BY <1>1, <2>2 DEF SendMessage
  <2> QED  BY <1>1, <2>1, <2>3 DEF SendMessage, turnVars, compactionVars
<1>2. CASE Deliver
  <2>1. Head(chan) \in Event /\ Tail(chan) \in Seq(Event)  BY <1>2 DEF Deliver
  <2> QED  BY <1>2, <2>1 DEF Deliver, turnVars, compactionVars
<1>3. CASE LoopHandles
  <2>1. turn' \in [Turns -> {"off", "load", "run", "over"}]  BY <1>3 DEF LoopHandles
  <2>2. hist' \in [Turns -> Seq(Message)] /\ stamped' \in SUBSET Turns  BY <1>3 DEF LoopHandles
  <2> QED  BY <1>3, <2>1, <2>2 DEF LoopHandles, compactionVars
<1>4. CASE Persist
  <2>1. event \in Event /\ Entry(event) \in TapeEntry  BY <1>4, EntryIs DEF Persist
  <2>2. delivered' \in Seq(Event)  BY <1>4, <2>1 DEF Persist
  <2>5. lost' \in SUBSET Event
    <3>1. lost' = lost \/ lost' = lost \cup {event}  BY <1>4 DEF Persist
    <3>2. lost \in SUBSET Event  OBVIOUS
    <3> QED  BY ONLY <2>1, <3>1, <3>2
  <2>3. tape' \in Seq(TapeEntry)
    <3>1. tape' = tape \/ tape' = Append(tape, Entry(event))  BY <1>4 DEF Persist
    <3>2. tape \in Seq(TapeEntry)  OBVIOUS
    <3>3. Append(tape, Entry(event)) \in Seq(TapeEntry)  BY <2>1, <3>2, AppendIs
    <3> QED  BY ONLY <3>1, <3>2, <3>3
  <2>4. upsets' \in 0..MaxUpsets  BY <1>0, <1>4 DEF Persist
  <2> QED  BY <1>4, <2>2, <2>3, <2>4, <2>5 DEF Persist, turnVars, compactionVars
<1>5. CASE Rename
  <2>1. tape' \in Seq(TapeEntry)  BY <1>5, AnchorIs DEF Rename
  <2>2. upsets' \in 0..MaxUpsets  BY <1>0, <1>5 DEF Rename
  <2> QED  BY <1>5, <2>1, <2>2 DEF Rename, turnVars, workerVars, compactionVars
<1>6. CASE Check
  <2>1. task' \in [Tasks -> CompactionTask] /\ inflight' \in Tasks \cup {None}
    <3>1. \A k \in Tasks : [task EXCEPT ![k].pc = "begin"] \in [Tasks -> CompactionTask]
      BY DEF CompactionTask
    <3>2. \/ task' = task /\ inflight' = inflight
          \/ \E k \in Tasks : task' = [task EXCEPT ![k].pc = "begin"] /\ inflight' = k
      BY <1>6 DEF Check
    <3> QED  BY <3>1, <3>2
  <2> QED  BY <1>6, <2>1 DEF Check, turnVars
<1>7. CASE Shutdown
  <2>1. task' \in [Tasks -> CompactionTask]  BY <1>7 DEF Shutdown, Idle, CompactionTask
  <2>2. attempts' \in 0..MaxRetries  BY <1>0, <1>7 DEF Shutdown
  <2> QED  BY <1>7, <2>1, <2>2 DEF Shutdown, turnVars, workerVars
<1>8. ASSUME NEW t \in Turns, LoadHistory(t)  PROVE TypeOK'
  <2> DEFINE v == Verbatim(tape)
  <2>1. v \in Seq(Message)  BY VerbatimIs
  <2>2. User(t) \in Message  BY EventIs
  <2> HIDE DEF v
  <2>3. /\ Append(v, User(t)) \in Seq(Message) /\ <<User(t)>> \in Seq(Message)
        /\ v # <<>> => Append(Front(v), User(t)) \in Seq(Message)
    <3>1. v # <<>> => Front(v) \in Seq(Message)  BY <2>1 DEF Front
    <3> QED  BY <2>1, <2>2, <3>1
  <2>4. History(tape, t) \in Seq(Message)  BY <2>3 DEF History, v
  <2>5. hist' \in [Turns -> Seq(Message)]  BY <1>8, <2>3, <2>4 DEF LoadHistory
  <2>6. turn' \in [Turns -> {"off", "load", "run", "over"}]  BY <1>8 DEF LoadHistory
  <2> QED  BY <1>8, <2>5, <2>6 DEF LoadHistory, workerVars, compactionVars
<1>9. ASSUME NEW t \in Turns, StampProvider(t)  PROVE TypeOK'
  <2>1. tape' \in Seq(TapeEntry)  BY <1>9, AnchorIs DEF StampProvider
  <2> QED  BY <1>9, <2>1 DEF StampProvider, workerVars, compactionVars
<1>10. ASSUME NEW t \in Turns, PublishDone(t)  PROVE TypeOK'
  <2>1. Assistant(t) \in Event  BY EventIs
  <2>2. chan' \in Seq(Event)  BY <1>10, <2>1 DEF PublishDone
  <2>3. /\ turn' \in [Turns -> {"off", "load", "run", "over"}] /\ hist' \in [Turns -> Seq(Message)]
        /\ stamped' \in SUBSET Turns
    BY <1>10 DEF PublishDone, Over
  <2> QED  BY <1>10, <2>2, <2>3 DEF PublishDone, compactionVars
<1>11. ASSUME NEW t \in Turns, PublishOther(t)  PROVE TypeOK'
  <2>1. others + 1 \in 1..MaxOthers /\ others + 1 \in 0..MaxOthers
    BY <1>0, <1>11 DEF PublishOther
  <2>2. Other(others + 1) \in Event  BY <2>1, EventIs
  <2>3. chan' \in Seq(Event)  BY <1>11, <2>2 DEF PublishOther
  <2> QED  BY <1>11, <2>1, <2>3 DEF PublishOther, turnVars, compactionVars
<1>12. ASSUME NEW t \in Turns, TurnFails(t)  PROVE TypeOK'
  <2>1. /\ turn' \in [Turns -> {"off", "load", "run", "over"}] /\ hist' \in [Turns -> Seq(Message)]
        /\ stamped' \in SUBSET Turns
    BY <1>12 DEF TurnFails, Over
  <2> QED  BY <1>12, <2>1 DEF TurnFails, workerVars, compactionVars
<1>13. ASSUME NEW k \in Tasks, CompactionStep(k)  PROVE TypeOK'
  <2> DEFINE pcs == {"off", "begin", "summarise", "completed", "sleep", "failed", "ended"}
  <2>0. task[k].pc \in pcs /\ task[k].captured \in SUBSET Message  BY DEF CompactionTask
  <2>1. ASSUME NEW p \in pcs  PROVE [task EXCEPT ![k].pc = p] \in [Tasks -> CompactionTask]
    BY DEF CompactionTask
  <2>2. ASSUME NEW p \in pcs, NEW cap \in SUBSET Message
        PROVE  [task EXCEPT ![k] = [pc |-> p, captured |-> cap]] \in [Tasks -> CompactionTask]
    BY DEF CompactionTask
  <2> USE DEF turnVars, workerVars
  <2>3. CASE Capture(k)
    <3>1. Messages(tape, Window(tape)) \in SUBSET Message
      <4>1. \A j \in Window(tape) : tape[j].kind = "message" => tape[j].msg \in Message
        BY DEF Window, EntriesInv
      <4>2. ASSUME NEW m \in Messages(tape, Window(tape))  PROVE m \in Message
        BY <4>1 DEF Messages
      <4> QED  BY <4>2
    <3>2. CASE Window(tape) = {}
      <4>1. task' \in [Tasks -> CompactionTask]  BY <2>1, <2>3, <3>2 DEF Capture
      <4> QED  BY <1>0, <2>3, <3>2, <4>1 DEF Capture
    <3>4. CASE Window(tape) # {}
      <4>1. task' = [task EXCEPT ![k] = [pc |-> "summarise",
                                         captured |-> Messages(tape, Window(tape))]]
        BY <2>3, <3>4 DEF Capture
      <4>2. task' \in [Tasks -> CompactionTask]  BY <2>2, <3>1, <4>1
      <4>3. attempts' \in 0..MaxRetries  BY <1>0, <2>3 DEF Capture, ManagerInv
      <4> QED  BY <2>3, <4>2, <4>3 DEF Capture
    <3> QED  BY <3>2, <3>4
  <2>4. CASE AppendAnchor(k)
    <3>1. tape' \in Seq(TapeEntry)  BY <2>0, <2>4, AnchorIs DEF AppendAnchor
    <3>2. task' \in [Tasks -> CompactionTask]  BY <2>2, <2>4 DEF AppendAnchor
    <3> QED  BY <2>4, <3>1, <3>2 DEF AppendAnchor
  <2>5. CASE Completed(k)
    <3>1. task' \in [Tasks -> CompactionTask]  BY <2>1, <2>5 DEF Completed
    <3> QED  BY <1>0, <2>5, <3>1 DEF Completed
  <2>6. CASE AttemptFails(k)
    <3>1. task' \in [Tasks -> CompactionTask]
      <4>1. PICK p \in pcs : task' = [task EXCEPT ![k] = [pc |-> p, captured |-> {}]]
        BY <2>6 DEF AttemptFails
      <4>2. {} \in SUBSET Message  OBVIOUS
      <4> HIDE DEF pcs
      <4> QED  BY <2>2, <4>1, <4>2
    <3>2. upsets' \in 0..MaxUpsets  BY <1>0, <2>6 DEF AttemptFails
    <3>3. /\ attempts' = attempts \/ attempts' = 0
          /\ failed' = failed \/ failed' = failed + 1
          /\ disabled' = disabled \/ disabled' = TRUE
      BY <2>6 DEF AttemptFails
    <3>4. attempts' \in 0..MaxRetries  BY <1>0, <3>3
    <3>5. failed' \in Nat
      <4>1. failed \in Nat  OBVIOUS
      <4> QED  BY ONLY <3>3, <4>1
    <3>6. disabled' \in BOOLEAN
      <4>1. disabled \in BOOLEAN  OBVIOUS
      <4> QED  BY ONLY <3>3, <4>1
    <3> QED  BY <2>6, <3>1, <3>2, <3>4, <3>5, <3>6 DEF AttemptFails
  <2>7. CASE BackoffOver(k)
    <3>1. task' \in [Tasks -> CompactionTask]  BY <2>1, <2>7 DEF BackoffOver
    <3> QED  BY <2>7, <3>1 DEF BackoffOver
  <2>8. CASE FailurePublished(k)
    <3>1. task' \in [Tasks -> CompactionTask]  BY <2>1, <2>8 DEF FailurePublished
    <3> QED  BY <2>8, <3>1 DEF FailurePublished
  <2>9. CASE Discard(k)
    <3>1. task' \in [Tasks -> CompactionTask]  BY <2>2, <2>9 DEF Discard, Idle
    <3> QED  BY <2>9, <3>1 DEF Discard
  <2> QED  BY <1>13, <2>3, <2>4, <2>5, <2>6, <2>7, <2>8, <2>9 DEF CompactionStep
<1>14. CASE UNCHANGED vars
  BY <1>14 DEF vars, turnVars, compactionVars, workerVars
<1> QED
  BY <1>1, <1>2, <1>3, <1>4, <1>5, <1>6, <1>7, <1>8, <1>9, <1>10, <1>11, <1>12, <1>13, <1>14
  DEF Next

-----------------------------------------------------------------------------
(* The queue and the worker.                                               *)
LEMMA SendKeeps == TapeInv /\ SendMessage => TapeInv'
<1> SUFFICES ASSUME TapeInv, SendMessage  PROVE TapeInv'
  OBVIOUS
<1> DEFINE z == Len(chan) + 1
<1>0. Parameters /\ TypeOK /\ EventsInv /\ TurnsInv /\ EntriesInv /\ TapeFacts /\ OwnInv
      /\ CapturedInv /\ ManagerInv /\ OwnMessageOnce
  BY DEF TapeInv, TapeFacts
<1>1. /\ UNCHANGED <<tape, event, step, others, turn, stamped, hist, task, inflight, attempts,
                     disabled, failed, stopped, upsets, delivered, lost>>
      /\ users' = users + 1 /\ chan' = Append(chan, User(users + 1))
  BY DEF SendMessage, turnVars, compactionVars
<1>2. users \in Nat /\ users + 1 \in Turns /\ chan \in Seq(Event) /\ \A t \in Turns : t \in Nat
  BY <1>0 DEF TypeOK, SendMessage, Parameters, Turns
<1>3. TypeOK'  BY <1>0, TapeTypes DEF Next
<1>4. TapeFacts' /\ OwnInv' /\ ManagerInv' /\ OwnMessageOnce' /\ CapturedInv'
  BY <1>0, <1>1, TapeSame, OwnSame, ManagerSame, CapturedSame DEF OwnMessageOnce
<1>5. PICK new \in Event :
      /\ new = User(users + 1)
      /\ \A t \in Turns : (new = User(t) => t = users + 1) /\ new # Assistant(t)
      /\ \A n \in 1..MaxOthers : new # Other(n)
  <2>1. User(users + 1) \in Event  BY <1>2, EventIs
  <2> QED  BY <1>2, <2>1, EventIs
<1>6. /\ DOMAIN chan' = DOMAIN chan \cup {z} /\ chan'[z] = new /\ z \notin DOMAIN chan
      /\ \A i \in DOMAIN chan : chan'[i] = chan[i] /\ i < z /\ i \in Nat
      /\ z \in Nat
  BY <1>1, <1>2, <1>5, AppendIs
<1> HIDE DEF z
<1>7. \A ev : Known(ev) => Known(ev)' /\ ev # new
  <2>1. \A ev : Known(ev) => ev # new
    BY <1>2, <1>5 DEF Known
  <2>2. \A ev : Known(ev) => Known(ev)'
    BY <1>1, <1>2 DEF Known
  <2> QED  BY <2>1, <2>2
<1>8. Known(new)'
  BY <1>1, <1>2, <1>5 DEF Known
<1>9. EventsInv'
  <2>1. /\ (\A i \in DOMAIN chan : Known(chan[i]))'
        /\ (\A i \in DOMAIN delivered : Known(delivered[i]))'
        /\ (event # None => Known(event))'
    BY <1>0, <1>1, <1>6, <1>7, <1>8 DEF EventsInv
  <2>2. \A i, j \in DOMAIN chan' : chan'[i] = chan'[j] => i = j
    BY <1>0, <1>6, <1>7 DEF EventsInv
  <2>3. new # event
    <3>1. CASE event = None
      BY <1>0, <1>5, <3>1 DEF Parameters
    <3> QED  BY <1>0, <1>7, <3>1 DEF EventsInv
  <2>4. \A i \in DOMAIN chan' : chan'[i] # event' /\ \A j \in DOMAIN delivered' :
                                                       chan'[i] # delivered'[j]
    BY <1>0, <1>1, <1>6, <1>7, <2>3 DEF EventsInv
  <2>5. Delivering' => \A j \in DOMAIN delivered' : event' # delivered'[j]
    BY <1>0, <1>1 DEF EventsInv, Delivering
  <2> QED  BY <1>0, <1>1, <2>1, <2>2, <2>4, <2>5 DEF EventsInv
<1>10. TurnsInv'
  <2>1. \A i \in DOMAIN chan, t \in Turns : chan[i] = User(t) => t < users + 1
    BY <1>0, <1>2 DEF EventsInv, Known
  <2>2. \A u \in Turns : Started(u)' => Started(u) /\ u < users + 1
    BY <1>0, <1>1, <1>2 DEF TurnsInv, Started
  <2>3. \A u \in Turns : event = User(u) => u < users + 1
    <3>1. None \notin Event /\ \A u \in Turns : User(u) \in Event
      BY <1>0, EventIs DEF Parameters
    <3> QED  BY <1>0, <1>2, <3>1 DEF EventsInv, Known
  <2>4. \A i, j \in DOMAIN chan', t, u \in Turns :
          chan'[i] = User(t) /\ chan'[j] = User(u) /\ i < j => t < u
    <3> TAKE i \in DOMAIN chan', j \in DOMAIN chan', t \in Turns, u \in Turns
    <3> HAVE chan'[i] = User(t) /\ chan'[j] = User(u) /\ i < j
    <3>1. i \in DOMAIN chan  BY <1>6
    <3>2. CASE j = z
      <4>1. u = users + 1  BY <1>5, <1>6, <3>2
      <4> QED  BY <1>6, <2>1, <3>1, <4>1
    <3>3. CASE j \in DOMAIN chan
      BY <1>0, <1>6, <3>1, <3>3 DEF TurnsInv
    <3> QED  BY <1>6, <3>2, <3>3
  <2>5. \A i \in DOMAIN chan', t, u \in Turns :
          /\ chan'[i] = User(t) /\ Started(u)' => u < t
          /\ chan'[i] = User(t) /\ event' = User(u) => u < t
    <3> TAKE i \in DOMAIN chan', t \in Turns, u \in Turns
    <3>1. CASE i = z
      BY <1>1, <1>5, <1>6, <2>2, <2>3, <3>1
    <3>2. CASE i \in DOMAIN chan
      BY <1>0, <1>1, <1>6, <2>2, <3>2 DEF TurnsInv
    <3> QED  BY <1>6, <3>1, <3>2
  <2>6. \A u \in Turns : Started(u)' => u <= users'
    BY <1>1, <1>2, <2>2
  <2>7. \A u \in Turns : Started(u)' <=> Started(u)  BY <1>1 DEF Started
  <2> QED  BY <1>0, <1>1, <2>4, <2>5, <2>6, <2>7 DEF TurnsInv
<1> QED  BY <1>0, <1>3, <1>4, <1>9, <1>10 DEF TapeInv, TapeFacts, Parameters

(* The worker takes the next event of the session.                         *)
LEMMA DeliverKeeps == TapeInv /\ Deliver => TapeInv'
<1> SUFFICES ASSUME TapeInv, Deliver  PROVE TapeInv'
  OBVIOUS
<1>0. Parameters /\ TypeOK /\ EventsInv /\ TurnsInv /\ EntriesInv /\ TapeFacts /\ OwnInv
      /\ CapturedInv /\ ManagerInv /\ OwnMessageOnce
  BY DEF TapeInv, TapeFacts
<1>1. /\ UNCHANGED <<tape, others, users, turn, stamped, hist, task, inflight, attempts,
                     disabled, failed, stopped, upsets, delivered, lost>>
      /\ event = None /\ chan # <<>> /\ chan' = Tail(chan) /\ event' = Head(chan)
      /\ step' = IF Head(chan)[1] = "user" THEN "loop" ELSE "persist"
  BY DEF Deliver, turnVars, compactionVars
<1>2. chan \in Seq(Event)  BY <1>0 DEF TypeOK
<1>3. TypeOK'  BY <1>0, TapeTypes DEF Next
<1>4. TapeFacts' /\ OwnInv' /\ ManagerInv' /\ OwnMessageOnce' /\ CapturedInv'
  BY <1>0, <1>1, TapeSame, OwnSame, ManagerSame, CapturedSame DEF OwnMessageOnce
<1>5. /\ 1 \in DOMAIN chan /\ event' = chan[1] /\ chan[1] \in Event
      /\ \A i \in DOMAIN chan' : i \in Nat /\ i + 1 \in DOMAIN chan /\ chan'[i] = chan[i + 1]
                                 /\ 1 < i + 1 /\ 1 # i + 1
  BY <1>1, <1>2
<1>6. \A ev : Known(ev) => Known(ev)'  BY <1>1 DEF Known
<1>7. EventsInv'
  <2>1. /\ (\A i \in DOMAIN chan : Known(chan[i]))'
        /\ (\A i \in DOMAIN delivered : Known(delivered[i]))'
        /\ (event # None => Known(event))'
    BY <1>0, <1>1, <1>5, <1>6 DEF EventsInv
  <2>2. \A i, j \in DOMAIN chan' : chan'[i] = chan'[j] => i = j
    <3> TAKE i \in DOMAIN chan', j \in DOMAIN chan'
    <3>1. chan'[i] = chan'[j] => i + 1 = j + 1  BY <1>0, <1>5 DEF EventsInv
    <3> QED  BY <1>5, <3>1
  <2>3. \A i \in DOMAIN chan' : chan'[i] # event' /\ \A j \in DOMAIN delivered' :
                                                       chan'[i] # delivered'[j]
    BY <1>0, <1>1, <1>5 DEF EventsInv
  <2>4. \A j \in DOMAIN delivered' : event' # delivered'[j]
    BY <1>0, <1>1, <1>5 DEF EventsInv
  <2> QED  BY <1>0, <1>1, <2>1, <2>2, <2>3, <2>4 DEF EventsInv
<1>8. TurnsInv'
  <2>1. \A u \in Turns : Started(u)' <=> Started(u)  BY <1>1 DEF Started
  <2>2. \A i, j \in DOMAIN chan', t, u \in Turns :
          chan'[i] = User(t) /\ chan'[j] = User(u) /\ i < j => t < u
    <3> TAKE i \in DOMAIN chan', j \in DOMAIN chan', t \in Turns, u \in Turns
    <3>1. i < j => i + 1 < j + 1  BY <1>5
    <3> QED  BY <1>0, <1>5, <3>1 DEF TurnsInv
  <2>3. \A i \in DOMAIN chan', t, u \in Turns :
          /\ chan'[i] = User(t) /\ Started(u)' => u < t
          /\ chan'[i] = User(t) /\ event' = User(u) => u < t
    BY <1>0, <1>5, <2>1 DEF TurnsInv
  <2>4. \A w \in Turns : event' = User(w) => step' = "loop"
    BY <1>1, EventIs
  <2>5. step' = "loop" => \E w \in Turns : event' = User(w)
    <3>1. chan[1][1] = "user" => \E w \in Turns : chan[1] = User(w)
      <4>1. \A t \in Turns : Assistant(t)[1] # "user"  BY DEF Assistant
      <4>2. \A n \in 1..MaxOthers : Other(n)[1] # "user"  BY DEF Other
      <4> QED  BY <1>5, <4>1, <4>2, EventIs
    <3> QED  BY <1>1, <1>5, <3>1
  <2>6. \A w, u \in Turns : event' = User(w) /\ Started(u)' => u < w
    BY <1>0, <1>5, <2>1 DEF TurnsInv
  <2>7. /\ \A j \in DOMAIN delivered', t \in Turns : delivered'[j] = User(t) => Started(t)'
        /\ \A u \in Turns : Started(u)' => u <= users'
        /\ \A t, u \in Turns : turn'[t] \in {"load", "run"} /\ Started(u)' => u <= t
    BY <1>0, <1>1, <2>1 DEF TurnsInv
  <2>8. step' # "persist" \/ \A w \in Turns : event' # User(w)  BY <2>4
  <2> QED  BY <2>2, <2>3, <2>4, <2>5, <2>6, <2>7 DEF TurnsInv
<1> QED  BY <1>0, <1>3, <1>4, <1>7, <1>8 DEF TapeInv, TapeFacts, Parameters

(* The new turn starts; nothing of its message is on the tape yet.         *)
LEMMA LoopKeeps == TapeInv /\ LoopHandles => TapeInv'
<1> SUFFICES ASSUME TapeInv, LoopHandles  PROVE TapeInv'
  OBVIOUS
<1>0. Parameters /\ TypeOK /\ EventsInv /\ TurnsInv /\ EntriesInv /\ TapeFacts /\ OwnInv
      /\ CapturedInv /\ ManagerInv /\ OwnMessageOnce /\ TapeTellsTheSession
  BY DEF TapeInv, TapeFacts
<1>1. /\ UNCHANGED <<tape, chan, event, others, users, task, inflight, attempts,
                     disabled, failed, stopped, upsets, delivered, lost>>
      /\ event # None /\ step = "loop" /\ step' = "persist"
      /\ turn' = [t \in Turns |-> IF t = event[2] THEN "load"
                                  ELSE IF turn[t] # "off" THEN "over" ELSE "off"]
      /\ hist' = [t \in Turns |-> <<>>]
  BY DEF LoopHandles, compactionVars
<1>2. PICK w \in Turns : event = User(w)  BY <1>0, <1>1 DEF TurnsInv
<1>3. /\ \A t \in Turns : t \in Nat /\ User(t) # Assistant(w)
      /\ \A t \in Turns : event = User(t) => t = w
      /\ event[2] = w /\ event \in Message /\ event \in Event
  BY <1>2, EventIs
<1>4. TypeOK'  BY <1>0, TapeTypes DEF Next
<1>5. /\ \A t \in Turns : Started(t) => t < w
      /\ turn[w] = "off"
  <2>1. \A t \in Turns : Started(t) => t < w  BY <1>0, <1>1, <1>2 DEF TurnsInv
  <2> QED  BY <1>3, <2>1 DEF Started
<1>6. /\ \A t \in Turns : Started(t)' <=> t = w \/ Started(t)
      /\ \A t \in Turns : turn'[t] \in {"load", "run"} <=> t = w
      /\ \A t \in Turns : turn[t] = "over" => turn'[t] = "over"
  BY <1>1, <1>3, <1>5 DEF Started
<1>7. TapeFacts' /\ ManagerInv' /\ CapturedInv'
  BY <1>0, <1>1, TapeSame, ManagerSame, CapturedSame
<1>8. OwnMessageOnce'  BY <1>1 DEF OwnMessageOnce
<1>9. EventsInv'
  <2>1. \A ev : Known(ev) => Known(ev)'  BY <1>1, <1>6 DEF Known
  <2> QED  BY <1>0, <1>1, <2>1 DEF EventsInv, Delivering
<1>10. OwnInv'
  <2>1. \A i \in DOMAIN tape : tape[i].kind = "message" => tape[i].msg # event
    <3>1. \A i \in MirroredAt : \E j \in DOMAIN delivered : delivered[j] = tape[i].msg
      BY <1>0, OnTapeOnce
    <3>2. \A j \in DOMAIN delivered : delivered[j] # event
      BY <1>0, <1>1 DEF EventsInv, Delivering
    <3> QED  BY <3>1, <3>2 DEF MirroredAt
  <2> QED  BY <1>1, <1>2, <1>6, <2>1 DEF OwnInv
<1>11. TurnsInv'
  <2>1. \A i, j \in DOMAIN chan', t, u \in Turns :
          chan'[i] = User(t) /\ chan'[j] = User(u) /\ i < j => t < u
    BY <1>0, <1>1 DEF TurnsInv
  <2>2. \A i \in DOMAIN chan', t, u \in Turns :
          /\ chan'[i] = User(t) /\ Started(u)' => u < t
          /\ chan'[i] = User(t) /\ event' = User(u) => u < t
    BY <1>0, <1>1, <1>2, <1>6 DEF TurnsInv
  <2>3. \A v, u \in Turns : event' = User(v) => Started(v)' /\ (Started(u)' => u <= v)
    BY <1>1, <1>3, <1>5, <1>6
  <2>4. \A j \in DOMAIN delivered', t \in Turns : delivered'[j] = User(t) => Started(t)'
    BY <1>0, <1>1, <1>6 DEF TurnsInv
  <2>5. \A u \in Turns : Started(u)' => u <= users'
    <3>1. w <= users  BY <1>0, <1>1, <1>2 DEF EventsInv, Known
    <3> QED  BY <1>0, <1>1, <1>6, <3>1 DEF TurnsInv
  <2>6. \A t, u \in Turns : turn'[t] \in {"load", "run"} /\ Started(u)' => u <= t
    BY <1>3, <1>5, <1>6
  <2> QED  BY <1>1, <2>1, <2>2, <2>3, <2>4, <2>5, <2>6 DEF TurnsInv
<1> QED  BY <1>0, <1>4, <1>7, <1>8, <1>9, <1>10, <1>11 DEF TapeInv, TapeFacts, Parameters

(* What is delivered is written, or lost and reported.                     *)
LEMMA PersistKeeps == TapeInv /\ Persist => TapeInv'
<1> SUFFICES ASSUME TapeInv, Persist  PROVE TapeInv'
  OBVIOUS
<1> DEFINE d == Len(delivered) + 1
           z == Len(tape) + 1
           written == tape' = Append(tape, Entry(event)) /\ lost' = lost
           skipped == tape' = tape /\ lost' = lost \cup {event}
<1>0. Parameters /\ TypeOK /\ EventsInv /\ TurnsInv /\ EntriesInv /\ TapeFacts /\ OwnInv
      /\ CapturedInv /\ ManagerInv /\ OwnMessageOnce /\ TapeTellsTheSession /\ SummariesInv
  BY DEF TapeInv, TapeFacts
<1>1. /\ UNCHANGED <<chan, event, turn, stamped, hist, others, users, task, inflight, attempts,
                     disabled, failed, stopped>>
      /\ event # None /\ step = "persist" /\ step' = "check"
      /\ delivered' = Append(delivered, event)
      /\ written \/ skipped
  BY DEF Persist, turnVars, compactionVars
<1>2. /\ event \in Event /\ tape \in Seq(TapeEntry) /\ delivered \in Seq(Event)
      /\ \A j \in DOMAIN delivered : delivered[j] # event
      /\ event \notin lost
  BY <1>0, <1>1 DEF TypeOK, EventsInv, Delivering, EntriesInv
<1>3. /\ Entry(event) \in TapeEntry /\ Entry(event).msg = event
      /\ Entry(event).kind = IF event \in Message THEN "message" ELSE "event"
  BY <1>2, EntryIs
<1>4. /\ DOMAIN delivered' = DOMAIN delivered \cup {d} /\ delivered'[d] = event
      /\ d \notin DOMAIN delivered
      /\ \A i \in DOMAIN delivered : delivered'[i] = delivered[i]
  BY <1>1, <1>2, AppendIs
<1>5. written => /\ DOMAIN tape' = DOMAIN tape \cup {z} /\ tape'[z] = Entry(event)
                 /\ z \notin DOMAIN tape
                 /\ \A i \in DOMAIN tape : tape'[i] = tape[i] /\ i < z /\ i \in Nat
                 /\ z \in Nat
  BY <1>2, <1>3, AppendIs
<1>6. TypeOK'  BY <1>0, TapeTypes DEF Next
<1> HIDE DEF d, z
<1>7. OwnMessageOnce' /\ ManagerInv'
  BY <1>0, <1>1, ManagerSame DEF OwnMessageOnce
<1>8. CapturedInv'
  <2>1. written => \A j \in VerbatimAt(tape) : j \in VerbatimAt(tape') /\ tape'[j] = tape[j]
    <3>1. Entry(event).kind # "compaction"  BY <1>3
    <3> QED  BY <1>0, <1>3, <3>1, StillVerbatim
  <2> QED  BY <1>0, <1>1, <2>1, CapturedSame
<1>9. EventsInv'
  <2>1. \A ev : Known(ev) => Known(ev)'  BY <1>1 DEF Known
  <2>2. \A i, j \in DOMAIN delivered' : delivered'[i] = delivered'[j] => i = j
    BY <1>0, <1>2, <1>4 DEF EventsInv
  <2>3. \A i \in DOMAIN chan' : chan'[i] # event' /\ \A j \in DOMAIN delivered' :
                                                       chan'[i] # delivered'[j]
    BY <1>0, <1>1, <1>4 DEF EventsInv
  <2>4. (\A i \in DOMAIN delivered : Known(delivered[i]))'
    BY <1>0, <1>1, <1>4, <2>1 DEF EventsInv
  <2> QED  BY <1>0, <1>1, <2>1, <2>2, <2>3, <2>4 DEF EventsInv, Delivering
<1>10. TurnsInv'
  <2>1. \A u \in Turns : Started(u)' <=> Started(u)  BY <1>1 DEF Started
  <2>2. \A j \in DOMAIN delivered', t \in Turns : delivered'[j] = User(t) => Started(t)'
    BY <1>0, <1>1, <1>4, <2>1 DEF TurnsInv
  <2>3. \A v \in Turns : event' = User(v) => Started(v)'
    BY <1>0, <1>1, <2>1 DEF TurnsInv
  <2> QED  BY <1>0, <1>1, <2>1, <2>2, <2>3 DEF TurnsInv
<1>11. EntriesInv'
  <2>1. \A x \in lost' : \E j \in DOMAIN delivered' : delivered'[j] = x
    BY <1>0, <1>1, <1>4 DEF EntriesInv
  <2>2. \A i \in DOMAIN tape' : /\ tape'[i].kind = "message" => tape'[i].msg \in Message
                                /\ tape'[i].kind = "event" => tape'[i].msg \in Event \ Message
    BY <1>0, <1>1, <1>2, <1>3, <1>5 DEF EntriesInv
  <2> QED  BY <2>1, <2>2 DEF EntriesInv
<1>12. OwnInv'
  <2>1. CASE skipped  BY <1>0, <1>1, <2>1 DEF OwnInv
  <2>2. CASE written
    <3> SUFFICES ASSUME NEW t \in Turns, NEW i \in DOMAIN tape', NEW j \in DOMAIN tape',
                        turn[t] = "load", i < j, tape'[i].kind = "message",
                        tape'[i].msg = User(t), tape'[j].kind = "message"
                 PROVE  \E u \in Turns : u < t /\ tape'[j].msg = Assistant(u)
      BY <1>1 DEF OwnInv
    <3>1. i \in DOMAIN tape  BY <1>5, <2>2
    <3>2. CASE j \in DOMAIN tape
      BY <1>0, <1>5, <2>2, <3>1, <3>2 DEF OwnInv
    <3>3. CASE j = z
      <4>1. event \in Message /\ tape'[j].msg = event  BY <1>3, <1>5, <2>2, <3>3
      <4>2. tape[i].msg # event
        <5>1. i \in MirroredAt  BY <1>5, <2>2, <3>1 DEF MirroredAt
        <5> QED  BY <1>0, <1>2, <5>1, OnTapeOnce
      <4>3. \A u \in Turns : Started(u) => u <= t
        BY <1>0 DEF TurnsInv
      <4>4. ASSUME NEW w \in Turns, event = User(w)  PROVE FALSE
        <5>1. Started(w) /\ w <= t  BY <1>0, <1>1, <4>3, <4>4 DEF TurnsInv
        <5>2. t <= w  BY <1>0, <1>1, <4>4 DEF TurnsInv, Started
        <5>3. w = t  BY <5>1, <5>2, EventIs
        <5> QED  BY <1>5, <2>2, <3>1, <4>2, <4>4, <5>3
      <4>5. PICK w \in Turns : event = Assistant(w)  BY <4>1, <4>4, EventIs
      <4>6. turn[w] = "over"  BY <1>0, <1>1, <4>5 DEF EventsInv, Known
      <4>7. w <= t /\ w # t  BY <4>3, <4>6 DEF Started
      <4>8. w < t  BY <4>7, EventIs
      <4> QED  BY <4>1, <4>5, <4>8
    <3> QED  BY <1>5, <2>2, <3>2, <3>3
  <2> QED  BY <1>1, <2>1, <2>2
<1>13. SummariesInv'
  <2>1. CASE skipped  BY <1>0, <2>1 DEF SummariesInv, Compactions
  <2>2. CASE written
    <3>1. Compactions(tape') = Compactions(tape)
      BY <1>0, <1>3, <2>2, StillVerbatim
    <3> SUFFICES ASSUME NEW i \in Compactions(tape), NEW m \in tape'[i].sum
                 PROVE  \E j \in 1..(i - 1) :
                          /\ tape'[j].kind = "message" /\ tape'[j].msg = m
                          /\ \A k \in (j + 1)..(i - 1) : tape'[k].kind # "compaction"
      BY <3>1 DEF SummariesInv
    <3>2. i \in DOMAIN tape /\ m \in tape[i].sum  BY <1>5, <2>2 DEF Compactions
    <3>3. PICK j \in 1..(i - 1) : /\ tape[j].kind = "message" /\ tape[j].msg = m
                                  /\ \A k \in (j + 1)..(i - 1) : tape[k].kind # "compaction"
      BY <1>0, <3>2 DEF SummariesInv
    <3>4. i \in Nat /\ \A k \in 1..(i - 1) : k \in DOMAIN tape
      BY <1>2, <3>2
    <3>5. j \in Nat /\ \A k \in (j + 1)..(i - 1) : k \in 1..(i - 1)  BY <3>4
    <3> QED  BY <1>5, <2>2, <3>3, <3>4, <3>5
  <2> QED  BY <1>1, <2>1, <2>2
<1>14. TapeTellsTheSession'
  <2>1. /\ WrittenAt \in SUBSET DOMAIN delivered /\ MirroredAt \in SUBSET DOMAIN tape
        /\ Len(Listed(tape, MirroredAt)) = Len(Listed(delivered, WrittenAt))
        /\ \A i \in DOMAIN Listed(delivered, WrittenAt) :
             Listed(tape, MirroredAt)[i].msg = Listed(delivered, WrittenAt)[i]
    BY <1>0 DEF TapeTellsTheSession, MirroredAt, WrittenAt
  <2>2. CASE skipped
    <3>1. WrittenAt' = WrittenAt /\ MirroredAt' = MirroredAt
      BY <1>2, <1>4, <2>2 DEF WrittenAt, MirroredAt
    <3>2. Listed(delivered', WrittenAt') = Listed(delivered, WrittenAt)
      BY <1>1, <1>2, <2>1, <3>1, ListedMore
    <3>3. /\ Len(Listed(tape', MirroredAt')) = Len(Listed(delivered', WrittenAt'))
          /\ \A i \in DOMAIN Listed(delivered', WrittenAt') :
               Listed(tape', MirroredAt')[i].msg = Listed(delivered', WrittenAt')[i]
      BY <2>1, <2>2, <3>1, <3>2
    <3> QED  BY <3>3 DEF TapeTellsTheSession, MirroredAt, WrittenAt
  <2>3. CASE written
    <3> DEFINE c == Cardinality(WrittenAt)
    <3>1. WrittenAt' = WrittenAt \cup {d} /\ MirroredAt' = MirroredAt \cup {z}
      BY <1>2, <1>3, <1>4, <1>5, <2>3 DEF WrittenAt, MirroredAt
    <3>2. /\ c \in Nat /\ Len(Listed(delivered, WrittenAt)) = c
          /\ DOMAIN Listed(delivered, WrittenAt) = 1..c
      BY <1>2, <2>1, ListedIs
    <3>3. Cardinality(MirroredAt) = c
      BY <1>2, <2>1, <3>2, ListedIs
    <3>4. /\ Len(Listed(delivered', WrittenAt')) = c + 1
          /\ \A n \in 1..c : Listed(delivered', WrittenAt')[n] = Listed(delivered, WrittenAt)[n]
          /\ Listed(delivered', WrittenAt')[c + 1] = event
      <4>1. Extends(Listed(delivered, WrittenAt),
                    Listed(Append(delivered, event), WrittenAt \cup {Len(delivered) + 1}), event, c)
        BY <1>2, <2>1, ListedMore
      <4>2. Listed(delivered', WrittenAt')
              = Listed(Append(delivered, event), WrittenAt \cup {Len(delivered) + 1})
        BY <1>1, <3>1 DEF d
      <4>3. Extends(Listed(delivered, WrittenAt), Listed(delivered', WrittenAt'), event, c)
        BY <4>1, <4>2
      <4> QED  BY <4>3 DEF Extends
    <3>5. /\ Len(Listed(tape', MirroredAt')) = c + 1
          /\ \A n \in 1..c : Listed(tape', MirroredAt')[n] = Listed(tape, MirroredAt)[n]
          /\ Listed(tape', MirroredAt')[c + 1] = Entry(event)
      <4>1. Extends(Listed(tape, MirroredAt),
                    Listed(Append(tape, Entry(event)), MirroredAt \cup {Len(tape) + 1}),
                    Entry(event), Cardinality(MirroredAt))
        BY <1>2, <1>3, <2>1, ListedMore
      <4>2. Listed(tape', MirroredAt')
              = Listed(Append(tape, Entry(event)), MirroredAt \cup {Len(tape) + 1})
        BY <2>3, <3>1 DEF z
      <4>3. Extends(Listed(tape, MirroredAt), Listed(tape', MirroredAt'), Entry(event), c)
        BY <3>3, <4>1, <4>2
      <4> QED  BY <4>3 DEF Extends
    <3>6. DOMAIN Listed(delivered', WrittenAt') = 1..(c + 1)
      <4>1. delivered' \in Seq(Event) /\ WrittenAt' \in SUBSET DOMAIN delivered'
        BY <1>6 DEF TypeOK, WrittenAt
      <4>2. Listed(delivered', WrittenAt') \in Seq(Event)  BY <4>1, ListedIs
      <4> QED  BY <3>4, <4>2
    <3> HIDE DEF c
    <3>7. ASSUME NEW n \in 1..(c + 1)
          PROVE  Listed(tape', MirroredAt')[n].msg = Listed(delivered', WrittenAt')[n]
      <4>1. CASE n \in 1..c  BY <2>1, <3>2, <3>4, <3>5, <4>1
      <4>2. CASE n = c + 1  BY <1>3, <3>4, <3>5, <4>2
      <4> QED  BY <3>2, <4>1, <4>2
    <3>8. Len(Listed(tape', MirroredAt')) = Len(Listed(delivered', WrittenAt'))
      BY <3>4, <3>5
    <3> QED  BY <3>6, <3>7, <3>8 DEF TapeTellsTheSession, MirroredAt, WrittenAt
  <2> QED  BY <1>1, <2>2, <2>3
<1> QED
  BY <1>0, <1>6, <1>7, <1>8, <1>9, <1>10, <1>11, <1>12, <1>13, <1>14
  DEF TapeInv, TapeFacts, Parameters

-----------------------------------------------------------------------------
(* The turn reads its history: its own message is last, once.              *)
LEMMA LoadKeeps == ASSUME NEW t \in Turns PROVE TapeInv /\ LoadHistory(t) => TapeInv'
<1> SUFFICES ASSUME TapeInv, LoadHistory(t)  PROVE TapeInv'
  OBVIOUS
<1> DEFINE at == VerbatimAt(tape)
           c == Cardinality(at)
           v == Verbatim(tape)
<1>0. Parameters /\ TypeOK /\ EventsInv /\ TurnsInv /\ EntriesInv /\ TapeFacts /\ OwnInv
      /\ CapturedInv /\ ManagerInv /\ OwnMessageOnce
  BY DEF TapeInv, TapeFacts
<1>1. /\ UNCHANGED <<tape, chan, event, step, stamped, others, users, task, inflight, attempts,
                     disabled, failed, stopped, delivered, lost>>
      /\ turn[t] = "load" /\ turn' = [turn EXCEPT ![t] = "run"]
      /\ hist' = [hist EXCEPT ![t] = IF stopped THEN <<User(t)>> ELSE History(tape, t)]
  BY DEF LoadHistory, workerVars, compactionVars
<1>2. /\ turn \in [Turns -> {"off", "load", "run", "over"}]
      /\ hist \in [Turns -> Seq(Message)]
  BY <1>0 DEF TypeOK
<1>3. TypeOK'  BY <1>0, TapeTypes DEF Next
<1>4. turn'[t] = "run" /\ \A u \in Turns \ {t} : turn'[u] = turn[u]  BY <1>1, <1>2
<1>5. TapeFacts' /\ OwnInv' /\ ManagerInv' /\ CapturedInv'
  BY <1>0, <1>1, <1>4, TapeSame, OwnSame, ManagerSame, CapturedSame
<1>6. EventsInv' /\ TurnsInv'
  BY <1>0, <1>1, <1>4, EventsSame
<1>7. /\ c \in Nat /\ v \in Seq(Message) /\ Len(v) = c
      /\ \A n \in 1..c : Nth(at, n) \in at /\ v[n] = tape[Nth(at, n)].msg
      /\ \A m, n \in 1..c : m < n <=> Nth(at, m) < Nth(at, n)
  BY <1>0, VerbatimIs
<1>8. \A i \in at : i \in DOMAIN tape /\ tape[i].kind = "message"
  BY DEF VerbatimAt
<1> HIDE DEF at, c, v
<1>9. User(t) \in Message  BY EventIs
<1>10. \A n \in 1..(c - 1) : v[n] = User(t) => v[n + 1][1] = "assistant" /\ v[n + 1][2] < t
  <2> SUFFICES ASSUME NEW n \in 1..(c - 1), v[n] = User(t)
               PROVE  v[n + 1][1] = "assistant" /\ v[n + 1][2] < t
    OBVIOUS
  <2>1. n \in 1..c /\ n + 1 \in 1..c /\ n < n + 1  BY <1>7
  <2>2. Nth(at, n) < Nth(at, n + 1)  BY <1>7, <2>1
  <2>3. PICK u \in Turns : u < t /\ v[n + 1] = Assistant(u)
    BY <1>0, <1>1, <1>7, <1>8, <2>1, <2>2 DEF OwnInv
  <2> QED  BY <2>3, EventIs
<1>11. LET h == IF v # <<>> /\ Last(v) = User(t) THEN v ELSE Append(v, User(t))
       IN  /\ h # <<>> /\ Last(h) = User(t)
           /\ \A i \in 1..(Len(h) - 1) : h[i] = User(t) =>
                h[i + 1][1] = "assistant" /\ h[i + 1][2] < t
  <2>1. CASE v # <<>> /\ Last(v) = User(t)
    BY <1>7, <1>10, <2>1
  <2>2. CASE ~ (v # <<>> /\ Last(v) = User(t))
    <3> DEFINE h == Append(v, User(t))
    <3>1. /\ h \in Seq(Message) /\ Len(h) = c + 1 /\ h[c + 1] = User(t)
          /\ \A i \in 1..c : h[i] = v[i]
      BY <1>7, <1>9, AppendIs
    <3> HIDE DEF h
    <3>2. h # <<>> /\ Last(h) = User(t)  BY <1>7, <3>1 DEF Last
    <3>3. ASSUME NEW i \in 1..(Len(h) - 1), h[i] = User(t)
          PROVE  h[i + 1][1] = "assistant" /\ h[i + 1][2] < t
      <4>1. i \in 1..c /\ v[i] = User(t)  BY <1>7, <3>1, <3>3
      <4>2. i # c
        <5>1. c # 0 => v # <<>> /\ Last(v) = v[c]  BY <1>7 DEF Last
        <5> QED  BY <1>7, <2>2, <4>1, <5>1
      <4>3. i \in 1..(c - 1) /\ i + 1 \in 1..c  BY <1>7, <4>1, <4>2
      <4> QED  BY <1>10, <3>1, <4>1, <4>3
    <3> QED  BY <2>2, <3>2, <3>3 DEF h
  <2> QED  BY <2>1, <2>2
<1>12. History(tape, t) = IF v # <<>> /\ Last(v) = User(t) THEN v ELSE Append(v, User(t))
  <2>1. CASE v # <<>> /\ Last(v) = User(t)
    <3>1. History(tape, t) = Append(Front(v), User(t))  BY <2>1 DEF History, v
    <3>2. Append(Front(v), User(t)) = v
      <4>1. Len(v) # 0 /\ v[Len(v)] = User(t)  BY <1>7, <2>1 DEF Last
      <4>2. Front(v) \in Seq(Message) /\ Len(Front(v)) = Len(v) - 1
            /\ \A i \in 1..(Len(v) - 1) : Front(v)[i] = v[i]
        BY <1>7, <4>1 DEF Front
      <4> QED  BY <1>7, <1>9, <4>1, <4>2
    <3> QED  BY <2>1, <3>1, <3>2
  <2>2. CASE ~ (v # <<>> /\ Last(v) = User(t))
    BY <2>2 DEF History, v
  <2> QED  BY <2>1, <2>2
<1>13. OwnMessageOnce'
  <2>1. \A u \in Turns \ {t} : hist'[u] = hist[u]  BY <1>1, <1>2
  <2>2. hist'[t] = IF stopped THEN <<User(t)>>
                   ELSE IF v # <<>> /\ Last(v) = User(t) THEN v ELSE Append(v, User(t))
    BY <1>1, <1>2, <1>12
  <2>3. CASE stopped
    <3>1. hist'[t] = <<User(t)>>  BY <2>2, <2>3
    <3>2. Last(<<User(t)>>) = User(t)  BY DEF Last
    <3> QED  BY <1>0, <2>1, <3>1, <3>2 DEF OwnMessageOnce
  <2>4. CASE ~ stopped
    <3>1. /\ Last(hist'[t]) = User(t)
          /\ \A i \in 1..(Len(hist'[t]) - 1) : hist'[t][i] = User(t) =>
               hist'[t][i + 1][1] = "assistant" /\ hist'[t][i + 1][2] < t
      BY <1>11, <2>2, <2>4
    <3> QED  BY <1>0, <2>1, <3>1 DEF OwnMessageOnce
  <2> QED  BY <2>3, <2>4
<1> QED  BY <1>0, <1>3, <1>5, <1>6, <1>13 DEF TapeInv, TapeFacts, Parameters

(* The task of a turn ends, or goes on with what it knows.                 *)
LEMMA OverIs ==
  ASSUME NEW t \in Turns, TypeOK, turn[t] \in {"load", "run"}, Over(t)
  PROVE  /\ \A u \in Turns : /\ turn[u] = "over" => turn'[u] = "over"
                             /\ turn'[u] # "off" <=> turn[u] # "off"
                             /\ turn'[u] \in {"load", "run"} => turn[u] = turn'[u]
         /\ turn'[t] = "over"
         /\ OwnMessageOnce => OwnMessageOnce'
<1>1. /\ turn \in [Turns -> {"off", "load", "run", "over"}]
      /\ hist \in [Turns -> Seq(Message)]
  BY DEF TypeOK
<1>2. hist'[t] = <<>> /\ \A u \in Turns \ {t} : hist'[u] = hist[u]  BY <1>1 DEF Over
<1>3. OwnMessageOnce => OwnMessageOnce'  BY <1>2 DEF OwnMessageOnce
<1> QED  BY <1>1, <1>3 DEF Over

(* What a turn publishes is new.                                           *)
LEMMA PublishKeeps ==
  ASSUME Parameters, TypeOK, TypeOK', EventsInv, TurnsInv, NEW ev \in Event,
         chan' = Append(chan, ev), UNCHANGED <<event, step, delivered, users>>,
         \A t \in Turns : /\ turn[t] = "over" => turn'[t] = "over"
                          /\ turn'[t] # "off" <=> turn[t] # "off"
                          /\ turn'[t] \in {"load", "run"} => turn[t] = turn'[t],
         others \in Nat, others' \in Nat, others <= others', MaxOthers \in Nat,
         ~ Known(ev), Known(ev)', \A t \in Turns : ev # User(t)
  PROVE  EventsInv' /\ TurnsInv'
<1> DEFINE z == Len(chan) + 1
<1>1. chan \in Seq(Event)  BY DEF TypeOK
<1>2. /\ DOMAIN chan' = DOMAIN chan \cup {z} /\ chan'[z] = ev /\ z \notin DOMAIN chan
      /\ \A i \in DOMAIN chan : chan'[i] = chan[i] /\ i < z /\ i \in Nat
      /\ z \in Nat
  BY <1>1, AppendIs
<1> HIDE DEF z
<1>3. \A x : Known(x) => Known(x)' /\ x # ev  BY DEF Known
<1>4. event # ev  BY <1>3 DEF EventsInv, Parameters
<1>5. EventsInv'
  <2>1. /\ (\A i \in DOMAIN chan : Known(chan[i]))'
        /\ (\A i \in DOMAIN delivered : Known(delivered[i]))'
        /\ (event # None => Known(event))'
    BY <1>2, <1>3 DEF EventsInv
  <2>2. \A i, j \in DOMAIN chan' : chan'[i] = chan'[j] => i = j
    BY <1>2, <1>3 DEF EventsInv
  <2>3. \A i \in DOMAIN chan' : chan'[i] # event' /\ \A j \in DOMAIN delivered' :
                                                       chan'[i] # delivered'[j]
    BY <1>2, <1>3, <1>4 DEF EventsInv
  <2>4. Delivering' => \A j \in DOMAIN delivered' : event' # delivered'[j]
    BY DEF EventsInv, Delivering
  <2> QED  BY <2>1, <2>2, <2>3, <2>4 DEF EventsInv
<1>6. TurnsInv'
  <2>1. \A u \in Turns : Started(u)' <=> Started(u)  BY DEF Started
  <2>2. \A i \in DOMAIN chan', u \in Turns : chan'[i] = User(u) =>
          i \in DOMAIN chan /\ chan[i] = User(u)
    BY <1>2
  <2>3. \A i, j \in DOMAIN chan', u, w \in Turns :
          chan'[i] = User(u) /\ chan'[j] = User(w) /\ i < j => u < w
    BY <2>2 DEF TurnsInv
  <2>4. \A i \in DOMAIN chan', u, w \in Turns :
          /\ chan'[i] = User(u) /\ Started(w)' => w < u
          /\ chan'[i] = User(u) /\ event' = User(w) => w < u
    BY <2>1, <2>2 DEF TurnsInv
  <2>5. \A u, w \in Turns : turn'[u] \in {"load", "run"} /\ Started(w)' => w <= u
    BY <2>1 DEF TurnsInv
  <2> QED  BY <2>1, <2>3, <2>4, <2>5 DEF TurnsInv
<1> QED  BY <1>5, <1>6

(* A step of a turn that leaves the queue alone.                           *)
LEMMA TurnKeeps ==
  ASSUME NEW t \in Turns PROVE TapeInv /\ (StampProvider(t) \/ TurnFails(t)) => TapeInv'
<1>0. ASSUME TapeInv
      PROVE  Parameters /\ TypeOK /\ EventsInv /\ TurnsInv /\ EntriesInv /\ TapeFacts /\ OwnInv
             /\ CapturedInv /\ ManagerInv /\ OwnMessageOnce
  BY <1>0 DEF TapeInv, TapeFacts
<1>1. ASSUME TapeInv, StampProvider(t)  PROVE TapeInv'
  <2>1. /\ UNCHANGED <<turn, hist, chan, event, step, others, users, task, inflight, attempts,
                       disabled, failed, stopped, delivered, lost>>
        /\ tape' = tape \/ tape' = Append(tape, Anchor)
    BY <1>1 DEF StampProvider, workerVars, compactionVars
  <2>2. TypeOK'  BY <1>0, <1>1, TapeTypes DEF Next
  <2>3. EventsInv' /\ TurnsInv' /\ ManagerInv' /\ OwnMessageOnce'
    BY <1>0, <1>1, <2>1, EventsSame, ManagerSame DEF OwnMessageOnce
  <2>4. TapeFacts' /\ OwnInv' /\ CapturedInv'
    <3>1. CASE tape' = tape
      BY <1>0, <1>1, <2>1, <3>1, TapeSame, OwnSame, CapturedSame
    <3>2. CASE tape' = Append(tape, Anchor)
      <4>1. Anchor \in TapeEntry /\ Anchor.kind = "anchor"  BY AnchorIs
      <4>2. TapeFacts'  BY <1>0, <1>1, <2>1, <3>2, <4>1, AnchorAdded
      <4>3. OwnInv'  BY <1>0, <1>1, <2>1, <3>2, <4>1, OwnAnchored
      <4>4. CapturedInv'
        <5>1. \A j \in VerbatimAt(tape) : j \in VerbatimAt(tape') /\ tape'[j] = tape[j]
          BY <1>0, <1>1, <3>2, <4>1, StillVerbatim
        <5> QED  BY <1>0, <1>1, <2>1, <5>1, CapturedSame
      <4> QED  BY <4>2, <4>3, <4>4
    <3> QED  BY <2>1, <3>1, <3>2
  <2> QED  BY <1>0, <1>1, <2>2, <2>3, <2>4 DEF TapeInv, TapeFacts, Parameters
<1>2. ASSUME TapeInv, TurnFails(t)  PROVE TapeInv'
  <2>1. /\ UNCHANGED <<tape, chan, event, step, others, users, task, inflight, attempts,
                       disabled, failed, stopped, delivered, lost>>
        /\ turn[t] \in {"load", "run"} /\ Over(t)
    BY <1>2 DEF TurnFails, workerVars, compactionVars
  <2>2. TypeOK'  BY <1>0, <1>2, TapeTypes DEF Next
  <2>3. /\ \A u \in Turns : /\ turn[u] = "over" => turn'[u] = "over"
                            /\ turn'[u] # "off" <=> turn[u] # "off"
                            /\ turn'[u] \in {"load", "run"} => turn[u] = turn'[u]
        /\ OwnMessageOnce'
    BY <1>0, <1>2, <2>1, OverIs
  <2>4. EventsInv' /\ TurnsInv' /\ ManagerInv'
    BY <1>0, <1>2, <2>1, <2>3, EventsSame, ManagerSame
  <2>5. TapeFacts' /\ OwnInv' /\ CapturedInv'
    BY <1>0, <1>2, <2>1, <2>3, TapeSame, OwnSame, CapturedSame
  <2> QED  BY <1>0, <1>2, <2>2, <2>3, <2>4, <2>5 DEF TapeInv, TapeFacts, Parameters
<1> QED  BY <1>1, <1>2

(* A turn that ends publishes its answer.                                  *)
LEMMA DoneKeeps == ASSUME NEW t \in Turns PROVE TapeInv /\ PublishDone(t) => TapeInv'
<1> SUFFICES ASSUME TapeInv, PublishDone(t)  PROVE TapeInv'
  OBVIOUS
<1>0. Parameters /\ TypeOK /\ EventsInv /\ TurnsInv /\ EntriesInv /\ TapeFacts /\ OwnInv
      /\ CapturedInv /\ ManagerInv /\ OwnMessageOnce
  BY DEF TapeInv, TapeFacts
<1>1. /\ UNCHANGED <<tape, event, step, others, users, task, inflight, attempts,
                     disabled, failed, stopped, delivered, lost>>
      /\ turn[t] = "run" /\ Over(t) /\ chan' = Append(chan, Assistant(t))
  BY DEF PublishDone, compactionVars
<1>2. TypeOK'  BY <1>0, TapeTypes DEF Next
<1>3. /\ \A u \in Turns : /\ turn[u] = "over" => turn'[u] = "over"
                          /\ turn'[u] # "off" <=> turn[u] # "off"
                          /\ turn'[u] \in {"load", "run"} => turn[u] = turn'[u]
      /\ turn'[t] = "over"
      /\ OwnMessageOnce'
  BY <1>0, <1>1, OverIs
<1>4. EventsInv' /\ TurnsInv'
  <2>1. Assistant(t) \in Event /\ \A u \in Turns : Assistant(t) # User(u)  BY EventIs
  <2>2. ~ Known(Assistant(t))  BY <1>1 DEF Known
  <2>3. Known(Assistant(t))'
    BY <1>3, EventIs DEF Known
  <2>4. others \in Nat /\ MaxOthers \in Nat  BY <1>0 DEF TypeOK, Parameters
  <2>5. others' \in Nat /\ others <= others'  BY <1>1, <2>4
  <2> QED  BY <1>0, <1>1, <1>2, <1>3, <2>1, <2>2, <2>3, <2>4, <2>5, PublishKeeps
<1>5. TapeFacts' /\ OwnInv' /\ CapturedInv' /\ ManagerInv'
  BY <1>0, <1>1, <1>3, TapeSame, OwnSame, CapturedSame, ManagerSame
<1> QED  BY <1>0, <1>2, <1>3, <1>4, <1>5 DEF TapeInv, TapeFacts, Parameters

(* A turn publishes an event that is no message.                           *)
LEMMA OtherKeeps == ASSUME NEW t \in Turns PROVE TapeInv /\ PublishOther(t) => TapeInv'
<1> SUFFICES ASSUME TapeInv, PublishOther(t)  PROVE TapeInv'
  OBVIOUS
<1>0. Parameters /\ TypeOK /\ EventsInv /\ TurnsInv /\ EntriesInv /\ TapeFacts /\ OwnInv
      /\ CapturedInv /\ ManagerInv /\ OwnMessageOnce
  BY DEF TapeInv, TapeFacts
<1>1. /\ UNCHANGED <<tape, turn, hist, event, step, users, task, inflight, attempts,
                     disabled, failed, stopped, delivered, lost>>
      /\ others < MaxOthers /\ others' = others + 1 /\ chan' = Append(chan, Other(others + 1))
  BY DEF PublishOther, compactionVars, turnVars
<1>2. TypeOK'  BY <1>0, TapeTypes DEF Next
<1>3. others \in Nat /\ MaxOthers \in Nat /\ others + 1 \in 1..MaxOthers
  BY <1>0, <1>1 DEF TypeOK, Parameters
<1>4. PICK n \in 1..MaxOthers : n = others + 1  BY <1>3
<1>5. EventsInv' /\ TurnsInv'
  <2>1. /\ Other(n) \in Event /\ \A u \in Turns : Other(n) # User(u) /\ Other(n) # Assistant(u)
        /\ \A m \in 1..MaxOthers : Other(n) = Other(m) => n = m
    BY EventIs
  <2>2. ~ Known(Other(n))  BY <1>3, <1>4 DEF Known
  <2>3. Known(Other(n))'  BY <1>1, <1>3, <1>4, <2>1 DEF Known
  <2>4. others' \in Nat /\ others <= others'  BY <1>1, <1>3
  <2> QED  BY <1>0, <1>1, <1>2, <1>3, <1>4, <2>1, <2>2, <2>3, <2>4, PublishKeeps
<1>6. TapeFacts' /\ OwnInv' /\ CapturedInv' /\ ManagerInv' /\ OwnMessageOnce'
  BY <1>0, <1>1, TapeSame, OwnSame, CapturedSame, ManagerSame DEF OwnMessageOnce
<1> QED  BY <1>0, <1>2, <1>5, <1>6 DEF TapeInv, TapeFacts, Parameters

(* A session is renamed: an anchor at the end of the tape.                 *)
LEMMA RenameKeeps == TapeInv /\ Rename => TapeInv'
<1> SUFFICES ASSUME TapeInv, Rename  PROVE TapeInv'
  OBVIOUS
<1>0. Parameters /\ TypeOK /\ EventsInv /\ TurnsInv /\ EntriesInv /\ TapeFacts /\ OwnInv
      /\ CapturedInv /\ ManagerInv /\ OwnMessageOnce
  BY DEF TapeInv, TapeFacts
<1>1. /\ UNCHANGED <<turn, hist, chan, event, step, others, users, task, inflight, attempts,
                     disabled, failed, stopped, delivered, lost>>
      /\ tape' = Append(tape, Anchor)
  BY DEF Rename, turnVars, workerVars, compactionVars
<1>2. TypeOK'  BY <1>0, TapeTypes DEF Next
<1>3. Anchor \in TapeEntry /\ Anchor.kind = "anchor"  BY AnchorIs
<1>4. EventsInv' /\ TurnsInv' /\ ManagerInv' /\ OwnMessageOnce'
  BY <1>0, <1>1, EventsSame, ManagerSame DEF OwnMessageOnce
<1>5. TapeFacts'  BY <1>0, <1>1, <1>3, AnchorAdded
<1>6. OwnInv'  BY <1>0, <1>1, <1>3, OwnAnchored
<1>7. CapturedInv'
  <2>1. \A j \in VerbatimAt(tape) : j \in VerbatimAt(tape') /\ tape'[j] = tape[j]
    BY <1>0, <1>1, <1>3, StillVerbatim
  <2> QED  BY <1>0, <1>1, <2>1, CapturedSame
<1> QED  BY <1>0, <1>2, <1>4, <1>5, <1>6, <1>7 DEF TapeInv, TapeFacts, Parameters

-----------------------------------------------------------------------------
(* The compaction manager.                                                 *)
LEMMA CheckKeeps == TapeInv /\ Check => TapeInv'
<1> SUFFICES ASSUME TapeInv, Check  PROVE TapeInv'
  OBVIOUS
<1>0. Parameters /\ TypeOK /\ EventsInv /\ TurnsInv /\ EntriesInv /\ TapeFacts /\ OwnInv
      /\ CapturedInv /\ ManagerInv /\ OwnMessageOnce
  BY DEF TapeInv, TapeFacts
<1>1. /\ UNCHANGED <<tape, turn, hist, chan, step, others, users, attempts,
                     disabled, failed, stopped, delivered, lost>>
      /\ event' = None
      /\ \/ UNCHANGED <<task, inflight>>
         \/ /\ ~ stopped /\ ~ disabled /\ inflight = None
            /\ \E k \in Tasks : /\ task[k].pc = "off"
                                /\ task' = [task EXCEPT ![k].pc = "begin"] /\ inflight' = k
  BY DEF Check, turnVars
<1>2. TypeOK'  BY <1>0, TapeTypes DEF Next
<1>3. task \in [Tasks -> CompactionTask]  BY <1>0 DEF TypeOK
<1>4. TapeFacts' /\ OwnInv' /\ OwnMessageOnce'
  BY <1>0, <1>1, TapeSame, OwnSame DEF OwnMessageOnce
<1>5. EventsInv'
  <2>1. \A ev : Known(ev) => Known(ev)'  BY <1>1 DEF Known
  <2>2. \A i \in DOMAIN chan : chan[i] # None
    BY <1>0 DEF TypeOK, Parameters
  <2> QED  BY <1>0, <1>1, <2>1, <2>2 DEF EventsInv, Delivering
<1>6. TurnsInv'
  <2>1. \A u \in Turns : Started(u)' <=> Started(u)  BY <1>1 DEF Started
  <2>2. \A u \in Turns : event' # User(u)
    BY <1>0, <1>1, EventIs DEF Parameters
  <2> QED  BY <1>0, <1>1, <2>1, <2>2 DEF TurnsInv
<1>7. CapturedInv' /\ ManagerInv'
  <2>1. CASE UNCHANGED <<task, inflight>>
    BY <1>0, <1>1, <2>1, CapturedSame, ManagerSame
  <2>2. CASE ~ UNCHANGED <<task, inflight>>
    <3>1. PICK k \in Tasks : /\ ~ stopped /\ ~ disabled /\ inflight = None
                             /\ task[k].pc = "off"
                             /\ task' = [task EXCEPT ![k].pc = "begin"] /\ inflight' = k
      BY <1>1, <2>2
    <3>2. /\ task'[k].pc = "begin" /\ task'[k].captured = task[k].captured
          /\ \A l \in Tasks \ {k} : task'[l] = task[l]
      BY <1>3, <3>1 DEF CompactionTask
    <3>3. \A l \in Tasks : task[l].pc = "off" /\ task[l].captured = {}
      BY <1>0, <3>1 DEF ManagerInv, OneCompaction, Parameters
    <3>4. attempts = 0 /\ attempts < MaxRetries
      BY <1>0, <3>1 DEF ManagerInv, OneCompaction, Parameters
    <3>5. k # None  BY <1>0 DEF Parameters
    <3>6. CapturedInv'  BY <3>2, <3>3 DEF CapturedInv
    <3>7. OneCompaction'
      BY <1>1, <3>1, <3>2, <3>3, <3>5 DEF OneCompaction
    <3>8. ToldOnce'
      BY <1>0, <1>1, <3>1 DEF ManagerInv, ToldOnce
    <3>9. \A l \in Tasks : /\ task'[l].pc \in {"begin", "sleep"} => attempts' < MaxRetries
                           /\ task'[l].pc # "summarise" => task'[l].captured = {}
                           /\ task'[l].pc \notin {"failed", "ended"}
      BY <1>1, <3>2, <3>3, <3>4
    <3> QED  BY <1>0, <1>1, <3>1, <3>6, <3>7, <3>8, <3>9 DEF ManagerInv
  <2> QED  BY <2>1, <2>2
<1> QED  BY <1>0, <1>2, <1>4, <1>5, <1>6, <1>7 DEF TapeInv, TapeFacts, Parameters

(* The one task alive goes from one step to its next.                      *)
LEMMA ManagerStep ==
  ASSUME Parameters, TypeOK, TypeOK', ManagerInv, NEW k \in Tasks, task[k].pc # "off",
         \A l \in Tasks \ {k} : task'[l] = task[l],
         inflight' = IF task'[k].pc = "off" THEN None ELSE inflight,
         task'[k].pc # "summarise" => task'[k].captured = {},
         task'[k].pc \in {"begin", "sleep"} => attempts' < MaxRetries,
         task'[k].pc \in {"off", "failed", "ended"} => attempts' = 0,
         stopped' = stopped,
         \/ failed' = failed /\ disabled' = disabled
            /\ (disabled => task'[k].pc \in {"off", "failed", "ended"})
         \/ failed' = failed + 1 /\ disabled' = TRUE /\ ~ disabled /\ task'[k].pc = "failed"
  PROVE  ManagerInv'
<1>1. /\ inflight = k /\ k # None /\ ~ stopped
      /\ \A l \in Tasks \ {k} : task[l].pc = "off" /\ task[l].captured = {}
  BY DEF ManagerInv, OneCompaction, Parameters
<1>2. OneCompaction'  BY <1>1 DEF OneCompaction
<1>3. failed \in Nat /\ failed <= 1 /\ (failed # 0 => disabled)
  BY <1>1 DEF TypeOK, ManagerInv, ToldOnce
<1>4. ToldOnce'
  <2>1. CASE failed' = failed /\ disabled' = disabled
             /\ (disabled => task'[k].pc \in {"off", "failed", "ended"})
    BY <1>1, <2>1 DEF ManagerInv, ToldOnce
  <2>2. CASE failed' = failed + 1 /\ disabled' = TRUE /\ ~ disabled /\ task'[k].pc = "failed"
    BY <1>1, <1>3, <2>2 DEF ToldOnce
  <2> QED  BY <2>1, <2>2
<1>5. \A l \in Tasks : /\ task'[l].pc \in {"begin", "sleep"} => attempts' < MaxRetries
                       /\ task'[l].pc # "summarise" => task'[l].captured = {}
                       /\ task'[l].pc \in {"failed", "ended"} => attempts' = 0
  BY <1>1
<1>6. failed' # 0 => disabled' \/ stopped'  BY <1>3
<1>7. stopped' => \A l \in Tasks : task'[l].pc = "off"  BY <1>1
<1> QED  BY <1>2, <1>4, <1>5, <1>6, <1>7 DEF ManagerInv

(* One step of a compaction task: it summarises a copy, appends, reports.  *)
LEMMA CompactionKeeps ==
  ASSUME NEW k \in Tasks PROVE TapeInv /\ CompactionStep(k) => TapeInv'
<1> SUFFICES ASSUME TapeInv, CompactionStep(k)  PROVE TapeInv'
  OBVIOUS
<1>0. Parameters /\ TypeOK /\ EventsInv /\ TurnsInv /\ EntriesInv /\ TapeFacts /\ OwnInv
      /\ CapturedInv /\ ManagerInv /\ OwnMessageOnce
  BY DEF TapeInv, TapeFacts
<1>1. UNCHANGED <<turn, hist, chan, event, step, others, users, stopped, delivered, lost>>
  BY DEF CompactionStep, Capture, AppendAnchor, Completed, AttemptFails, BackoffOver,
         FailurePublished, Discard, turnVars, workerVars
<1>2. TypeOK'  BY <1>0, TapeTypes DEF Next
<1>3. /\ task \in [Tasks -> CompactionTask] /\ attempts \in Nat /\ MaxRetries \in Nat \ {0}
      /\ \A l \in Tasks : task[l].captured \in SUBSET Message
  <2>1. task \in [Tasks -> CompactionTask] /\ attempts \in Nat /\ MaxRetries \in Nat \ {0}
    BY <1>0 DEF TypeOK, Parameters
  <2> QED  BY <2>1 DEF CompactionTask
<1>4. \A l \in Tasks \ {k} : task'[l] = task[l]
  BY <1>3 DEF CompactionStep, Capture, AppendAnchor, Completed, AttemptFails, BackoffOver,
              FailurePublished, Discard
<1>5. task[k].pc # "off"
  BY DEF CompactionStep, Capture, AppendAnchor, Completed, AttemptFails, BackoffOver,
         FailurePublished, Discard
<1>6. EventsInv' /\ TurnsInv' /\ OwnMessageOnce'
  BY <1>0, <1>1, EventsSame DEF OwnMessageOnce
(* What the step makes of the task and of the counters.                    *)
<1>7. /\ inflight' = IF task'[k].pc = "off" THEN None ELSE inflight
      /\ task'[k].pc # "summarise" => task'[k].captured = {}
      /\ task'[k].pc \in {"begin", "sleep"} => attempts' < MaxRetries
      /\ task'[k].pc \in {"off", "failed", "ended"} => attempts' = 0
      /\ \/ failed' = failed /\ disabled' = disabled
            /\ (disabled => task'[k].pc \in {"off", "failed", "ended"})
         \/ failed' = failed + 1 /\ disabled' = TRUE /\ ~ disabled /\ task'[k].pc = "failed"
  <2>0. /\ disabled => task[k].pc \in {"failed", "ended"}
        /\ task[k].pc # "summarise" => task[k].captured = {}
        /\ task[k].pc \in {"begin", "sleep"} => attempts < MaxRetries
        /\ task[k].pc \in {"failed", "ended"} => attempts = 0
    BY <1>0, <1>5 DEF ManagerInv, ToldOnce
  <2>1. CASE Capture(k)
    <3>1. CASE Window(tape) = {}
      <4>1. task'[k].pc = "ended" /\ task'[k].captured = task[k].captured
        BY <1>3, <2>1, <3>1 DEF Capture, CompactionTask
      <4> QED  BY <2>0, <2>1, <3>1, <4>1 DEF Capture
    <3>2. CASE Window(tape) # {}
      <4>1. task'[k].pc = "summarise"  BY <1>3, <2>1, <3>2 DEF Capture
      <4> QED  BY <2>0, <2>1, <4>1 DEF Capture
    <3> QED  BY <3>1, <3>2
  <2>2. CASE AppendAnchor(k)
    <3>1. task'[k].pc = "completed" /\ task'[k].captured = {}  BY <1>3, <2>2 DEF AppendAnchor
    <3> QED  BY <2>0, <2>2, <3>1 DEF AppendAnchor
  <2>3. CASE Completed(k)
    <3>1. task'[k].pc = "ended" /\ task'[k].captured = task[k].captured
      BY <1>3, <2>3 DEF Completed, CompactionTask
    <3> QED  BY <2>0, <2>3, <3>1 DEF Completed
  <2>4. CASE AttemptFails(k)
    <3>1. CASE attempts < MaxRetries
      <4>1. task'[k].pc = "sleep" /\ task'[k].captured = {}  BY <1>3, <2>4, <3>1 DEF AttemptFails
      <4> QED  BY <2>0, <2>4, <3>1, <4>1 DEF AttemptFails
    <3>2. CASE ~ (attempts < MaxRetries)
      <4>1. task'[k].pc = "failed" /\ task'[k].captured = {}  BY <1>3, <2>4, <3>2 DEF AttemptFails
      <4> QED  BY <2>0, <2>4, <3>2, <4>1 DEF AttemptFails
    <3> QED  BY <3>1, <3>2
  <2>5. CASE BackoffOver(k)
    <3>1. task'[k].pc = "begin" /\ task'[k].captured = task[k].captured
      BY <1>3, <2>5 DEF BackoffOver, CompactionTask
    <3> QED  BY <2>0, <2>5, <3>1 DEF BackoffOver
  <2>6. CASE FailurePublished(k)
    <3>1. task'[k].pc = "ended" /\ task'[k].captured = task[k].captured
      BY <1>3, <2>6 DEF FailurePublished, CompactionTask
    <3> QED  BY <2>0, <2>6, <3>1 DEF FailurePublished
  <2>7. CASE Discard(k)
    <3>1. task'[k].pc = "off" /\ task'[k].captured = {}  BY <1>3, <2>7 DEF Discard, Idle
    <3> QED  BY <2>0, <2>7, <3>1 DEF Discard
  <2> QED  BY <2>1, <2>2, <2>3, <2>4, <2>5, <2>6, <2>7 DEF CompactionStep
<1>8. ManagerInv'  BY <1>0, <1>1, <1>2, <1>4, <1>5, <1>7, ManagerStep
<1>9. TapeFacts' /\ OwnInv' /\ CapturedInv'
  <2>1. CASE AppendAnchor(k)
    <3> DEFINE e == CompactionAnchor(task[k].captured)
    <3>1. tape' = Append(tape, e) /\ task'[k].captured = {}
      BY <1>3, <2>1 DEF AppendAnchor
    <3>2. e \in TapeEntry /\ e.kind = "compaction" /\ e.sum = task[k].captured
      BY <1>3, AnchorIs
    <3>3. \A m \in task[k].captured : \E j \in VerbatimAt(tape) : tape[j].msg = m
      BY <1>0 DEF CapturedInv
    <3>4. TapeFacts'
      <4> HIDE DEF e
      <4> QED  BY <1>0, <1>1, <3>1, <3>2, <3>3, AnchorAdded
    <3>5. OwnInv'
      <4> HIDE DEF e
      <4> QED  BY <1>0, <1>1, <3>1, <3>2, OwnAnchored
    <3>6. CapturedInv'
      <4>1. \A l \in Tasks \ {k} : task[l].captured = {}
        BY <1>0, <1>5 DEF ManagerInv, OneCompaction
      <4> QED  BY <1>4, <3>1, <4>1 DEF CapturedInv
    <3> QED  BY <3>4, <3>5, <3>6
  <2>2. CASE Capture(k)
    <3>1. tape' = tape  BY <2>2 DEF Capture
    <3>2. TapeFacts' /\ OwnInv'  BY <1>0, <1>1, <3>1, TapeSame, OwnSame
    <3>3. task'[k].captured = task[k].captured \/ task'[k].captured = Messages(tape, Window(tape))
      BY <1>3, <2>2 DEF Capture, CompactionTask
    <3>4. \A j \in Window(tape) : tape[j].kind = "message" => j \in VerbatimAt(tape)
      <4>1. tape \in Seq(TapeEntry)  BY <1>0 DEF TypeOK
      <4>2. ASSUME NEW j \in Window(tape), NEW i \in Compactions(tape)  PROVE i < j
        <5>1. i \in DOMAIN tape /\ j \in DOMAIN tape /\ i \in Nat /\ j \in Nat /\ i <= Len(tape)
          BY <4>1 DEF Window, Compactions
        <5>2. i \in j..Len(tape) => FALSE  BY DEF Window, Compactions
        <5> QED  BY <4>1, <5>1, <5>2
      <4> QED  BY <4>2 DEF Window, VerbatimAt
    <3>5. ASSUME NEW m \in Messages(tape, Window(tape))
          PROVE  \E j \in VerbatimAt(tape) : tape[j].msg = m
      BY <3>4 DEF Messages
    <3>6. \A m \in task'[k].captured : \E j \in VerbatimAt(tape) : tape[j].msg = m
      BY <1>0, <3>3, <3>5 DEF CapturedInv
    <3>7. CapturedInv'  BY <1>0, <1>4, <3>1, <3>6 DEF CapturedInv
    <3> QED  BY <3>2, <3>7
  <2>3. CASE Completed(k) \/ AttemptFails(k) \/ BackoffOver(k) \/ FailurePublished(k) \/ Discard(k)
    <3>1. tape' = tape /\ task'[k].pc # "summarise"
      BY <1>3, <2>3 DEF Completed, AttemptFails, BackoffOver, FailurePublished, Discard, Idle,
                        CompactionTask
    <3>2. task'[k].captured = {}  BY <1>7, <3>1
    <3>3. CapturedInv'  BY <1>0, <1>4, <3>1, <3>2 DEF CapturedInv
    <3> QED  BY <1>0, <1>1, <3>1, <3>3, TapeSame, OwnSame
  <2> QED  BY <2>1, <2>2, <2>3 DEF CompactionStep
<1> QED  BY <1>0, <1>2, <1>6, <1>8, <1>9 DEF TapeInv, TapeFacts, Parameters

(* The shutdown cancels the manager's tasks.                               *)
LEMMA ShutdownKeeps == TapeInv /\ Shutdown => TapeInv'
<1> SUFFICES ASSUME TapeInv, Shutdown  PROVE TapeInv'
  OBVIOUS
<1>0. Parameters /\ TypeOK /\ EventsInv /\ TurnsInv /\ EntriesInv /\ TapeFacts /\ OwnInv
      /\ CapturedInv /\ ManagerInv /\ OwnMessageOnce
  BY DEF TapeInv, TapeFacts
<1>1. /\ UNCHANGED <<tape, turn, hist, chan, event, step, others, users, failed, delivered, lost>>
      /\ stopped' = TRUE /\ inflight' = None /\ attempts' = 0 /\ disabled' = FALSE
      /\ task' = [k \in Tasks |-> Idle]
  BY DEF Shutdown, turnVars, workerVars
<1>2. TypeOK'  BY <1>0, TapeTypes DEF Next
<1>3. EventsInv' /\ TurnsInv' /\ TapeFacts' /\ OwnInv' /\ OwnMessageOnce'
  BY <1>0, <1>1, EventsSame, TapeSame, OwnSame DEF OwnMessageOnce
<1>4. \A k \in Tasks : task'[k].pc = "off" /\ task'[k].captured = {}
  BY <1>1 DEF Idle
<1>5. CapturedInv'  BY <1>4 DEF CapturedInv
<1>6. ManagerInv'
  BY <1>0, <1>1, <1>4 DEF ManagerInv, OneCompaction, ToldOnce
<1> QED  BY <1>0, <1>2, <1>3, <1>5, <1>6 DEF TapeInv, TapeFacts, Parameters

-----------------------------------------------------------------------------
(* The invariant holds in every state of the session's memory.             *)
LEMMA TapeInit == Parameters /\ Init => TapeInv
<1> SUFFICES ASSUME Parameters, Init  PROVE TapeInv
  OBVIOUS
<1>1. Anchor \in TapeEntry /\ Anchor.kind = "anchor"  BY AnchorIs
<1>2. /\ tape = <<Anchor>> /\ DOMAIN tape = {1} /\ tape[1] = Anchor
      /\ tape \in Seq(TapeEntry)
  BY <1>1 DEF Init
<1>3. TypeOK
  <2>1. task \in [Tasks -> CompactionTask]  BY DEF Init, Idle, CompactionTask
  <2>2. hist \in [Turns -> Seq(Message)] /\ turn \in [Turns -> {"off", "load", "run", "over"}]
    BY DEF Init
  <2>3. MaxTurns \in Nat /\ MaxOthers \in Nat /\ MaxUpsets \in Nat /\ MaxRetries \in Nat
    BY DEF Parameters
  <2>4. chan \in Seq(Event) /\ delivered \in Seq(Event)  BY DEF Init
  <2>5. /\ event \in Event \cup {None} /\ step \in {"loop", "persist", "check"}
        /\ stamped \subseteq Turns /\ lost \subseteq Event /\ inflight \in Tasks \cup {None}
        /\ disabled \in BOOLEAN /\ stopped \in BOOLEAN
    BY DEF Init
  <2>6. /\ users \in 0..MaxTurns /\ others \in 0..MaxOthers /\ attempts \in 0..MaxRetries
        /\ upsets \in 0..MaxUpsets /\ failed \in Nat
    BY <2>3 DEF Init
  <2> QED  BY ONLY <1>2, <2>1, <2>2, <2>4, <2>5, <2>6 DEF TypeOK
<1>4. EventsInv /\ TurnsInv
  <2>1. DOMAIN chan = {} /\ DOMAIN delivered = {}  BY DEF Init
  <2>2. \A t \in Turns : ~ Started(t) /\ event # User(t)
    BY EventIs DEF Init, Started, Parameters
  <2>3. event = None /\ \A t \in Turns : turn[t] = "off"  BY DEF Init
  <2> QED  BY <2>1, <2>2, <2>3 DEF EventsInv, TurnsInv, Delivering
<1>5. EntriesInv /\ OwnInv
  BY <1>1, <1>2 DEF Init, EntriesInv, OwnInv
<1>6. SummariesInv  BY <1>1, <1>2 DEF SummariesInv, Compactions
<1>7. /\ CapturedInv /\ ManagerInv
  <2>1. \A k \in Tasks : task[k].pc = "off" /\ task[k].captured = {}  BY DEF Init, Idle
  <2> QED
    BY <2>1 DEF Init, CapturedInv, ManagerInv, OneCompaction, ToldOnce
<1>8. TapeTellsTheSession
  <2>1. MirroredAt = {} /\ WrittenAt = {}
    BY <1>1, <1>2 DEF MirroredAt, WrittenAt, Init
  <2>2. tape \in Seq(TapeEntry) /\ delivered \in Seq(Event)  BY <1>3 DEF TypeOK
  <2>3. /\ Len(Listed(tape, {})) = Cardinality({}) /\ Len(Listed(delivered, {})) = Cardinality({})
        /\ Listed(delivered, {}) \in Seq(Event)
    BY <2>2, ListedIs
  <2>4. Cardinality({}) = 0  BY FS_EmptySet
  <2>5. DOMAIN Listed(delivered, {}) = {}  BY <2>3, <2>4
  <2>6. /\ Len(Listed(tape, MirroredAt)) = Len(Listed(delivered, WrittenAt))
        /\ \A i \in DOMAIN Listed(delivered, WrittenAt) :
             Listed(tape, MirroredAt)[i].msg = Listed(delivered, WrittenAt)[i]
    BY <2>1, <2>3, <2>5
  <2> QED  BY <2>6 DEF TapeTellsTheSession, MirroredAt, WrittenAt
<1>9. OwnMessageOnce  BY DEF Init, OwnMessageOnce
<1> QED  BY <1>3, <1>4, <1>5, <1>6, <1>7, <1>8, <1>9 DEF TapeInv

(* Every step keeps the invariant.                                         *)
LEMMA TapeStep == TapeInv /\ [Next]_vars => TapeInv'
<1> SUFFICES ASSUME TapeInv, [Next]_vars  PROVE TapeInv'
  OBVIOUS
<1>1. CASE UNCHANGED vars
  <2>0. Parameters /\ TypeOK /\ EventsInv /\ TurnsInv /\ EntriesInv /\ TapeFacts /\ OwnInv
        /\ CapturedInv /\ ManagerInv /\ OwnMessageOnce
    BY DEF TapeInv, TapeFacts
  <2>1. UNCHANGED <<tape, turn, hist, chan, event, step, others, users, task, inflight, attempts,
                    disabled, failed, stopped, delivered, lost>>
    BY <1>1 DEF vars
  <2>2. TypeOK'  BY <1>1, <2>0, TapeTypes
  <2>3. EventsInv' /\ TurnsInv' /\ TapeFacts' /\ OwnInv' /\ OwnMessageOnce' /\ CapturedInv'
        /\ ManagerInv'
    BY <2>0, <2>1, EventsSame, TapeSame, OwnSame, CapturedSame, ManagerSame DEF OwnMessageOnce
  <2> QED  BY <2>0, <2>2, <2>3 DEF TapeInv, TapeFacts, Parameters
<1>2. CASE SendMessage \/ Deliver \/ LoopHandles \/ Persist \/ Check \/ Rename \/ Shutdown
  BY <1>2, SendKeeps, DeliverKeeps, LoopKeeps, PersistKeeps, CheckKeeps, RenameKeeps, ShutdownKeeps
<1>3. ASSUME NEW t \in Turns,
             LoadHistory(t) \/ StampProvider(t) \/ PublishOther(t) \/ PublishDone(t) \/ TurnFails(t)
      PROVE  TapeInv'
  BY <1>3, LoadKeeps, TurnKeeps, OtherKeeps, DoneKeeps
<1>4. ASSUME NEW k \in Tasks, CompactionStep(k)  PROVE TapeInv'
  BY <1>4, CompactionKeeps
<1> QED  BY <1>1, <1>2, <1>3, <1>4 DEF Next

(* So the invariant always holds.                                          *)
LEMMA TapeInvariance == Parameters /\ Spec => []TapeInv
<1>1. Parameters /\ Init => TapeInv  BY TapeInit
<1>2. TapeInv /\ [Next]_vars => TapeInv'  BY TapeStep
<1> QED  BY <1>1, <1>2, PTL DEF Spec

(* Every message that was summarised is behind its summary, and only there.*)
LEMMA InvRepresents == TapeInv => RepresentedOnce
<1> SUFFICES ASSUME TapeInv  PROVE RepresentedOnce
  OBVIOUS
<1>0. TypeOK /\ EventsInv /\ EntriesInv /\ TapeTellsTheSession /\ SummariesInv
  BY DEF TapeInv
<1>1. tape \in Seq(TapeEntry) /\ \A i \in DOMAIN tape : i \in Nat /\ \A j \in 1..(i - 1) : j \in DOMAIN tape
  BY <1>0 DEF TypeOK
<1>2. \A i, j \in DOMAIN tape :
        tape[i].kind = "message" /\ tape[j].kind = "message" /\ tape[i].msg = tape[j].msg => i = j
  BY <1>0, OnTapeOnce DEF MirroredAt
<1>3. \A i \in Compactions(tape) : \A m \in tape[i].sum :
        \E j \in DOMAIN tape : /\ j < i /\ tape[j].kind = "message" /\ tape[j].msg = m
                               /\ \A k \in Compactions(tape) : j < k => i <= k
  <2> TAKE i \in Compactions(tape)
  <2> TAKE m \in tape[i].sum
  <2>0. i \in DOMAIN tape  BY DEF Compactions
  <2>1. PICK j \in 1..(i - 1) : /\ tape[j].kind = "message" /\ tape[j].msg = m
                                /\ \A k \in (j + 1)..(i - 1) : tape[k].kind # "compaction"
    BY <1>0 DEF SummariesInv
  <2>2. j \in DOMAIN tape /\ j < i /\ j \in Nat /\ i \in Nat  BY <1>1, <2>0
  <2>3. ASSUME NEW k \in Compactions(tape), j < k  PROVE i <= k
    <3>1. k \in Nat /\ tape[k].kind = "compaction"  BY <1>1 DEF Compactions
    <3>2. k \notin (j + 1)..(i - 1)  BY <2>1, <3>1
    <3> QED  BY <2>2, <2>3, <3>1, <3>2
  <2> QED  BY <2>1, <2>2, <2>3
<1>4. Summary(tape) \cap ToSet(Verbatim(tape)) = {}
  <2> SUFFICES ASSUME NEW m \in Summary(tape), m \in ToSet(Verbatim(tape))  PROVE FALSE
    OBVIOUS
  <2>1. PICK i \in Compactions(tape) : m \in tape[i].sum  BY DEF Summary
  <2>2. PICK j \in DOMAIN tape : j < i /\ tape[j].kind = "message" /\ tape[j].msg = m
    BY <1>3, <2>1
  <2>3. ToSet(Verbatim(tape)) = {tape[l].msg : l \in VerbatimAt(tape)}
    BY <1>0, VerbatimIs
  <2>4. PICK l \in VerbatimAt(tape) : tape[l].msg = m  BY <2>3
  <2>5. l \in DOMAIN tape /\ tape[l].kind = "message" /\ i < l
    BY DEF VerbatimAt
  <2>6. i \in Nat /\ j \in Nat /\ l \in Nat  BY <1>1, <2>5 DEF Compactions
  <2>7. l = j  BY <1>2, <2>2, <2>4, <2>5
  <2> QED  BY <2>2, <2>5, <2>6, <2>7
<1>5. IsInjective(Verbatim(tape))
  <2> DEFINE at == VerbatimAt(tape)
             c == Cardinality(at)
             v == Verbatim(tape)
  <2>1. /\ c \in Nat /\ v \in Seq(Message) /\ Len(v) = c
        /\ \A n \in 1..c : Nth(at, n) \in at /\ v[n] = tape[Nth(at, n)].msg
        /\ \A m, n \in 1..c : m < n <=> Nth(at, m) < Nth(at, n)
    BY <1>0, VerbatimIs
  <2>2. \A i \in at : i \in DOMAIN tape /\ tape[i].kind = "message"  BY DEF VerbatimAt
  <2> HIDE DEF at, c, v
  <2>3. ASSUME NEW m \in 1..c, NEW n \in 1..c, v[m] = v[n]  PROVE m = n
    <3>1. PICK a \in at, b \in at : a = Nth(at, m) /\ b = Nth(at, n)  BY <2>1
    <3>2. a = b  BY <1>2, <2>1, <2>2, <2>3, <3>1
    <3>3. a \in Nat  BY <1>1, <2>2
    <3>5. (m < n <=> a < b) /\ (n < m <=> b < a)  BY <2>1, <3>1
    <3>4. ~ (m < n) /\ ~ (n < m)  BY <3>2, <3>3, <3>5
    <3> QED  BY <2>1, <3>4
  <2>4. DOMAIN v = 1..c  BY <2>1
  <2> QED  BY <2>3, <2>4 DEF IsInjective, v
<1>6. ASSUME NEW i \in Compactions(tape), NEW k \in Compactions(tape), i # k
      PROVE  tape[i].sum \cap tape[k].sum = {}
  <2> SUFFICES ASSUME NEW m \in tape[i].sum, m \in tape[k].sum  PROVE FALSE
    OBVIOUS
  <2>1. PICK a \in DOMAIN tape : /\ a < i /\ tape[a].kind = "message" /\ tape[a].msg = m
                                 /\ \A l \in Compactions(tape) : a < l => i <= l
    BY <1>3
  <2>2. PICK b \in DOMAIN tape : /\ b < k /\ tape[b].kind = "message" /\ tape[b].msg = m
                                 /\ \A l \in Compactions(tape) : b < l => k <= l
    BY <1>3
  <2>3. a = b  BY <1>2, <2>1, <2>2
  <2>4. i \in Nat /\ k \in Nat  BY <1>1 DEF Compactions
  <2>5. i <= k /\ k <= i  BY <2>1, <2>2, <2>3
  <2> QED  BY <1>6, <2>4, <2>5
<1> QED  BY <1>4, <1>5, <1>6 DEF RepresentedOnce

-----------------------------------------------------------------------------
(* The manager's and the turns' tables keep their types (loop.py:395-457,  *)
(* compaction.py:380-395).                                                 *)
THEOREM TapeKeepsItsTypes == Parameters /\ Spec => []TypeOK
BY TapeInvariance, PTL DEF TapeInv

(* The tape tells the conversation in its order, whoever else appends to   *)
(* it: exactly what was delivered and not reported lost                    *)
(* (session_persister.py:136-154).                                         *)
THEOREM TheTapeTells == Parameters /\ Spec => []TapeTellsTheSession
BY TapeInvariance, PTL DEF TapeInv

(* A message reaches the model once, verbatim or in one summary, whatever  *)
(* is said while the summariser runs (compaction.py:270-303).              *)
THEOREM MessagesAreRepresentedOnce == Parameters /\ Spec => []RepresentedOnce
BY TapeInvariance, InvRepresents, PTL

(* A turn sees its own message once, at the end of its history, however    *)
(* the persister's write and its read are ordered (loop.py:598-625).       *)
THEOREM TurnsSeeTheirMessageOnce == Parameters /\ Spec => []OwnMessageOnce
BY TapeInvariance, PTL DEF TapeInv

(* One compaction of a session at a time, and its failure told once        *)
(* (compaction.py:421-540).                                                *)
THEOREM CompactionsComeOneByOne == Parameters /\ Spec => [](OneCompaction /\ ToldOnce)
BY TapeInvariance, PTL DEF TapeInv, ManagerInv
=============================================================================
