------------------------------ MODULE LlmStream ------------------------------
(***************************************************************************)
(* One llm.call.request at the llm_openai plugin: OpenAIProvider._dispatch *)
(* streams the completion, and its _StreamThinkFilter takes the reasoning  *)
(* between <think> and </think> out of it, wherever the chunks are cut.    *)
(* The tags are three and four characters long here: <t> and </t>.         *)
(***************************************************************************)
EXTENDS Integers, Sequences, FiniteSets, SequencesExt, Positions

CONSTANTS
  Pieces,     \* what a completion is made of: "open", "close", "word", "less"
  MaxPieces,  \* bound: pieces of a completion
  MaxChunk    \* bound: characters of a chunk

OpenTag == <<"<", "t", ">">>
CloseTag == <<"<", "/", "t", ">">>
Characters(p) ==
  CASE p = "open" -> OpenTag [] p = "close" -> CloseTag [] p = "word" -> <<"w">> [] OTHER -> <<"<">>

VARIABLES
  text,      \* what the model has said
  pieces,    \* in how many pieces
  sent,      \* how many of its characters have arrived
  buf,       \* _StreamThinkFilter._buf
  inThink,   \* _StreamThinkFilter._in_think
  feeding,   \* a chunk is being fed
  parts,     \* visible_parts of this chunk
  deltas,    \* the characters of the llm.call.delta events so far
  response,  \* aggregated: the text of llm.call.response
  outcome    \* open, response or error

filterVars == <<buf, inThink, feeding, parts>>
textVars == <<text, pieces>>
vars == <<textVars, sent, filterVars, deltas, response, outcome>>

Init ==
  /\ text = <<>> /\ pieces = 0 /\ sent = 0
  /\ buf = <<>> /\ inThink = FALSE /\ feeding = FALSE /\ parts = <<>>
  /\ deltas = <<>> /\ response = <<>> /\ outcome = "open"

StartsWith(s, t) == IsPrefix(t, s)
From(s, n) == SubSeq(s, n, Len(s))
Finds(s, t, n) == n \in DOMAIN s /\ StartsWith(From(s, n), t)
Find(s, t) ==
  LET found == {n \in DOMAIN s : Finds(s, t, n)} IN
  IF found = {} THEN 0 ELSE CHOOSE n \in found : \A m \in found : n <= m

-----------------------------------------------------------------------------
(* the model goes on *)
Say ==
  /\ outcome = "open" /\ pieces < MaxPieces
  /\ \E p \in Pieces : text' = text \o Characters(p)
  /\ pieces' = pieces + 1
  /\ UNCHANGED <<sent, filterVars, deltas, response, outcome>>

(* _consume_chunk: the content of a chunk goes to feed() *)
Arrive ==
  /\ outcome = "open" /\ ~feeding /\ parts = <<>>
  /\ \E n \in 1..MaxChunk :
       /\ sent + n <= Len(text)
       /\ sent' = sent + n
       /\ buf' = buf \o SubSeq(text, sent + 1, sent + n)
  /\ feeding' = TRUE
  /\ UNCHANGED <<textVars, inThink, parts, deltas, response, outcome>>

KeptShort(s) == {n \in 1..Len(CloseTag) - 2 : n <= Len(s) /\ IsPrefix(From(s, Len(s) - n + 1), CloseTag)}

(* what may still become the close tag is kept *)
Kept(s) == {n \in 1..Len(CloseTag) - 1 : n <= Len(s) /\ IsPrefix(From(s, Len(s) - n + 1), CloseTag)}
Longest(ns) == CHOOSE n \in ns \cup {0} : \A m \in ns : m <= n

StepInside ==
  LET close == Find(buf, CloseTag) IN
  /\ feeding /\ inThink /\ buf # <<>>
  /\ IF close = 0
     THEN /\ buf' = From(buf, Len(buf) - Longest(Kept(buf)) + 1)
          /\ feeding' = FALSE /\ UNCHANGED inThink
     ELSE /\ buf' = From(buf, close + Len(CloseTag))
          /\ inThink' = FALSE /\ UNCHANGED feeding
  /\ UNCHANGED <<textVars, sent, parts, deltas, response, outcome>>

(* a buffer shorter than the open tag waits if it may become one, and is   *)
(* let out as a whole if not                                               *)
StepOutside ==
  LET lt == Find(buf, <<"<">>)
      before == IF lt = 0 THEN buf ELSE SubSeq(buf, 1, lt - 1)
      rest == IF lt = 0 THEN <<>> ELSE From(buf, lt) IN
  /\ feeding /\ ~inThink /\ buf # <<>>
  /\ \/ /\ Len(rest) < Len(OpenTag) /\ IsPrefix(rest, OpenTag)
        /\ parts' = parts \o before /\ buf' = rest
        /\ feeding' = FALSE /\ UNCHANGED inThink
     \/ /\ Len(rest) < Len(OpenTag) /\ ~IsPrefix(rest, OpenTag)
        /\ parts' = parts \o before \o rest /\ buf' = <<>>
        /\ feeding' = FALSE /\ UNCHANGED inThink
     \/ /\ StartsWith(rest, OpenTag)
        /\ parts' = parts \o before /\ buf' = From(rest, Len(OpenTag) + 1)
        /\ inThink' = TRUE /\ UNCHANGED feeding
     \/ /\ Len(rest) >= Len(OpenTag) /\ ~StartsWith(rest, OpenTag)
        /\ parts' = parts \o before \o <<Head(rest)>> /\ buf' = Tail(rest)
        /\ UNCHANGED <<inThink, feeding>>
  /\ UNCHANGED <<textVars, sent, deltas, response, outcome>>

(* feed() is through: retained text is aggregated, visible text emitted *)
Fed == ~feeding \/ buf = <<>>
EmitDelta ==
  /\ outcome = "open" /\ Fed /\ (parts # <<>> \/ feeding)
  /\ deltas' = deltas \o parts /\ response' = response \o parts
  /\ parts' = <<>> /\ feeding' = FALSE
  /\ UNCHANGED <<textVars, sent, buf, inThink, outcome>>

(* the stream ends: flush(), then llm.call.response *)
Respond ==
  LET tail == IF inThink THEN <<>> ELSE buf IN
  /\ outcome = "open" /\ ~feeding /\ parts = <<>> /\ sent = Len(text)
  /\ deltas' = deltas \o tail /\ response' = response \o tail
  /\ buf' = <<>>
  /\ outcome' = "response"
  /\ UNCHANGED <<textVars, sent, inThink, feeding, parts>>

(* the stream fails: llm.call.error, after the deltas that went out *)
Fail ==
  /\ outcome = "open" /\ ~feeding /\ parts = <<>>
  /\ outcome' = "error"
  /\ UNCHANGED <<textVars, sent, filterVars, deltas, response>>

Next == Say \/ Arrive \/ StepInside \/ StepOutside \/ EmitDelta \/ Respond \/ Fail

Spec == Init /\ [][Next]_vars

-----------------------------------------------------------------------------
(* What _strip_reasoning_tags leaves of a text, except that an unclosed    *)
(* span is dropped: the reference, on the whole text.  Behind the n-th      *)
(* character a span is open if a tag has opened one and none closed it.     *)
SpanOpen(s, n) ==
  \E m \in 1..n : /\ Finds(s, OpenTag, m)
                  /\ \A c \in m .. n - Len(CloseTag) + 1 : ~Finds(s, CloseTag, c)
Visible(s) == {n \in DOMAIN s : ~Finds(s, OpenTag, n) /\ ~SpanOpen(s, n - 1)}
Stripped(s) == Listed(s, Visible(s))

(* "emitting any of those bytes would either flash raw markers at the user *)
(* or leak reasoning": at no point have the deltas shown anything but a    *)
(* beginning of the text without its reasoning, and the response is that   *)
(* text, and what the deltas showed, however the stream was cut.           *)
NeverLeaks ==
  /\ IsPrefix(deltas, Stripped(text))
  /\ outcome = "response" => response = Stripped(text) /\ deltas = response

TypeOK ==
  /\ sent \in 0..Len(text) /\ Len(buf) <= Len(text)
  /\ {inThink, feeding} \subseteq BOOLEAN
  /\ outcome \in {"open", "response", "error"}

-----------------------------------------------------------------------------
(* Why it never leaks.                                                     *)
Parameters ==
  /\ Pieces \subseteq {"open", "close", "word", "less"}
  /\ MaxPieces \in Nat /\ MaxChunk \in Nat

Chars == {"<", "t", ">", "/", "w"}
Types ==
  /\ text \in Seq(Chars) /\ pieces \in 0..MaxPieces /\ sent \in 0..Len(text)
  /\ buf \in Seq(Chars) /\ parts \in Seq(Chars) /\ deltas \in Seq(Chars) /\ response = deltas
  /\ inThink \in BOOLEAN /\ feeding \in BOOLEAN
  /\ outcome \in {"open", "response", "error"}

(* Without stray ones, every "<" begins a tag.                             *)
TagsWhole ==
  \A n \in DOMAIN text : text[n] = "<" => Finds(text, OpenTag, n) \/ Finds(text, CloseTag, n)

(* What the filter has dealt with ends between two tags of the kind it      *)
(* looks for, and it knows if a span is open there.  The rest it holds.    *)
Taken == sent - Len(buf)
Whole(tag) == \A m \in 1..Taken : Finds(text, tag, m) => m + Len(tag) - 1 <= Taken
HeldInv ==
  /\ Len(buf) <= sent /\ buf = SubSeq(text, Taken + 1, sent)
  /\ inThink = SpanOpen(text, Taken)
  /\ IF inThink THEN Whole(CloseTag) ELSE Whole(OpenTag)

(* Between two chunks it holds no more than may become such a tag.         *)
WaitInv ==
  ~feeding => IF inThink THEN Len(buf) < Len(CloseTag)
              ELSE Len(buf) < Len(OpenTag) /\ IsPrefix(buf, OpenTag)

(* What it let out is what is visible of the text it has dealt with.        *)
ShownInv ==
  /\ deltas \o parts = Listed(text, {n \in Visible(text) : n <= Taken})
  /\ outcome # "open" => ~feeding /\ parts = <<>>
  /\ outcome = "response" => sent = Len(text) /\ buf = <<>>

StreamInv == Parameters /\ Types /\ TagsWhole /\ HeldInv /\ WaitInv /\ ShownInv
=============================================================================
