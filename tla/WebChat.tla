------------------------------- MODULE WebChat -------------------------------
(***************************************************************************)
(* One browser tab and the web adapter: chat-shell.ts shows a session, is  *)
(* switched to another one while requests and the socket are under way,    *)
(* and loses its connection; WebAdapter sends the session's events to the  *)
(* sockets it knows of.  An event is a number within its session.  The     *)
(* persister is called after the adapter.  Sessions are not deleted while  *)
(* the tab is on them.                                                     *)
(***************************************************************************)
EXTENDS Integers, Sequences

CONSTANTS
  Sessions,    \* sessions the sidebar lists
  MaxEvents,   \* bound: events published while the tab is open
  MaxClicks,   \* bound: clicks of the user
  MaxSockets,  \* bound: sockets opened
  None

Sockets == 1..MaxSockets
Ids == Sessions \cup Sockets      \* the nth socket, if fresh, is session n

VARIABLES
  said,     \* events of a session the adapter has been handed
  events,   \* events of all sessions so far
  opened,   \* sessions there are: those listed, and fresh ones
  clients,  \* WebAdapter._clients
  gen,      \* resumeGeneration
  loads,    \* calls of onResumeSession that wait for the server
  banner,   \* providerWarning: the session and its frames, or None
  current,  \* currentSessionId
  shown,    \* messages
  url,      \* the session of the WsClient's url, None without one
  ws,       \* number of its latest socket
  conn,     \* connecting, open, or down
  wanted,   \* history: the session clicked last, None for a new chat
  mixed,    \* history: a banner was accepted over messages
  strays    \* history: sessions without clients that said something

serverVars == <<said, events, opened, clients>>
tabVars == <<gen, loads, banner, current, shown>>
socketVars == <<url, ws, conn>>
historyVars == <<wanted, mixed, strays>>
vars == <<serverVars, tabVars, socketVars, historyVars>>

Frames(s, n) == [i \in 1..n |-> <<s, i>>]
Load(g, s) == [gen |-> g, session |-> s, frames |-> None]

(* connectedCallback: a tab without a hash, or with one that it resumes    *)
Init ==
  /\ said = [x \in Ids |-> 1] /\ events = 0
  /\ opened = Sessions /\ clients = {}
  /\ current \in Sessions \cup {None}
  /\ gen = (IF current = None THEN 0 ELSE 1)
  /\ loads = (IF current = None THEN {} ELSE {Load(1, current)})
  /\ banner = None /\ shown = <<>>
  /\ url = current /\ ws = 1 /\ conn = "connecting"
  /\ wanted = current /\ mixed = FALSE /\ strays = {}

-----------------------------------------------------------------------------
(* The adapter.                                                            *)
(* _deliver: the session's sockets, or everybody's *)
Targets(x) ==
  LET own == {c \in clients : c[1] = x} IN IF own = {} THEN clients ELSE own

Deliver(x) ==
  /\ x \in opened /\ events < MaxEvents /\ events' = events + 1
  /\ said' = [said EXCEPT ![x] = @ + 1]
  /\ shown' = IF conn = "open" /\ \E c \in Targets(x) : c[2] = ws
              THEN Append(shown, <<x, said'[x]>>) ELSE shown
  /\ strays' = IF \E c \in clients : c[1] = x THEN strays ELSE strays \cup {x}
  /\ UNCHANGED <<opened, clients, gen, loads, banner, current, socketVars, wanted, mixed>>

(* _handle_ws: a listed session is resumed, otherwise a fresh one starts *)
Accepted == IF url = None THEN ws ELSE url
Accept ==
  /\ conn = "connecting"
  /\ conn' = "open"
  /\ clients' = clients \cup {<<Accepted, ws>>} /\ opened' = opened \cup {Accepted}
  /\ UNCHANGED <<said, events, tabVars, url, ws, historyVars>>

(* receive_json raises for a socket the tab has left or lost *)
Disconnected ==
  /\ \E c \in clients :
       /\ conn # "open" \/ c[2] # ws
       /\ clients' = clients \ {c}
  /\ UNCHANGED <<opened, said, events, tabVars, socketVars, historyVars>>

-----------------------------------------------------------------------------
(* WsClient *)
Drop ==
  /\ conn = "open" /\ conn' = "down"
  /\ UNCHANGED <<serverVars, tabVars, url, ws, historyVars>>

Reconnect ==
  /\ conn = "down" /\ ws < MaxSockets
  /\ conn' = "connecting" /\ ws' = ws + 1
  /\ UNCHANGED <<serverVars, tabVars, url, historyVars>>

(* reopenSocket: the old client is closed, its frames are not heard *)
ReopenSocket(s) ==
  /\ ws < MaxSockets
  /\ url' = s /\ ws' = ws + 1 /\ conn' = "connecting"

-----------------------------------------------------------------------------
(* The chat.                                                               *)
Click == gen < MaxClicks

(* resetChatState and a socket without a session *)
Fresh ==
  /\ shown' = <<>> /\ current' = None /\ banner' = None /\ wanted' = None
  /\ ReopenSocket(None)

OnNewChat ==
  /\ Click /\ gen' = gen + 1
  /\ Fresh
  /\ UNCHANGED <<serverVars, loads, mixed, strays>>

OnResumeSession(s) ==
  /\ Click /\ gen' = gen + 1
  /\ loads' = loads \cup {Load(gen', s)}
  /\ wanted' = s
  /\ UNCHANGED <<serverVars, banner, current, shown, socketVars, mixed, strays>>

(* GET /api/sessions/{id}/frames is answered from the tape of that moment: *)
(* the last event may still be with the persister                          *)
ReadFrames(l) ==
  /\ l.frames = None
  /\ \E n \in {said[l.session] - 1, said[l.session]} :
       loads' = (loads \ {l}) \cup {[l EXCEPT !.frames = n]}
  /\ UNCHANGED <<serverVars, gen, banner, current, shown, socketVars, historyVars>>

(* the awaits check the generation *)
Stale(l) ==
  /\ l.gen # gen
  /\ loads' = loads \ {l}
  /\ UNCHANGED <<serverVars, gen, banner, current, shown, socketVars, historyVars>>

FetchFails(l) ==
  /\ l.gen = gen /\ l.frames = None
  /\ loads' = loads \ {l}
  /\ Fresh
  /\ UNCHANGED <<serverVars, gen, mixed, strays>>

HydratesAnyway(l) ==
  /\ l.frames # None
  /\ loads' = loads \ {l}
  /\ shown' = Frames(l.session, l.frames) /\ banner' = None /\ current' = l.session
  /\ ReopenSocket(l.session)
  /\ UNCHANGED <<serverVars, gen, historyVars>>

(* the session's detail says that its provider is there *)
Hydrates(l) ==
  /\ l.gen = gen /\ l.frames # None
  /\ loads' = loads \ {l}
  /\ shown' = Frames(l.session, l.frames) /\ banner' = None /\ current' = l.session
  /\ ReopenSocket(l.session)
  /\ UNCHANGED <<serverVars, gen, historyVars>>

(* or that it is gone: the messages are reset, the socket is not *)
Warns(l) ==
  /\ l.gen = gen /\ l.frames # None
  /\ loads' = loads \ {l}
  /\ shown' = <<>> /\ banner' = l
  /\ UNCHANGED <<serverVars, gen, current, socketVars, historyVars>>

(* the frames go behind whatever the old socket has brought since *)
OnContinueWithCurrentProvider ==
  /\ banner # None /\ banner' = None
  /\ current' = banner.session
  /\ shown' = shown \o Frames(banner.session, banner.frames)
  /\ mixed' = (mixed \/ shown # <<>>)
  /\ ReopenSocket(banner.session)
  /\ UNCHANGED <<serverVars, gen, loads, wanted, strays>>

OnCancelResume ==
  /\ banner # None /\ Click /\ gen' = gen + 1
  /\ Fresh
  /\ UNCHANGED <<serverVars, loads, mixed, strays>>

Next ==
  \/ Accept \/ Disconnected \/ Drop \/ Reconnect
  \/ OnNewChat \/ OnContinueWithCurrentProvider \/ OnCancelResume
  \/ \E x \in Ids : Deliver(x)
  \/ \E s \in Sessions : OnResumeSession(s)
  \/ \E l \in loads : ReadFrames(l) \/ Stale(l) \/ FetchFails(l) \/ Hydrates(l) \/ Warns(l)

Spec == Init /\ [][Next]_vars

-----------------------------------------------------------------------------
TypeOK ==
  /\ said \in [Ids -> 1..MaxEvents + 1] /\ \A x \in Ids : said[x] <= events + 1
  /\ clients \subseteq Ids \X Sockets /\ opened \subseteq Ids
  /\ conn \in {"connecting", "open", "down"} /\ ws \in Sockets

(* "prevents two rapid sidebar clicks from cross-pollinating state": when  *)
(* no request is under way, the chat shows the session clicked last, or a  *)
(* new one where that could not be read.                                   *)
LastClickWins == loads = {} /\ banner = None => current = wanted

(* What is shown is of one session, in its order and without repetition,   *)
(* apart from the events of sessions whose own sockets were gone, which go *)
(* to everybody, and of a banner accepted after the old socket had spoken. *)
OneTranscript ==
  ~mixed =>
    /\ \A i, j \in DOMAIN shown : i < j /\ shown[i][1] = shown[j][1] => shown[i][2] < shown[j][2]
    /\ \A i \in DOMAIN shown :
         \/ shown[i][1] = current \/ shown[i][1] \in strays
         \/ current = None /\ shown[i][1] \notin Sessions

(* What the user types goes to the session that is shown.                  *)
TypedWhereShown ==
  conn = "open" => <<IF current = None THEN ws ELSE current, ws>> \in clients

ShowsWhatWasAsked == LastClickWins /\ OneTranscript /\ TypedWhereShown

-----------------------------------------------------------------------------
(* What the proofs need of the constants: a listed session is no fresh one, *)
(* and None is neither a session nor a call that waits.                     *)
ResumeCalls == [gen : Nat, session : Sessions, frames : Nat \cup {None}]
Parameters ==
  /\ MaxSockets \in Nat \ {0} /\ MaxEvents \in Nat /\ Sessions \cap Sockets = {}
  /\ None \notin Sessions /\ None \notin ResumeCalls

Types ==
  /\ said \in [Ids -> Nat \ {0}] /\ clients \in SUBSET (Ids \X Sockets)
  /\ gen \in Nat /\ loads \in SUBSET ResumeCalls
  /\ banner \in ResumeCalls \cup {None} /\ (banner # None => banner.frames # None)
  /\ current \in Sessions \cup {None} /\ shown \in Seq(Ids \X Nat)
  /\ url \in Sessions \cup {None} /\ ws \in Sockets
  /\ conn \in {"connecting", "open", "down"}
  /\ strays \in SUBSET Ids

(* One call of a generation; that of the latest is for the session clicked  *)
(* last.                                                                    *)
GenerationInv ==
  /\ \A l \in loads : l.gen <= gen /\ (l.gen = gen => l.session = wanted)
  /\ \A k, l \in loads : k.gen = l.gen => k = l

(* Once no call of the latest generation waits, its outcome is there.       *)
OutcomeInv ==
  (\A l \in loads : l.gen # gen) =>
    IF banner = None THEN current = wanted ELSE banner.session = wanted

(* The tab's socket is for what it shows; the adapter knows it if it is     *)
(* open, under its own session only, and no later one.                      *)
SocketInv ==
  /\ url = current
  /\ \A c \in clients : c[2] <= ws /\ (c[2] = ws => c[1] = Accepted /\ conn # "connecting")
  /\ conn = "open" => <<Accepted, ws>> \in clients

(* No session has said more than all of them, and nobody is ahead of what   *)
(* was said.                                                                *)
EventsInv ==
  /\ events \in 0..MaxEvents /\ opened \subseteq Ids
  /\ \A x \in Ids : said[x] <= events + 1
SaidInv ==
  /\ \A l \in loads : l.frames # None => l.frames <= said[l.session]
  /\ banner # None => banner.frames <= said[banner.session]
  /\ \A i \in DOMAIN shown : shown[i][2] <= said[shown[i][1]]

ChatInv == Types /\ GenerationInv /\ OutcomeInv /\ SocketInv /\ SaidInv /\ OneTranscript
=============================================================================
