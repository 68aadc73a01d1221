---------------------------- MODULE NtfyClient ----------------------------
(***************************************************************************)
(* NtfyClient (src/src/ntfyclient.cpp): the subscription to a topic of     *)
(* somebody's ntfy server, a stream of lines that is meant to stay open,   *)
(* and the one timer that is its back-off and its watchdog.                *)
(*                                                                         *)
(* Server, topic and token are one address here: configure() treats a      *)
(* change, or the absence, of any of them the same way.  A line is an      *)
(* order with the key it opens with, or something that is no order (open,  *)
(* keepalive, an error page).  It travels in two halves, the second one    *)
(* with its end of line, and each readyRead brings any number of halves.   *)
(*                                                                         *)
(* abort() runs the finished handler inside stop(), which then calls       *)
(* deleteLater() on a null pointer: undefined.  Either the process dies,   *)
(* and systemd starts it again, or nothing happens.                        *)
(***************************************************************************)
EXTENDS Naturals, Sequences

CONSTANTS Topics, NoTopic,  \* where the owner may subscribe
          Keys, NoKey,      \* the words an order may open with
          Configs,          \* the settings files the owner may write
          Base, Most,       \* of the back-off, in seconds
          Silence,          \* how long a stream may say nothing, in seconds
          Off,              \* a timer that does not run
          MaxHeld,          \* bound: the 64 KB of the buffer, in halves
          MaxOrders,        \* bound: messages published
          MaxFailures       \* bound: failures counted; more wait no longer

Settings == [enabled : BOOLEAN, on : BOOLEAN,
             topic : Topics \cup {NoTopic}, key : Keys \cup {NoKey}]

ASSUME NtfyAssumption ==
  /\ NoTopic \notin Topics /\ NoKey \notin Keys
  /\ Configs \subseteq Settings
  /\ Base \in Nat \ {0} /\ Most \in Nat /\ Base <= Most
  /\ Silence \in Nat /\ Off \notin Nat
  /\ MaxHeld \in Nat \ {0} /\ MaxOrders \in Nat /\ MaxFailures \in Nat \ {0}

\* A message has its number, 0 when it is none, and its first word.
Line == [id : 0..MaxOrders, key : Keys \cup {NoKey}]
Half == [line : Line, ends : BOOLEAN]
NoOrder == [id |-> 0, key |-> NoKey]
Halves(l) == <<[line |-> l, ends |-> FALSE], [line |-> l, ends |-> TRUE]>>

VARIABLES
  running,    \* the daemon is up
  settings,   \* m_settings, and the file a daemon that died will read
  stream,     \* m_stream: "none", or what became of the request
  address,    \* where that request went
  retry,      \* m_retry: Off, or in how many seconds it fires
  connected,  \* m_connected
  failures,   \* m_failures
  buffer,     \* m_buffer
  pipe,       \* what the server sent over the stream and was not read yet
  up,         \* the server answers
  published,  \* messages published so far
  arrived,    \* history: orders that came whole, with the key of the moment
  obeyed,     \* history: orders handed to the daemon
  unheard     \* history: the watchdog went off over a dead stream, still there

client == <<settings, retry, connected, failures, buffer, unheard>>
request == <<stream, address, pipe>>
server == <<up, published>>
history == <<arrived, obeyed>>
vars == <<running, client, request, server, history>>

Init ==
  /\ running = TRUE
  /\ settings = [enabled |-> FALSE, on |-> FALSE, topic |-> NoTopic,
                 key |-> NoKey]
  /\ stream = "none" /\ address = NoTopic /\ pipe = <<>>
  /\ retry = Off /\ connected = FALSE /\ failures = 0 /\ buffer = <<>>
  /\ up = TRUE /\ published = 0
  /\ arrived = {} /\ obeyed = {} /\ unheard = FALSE

-----------------------------------------------------------------------------
Wanted(s) ==
  s.enabled /\ s.on /\ s.topic # NoTopic /\ s.key # NoKey

Shifted == <<1, 2, 4, 8, 16, 32, 64>>
Doubled(f) == Base * Shifted[1 + IF f < 6 THEN f ELSE 6]
BackOff(f) == IF Doubled(f) < Most THEN Doubled(f) ELSE Most

OneMore(f) == IF f < MaxFailures THEN f + 1 ELSE f

\* subscribe(), with no stream there.
Subscribe(to) ==
  /\ stream' = "asked" /\ address' = to /\ pipe' = <<>>
  /\ retry' = Silence
  /\ connected' = FALSE

\* The finished handler.  What the buffer holds stays there.
Ends ==
  /\ stream' = "none" /\ address' = NoTopic /\ pipe' = <<>>
  /\ connected' = FALSE
  /\ failures' = OneMore(failures)
  /\ retry' = BackOff(failures')

\* stop(), of a client that has no stream, of one that has, and of one that
\* does not survive it.
StopsQuietly ==
  /\ stream = "none"
  /\ retry' = Off /\ connected' = FALSE /\ buffer' = <<>>
  /\ UNCHANGED <<running, failures, request>>

StopsTheStream ==
  /\ stream # "none"
  /\ Ends /\ buffer' = <<>>
  /\ UNCHANGED running

Dies ==
  /\ stream # "none"
  /\ running' = FALSE
  /\ stream' = "none" /\ address' = NoTopic /\ pipe' = <<>>
  /\ retry' = Off /\ connected' = FALSE /\ failures' = 0 /\ buffer' = <<>>

\* configure() restarts a client whose address or switch changed, and one that
\* does not run; otherwise it leaves it alone.
ChangedSwitch(s) == s.on # settings.on

Changed(s) == s.topic # settings.topic \/ s.on # settings.on

RestartsChanged(s) == Wanted(s) /\ Changed(s)

Restarts(s) == Wanted(s) /\ (Changed(s) \/ stream = "none")

Configure(s) ==
  /\ running
  /\ settings' = s /\ unheard' = (unheard /\ Wanted(s) /\ ~Restarts(s))
  /\ \/ ~Wanted(s) /\ (StopsQuietly \/ StopsTheStream)
     \/ Restarts(s) /\ Subscribe(s.topic) /\ failures' = 0 /\ buffer' = <<>>
          /\ UNCHANGED running
     \/ (~Wanted(s) \/ Restarts(s)) /\ Dies
     \/ Wanted(s) /\ ~Restarts(s)
          /\ UNCHANGED <<running, retry, connected, failures, buffer, request>>
  /\ UNCHANGED <<server, history>>

\* systemd starts it again; a fresh client is configured from the file.
Start ==
  /\ ~running /\ running' = TRUE
  /\ IF Wanted(settings) THEN Subscribe(settings.topic)
                         ELSE UNCHANGED <<request, retry, connected>>
  /\ UNCHANGED <<settings, failures, buffer, unheard, server, history>>

\* m_retry fires, and calls subscribe() whatever it was armed for.
Retry ==
  /\ running /\ retry # Off
  /\ IF stream = "none"
     THEN Subscribe(settings.topic) /\ UNCHANGED unheard
     ELSE /\ retry' = Off /\ unheard' = (stream = "dead")
          /\ UNCHANGED <<connected, request>>
  /\ UNCHANGED <<running, settings, failures, buffer, server, history>>

-----------------------------------------------------------------------------
(***************************************************************************)
(* What comes over the stream.                                             *)
(***************************************************************************)
\* The lines of s, a run of halves, that are exactly one line.
Whole(s) ==
  {s[i].line : i \in {j \in 2..Len(s) :
     /\ s[j].ends /\ ~s[j - 1].ends /\ s[j - 1].line = s[j].line
     /\ j > 2 => s[j - 2].ends}}

\* Where the last line of s ends, 0 if none does.
LastEnd(s, e) ==
  (e > 0 => s[e].ends) /\ \A j \in e + 1..Len(s) : ~s[j].ends

\* A line that never ends is not worth holding.
Held(s) == IF Len(s) > MaxHeld THEN <<>> ELSE s

\* commandFrom(): a message that opens with the key, and no key is no channel.
CommandsIn(lines, key) ==
  {l \in lines : l.id # 0 /\ l.key = key /\ key # NoKey}

ReadFromScratch(n) == SubSeq(pipe, 1, n)

\* What is to be cut into lines once n more halves were read.
Read(n) == buffer \o SubSeq(pipe, 1, n)

HeardAfterSuccess == connected' = (failures = 0)

\* setConnected(true).
Heard == connected' = TRUE

\* readyRead: a sign of life, and any number of lines.
Hear(n) ==
  /\ running /\ stream \in {"open", "page"}
  /\ Heard /\ failures' = 0 /\ unheard' = FALSE
  /\ retry' = Silence
  /\ obeyed' = obeyed \cup CommandsIn(Whole(Read(n)), settings.key)
  /\ \E e \in 0..Len(Read(n)) :
       /\ LastEnd(Read(n), e)
       /\ buffer' = Held(SubSeq(Read(n), e + 1, Len(Read(n))))
  /\ pipe' = SubSeq(pipe, n + 1, Len(pipe))
  /\ arrived' = arrived \cup
       CommandsIn({pipe[i].line : i \in {j \in 1..n : pipe[j].ends}},
                  settings.key)
  /\ UNCHANGED <<running, settings, stream, address, server>>

\* The server closed the stream, or the network did.
Finished ==
  /\ running /\ stream # "none"
  /\ Ends /\ unheard' = FALSE
  /\ UNCHANGED <<running, settings, buffer, server, history>>

-----------------------------------------------------------------------------
(***************************************************************************)
(* The server, which opens every stream with a line of its own and sends   *)
(* what is published from then on (since=now), and the network.            *)
(***************************************************************************)
Opens ==
  /\ up /\ stream = "asked" /\ address # NoTopic
  /\ stream' = "open" /\ pipe' = Halves(NoOrder)
  /\ UNCHANGED <<running, client, address, server, history>>

\* Not our stream: an error, a portal; its text may have no end of line.
AnswersAPage ==
  /\ stream = "asked"
  /\ stream' = "page"
  /\ pipe' \in {Halves(NoOrder), <<Halves(NoOrder)[1]>>}
  /\ UNCHANGED <<running, client, address, server, history>>

KeepsAlive ==
  /\ up /\ stream = "open" /\ pipe = <<>>
  /\ pipe' = Halves(NoOrder)
  /\ UNCHANGED <<running, client, stream, address, server, history>>

Publish(topic, key) ==
  /\ up /\ published < MaxOrders
  /\ published' = published + 1
  /\ pipe' = IF stream = "open" /\ address = topic
             THEN pipe \o Halves([id |-> published', key |-> key]) ELSE pipe
  /\ UNCHANGED <<running, client, stream, address, up, history>>

\* The phone changed cell or slept: nothing will come, and nobody says so.
GoesDead ==
  /\ stream \in {"asked", "open"}
  /\ stream' = "dead" /\ pipe' = <<>>
  /\ UNCHANGED <<running, client, address, server, history>>

GoesUpOrDown ==
  /\ up' = ~up
  /\ UNCHANGED <<running, client, request, published, history>>

Listen == \E n \in 1..Len(pipe) : Hear(n)

Next ==
  \/ \E s \in Configs : Configure(s)
  \/ Start
  \/ Retry
  \/ Listen
  \/ Finished
  \/ Opens
  \/ AnswersAPage
  \/ KeepsAlive
  \/ \E topic \in Topics, key \in Keys : Publish(topic, key)
  \/ GoesDead
  \/ GoesUpOrDown

Spec == Init /\ [][Next]_vars

\* The timer fires, the daemon is started again, a page has an end, and a network
\* that is back lets some request through and some line arrive.
Fairness ==
  /\ WF_vars(Start)
  /\ WF_vars(Retry)
  /\ WF_vars(Finished /\ stream = "page")
  /\ SF_vars(Opens)
  /\ SF_vars(Listen /\ stream = "open")

FairSpec == Spec /\ Fairness

-----------------------------------------------------------------------------
(***************************************************************************)
(* Properties.                                                             *)
(***************************************************************************)
\* Every variable keeps its type.
TypeOK ==
  /\ running \in BOOLEAN /\ settings \in Settings
  /\ stream \in {"none", "asked", "open", "page", "dead"}
  /\ address \in Topics \cup {NoTopic}
  /\ retry \in Nat \cup {Off} /\ connected \in BOOLEAN
  /\ failures \in 0..MaxFailures
  /\ buffer \in Seq(Half) /\ pipe \in Seq(Half)
  /\ up \in BOOLEAN /\ published \in 0..MaxOrders
  /\ arrived \in SUBSET Line /\ obeyed \in SUBSET Line
  /\ unheard \in BOOLEAN

\* A client that is wanted has a stream or a timer that will ask for one, however
\* its settings change (configure(), ntfyclient.cpp 62-71).
NeverDeaf ==
  running /\ Wanted(settings) => stream # "none" \/ retry # Off

\* A stream is to the topic the owner wants now: after a change nobody is
\* obeyed, or heard, over the old one.
ListensWhereItIsTold ==
  stream # "none" => address = settings.topic

\* An order that came whole over its stream is obeyed, wherever it was cut and
\* whatever an earlier stream, or an error page, left in the buffer.
ArrivedIsObeyed == arrived \subseteq obeyed

\* And nothing else is: not what an earlier stream left half read, and no order
\* that came before the key it opens with was the owner's key.
OnlyArrivedIsObeyed == obeyed \subseteq arrived

\* As long as no stream dies unnoticed, a server that stays there is listened to
\* again and again, whatever its streams did before.
ComesBack ==
  <>[](up /\ Wanted(settings) /\ stream # "dead")
    => []<>(stream = "open" /\ connected)

-----------------------------------------------------------------------------
\* "a stream that has said nothing for well over two of those is a stream that
\* has quietly died ... a channel that looks connected and is not is the failure
\* this feature cannot have" (ntfyclient.cpp 19-23).
SilentIsNotConnected == unheard => ~connected

\* "With it off the daemon keeps running and keeps answering nothing"
\* (config.h 60-61): a client that is switched off holds no stream, nor a timer
\* that will ask for one.
OffIsOff == running /\ ~Wanted(settings) => stream = "none" /\ retry = Off

\* "Backoff. A phone with no coverage retrying in a tight loop flattens itself"
\* (ntfyclient.cpp 148-149): what is not a stream of ntfy does not count as a
\* success.
RefusedBacksOff ==
  [][stream = "page" /\ stream' = "page" => failures' >= failures]_vars
=============================================================================
