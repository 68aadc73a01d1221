----------------------------- MODULE LanServer -----------------------------
(***************************************************************************)
(* LanServer (src/src/lanserver.cpp): the listener for the home network,   *)
(* its announcement over mDNS, requests that arrive in pieces on           *)
(* connections that outlive it, and the answer.  What the daemon made of   *)
(* an order that was delivered to it is any of the two answers it has.     *)
(*                                                                         *)
(* A request is measured in pieces: Headers of them end with the empty     *)
(* line, its body follows.  Its secret is the token of its Authorization   *)
(* header, or the key in the link of the simple door.                      *)
(***************************************************************************)
EXTENDS Naturals

CONSTANTS Conn,             \* connections that may be open at once
          Secrets, Nothing, \* tokens and keys, and the empty one
          Configs,          \* the settings files the owner may write
          Requests,         \* what clients may send
          Headers,          \* pieces the headers of a request come in
          Limit,            \* the 8192 bytes of a buffer, in pieces
          FreeFails         \* Avahi may not answer when the entry is freed

Settings == [enabled : BOOLEAN, on : BOOLEAN, locate : BOOLEAN,
             token : Secrets \cup {Nothing},   \* lanToken
             key : Secrets \cup {Nothing}]     \* of the simple door, if it is open

\* POST /command, GET /state, or GET /verb?password=... of the simple door, which
\* also has an older name for its field.
Request == [kind : {"order", "state", "simple"}, secret : Secrets \cup {Nothing},
            verb : {"ring", "stop", "where", "lock"}, older : BOOLEAN,
            body : Nat, declared : Nat]

Answers == {"done", "refused", "state", "position", "denied", "forbidden", "missing"}
None == "-"

ASSUME LanAssumption ==
  /\ Nothing \notin Secrets
  /\ Configs \subseteq Settings /\ Requests \subseteq Request
  /\ Headers \in Nat \ {0} /\ Limit \in Nat
  /\ FreeFails \in BOOLEAN

VARIABLES
  settings,   \* m_settings
  listening,  \* m_server.isListening()
  group,      \* m_entryGroup is not empty
  announced,  \* Avahi announces us
  conn        \* the connections and their m_partial

vars == <<settings, listening, group, announced, conn>>

NoRequest == [kind |-> "state", secret |-> Nothing, verb |-> "ring", older |-> FALSE,
              body |-> 0, declared |-> 0]

\* came counts what was read off the socket, got what of it is in m_partial.
Connection == [phase : {"free", "open", "over"}, request : Requests \cup {NoRequest},
               came : Nat, got : Nat, answer : Answers \cup {None}]

Free == [phase |-> "free", request |-> NoRequest, came |-> 0, got |-> 0,
         answer |-> None]

Init ==
  /\ settings = [enabled |-> FALSE, on |-> FALSE, locate |-> FALSE,
                 token |-> Nothing, key |-> Nothing]
  /\ listening = FALSE /\ group = FALSE /\ announced = FALSE
  /\ conn = [c \in Conn |-> Free]

-----------------------------------------------------------------------------
(***************************************************************************)
(* Listening and announcing.                                               *)
(***************************************************************************)
Wanted(s) == s.enabled /\ s.on /\ s.token # Nothing

\* Avahi may refuse the group or the service, and then the group is freed; that
\* it committed nobody checks.
Publish ==
  \/ group /\ UNCHANGED <<group, announced>>
  \/ ~group /\ UNCHANGED <<group, announced>>
  \/ ~group /\ group' = TRUE /\ announced' \in {announced, TRUE}

LeavesPublished == UNCHANGED <<group, announced>>

Unpublish ==
  /\ group' = FALSE
  /\ announced' \in IF group THEN {FALSE} \cup (IF FreeFails THEN {announced} ELSE {})
                             ELSE {announced}

\* configure(); listen() may find the port taken.
Configure(s) ==
  /\ settings' = s
  /\ \/ ~Wanted(s) /\ listening /\ listening' = FALSE /\ Unpublish
     \/ ~Wanted(s) /\ ~listening /\ UNCHANGED <<listening, group, announced>>
     \/ Wanted(s) /\ UNCHANGED <<listening, group, announced>>
     \/ Wanted(s) /\ ~listening /\ listening' = TRUE /\ Publish
  /\ UNCHANGED conn

AvahiRestarts ==
  /\ announced /\ announced' = FALSE
  /\ UNCHANGED <<settings, listening, group, conn>>

-----------------------------------------------------------------------------
(***************************************************************************)
(* Connections.                                                            *)
(***************************************************************************)
Connect(c, r) ==
  /\ listening /\ conn[c].phase # "open"
  /\ conn' = [conn EXCEPT ![c] = [Free EXCEPT !.phase = "open", !.request = r]]
  /\ UNCHANGED <<settings, listening, group, announced>>

HangUp(c) ==
  /\ conn[c].phase = "open"
  /\ conn' = [conn EXCEPT ![c] = Free]
  /\ UNCHANGED <<settings, listening, group, announced>>

\* What the buffer holds once n more pieces were read.
LastPiece(c, n) == n

Gathered(c, n) == conn[c].got + n

Needed(r) == Headers + r.declared

\* Read, and kept in m_partial.
Waits(c, n) ==
  /\ Gathered(c, n) <= Limit /\ Gathered(c, n) < Needed(conn[c].request)
  /\ conn' = [conn EXCEPT ![c].came = @ + n, ![c].got = Gathered(c, n)]

\* A buffer of this size is not a request of ours.
TooLong(c, n) ==
  /\ Gathered(c, n) > Limit
  /\ conn' = [conn EXCEPT ![c] = Free]

\* Whose token, or whose key in the link, is that of now.  No token is nobody's:
\* the header is trimmed, and then is not "Bearer " with nothing after it.
Authorised(r) ==
  r.kind # "simple" /\ r.secret # Nothing /\ r.secret = settings.token

\* The value of the older field loses its first two letters, and what is left
\* is nobody's key.
KeyIn(r) == IF r.older THEN Nothing ELSE r.secret

OpensIfEqual(r) == r.kind = "simple" /\ KeyIn(r) = settings.key

OpensTheSimpleDoor(r) ==
  r.kind = "simple" /\ settings.key # Nothing /\ KeyIn(r) = settings.key

Obeys(r, got) ==
  \/ OpensTheSimpleDoor(r) /\ r.verb \in {"ring", "stop"}
  \/ Authorised(r) /\ r.kind = "order" /\ got > Headers

Status == IF settings.locate THEN "position" ELSE "state"

\* handle(): a request that is whole, or as much of it as the client declared.
Over(k, n, answer) ==
  [k EXCEPT !.phase = "over", !.came = @ + n, !.got = 0, !.answer = answer]

Ends(c, n, answer) == conn' = [conn EXCEPT ![c] = Over(conn[c], n, answer)]

\* m_result(), asked once the order was delivered: a reason, or nothing.
Results == {"done", "refused"}

Delivers(c, n) ==
  /\ Obeys(conn[c].request, Gathered(c, n))
  /\ \E answer \in Results : Ends(c, n, answer)

Answer(r) ==
  IF OpensTheSimpleDoor(r) THEN "forbidden"
  ELSE IF ~Authorised(r) THEN "denied"
  ELSE IF r.kind = "state" THEN Status ELSE "missing"

Replies(c, n) ==
  /\ ~Obeys(conn[c].request, Gathered(c, n))
  /\ Ends(c, n, Answer(conn[c].request))

Handle(c, n) ==
  /\ Gathered(c, n) <= Limit /\ Gathered(c, n) >= Needed(conn[c].request)
  /\ Delivers(c, n) \/ Replies(c, n)

\* readyRead, with n more pieces.
ReadyRead(c, n) ==
  /\ conn[c].phase = "open"
  /\ conn[c].came + n <= Headers + conn[c].request.body
  /\ Waits(c, n) \/ TooLong(c, n) \/ Handle(c, n)
  /\ UNCHANGED <<settings, listening, group, announced>>

Sizes == 1..(Headers + Limit)

Next ==
  \/ \E s \in Configs : Configure(s)
  \/ AvahiRestarts
  \/ \E c \in Conn, r \in Requests : Connect(c, r)
  \/ \E c \in Conn : HangUp(c)
  \/ \E c \in Conn, n \in Sizes : ReadyRead(c, n)

Spec == Init /\ [][Next]_vars

-----------------------------------------------------------------------------
(***************************************************************************)
(* Properties.                                                             *)
(***************************************************************************)
\* Every variable keeps its type.
TypeOK ==
  /\ settings \in Settings
  /\ listening \in BOOLEAN /\ group \in BOOLEAN /\ announced \in BOOLEAN
  /\ conn \in [Conn -> Connection]

\* A request is handled when it is whole: never before its body is there, and it
\* never waits once it is, however its pieces arrive and whatever the other
\* connections do ("the worst kind of bug: it works on the desk and fails on the
\* day", lanserver.cpp 174-176).
HandledWhenWhole ==
  \A c \in Conn :
    /\ conn[c].phase = "open" => conn[c].came < Needed(conn[c].request)
    /\ conn[c].answer # None => conn[c].came >= Needed(conn[c].request)

\* The announcement does not outlive the channel ("a lie and a small beacon",
\* lanserver.h 17-19).
AnnouncedIsListening == announced => listening

\* Whoever is obeyed or told something has the token of now; or the key of now,
\* and then he may ring and stop and nothing else.  An empty secret opens
\* nothing, not even on a connection older than the settings.
HasTheToken(r) == r.kind # "simple" /\ r.secret \in Secrets /\ r.secret = settings.token

HasTheKey(r) ==
  /\ r.kind = "simple" /\ r.secret \in Secrets /\ r.secret = settings.key
  /\ r.verb \in {"ring", "stop"}

OnlyByRight ==
  [][\A c \in Conn :
       LET r == conn[c].request IN
       conn'[c].answer # conn[c].answer =>
         /\ conn'[c].answer \in {"done", "refused"} => HasTheToken(r) \/ HasTheKey(r)
         /\ conn'[c].answer = "state" => HasTheToken(r)
         /\ conn'[c].answer = "position" => HasTheToken(r) /\ settings.locate]_vars

-----------------------------------------------------------------------------
\* "the announcement exists exactly while the channel does" (lanserver.h 19-20).
ListeningIsAnnounced == listening => announced

\* "With it off the daemon keeps running and keeps answering nothing"
\* (config.h 60-61).
OffSaysNothing ==
  [][~settings.enabled => \A c \in Conn :
       conn'[c].answer # conn[c].answer =>
         conn'[c].answer \notin {"state", "position", "done"}]_vars

\* "'password' is the documented name; 'key' is what the first version read ...
\* Both now." (lanserver.cpp 277-279)
BothNamesWork ==
  [][\A c \in Conn :
       LET r == conn[c].request IN
       conn'[c].answer \notin {conn[c].answer, None} /\ HasTheKey(r) =>
         conn'[c].answer \in {"done", "refused"}]_vars
=============================================================================
