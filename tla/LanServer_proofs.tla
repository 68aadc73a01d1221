------------------------- MODULE LanServer_proofs -------------------------
(***************************************************************************)
(* Proofs about LanServer, for any number of connections, every set of     *)
(* settings files and requests, and any size of the buffer.                *)
(***************************************************************************)
EXTENDS LanServer, TLAPS

\* What a client may be told, or that nothing was said yet.
LEMMA WordsApart ==
  /\ None \notin Answers
  /\ None # "done" /\ None # "refused" /\ None # "state" /\ None # "position"
BY DEF None, Answers

\* A request that was made is a request, and so is none.
LEMMA RequestType ==
  ASSUME NEW r \in Requests \cup {NoRequest}
  PROVE  r \in Request
<1>1. NoRequest \in Request
  BY LanAssumption DEF NoRequest, Request
<1>2. QED
  BY <1>1, LanAssumption

LEMMA FreeType == Free \in Connection
BY DEF Free, Connection

-----------------------------------------------------------------------------
(***************************************************************************)
(* What a step may do to a connection.                                     *)
(***************************************************************************)
Opened(k, l) == \E r \in Requests : l = [Free EXCEPT !.phase = "open", !.request = r]

Grown(k, l) ==
  \E n \in Sizes :
    /\ k.phase = "open" /\ k.got + n <= Limit /\ k.got + n < Needed(k.request)
    /\ l = [k EXCEPT !.came = @ + n, !.got = k.got + n]

Handled(k, l) ==
  \E n \in Sizes :
    /\ k.phase = "open" /\ k.got + n >= Needed(k.request)
    /\ \/ /\ Obeys(k.request, k.got + n)
          /\ \E answer \in Results : l = Over(k, n, answer)
       \/ /\ ~Obeys(k.request, k.got + n)
          /\ l = Over(k, n, Answer(k.request))

StepOfConnection(k, l) ==
  l = k \/ l = Free \/ Opened(k, l) \/ Grown(k, l) \/ Handled(k, l)

LEMMA NothingSaidYet ==
  ASSUME NEW k, NEW l, l = Free \/ Opened(k, l)
  PROVE  l.answer = None
<1>1. Free.answer = None
  BY DEF Free
<1>2. CASE Opened(k, l)
  <2>1. PICK r \in Requests : l = [Free EXCEPT !.phase = "open", !.request = r]
    BY <1>2 DEF Opened
  <2>2. QED
    BY <2>1 DEF Free
<1>3. QED
  BY <1>1, <1>2

LEMMA ReadOfConnection ==
  ASSUME NEW d \in Conn, NEW n \in Sizes, conn \in [Conn -> Connection],
         ReadyRead(d, n), NEW c \in Conn
  PROVE  StepOfConnection(conn[c], conn'[c])
<1>1. CASE Waits(d, n)
  <2>1. c # d => conn'[c] = conn[c]
    BY <1>1 DEF Waits
  <2>2. c = d => Grown(conn[c], conn'[c])
    BY <1>1 DEF Waits, Grown, Gathered, ReadyRead
  <2>3. QED
    BY <2>1, <2>2 DEF StepOfConnection
<1>2. CASE TooLong(d, n)
  BY <1>2 DEF TooLong, StepOfConnection
<1>3. CASE Handle(d, n) /\ Delivers(d, n)
  <2>1. c # d => conn'[c] = conn[c]
    BY <1>3 DEF Delivers, Ends
  <2>2. \E answer \in Results : conn'[d] = Over(conn[d], n, answer)
    BY <1>3 DEF Delivers, Ends
  <2>3. conn[d].phase = "open" /\ conn[d].got + n >= Needed(conn[d].request)
    BY <1>3 DEF Handle, Gathered, ReadyRead
  <2>4. c = d => Handled(conn[c], conn'[c])
    BY <1>3, <2>2, <2>3 DEF Delivers, Handled, Gathered
  <2>5. QED
    BY <2>1, <2>4 DEF StepOfConnection
<1>4. CASE Handle(d, n) /\ Replies(d, n)
  <2>1. c # d => conn'[c] = conn[c]
    BY <1>4 DEF Replies, Ends
  <2>2. conn'[d] = Over(conn[d], n, Answer(conn[d].request))
    BY <1>4 DEF Replies, Ends
  <2>3. conn[d].phase = "open" /\ conn[d].got + n >= Needed(conn[d].request)
    BY <1>4 DEF Handle, Gathered, ReadyRead
  <2>4. c = d => Handled(conn[c], conn'[c])
    BY <1>4, <2>2, <2>3 DEF Replies, Handled, Gathered
  <2>5. QED
    BY <2>1, <2>4 DEF StepOfConnection
<1>5. QED
  BY <1>1, <1>2, <1>3, <1>4 DEF ReadyRead, Handle

LEMMA Steps ==
  ASSUME conn \in [Conn -> Connection], [Next]_vars, NEW c \in Conn
  PROVE  StepOfConnection(conn[c], conn'[c])
<1>1. ASSUME NEW s \in Configs, Configure(s)
      PROVE  StepOfConnection(conn[c], conn'[c])
  BY <1>1 DEF Configure, StepOfConnection
<1>2. CASE AvahiRestarts
  BY <1>2 DEF AvahiRestarts, StepOfConnection
<1>3. ASSUME NEW d \in Conn, NEW r \in Requests, Connect(d, r)
      PROVE  StepOfConnection(conn[c], conn'[c])
  BY <1>3 DEF Connect, StepOfConnection, Opened
<1>4. ASSUME NEW d \in Conn, HangUp(d)
      PROVE  StepOfConnection(conn[c], conn'[c])
  BY <1>4 DEF HangUp, StepOfConnection
<1>5. ASSUME NEW d \in Conn, NEW n \in Sizes, ReadyRead(d, n)
      PROVE  StepOfConnection(conn[c], conn'[c])
  BY <1>5, ReadOfConnection
<1>6. CASE UNCHANGED vars
  BY <1>6 DEF vars, StepOfConnection
<1>7. QED
  BY <1>1, <1>2, <1>3, <1>4, <1>5, <1>6 DEF Next

-----------------------------------------------------------------------------
(***************************************************************************)
(* Types.                                                                  *)
(***************************************************************************)
ChannelTypes ==
  /\ settings \in Settings
  /\ listening \in BOOLEAN /\ group \in BOOLEAN /\ announced \in BOOLEAN

LEMMA TypesTogether == TypeOK <=> ChannelTypes /\ conn \in [Conn -> Connection]
BY DEF TypeOK, ChannelTypes

LEMMA NeededType ==
  ASSUME NEW r \in Requests \cup {NoRequest}
  PROVE  Needed(r) \in Nat
<1>1. r.declared \in Nat
  BY RequestType DEF Request
<1>2. QED
  BY <1>1, LanAssumption DEF Needed

LEMMA AnswerType ==
  ASSUME NEW r
  PROVE  Answer(r) \in Answers \ {"done", "refused"}
BY DEF Answer, Answers, Status

LEMMA ConnectionTypes ==
  ASSUME NEW k \in Connection, NEW l, StepOfConnection(k, l)
  PROVE  l \in Connection
<1>1. CASE l = Free
  BY <1>1, FreeType
<1>2. CASE Opened(k, l)
  BY <1>2, FreeType DEF Opened, Connection
<1>3. CASE Grown(k, l)
  <2>1. PICK n \in Sizes : l = [k EXCEPT !.came = @ + n, !.got = k.got + n]
    BY <1>3 DEF Grown
  <2>2. n \in Nat
    BY LanAssumption DEF Sizes
  <2>3. k.came + n \in Nat /\ k.got + n \in Nat
    BY <2>2 DEF Connection
  <2>4. QED
    BY <2>1, <2>3 DEF Connection
<1>4. CASE Handled(k, l)
  <2>1. PICK n \in Sizes, a \in Answers : l = Over(k, n, a)
    <3>1. Results \subseteq Answers
      BY DEF Answers, Results
    <3>2. QED
      BY <1>4, <3>1, AnswerType DEF Handled
  <2>2. n \in Nat
    BY LanAssumption DEF Sizes
  <2>3. k.came + n \in Nat
    BY <2>2 DEF Connection
  <2>4. QED
    BY <2>1, <2>3 DEF Connection, Over
<1>5. QED
  BY <1>1, <1>2, <1>3, <1>4 DEF StepOfConnection

LEMMA ReadTypes ==
  ASSUME NEW c \in Conn, NEW n \in Sizes, ReadyRead(c, n), TypeOK
  PROVE  conn' \in [Conn -> Connection]
<1>1. \E k : conn' = [conn EXCEPT ![c] = k]
  BY DEF ReadyRead, Waits, TooLong, Handle, Delivers, Replies, Ends
<1>2. conn'[c] \in Connection
  BY ReadOfConnection, ConnectionTypes DEF TypeOK
<1>3. QED
  BY <1>1, <1>2 DEF TypeOK

LEMMA OpenedType ==
  ASSUME NEW r \in Requests
  PROVE  [Free EXCEPT !.phase = "open", !.request = r] \in Connection
BY FreeType DEF Connection

LEMMA StepTypes == TypeOK /\ [Next]_vars => TypeOK'
<1> SUFFICES ASSUME TypeOK, [Next]_vars
             PROVE  ChannelTypes' /\ (conn \in [Conn -> Connection])'
  BY DEF TypeOK, ChannelTypes
<1>0. ChannelTypes /\ conn \in [Conn -> Connection]
  BY TypesTogether
<1>1. ASSUME NEW s \in Configs, Configure(s)
      PROVE  ChannelTypes' /\ (conn \in [Conn -> Connection])'
  <2>1. s \in Settings
    BY LanAssumption
  <2>2. QED
    BY <1>0, <1>1, <2>1, LanAssumption DEF Configure, Publish, Unpublish, ChannelTypes
<1>2. CASE AvahiRestarts
  BY <1>0, <1>2 DEF AvahiRestarts, ChannelTypes
<1>3. ASSUME NEW c \in Conn, NEW r \in Requests, Connect(c, r)
      PROVE  ChannelTypes' /\ (conn \in [Conn -> Connection])'
  BY <1>0, <1>3, OpenedType DEF Connect, ChannelTypes
<1>4. ASSUME NEW c \in Conn, HangUp(c)
      PROVE  ChannelTypes' /\ (conn \in [Conn -> Connection])'
  BY <1>0, <1>4, FreeType DEF HangUp, ChannelTypes
<1>5. ASSUME NEW c \in Conn, NEW n \in Sizes, ReadyRead(c, n)
      PROVE  ChannelTypes' /\ (conn \in [Conn -> Connection])'
  BY <1>0, <1>5, ReadTypes DEF ReadyRead, ChannelTypes
<1>6. CASE UNCHANGED vars
  BY <1>0, <1>6 DEF vars, ChannelTypes
<1>7. QED
  BY <1>1, <1>2, <1>3, <1>4, <1>5, <1>6 DEF Next

LEMMA InitTypes == Init => TypeOK
<1>1. Init => ChannelTypes
  <2>1. [enabled |-> FALSE, on |-> FALSE, locate |-> FALSE,
         token |-> Nothing, key |-> Nothing] \in Settings
    BY DEF Settings
  <2>2. QED
    BY <2>1 DEF Init, ChannelTypes
<1>2. Init => conn \in [Conn -> Connection]
  BY FreeType DEF Init
<1>3. QED
  BY <1>1, <1>2, TypesTogether

\* Type correctness of the home channel.
THEOREM TypeCorrect == Spec => []TypeOK
BY InitTypes, StepTypes, PTL DEF Spec

-----------------------------------------------------------------------------
(***************************************************************************)
(* A request is handled when it is whole.                                  *)
(***************************************************************************)
\* What was read is all in the buffer until it is handled.  Without this the
\* guards, which look at the buffer, say nothing of what came.
NothingThrownAway == \A c \in Conn : conn[c].phase = "open" => conn[c].got = conn[c].came

WholeInv == TypeOK /\ NothingThrownAway /\ HandledWhenWhole

LEMMA WholeStep == WholeInv /\ [Next]_vars => WholeInv'
<1> SUFFICES ASSUME WholeInv, [Next]_vars PROVE WholeInv'
  OBVIOUS
<1>1. TypeOK'
  BY StepTypes DEF WholeInv
<1>2. ASSUME NEW c \in Conn
      PROVE  /\ conn'[c].phase = "open" => conn'[c].got = conn'[c].came
             /\ conn'[c].phase = "open" => conn'[c].came < Needed(conn'[c].request)
             /\ conn'[c].answer # None => conn'[c].came >= Needed(conn'[c].request)
  <2> DEFINE k == conn[c] l == conn'[c]
  <2>1. /\ k \in Connection /\ StepOfConnection(k, l)
        /\ k.phase = "open" => k.got = k.came
        /\ k.phase = "open" => k.came < Needed(k.request)
        /\ k.answer # None => k.came >= Needed(k.request)
    BY Steps DEF WholeInv, TypeOK, NothingThrownAway, HandledWhenWhole
  <2>2. CASE l = Free
    BY <2>2 DEF Free
  <2>3. CASE Opened(k, l)
    <3>1. PICK r \in Requests : l = [Free EXCEPT !.phase = "open", !.request = r]
      BY <2>3 DEF Opened
    <3>2. l.got = 0 /\ l.came = 0 /\ l.answer = None /\ l.request = r
      BY <3>1 DEF Free
    <3>3. r.declared \in Nat
      BY LanAssumption DEF Request
    <3>4. QED
      BY <3>2, <3>3, LanAssumption DEF Needed
  <2>4. CASE Grown(k, l)
    <3>1. PICK n \in Sizes :
            /\ k.phase = "open" /\ k.got + n < Needed(k.request)
            /\ l = [k EXCEPT !.came = @ + n, !.got = k.got + n]
      BY <2>4 DEF Grown
    <3>2. /\ l.came = k.came + n /\ l.got = k.got + n
          /\ l.request = k.request /\ l.answer = k.answer
      BY <2>1, <3>1 DEF Connection
    <3>3. n \in Nat /\ k.came \in Nat /\ Needed(k.request) \in Nat
      BY <2>1, LanAssumption, NeededType DEF Sizes, Connection
    <3>4. QED
      BY <2>1, <3>1, <3>2, <3>3
  <2>5. CASE Handled(k, l)
    <3>1. PICK n \in Sizes, a \in Answers :
            /\ k.phase = "open" /\ k.got + n >= Needed(k.request)
            /\ l = Over(k, n, a)
      <4>1. Results \subseteq Answers
        BY DEF Answers, Results
      <4>2. QED
        BY <2>5, <4>1, AnswerType DEF Handled
    <3>2. l.came = k.came + n /\ l.phase = "over" /\ l.request = k.request
      BY <2>1, <3>1 DEF Over, Connection
    <3>3. QED
      BY <2>1, <3>1, <3>2
  <2>6. QED
    BY <2>1, <2>2, <2>3, <2>4, <2>5 DEF StepOfConnection
<1>3. QED
  BY <1>1, <1>2 DEF WholeInv, NothingThrownAway, HandledWhenWhole

LEMMA WholeInit == Init => WholeInv
BY InitTypes DEF Init, WholeInv, NothingThrownAway, HandledWhenWhole, Free

\* However a request is cut into pieces, it is handled with the piece that
\* completes it: LanServer::onConnection.
THEOREM WholeRequests == Spec => []HandledWhenWhole
<1>1. WholeInv => HandledWhenWhole
  BY DEF WholeInv
<1>2. QED
  BY <1>1, WholeInit, WholeStep, PTL DEF Spec

-----------------------------------------------------------------------------
(***************************************************************************)
(* Answers.                                                                *)
(***************************************************************************)
\* Who is obeyed, or told something, has the right to it now.
LEMMA RightOfTheObeyed ==
  ASSUME NEW r \in Request, NEW got, Obeys(r, got)
  PROVE  HasTheToken(r) \/ HasTheKey(r)
<1>0. r.secret \in Secrets \cup {Nothing}
  BY DEF Request
<1>1. CASE Authorised(r)
  BY <1>0, <1>1 DEF Authorised, HasTheToken
<1>2. CASE OpensTheSimpleDoor(r) /\ r.verb \in {"ring", "stop"}
  <2>1. r.secret = settings.key /\ settings.key # Nothing
    BY <1>2 DEF OpensTheSimpleDoor, KeyIn
  <2>2. QED
    BY <1>0, <1>2, <2>1 DEF OpensTheSimpleDoor, HasTheKey
<1>3. QED
  BY <1>1, <1>2 DEF Obeys

LEMMA RightOfTheAnswered ==
  ASSUME NEW r \in Request
  PROVE  /\ Answer(r) = "state" => HasTheToken(r)
         /\ Answer(r) = "position" => HasTheToken(r) /\ settings.locate
<1>0. r.secret \in Secrets \cup {Nothing}
  BY DEF Request
<1>1. CASE Authorised(r)
  BY <1>0, <1>1 DEF Authorised, HasTheToken, Answer, Status
<1>2. CASE ~Authorised(r)
  BY <1>2 DEF Answer
<1>3. QED
  BY <1>1, <1>2

Rightful(r, answer) ==
  /\ answer \in {"done", "refused"} => HasTheToken(r) \/ HasTheKey(r)
  /\ answer = "state" => HasTheToken(r)
  /\ answer = "position" => HasTheToken(r) /\ settings.locate

LEMMA RightStep ==
  ASSUME TypeOK, [Next]_vars, NEW c \in Conn, conn'[c].answer # conn[c].answer
  PROVE  Rightful(conn[c].request, conn'[c].answer)
<1> DEFINE k == conn[c] l == conn'[c]
<1>1. k \in Connection /\ StepOfConnection(k, l)
  BY Steps DEF TypeOK
<1>2. k.request \in Request
  BY <1>1, RequestType DEF Connection
<1>3. CASE l = Free \/ Opened(k, l)
  <2>1. l.answer = None
    BY <1>3, NothingSaidYet
  <2>2. QED
    BY <2>1, WordsApart DEF Rightful
<1>4. CASE Grown(k, l)
  BY <1>1, <1>4 DEF Grown, Connection
<1>5. CASE Handled(k, l)
  <2>1. PICK n \in Sizes :
          \/ /\ Obeys(k.request, k.got + n)
             /\ \E answer \in Results : l = Over(k, n, answer)
          \/ l = Over(k, n, Answer(k.request))
    BY <1>5 DEF Handled
  <2>2. CASE /\ Obeys(k.request, k.got + n)
             /\ \E answer \in Results : l = Over(k, n, answer)
    <3>1. l.answer \in {"done", "refused"}
      BY <1>1, <2>2 DEF Over, Connection, Results
    <3>2. HasTheToken(k.request) \/ HasTheKey(k.request)
      BY <1>2, <2>2, RightOfTheObeyed
    <3>3. QED
      BY <3>1, <3>2 DEF Rightful
  <2>3. CASE l = Over(k, n, Answer(k.request))
    <3>1. l.answer = Answer(k.request)
      BY <1>1, <2>3 DEF Over, Connection
    <3>2. l.answer \notin {"done", "refused"}
      BY <3>1, AnswerType
    <3>3. QED
      BY <1>2, <3>1, <3>2, RightOfTheAnswered DEF Rightful
  <2>4. QED
    BY <2>1, <2>2, <2>3
<1>6. QED
  BY <1>1, <1>3, <1>4, <1>5 DEF StepOfConnection

\* Nobody is obeyed, or told where the phone is, without the secret of now.
THEOREM RightfulClients == Spec => OnlyByRight
<1>1. TypeOK /\ [Next]_vars =>
        [\A c \in Conn :
           LET r == conn[c].request IN
           conn'[c].answer # conn[c].answer =>
             /\ conn'[c].answer \in {"done", "refused"} => HasTheToken(r) \/ HasTheKey(r)
             /\ conn'[c].answer = "state" => HasTheToken(r)
             /\ conn'[c].answer = "position" => HasTheToken(r) /\ settings.locate]_vars
  BY RightStep DEF Rightful
<1>2. QED
  BY <1>1, TypeCorrect, PTL DEF Spec, OnlyByRight

\* Whoever has the key and names it as documented is not turned away.
LEMMA NamedStep ==
  ASSUME TypeOK, [Next]_vars, NEW c \in Conn, HasTheKey(conn[c].request),
         ~conn[c].request.older, conn'[c].answer \notin {conn[c].answer, None}
  PROVE  conn'[c].answer \in {"done", "refused"}
<1> DEFINE k == conn[c] l == conn'[c]
<1>1. k \in Connection /\ StepOfConnection(k, l)
  BY Steps DEF TypeOK
<1>2. \A got : Obeys(k.request, got)
  <2>1. settings.key # Nothing
    BY LanAssumption DEF HasTheKey
  <2>2. QED
    BY <2>1 DEF HasTheKey, Obeys, OpensTheSimpleDoor, KeyIn
<1>3. ~(l = Free \/ Opened(k, l))
  BY NothingSaidYet
<1>4. CASE Grown(k, l)
  BY <1>1, <1>4 DEF Grown, Connection
<1>5. CASE Handled(k, l)
  <2>1. PICK n \in Sizes, answer \in Results : l = Over(k, n, answer)
    BY <1>2, <1>5 DEF Handled
  <2>2. QED
    BY <1>1, <2>1 DEF Over, Connection, Results
<1>6. QED
  BY <1>1, <1>3, <1>4, <1>5 DEF StepOfConnection

\* A link of the simple door under its documented name works: who gives the key
\* of now and asks to ring or to stop is obeyed, and is told what came of it.
\* Under the older name it does not, so what lanserver.cpp 277-279 says of both
\* holds of the requests that use the first.
THEOREM TheDocumentedNameWorks ==
  ASSUME \A r \in Requests : ~r.older
  PROVE  Spec => BothNamesWork
<1>1. TypeOK /\ [Next]_vars =>
        [\A c \in Conn :
           LET r == conn[c].request IN
           conn'[c].answer \notin {conn[c].answer, None} /\ HasTheKey(r) =>
             conn'[c].answer \in {"done", "refused"}]_vars
  <2> SUFFICES ASSUME TypeOK, [Next]_vars, NEW c \in Conn, HasTheKey(conn[c].request),
                      conn'[c].answer \notin {conn[c].answer, None}
               PROVE  conn'[c].answer \in {"done", "refused"}
    OBVIOUS
  <2>1. ~conn[c].request.older
    BY DEF TypeOK, Connection, NoRequest
  <2>2. QED
    BY <2>1, NamedStep
<1>2. QED
  BY <1>1, TypeCorrect, PTL DEF Spec, BothNamesWork

-----------------------------------------------------------------------------
(***************************************************************************)
(* The announcement.                                                       *)
(***************************************************************************)
\* What is announced has an entry group that can take it back: that is why
\* unpublish(), which returns when there is none, is enough.
CanTakeItBack == announced => listening /\ group

LEMMA AnnounceStep ==
  ASSUME ~FreeFails
  PROVE  TypeOK /\ CanTakeItBack /\ [Next]_vars => CanTakeItBack'
<1> SUFFICES ASSUME TypeOK, CanTakeItBack, [Next]_vars PROVE CanTakeItBack'
  OBVIOUS
<1>1. ASSUME NEW s \in Configs, Configure(s)
      PROVE  CanTakeItBack'
  <2>1. CASE ~Wanted(s) /\ listening /\ listening' = FALSE /\ Unpublish
    <3>1. announced' = FALSE
      BY <2>1 DEF Unpublish, CanTakeItBack, TypeOK
    <3>2. QED
      BY <3>1 DEF CanTakeItBack
  <2>2. CASE UNCHANGED <<listening, group, announced>>
    BY <2>2 DEF CanTakeItBack
  <2>3. CASE ~listening /\ listening' = TRUE /\ Publish
    BY <2>3 DEF Publish, CanTakeItBack
  <2>4. QED
    BY <1>1, <2>1, <2>2, <2>3 DEF Configure
<1>2. CASE AvahiRestarts
  BY <1>2 DEF AvahiRestarts, CanTakeItBack
<1>3. CASE UNCHANGED <<listening, group, announced>>
  BY <1>3 DEF CanTakeItBack
<1>4. (\E c \in Conn, r \in Requests : Connect(c, r)) => UNCHANGED <<listening, group, announced>>
  BY DEF Connect
<1>5. (\E c \in Conn : HangUp(c)) => UNCHANGED <<listening, group, announced>>
  BY DEF HangUp
<1>6. (\E c \in Conn, n \in Sizes : ReadyRead(c, n)) => UNCHANGED <<listening, group, announced>>
  BY DEF ReadyRead
<1>7. UNCHANGED vars => UNCHANGED <<listening, group, announced>>
  BY DEF vars
<1>8. QED
  BY <1>1, <1>2, <1>3, <1>4, <1>5, <1>6, <1>7 DEF Next

\* The announcement does not outlive the channel, if Avahi answers when it is
\* taken back.
THEOREM NoBeacon ==
  ASSUME ~FreeFails
  PROVE  Spec => []AnnouncedIsListening
<1>1. Init => CanTakeItBack
  BY DEF Init, CanTakeItBack
<1>2. CanTakeItBack => AnnouncedIsListening
  BY DEF CanTakeItBack, AnnouncedIsListening
<1>3. QED
  BY <1>1, <1>2, TypeCorrect, AnnounceStep, PTL DEF Spec
=============================================================================
