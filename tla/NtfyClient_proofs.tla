------------------------ MODULE NtfyClient_proofs ------------------------
(***************************************************************************)
(* Proofs about NtfyClient, for every set of topics, keys and settings     *)
(* files, any number of messages and any size of the buffer.               *)
(***************************************************************************)
EXTENDS NtfyClient, SequenceTheorems, TLAPS

ClientTypes ==
  /\ running \in BOOLEAN /\ settings \in Settings
  /\ retry \in Nat \cup {Off} /\ connected \in BOOLEAN
  /\ failures \in 0..MaxFailures /\ unheard \in BOOLEAN

RequestTypes ==
  /\ stream \in {"none", "asked", "open", "page", "dead"}
  /\ address \in Topics \cup {NoTopic}

LineTypes ==
  /\ buffer \in Seq(Half) /\ pipe \in Seq(Half)
  /\ arrived \in SUBSET Line /\ obeyed \in SUBSET Line

ServerTypes == up \in BOOLEAN /\ published \in 0..MaxOrders

Types == ClientTypes /\ RequestTypes /\ LineTypes /\ ServerTypes

LEMMA TypesTogether == TypeOK <=> Types
BY DEF TypeOK, Types, ClientTypes, RequestTypes, LineTypes, ServerTypes

-----------------------------------------------------------------------------
(***************************************************************************)
(* Types.                                                                  *)
(***************************************************************************)
LEMMA BackOffType ==
  ASSUME NEW f \in Nat
  PROVE  BackOff(f) \in Nat
<1>1. (1 + IF f < 6 THEN f ELSE 6) \in 1..7
  OBVIOUS
<1>2. \A i \in 1..7 : Shifted[i] \in Nat
  BY DEF Shifted
<1>3. Doubled(f) \in Nat
  BY <1>1, <1>2, NtfyAssumption DEF Doubled
<1>4. QED
  BY <1>3, NtfyAssumption DEF BackOff

LEMMA OneMoreType ==
  ASSUME NEW f \in 0..MaxFailures
  PROVE  OneMore(f) \in 0..MaxFailures
BY NtfyAssumption DEF OneMore

LEMMA Bounds ==
  /\ 0 \in 0..MaxFailures /\ 0 \in 0..MaxOrders /\ Silence \in Nat /\ Off \notin Nat
BY NtfyAssumption

LEMMA HalvesType ==
  ASSUME NEW l \in Line
  PROVE  /\ Halves(l) \in Seq(Half)
         /\ Len(Halves(l)) = 2
         /\ Halves(l)[1] = [line |-> l, ends |-> FALSE]
         /\ Halves(l)[2] = [line |-> l, ends |-> TRUE]
<1>1. [line |-> l, ends |-> FALSE] \in Half /\ [line |-> l, ends |-> TRUE] \in Half
  BY DEF Half
<1>2. QED
  BY <1>1 DEF Halves

LEMMA NoOrderType == NoOrder \in Line /\ NoOrder.id = 0
<1>1. 0 \in 0..MaxOrders
  BY Bounds
<1>2. QED
  BY <1>1 DEF NoOrder, Line

\* What a stream that ends, and one that is asked for, leave behind.
LEMMA EndsType ==
  ASSUME Ends, failures \in 0..MaxFailures
  PROVE  /\ stream' = "none" /\ address' = NoTopic /\ pipe' = <<>>
         /\ connected' = FALSE /\ failures' \in 0..MaxFailures
         /\ retry' \in Nat
<1>1. failures' \in 0..MaxFailures
  BY OneMoreType DEF Ends
<1>2. failures' \in Nat
  BY <1>1, NtfyAssumption
<1>3. QED
  BY <1>1, <1>2, BackOffType DEF Ends

LEMMA InitTypes == Init => Types
<1> SUFFICES ASSUME Init PROVE Types
  OBVIOUS
<1>1. settings \in Settings
  BY DEF Init, Settings
<1>2. ClientTypes
  BY <1>1, Bounds DEF Init, ClientTypes
<1>3. RequestTypes /\ ServerTypes
  BY Bounds DEF Init, RequestTypes, ServerTypes
<1>4. LineTypes
  BY DEF Init, LineTypes
<1>5. QED
  BY <1>2, <1>3, <1>4 DEF Types

\* configure() leaves a client that is stopped, asks, died or was left alone.
Stopped == running' = running /\ stream' = "none" /\ address' = NoTopic
             /\ retry' \in Nat \cup {Off}
Asked(s) == stream' = "asked" /\ address' = s.topic /\ retry' = Silence
Gone == running' = FALSE /\ stream' = "none" /\ address' = NoTopic /\ retry' = Off
LeftAlone(s) == /\ Wanted(s) /\ ~Restarts(s)
                /\ UNCHANGED <<running, retry>> /\ UNCHANGED <<stream, address>>
                /\ UNCHANGED <<pipe, buffer>>

\* No stream, no address, and nothing on its way.
Quiet == stream = "none" => address = NoTopic /\ pipe = <<>>

LEMMA ConfigureDoes ==
  ASSUME Types, Quiet, NEW s \in Configs, Configure(s)
  PROVE  /\ s \in Settings /\ settings' = s
         /\ UNCHANGED <<up, published>> /\ UNCHANGED <<arrived, obeyed>>
         /\ running' \in BOOLEAN /\ connected' \in BOOLEAN /\ unheard' \in BOOLEAN
         /\ failures' \in 0..MaxFailures
         /\ (pipe' = <<>> /\ buffer' = <<>>) \/ UNCHANGED <<pipe, buffer>>
         /\ \/ ~Wanted(s) /\ Stopped /\ pipe' = <<>>
            \/ Wanted(s) /\ Asked(s) /\ pipe' = <<>> /\ running' = running
            \/ Gone /\ pipe' = <<>>
            \/ LeftAlone(s)
<1>0. /\ s \in Settings /\ settings' = s /\ unheard' \in BOOLEAN
      /\ UNCHANGED <<up, published>> /\ UNCHANGED <<arrived, obeyed>>
  BY NtfyAssumption DEF Configure, server, history, Types, ClientTypes
<1>1. CASE ~Wanted(s) /\ StopsQuietly
  <2>1. /\ running' = running /\ failures' = failures /\ retry' = Off
        /\ connected' = FALSE /\ buffer' = <<>>
        /\ stream' = stream /\ address' = address /\ pipe' = pipe
        /\ stream = "none"
    BY <1>1 DEF StopsQuietly, request
  <2>2. QED
    BY <1>0, <1>1, <2>1 DEF Stopped, Types, ClientTypes, Quiet
<1>2. CASE ~Wanted(s) /\ StopsTheStream
  <2>1. /\ stream' = "none" /\ address' = NoTopic /\ pipe' = <<>>
        /\ connected' = FALSE /\ failures' \in 0..MaxFailures /\ retry' \in Nat
    BY <1>2, EndsType DEF StopsTheStream, Types, ClientTypes
  <2>2. buffer' = <<>> /\ running' = running
    BY <1>2 DEF StopsTheStream
  <2>3. QED
    BY <1>0, <1>2, <2>1, <2>2 DEF Types, ClientTypes, Stopped
<1>3. CASE Restarts(s) /\ Subscribe(s.topic) /\ failures' = 0 /\ buffer' = <<>>
             /\ UNCHANGED running
  <2>1. Wanted(s)
    BY <1>3 DEF Restarts
  <2>2. QED
    BY <1>0, <1>3, <2>1, Bounds DEF Subscribe, Asked, Types, ClientTypes
<1>4. CASE (~Wanted(s) \/ Restarts(s)) /\ Dies
  BY <1>0, <1>4, Bounds DEF Dies, Gone
<1>5. CASE Wanted(s) /\ ~Restarts(s)
             /\ UNCHANGED <<running, retry, connected, failures, buffer, request>>
  <2>1. /\ UNCHANGED <<running, retry>> /\ UNCHANGED <<connected, failures>>
        /\ UNCHANGED <<stream, address>> /\ UNCHANGED <<pipe, buffer>>
    BY <1>5 DEF request
  <2>2. QED
    BY <1>0, <1>5, <2>1 DEF LeftAlone, Types, ClientTypes
<1>6. QED
  BY <1>1, <1>2, <1>3, <1>4, <1>5 DEF Configure

LEMMA ConfigureTypes ==
  ASSUME Types, Quiet, NEW s \in Configs, Configure(s)
  PROVE  Types' /\ Quiet'
<1> DEFINE C ==
      \/ ~Wanted(s) /\ Stopped /\ pipe' = <<>>
      \/ Wanted(s) /\ Asked(s) /\ pipe' = <<>> /\ running' = running
      \/ Gone /\ pipe' = <<>>
      \/ LeftAlone(s)
<1>0. /\ s \in Settings /\ settings' = s
      /\ UNCHANGED <<up, published>> /\ UNCHANGED <<arrived, obeyed>>
      /\ running' \in BOOLEAN /\ connected' \in BOOLEAN /\ unheard' \in BOOLEAN
      /\ failures' \in 0..MaxFailures
      /\ (pipe' = <<>> /\ buffer' = <<>>) \/ UNCHANGED <<pipe, buffer>>
      /\ C
  BY ConfigureDoes
<1>1. retry' \in Nat \cup {Off} /\ RequestTypes' /\ Quiet'
  <2>1. s.topic \in Topics \cup {NoTopic}
    BY <1>0 DEF Settings
  <2>2. QED
    BY <1>0, <2>1, Bounds DEF Stopped, Asked, Gone, LeftAlone, Types, ClientTypes,
                              RequestTypes, Quiet
<1>2. ClientTypes'
  BY <1>0, <1>1 DEF ClientTypes
<1>3. LineTypes' /\ ServerTypes'
  <2>1. <<>> \in Seq(Half)
    OBVIOUS
  <2>2. buffer' \in Seq(Half) /\ pipe' \in Seq(Half)
    BY <1>0, <2>1 DEF LineTypes, Types
  <2>3. QED
    BY <1>0, <2>2 DEF LineTypes, ServerTypes, Types
<1>4. QED
  BY <1>1, <1>2, <1>3 DEF Types

LEMMA StartDoes ==
  ASSUME Types, Quiet, Start
  PROVE  /\ Types' /\ Quiet'
         /\ UNCHANGED <<settings, buffer>> /\ UNCHANGED <<arrived, obeyed>>
         /\ \/ Wanted(settings) /\ Asked(settings) /\ pipe' = <<>>
            \/ ~Wanted(settings) /\ UNCHANGED <<stream, address>> /\ pipe' = pipe
<1>0. /\ running' = TRUE
      /\ UNCHANGED <<settings, failures>> /\ UNCHANGED <<buffer, unheard>>
      /\ UNCHANGED <<up, published>> /\ UNCHANGED <<arrived, obeyed>>
  BY DEF Start, server, history
<1>1. CASE Wanted(settings)
  <2>1. Subscribe(settings.topic)
    BY <1>1 DEF Start
  <2>2. settings.topic \in Topics \cup {NoTopic}
    BY DEF Types, ClientTypes, Settings
  <2>3. /\ stream' = "asked" /\ address' = settings.topic /\ pipe' = <<>>
        /\ retry' = Silence /\ connected' = FALSE
    BY <2>1 DEF Subscribe
  <2>4. ClientTypes'
    BY <1>0, <2>3, Bounds DEF ClientTypes, Types
  <2>5. RequestTypes' /\ LineTypes' /\ ServerTypes' /\ Quiet'
    BY <1>0, <2>2, <2>3 DEF RequestTypes, LineTypes, ServerTypes, Types, Quiet
  <2>6. QED
    BY <1>0, <1>1, <2>3, <2>4, <2>5 DEF Types, Asked
<1>2. CASE ~Wanted(settings)
  <2>1. UNCHANGED <<stream, address>> /\ pipe' = pipe /\ UNCHANGED <<retry, connected>>
    BY <1>2 DEF Start, request
  <2>2. ClientTypes'
    BY <1>0, <2>1 DEF ClientTypes, Types
  <2>3. RequestTypes' /\ LineTypes' /\ ServerTypes' /\ Quiet'
    BY <1>0, <2>1 DEF RequestTypes, LineTypes, ServerTypes, Types, Quiet
  <2>4. QED
    BY <1>0, <1>2, <2>1, <2>2, <2>3 DEF Types
<1>3. QED
  BY <1>1, <1>2

LEMMA RetryDoes ==
  ASSUME Types, Quiet, Retry
  PROVE  /\ Types' /\ Quiet'
         /\ UNCHANGED <<running, settings>> /\ buffer' = buffer
         /\ UNCHANGED <<arrived, obeyed>>
         /\ \/ Asked(settings) /\ pipe' = <<>>
            \/ stream # "none" /\ UNCHANGED <<stream, address>> /\ pipe' = pipe
<1>0. /\ UNCHANGED <<running, settings>> /\ UNCHANGED <<failures, buffer>>
      /\ UNCHANGED <<up, published>> /\ UNCHANGED <<arrived, obeyed>>
  BY DEF Retry, server, history
<1>1. CASE stream = "none"
  <2>1. Subscribe(settings.topic) /\ UNCHANGED unheard
    BY <1>1 DEF Retry
  <2>2. settings.topic \in Topics \cup {NoTopic}
    BY DEF Types, ClientTypes, Settings
  <2>3. /\ stream' = "asked" /\ address' = settings.topic /\ pipe' = <<>>
        /\ retry' = Silence /\ connected' = FALSE
    BY <2>1 DEF Subscribe
  <2>4. ClientTypes'
    BY <1>0, <2>1, <2>3, Bounds DEF ClientTypes, Types
  <2>5. RequestTypes' /\ LineTypes' /\ ServerTypes' /\ Quiet'
    BY <1>0, <2>2, <2>3 DEF RequestTypes, LineTypes, ServerTypes, Types, Quiet
  <2>6. QED
    BY <1>0, <2>3, <2>4, <2>5 DEF Types, Asked
<1>2. CASE stream # "none"
  <2>1. /\ retry' = Off /\ unheard' \in BOOLEAN /\ UNCHANGED connected
        /\ UNCHANGED <<stream, address>> /\ pipe' = pipe
    BY <1>2 DEF Retry, request
  <2>2. ClientTypes'
    BY <1>0, <2>1 DEF ClientTypes, Types
  <2>3. RequestTypes' /\ LineTypes' /\ ServerTypes' /\ Quiet'
    BY <1>0, <2>1 DEF RequestTypes, LineTypes, ServerTypes, Types, Quiet
  <2>4. QED
    BY <1>0, <1>2, <2>1, <2>2, <2>3 DEF Types
<1>3. QED
  BY <1>1, <1>2

LEMMA ReadType ==
  ASSUME LineTypes, NEW n \in 1..Len(pipe)
  PROVE  /\ Read(n) \in Seq(Half)
         /\ Len(Read(n)) = Len(buffer) + n
         /\ \A i \in 1..Len(buffer) : Read(n)[i] = buffer[i]
         /\ \A i \in 1..n : Read(n)[Len(buffer) + i] = pipe[i]
<1> DEFINE q == SubSeq(pipe, 1, n)
<1>1. q \in Seq(Half) /\ Len(q) = n /\ \A i \in 1..n : q[i] = pipe[i]
  BY DEF LineTypes
<1>2. Read(n) = buffer \o q
  BY DEF Read
<1>3. QED
  BY <1>1, <1>2 DEF LineTypes

LEMMA HearDoes ==
  ASSUME Types, Quiet, NEW n \in 1..Len(pipe), Hear(n)
  PROVE  /\ Types' /\ Quiet'
         /\ UNCHANGED <<running, settings>> /\ UNCHANGED <<stream, address>>
         /\ stream \in {"open", "page"}
<1>0. /\ UNCHANGED <<running, settings>> /\ UNCHANGED <<stream, address>>
      /\ UNCHANGED <<up, published>> /\ stream \in {"open", "page"}
      /\ connected' = TRUE /\ failures' = 0 /\ unheard' = FALSE /\ retry' = Silence
  BY DEF Hear, Heard, server
<1>1. LineTypes /\ n \in Nat /\ Len(pipe) \in Nat
  BY DEF LineTypes, Types
<1>2. pipe' \in Seq(Half)
  <2>1. pipe' = SubSeq(pipe, n + 1, Len(pipe))
    BY DEF Hear
  <2>2. QED
    BY <1>1, <2>1 DEF LineTypes
<1>3. buffer' \in Seq(Half)
  <2>1. PICK e \in 0..Len(Read(n)) :
          buffer' = Held(SubSeq(Read(n), e + 1, Len(Read(n))))
    BY DEF Hear
  <2>2. Read(n) \in Seq(Half) /\ Len(Read(n)) \in Nat
    BY <1>1, ReadType
  <2>3. SubSeq(Read(n), e + 1, Len(Read(n))) \in Seq(Half)
    BY <2>2
  <2>4. QED
    BY <2>1, <2>3 DEF Held
<1>4. obeyed' \in SUBSET Line
  <2>1. Whole(Read(n)) \subseteq Line
    <3>1. Read(n) \in Seq(Half) /\ Len(Read(n)) \in Nat
      BY <1>1, ReadType
    <3>2. \A i \in 1..Len(Read(n)) : Read(n)[i] \in Half
      BY <3>1
    <3>3. \A i \in 1..Len(Read(n)) : Read(n)[i].line \in Line
      BY <3>2 DEF Half
    <3>4. 2..Len(Read(n)) \subseteq 1..Len(Read(n))
      BY <3>1
    <3>5. QED
      BY <3>3, <3>4 DEF Whole
  <2>2. QED
    BY <1>1, <2>1 DEF Hear, CommandsIn, LineTypes
<1>5. arrived' \in SUBSET Line
  <2>1. \A i \in 1..n : pipe[i].line \in Line
    <3>1. \A i \in 1..n : pipe[i] \in Half
      BY <1>1 DEF LineTypes
    <3>2. QED
      BY <3>1 DEF Half
  <2>2. QED
    BY <1>1, <2>1 DEF Hear, CommandsIn, LineTypes
<1>6. ClientTypes'
  BY <1>0, Bounds DEF ClientTypes, Types
<1>7. RequestTypes' /\ LineTypes' /\ ServerTypes' /\ Quiet'
  BY <1>0, <1>2, <1>3, <1>4, <1>5 DEF RequestTypes, LineTypes, ServerTypes, Types, Quiet
<1>8. QED
  BY <1>0, <1>6, <1>7 DEF Types

LEMMA FinishedDoes ==
  ASSUME Types, Finished
  PROVE  /\ Types' /\ Quiet' /\ settings' = settings /\ buffer' = buffer
         /\ UNCHANGED <<arrived, obeyed>>
         /\ stream' = "none" /\ pipe' = <<>> /\ retry' # Off
<1>1. /\ UNCHANGED <<running, settings>> /\ buffer' = buffer
      /\ UNCHANGED <<up, published>>
      /\ UNCHANGED <<arrived, obeyed>> /\ unheard' = FALSE
  BY DEF Finished, server, history
<1>2. /\ stream' = "none" /\ address' = NoTopic /\ pipe' = <<>>
      /\ connected' = FALSE /\ failures' \in 0..MaxFailures /\ retry' \in Nat
  BY EndsType DEF Finished, Types, ClientTypes
<1>3. ClientTypes'
  BY <1>1, <1>2 DEF ClientTypes, Types
<1>4. RequestTypes' /\ LineTypes' /\ ServerTypes' /\ Quiet'
  BY <1>1, <1>2 DEF RequestTypes, LineTypes, ServerTypes, Types, Quiet
<1>5. QED
  BY <1>1, <1>2, <1>3, <1>4, Bounds DEF Types

-----------------------------------------------------------------------------
\* What the server and the network do touches only what is on its way.
LEMMA PublishDoes ==
  ASSUME Types, NEW topic \in Topics, NEW key \in Keys, Publish(topic, key)
  PROVE  /\ published' \in 0..MaxOrders
         /\ \/ UNCHANGED pipe
            \/ /\ stream = "open"
               /\ \E l \in Line : pipe' = pipe \o Halves(l)
<1>1. published' \in 0..MaxOrders
  BY NtfyAssumption DEF Publish, Types, ServerTypes
<1>2. [id |-> published', key |-> key] \in Line
  BY <1>1 DEF Line
<1>3. QED
  BY <1>1, <1>2 DEF Publish

Touched ==
  \/ UNCHANGED <<stream, pipe>>
  \/ stream \in {"asked", "open"} /\ stream' = "dead" /\ pipe' = <<>>
  \/ stream = "asked" /\ stream' = "open" /\ pipe' = Halves(NoOrder)
  \/ stream = "asked" /\ stream' = "page" /\ pipe' = Halves(NoOrder)
  \/ stream = "asked" /\ stream' = "page" /\ pipe' = <<Halves(NoOrder)[1]>>
  \/ stream = "open" /\ stream' = "open" /\ pipe = <<>> /\ pipe' = Halves(NoOrder)
  \/ stream = "open" /\ stream' = "open" /\ \E l \in Line : pipe' = pipe \o Halves(l)

Network == Opens \/ AnswersAPage \/ KeepsAlive \/ GoesDead \/ GoesUpOrDown

Publishes == \E topic \in Topics, key \in Keys : Publish(topic, key)

LEMMA OutsideDoes ==
  ASSUME Types, Network \/ Publishes
  PROVE  /\ Touched
         /\ UNCHANGED <<running, settings>> /\ UNCHANGED <<retry, connected>>
         /\ UNCHANGED <<failures, unheard>> /\ UNCHANGED <<address, buffer>>
         /\ UNCHANGED <<arrived, obeyed>> /\ ServerTypes'
<1>1. CASE Network
  <2>1. UNCHANGED client /\ UNCHANGED history /\ UNCHANGED <<running, address>>
        /\ published' = published /\ up' \in {up, ~up}
    BY <1>1 DEF Network, Opens, AnswersAPage, KeepsAlive, GoesDead, GoesUpOrDown,
                server, request
  <2>2. Touched
    BY <1>1 DEF Network, Opens, AnswersAPage, KeepsAlive, GoesDead, GoesUpOrDown,
                request, Touched
  <2>3. ServerTypes'
    BY <2>1 DEF ServerTypes, Types
  <2>4. QED
    BY <2>1, <2>2, <2>3 DEF client, history
<1>2. CASE Publishes
  <2>1. PICK topic \in Topics, key \in Keys : Publish(topic, key)
    BY <1>2 DEF Publishes
  <2>2. UNCHANGED client /\ UNCHANGED history /\ UNCHANGED <<running, address>>
        /\ UNCHANGED <<stream, up>>
    BY <2>1 DEF Publish
  <2>3. Touched
    BY <2>1, <2>2, PublishDoes DEF Touched
  <2>4. ServerTypes'
    BY <2>1, <2>2, PublishDoes DEF ServerTypes, Types
  <2>5. QED
    BY <2>2, <2>3, <2>4 DEF client, history
<1>3. QED
  BY <1>1, <1>2

LEMMA OutsideTypes ==
  ASSUME Types, Quiet, Network \/ Publishes
  PROVE  Types' /\ Quiet'
<1>0. /\ Touched
      /\ UNCHANGED <<running, settings>> /\ UNCHANGED <<retry, connected>>
      /\ UNCHANGED <<failures, unheard>> /\ UNCHANGED <<address, buffer>>
      /\ UNCHANGED <<arrived, obeyed>> /\ ServerTypes'
  BY OutsideDoes
<1>1. pipe' \in Seq(Half)
  <2>1. Halves(NoOrder) \in Seq(Half) /\ <<Halves(NoOrder)[1]>> \in Seq(Half)
    <3>1. Halves(NoOrder) \in Seq(Half) /\ Len(Halves(NoOrder)) = 2
      BY HalvesType, NoOrderType
    <3>2. QED
      BY <3>1
  <2>2. pipe \in Seq(Half) /\ <<>> \in Seq(Half)
    BY DEF Types, LineTypes
  <2>3. ASSUME NEW l \in Line PROVE pipe \o Halves(l) \in Seq(Half)
    <3>1. Halves(l) \in Seq(Half)
      BY HalvesType
    <3>2. QED
      BY <2>2, <3>1
  <2>4. QED
    BY <1>0, <2>1, <2>2, <2>3 DEF Touched
<1>2. ClientTypes'
  BY <1>0 DEF ClientTypes, Types
<1>3. RequestTypes' /\ Quiet'
  BY <1>0 DEF Touched, RequestTypes, Types, Quiet
<1>4. QED
  BY <1>0, <1>1, <1>2, <1>3 DEF LineTypes, Types

LEMMA NextDoes ==
  ASSUME Next
  PROVE  \/ \E s \in Configs : Configure(s)
         \/ Start
         \/ Retry
         \/ Finished
         \/ Network \/ Publishes
         \/ \E n \in 1..Len(pipe) : Hear(n)
BY DEF Next, Network, Publishes, Listen

LEMMA TypesStep == Types /\ Quiet /\ [Next]_vars => Types' /\ Quiet'
<1> SUFFICES ASSUME Types, Quiet, [Next]_vars PROVE Types' /\ Quiet'
  OBVIOUS
<1>1. ASSUME NEW s \in Configs, Configure(s) PROVE Types' /\ Quiet'
  BY <1>1, ConfigureTypes
<1>2. ASSUME NEW n \in 1..Len(pipe), Hear(n) PROVE Types' /\ Quiet'
  BY <1>2, HearDoes
<1>3. CASE Start
  BY <1>3, StartDoes
<1>4. CASE Retry
  BY <1>4, RetryDoes
<1>5. CASE Finished
  BY <1>5, FinishedDoes
<1>6. CASE Network \/ Publishes
  BY <1>6, OutsideTypes
<1>7. CASE UNCHANGED vars
  <2>1. UNCHANGED <<running, settings>> /\ UNCHANGED <<retry, connected>>
        /\ UNCHANGED <<failures, unheard>>
    BY <1>7 DEF vars, client
  <2>2. /\ UNCHANGED <<stream, address>> /\ UNCHANGED <<pipe, buffer>>
        /\ UNCHANGED <<up, published>> /\ UNCHANGED <<arrived, obeyed>>
    BY <1>7 DEF vars, client, request, server, history
  <2>3. ClientTypes'
    BY <2>1 DEF ClientTypes, Types
  <2>4. RequestTypes' /\ LineTypes' /\ ServerTypes' /\ Quiet'
    BY <2>2 DEF RequestTypes, LineTypes, ServerTypes, Types, Quiet
  <2>5. QED
    BY <2>3, <2>4 DEF Types
<1>8. QED
  BY <1>1, <1>2, <1>3, <1>4, <1>5, <1>6, <1>7, NextDoes

LEMMA InitQuiet == Init => Quiet
BY DEF Init, Quiet

\* Every variable keeps its type.
THEOREM TypeCorrect == Spec => []TypeOK
<1>1. Types => TypeOK
  BY TypesTogether
<1>2. QED
  BY <1>1, InitTypes, InitQuiet, TypesStep, PTL DEF Spec

-----------------------------------------------------------------------------
(***************************************************************************)
(* A client that is wanted asks, where it is told.                         *)
(***************************************************************************)
Reachable == Types /\ Quiet /\ NeverDeaf /\ ListensWhereItIsTold

LEMMA ReachableStep == Reachable /\ [Next]_vars => Reachable'
<1> SUFFICES ASSUME Types, Quiet, NeverDeaf, ListensWhereItIsTold, [Next]_vars
             PROVE  NeverDeaf' /\ ListensWhereItIsTold'
  BY TypesStep DEF Reachable
<1>0. Silence # Off
  BY Bounds
<1>1. ASSUME NEW s \in Configs, Configure(s)
      PROVE  NeverDeaf' /\ ListensWhereItIsTold'
  <2>1. /\ settings' = s
        /\ \/ ~Wanted(s) /\ Stopped
           \/ Wanted(s) /\ Asked(s)
           \/ Gone
           \/ LeftAlone(s)
    BY <1>1, ConfigureDoes
  <2>2. CASE LeftAlone(s)
    <3>1. stream # "none" /\ s.topic = settings.topic
      BY <2>2 DEF LeftAlone, Restarts, Changed
    <3>2. QED
      BY <2>1, <2>2, <3>1 DEF LeftAlone, NeverDeaf, ListensWhereItIsTold
  <2>3. CASE ~LeftAlone(s)
    BY <2>1, <2>3 DEF Stopped, Asked, Gone, NeverDeaf, ListensWhereItIsTold
  <2>4. QED
    BY <2>2, <2>3
<1>2. ASSUME NEW n \in 1..Len(pipe), Hear(n)
      PROVE  NeverDeaf' /\ ListensWhereItIsTold'
  <2>1. /\ UNCHANGED <<running, settings>> /\ UNCHANGED <<stream, address>>
        /\ stream \in {"open", "page"}
    BY <1>2, HearDoes
  <2>2. QED
    BY <2>1 DEF NeverDeaf, ListensWhereItIsTold
<1>3. CASE Start
  <2>1. /\ settings' = settings
        /\ \/ Wanted(settings) /\ Asked(settings)
           \/ ~Wanted(settings) /\ UNCHANGED <<stream, address>>
    BY <1>3, StartDoes
  <2>2. QED
    BY <2>1 DEF Asked, NeverDeaf, ListensWhereItIsTold
<1>4. CASE Retry
  <2>1. /\ UNCHANGED <<running, settings>>
        /\ \/ Asked(settings)
           \/ stream # "none" /\ UNCHANGED <<stream, address>>
    BY <1>4, RetryDoes
  <2>2. QED
    BY <2>1 DEF Asked, NeverDeaf, ListensWhereItIsTold
<1>5. CASE Finished
  <2>1. settings' = settings /\ stream' = "none" /\ retry' # Off
    BY <1>5, FinishedDoes
  <2>2. QED
    BY <2>1 DEF NeverDeaf, ListensWhereItIsTold
<1>6. CASE Network \/ Publishes
  <2>1. /\ UNCHANGED <<running, settings>> /\ UNCHANGED <<retry, address>>
        /\ Touched
    BY <1>6, OutsideDoes
  <2>2. stream' = "none" <=> stream = "none"
    BY <2>1 DEF Touched
  <2>3. QED
    BY <2>1, <2>2 DEF NeverDeaf, ListensWhereItIsTold
<1>7. CASE UNCHANGED vars
  <2>1. /\ UNCHANGED <<running, settings>> /\ UNCHANGED <<retry, address>>
        /\ stream' = stream
    BY <1>7 DEF vars, client, request
  <2>2. QED
    BY <2>1 DEF NeverDeaf, ListensWhereItIsTold
<1>8. QED
  BY <1>1, <1>2, <1>3, <1>4, <1>5, <1>6, <1>7, NextDoes

LEMMA InitReachable == Init => Reachable
<1>1. Init => NeverDeaf /\ ListensWhereItIsTold
  BY DEF Init, NeverDeaf, ListensWhereItIsTold, Wanted
<1>2. QED
  BY <1>1, InitTypes, InitQuiet DEF Reachable

\* A wanted client has a stream or a timer, whatever its settings went through.
THEOREM AlwaysReachable == Spec => []NeverDeaf
<1>1. Reachable => NeverDeaf
  BY DEF Reachable
<1>2. QED
  BY <1>1, InitReachable, ReachableStep, PTL DEF Spec

\* A stream goes where the settings of now say.
THEOREM RightTopic == Spec => []ListensWhereItIsTold
<1>1. Reachable => ListensWhereItIsTold
  BY DEF Reachable
<1>2. QED
  BY <1>1, InitReachable, ReachableStep, PTL DEF Spec

-----------------------------------------------------------------------------
(***************************************************************************)
(* Orders that came whole are obeyed.  Halves alternate on the stream; the *)
(* half that was cut off is alone in the buffer, unless the line it begins *)
(* is no order; and that is what every stream begins with.                 *)
(***************************************************************************)
Alternate ==
  \A i \in 2..Len(pipe) :
    /\ pipe[i].ends <=> ~pipe[i - 1].ends
    /\ pipe[i].ends => pipe[i].line = pipe[i - 1].line

HeadFits ==
  Len(pipe) > 0 /\ pipe[1].line.id # 0 =>
    IF pipe[1].ends
    THEN Len(buffer) = 1 /\ buffer[1] = [line |-> pipe[1].line, ends |-> FALSE]
    ELSE Len(buffer) = 0

WholeLines ==
  stream = "open" => IF Len(pipe) = 0 THEN Len(buffer) = 0
                                      ELSE pipe[Len(pipe)].ends

Cut == Alternate /\ HeadFits /\ WholeLines

LEMMA InPipe ==
  ASSUME LineTypes
  PROVE  /\ Len(pipe) \in Nat /\ Len(buffer) \in Nat
         /\ \A i \in 1..Len(pipe) :
              pipe[i] \in Half /\ pipe[i].line \in Line /\ pipe[i].ends \in BOOLEAN
                /\ pipe[i] = [line |-> pipe[i].line, ends |-> pipe[i].ends]
<1>1. \A h \in Half : h.line \in Line /\ h.ends \in BOOLEAN
                        /\ h = [line |-> h.line, ends |-> h.ends]
  BY DEF Half
<1>2. \A i \in 1..Len(pipe) : pipe[i] \in Half
  BY DEF LineTypes
<1>3. QED
  BY <1>1, <1>2 DEF LineTypes

\* An end of line that is read closes a whole line, if that line is an order.
LEMMA ReadWhole ==
  ASSUME LineTypes, Alternate, HeadFits, NEW n \in 1..Len(pipe),
         NEW i \in 1..n, pipe[i].ends, pipe[i].line.id # 0
  PROVE  pipe[i].line \in Whole(Read(n))
<1> DEFINE b == Len(buffer)
<1> DEFINE s == Read(n)
<1> DEFINE Closes(j) == /\ j \in 2..Len(s) /\ s[j].ends /\ ~s[j - 1].ends
                        /\ s[j - 1].line = s[j].line /\ (j > 2 => s[j - 2].ends)
<1>0. /\ n \in Nat /\ i \in Nat /\ 1 <= i /\ i <= n /\ n <= Len(pipe)
      /\ b \in Nat /\ Len(pipe) \in Nat
  BY InPipe
<1>1. /\ Len(s) = b + n
      /\ \A k \in 1..b : s[k] = buffer[k]
      /\ \A k \in 1..n : s[b + k] = pipe[k]
  BY ReadType
<1>2. CASE i = 1
  <2>1. b = 1 /\ buffer[1] = [line |-> pipe[1].line, ends |-> FALSE]
    BY <1>0, <1>2 DEF HeadFits
  <2>2. s[1] = [line |-> pipe[1].line, ends |-> FALSE] /\ s[2] = pipe[1]
    <3>1. 1 \in 1..b
      BY <2>1
    <3>2. s[1] = buffer[1]
      BY <1>1, <3>1
    <3>3. s[b + 1] = pipe[1]
      BY <1>0, <1>1
    <3>4. QED
      BY <2>1, <3>2, <3>3
  <2>3. s[1].line = pipe[1].line /\ s[1].ends = FALSE
    BY <2>2
  <2>4. Closes(2) /\ s[2].line = pipe[i].line
    BY <1>0, <1>1, <1>2, <2>1, <2>2, <2>3
  <2>5. QED
    BY <2>4 DEF Whole
<1>3. CASE i > 1
  <2>1. i \in 2..Len(pipe) /\ i - 1 \in 1..n
    BY <1>0, <1>3
  <2>2. ~pipe[i - 1].ends /\ pipe[i].line = pipe[i - 1].line
    BY <2>1 DEF Alternate
  <2>3. s[b + i] = pipe[i] /\ s[b + i - 1] = pipe[i - 1]
    <3>1. s[b + (i - 1)] = pipe[i - 1] /\ b + (i - 1) = b + i - 1
      BY <1>0, <1>1, <2>1
    <3>2. QED
      BY <1>1, <3>1
  <2>4. b + i > 2 => s[b + i - 2].ends
    <3>1. CASE i = 2
      <4>1. b = 0
        BY <1>0, <2>2, <3>1 DEF HeadFits
      <4>2. QED
        BY <3>1, <4>1
    <3>2. CASE i > 2
      <4>1. i - 1 \in 2..Len(pipe) /\ i - 2 \in 1..n /\ (i - 1) - 1 = i - 2
        BY <1>0, <3>2
      <4>2. pipe[i - 2].ends
        BY <2>2, <4>1 DEF Alternate
      <4>3. s[b + (i - 2)] = pipe[i - 2] /\ b + (i - 2) = b + i - 2
        BY <1>0, <1>1, <4>1
      <4>4. QED
        BY <4>2, <4>3
    <3>3. QED
      BY <1>0, <1>3, <3>1, <3>2
  <2>5. b + i \in 2..Len(s)
    BY <1>0, <1>1, <1>3
  <2>6. Closes(b + i) /\ s[b + i].line = pipe[i].line
    BY <2>2, <2>3, <2>4, <2>5
  <2>7. QED
    BY <2>6 DEF Whole
<1>4. QED
  BY <1>0, <1>2, <1>3

LEMMA HearObeys ==
  ASSUME Types, Cut, ArrivedIsObeyed, NEW n \in 1..Len(pipe), Hear(n)
  PROVE  ArrivedIsObeyed'
<1> DEFINE came == {pipe[i].line : i \in {j \in 1..n : pipe[j].ends}}
<1>1. /\ arrived' = arrived \cup CommandsIn(came, settings.key)
      /\ obeyed' = obeyed \cup CommandsIn(Whole(Read(n)), settings.key)
  BY DEF Hear
<1>2. ASSUME NEW l \in CommandsIn(came, settings.key)
      PROVE  l \in CommandsIn(Whole(Read(n)), settings.key)
  <2>1. l \in came /\ l.id # 0 /\ l.key = settings.key /\ settings.key # NoKey
    BY <1>2 DEF CommandsIn
  <2>2. PICK i \in 1..n : pipe[i].ends /\ l = pipe[i].line
    BY <2>1
  <2>3. l \in Whole(Read(n))
    BY <2>1, <2>2, ReadWhole DEF Types, Cut
  <2>4. QED
    BY <2>1, <2>3 DEF CommandsIn
<1>3. QED
  BY <1>1, <1>2 DEF ArrivedIsObeyed

\* What is left in the buffer is what comes before the next end of line.
LEMMA HearCuts ==
  ASSUME Types, Cut, NEW n \in 1..Len(pipe), Hear(n), Types'
  PROVE  Cut'
<1> DEFINE b == Len(buffer)
<1> DEFINE s == Read(n)
<1>0. /\ n \in Nat /\ 1 <= n /\ n <= Len(pipe) /\ b \in Nat /\ Len(pipe) \in Nat
      /\ LineTypes /\ Alternate /\ HeadFits /\ WholeLines
  BY InPipe DEF Types, Cut
<1>1. /\ s \in Seq(Half) /\ Len(s) = b + n
      /\ \A k \in 1..b : s[k] = buffer[k]
      /\ \A k \in 1..n : s[b + k] = pipe[k]
  BY <1>0, ReadType
<1>2. /\ Len(pipe') = Len(pipe) - n
      /\ \A k \in 1..Len(pipe') : pipe'[k] = pipe[n + k]
  <2>1. pipe' = SubSeq(pipe, n + 1, Len(pipe))
    BY DEF Hear
  <2>2. QED
    BY <1>0, <2>1 DEF LineTypes
<1>3. Alternate'
  <2> SUFFICES ASSUME NEW k \in 2..Len(pipe')
               PROVE  /\ pipe'[k].ends <=> ~pipe'[k - 1].ends
                      /\ pipe'[k].ends => pipe'[k].line = pipe'[k - 1].line
    BY DEF Alternate
  <2>1. /\ k \in 1..Len(pipe') /\ k - 1 \in 1..Len(pipe')
        /\ n + k \in 2..Len(pipe) /\ n + (k - 1) = (n + k) - 1
    BY <1>0, <1>2
  <2>2. pipe'[k] = pipe[n + k] /\ pipe'[k - 1] = pipe[(n + k) - 1]
    BY <1>2, <2>1
  <2>3. QED
    BY <1>0, <2>1, <2>2 DEF Alternate
<1>4. PICK e \in 0..Len(s) : LastEnd(s, e) /\ buffer' = Held(SubSeq(s, e + 1, Len(s)))
  BY DEF Hear
<1>5. e \in Nat /\ e <= b + n /\ (e > 0 => s[e].ends)
      /\ \A j \in e + 1..b + n : ~s[j].ends
  BY <1>0, <1>1, <1>4 DEF LastEnd
<1>6. ASSUME pipe[n].ends PROVE Len(buffer') = 0
  <2>1. s[b + n].ends
    BY <1>0, <1>1, <1>6
  <2>2. e = b + n
    BY <1>0, <1>5, <2>1
  <2>3. Len(SubSeq(s, e + 1, Len(s))) = 0
    BY <1>0, <1>1, <2>2
  <2>4. QED
    BY <1>4, <2>3, NtfyAssumption DEF Held
<1>7. ASSUME ~pipe[n].ends, pipe[n].line.id # 0
      PROVE  /\ Len(buffer') = 1
             /\ buffer'[1] = [line |-> pipe[n].line, ends |-> FALSE]
  <2>1. e = b + n - 1
    <3>1. s[b + n] = pipe[n]
      BY <1>0, <1>1
    <3>2. e <= b + n - 1
      BY <1>0, <1>5, <1>7, <3>1
    <3>3. CASE n = 1
      <4>1. b = 0
        BY <1>0, <1>7, <3>3 DEF HeadFits
      <4>2. QED
        BY <1>5, <3>2, <3>3, <4>1
    <3>4. CASE n > 1
      <4>1. n \in 2..Len(pipe) /\ n - 1 \in 1..n
        BY <1>0, <3>4
      <4>2. pipe[n - 1].ends
        BY <1>0, <1>7, <4>1 DEF Alternate
      <4>3. s[b + (n - 1)] = pipe[n - 1] /\ b + (n - 1) = b + n - 1
        BY <1>0, <1>1, <4>1
      <4>4. QED
        BY <1>0, <1>5, <3>2, <4>2, <4>3
    <3>5. QED
      BY <1>0, <3>3, <3>4
  <2>2. Len(SubSeq(s, e + 1, Len(s))) = 1 /\ SubSeq(s, e + 1, Len(s))[1] = s[b + n]
    <3> DEFINE m == b + n
    <3>1. e + 1 = m /\ Len(s) = m /\ m \in Int /\ m >= 1
      BY <1>0, <1>1, <2>1
    <3>2. \A i \in m..m : s[i] \in Half
      BY <1>1, <3>1
    <3> HIDE DEF m
    <3>3. /\ Len(SubSeq(s, m, m)) = (IF m <= m THEN m - m + 1 ELSE 0)
          /\ \A i \in 1..m - m + 1 : SubSeq(s, m, m)[i] = s[m + i - 1]
      BY <3>1, <3>2, SubSeqProperties
    <3>4. Len(SubSeq(s, m, m)) = 1 /\ SubSeq(s, m, m)[1] = s[m]
      BY <3>1, <3>3
    <3>5. Len(SubSeq(s, e + 1, Len(s))) = 1 /\ SubSeq(s, e + 1, Len(s))[1] = s[m]
      BY <3>1, <3>4
    <3>6. QED
      BY <3>5 DEF m
  <2>3. s[b + n] = [line |-> pipe[n].line, ends |-> FALSE]
    <3>1. s[b + n] = pipe[n]
      BY <1>0, <1>1
    <3>2. pipe[n].ends = FALSE /\ pipe[n] = [line |-> pipe[n].line, ends |-> pipe[n].ends]
      BY <1>0, <1>7, InPipe
    <3>3. QED
      BY <3>1, <3>2
  <2>4. QED
    BY <1>4, <2>2, <2>3, NtfyAssumption DEF Held
<1>8. HeadFits'
  <2> SUFFICES ASSUME Len(pipe') > 0, pipe'[1].line.id # 0
               PROVE  IF pipe'[1].ends
                      THEN /\ Len(buffer') = 1
                           /\ buffer'[1] = [line |-> pipe'[1].line, ends |-> FALSE]
                      ELSE Len(buffer') = 0
    BY DEF HeadFits
  <2>1. n + 1 \in 2..Len(pipe) /\ pipe'[1] = pipe[n + 1] /\ (n + 1) - 1 = n
    BY <1>0, <1>2
  <2>2. /\ pipe[n + 1].ends <=> ~pipe[n].ends
        /\ pipe[n + 1].ends => pipe[n + 1].line = pipe[n].line
    BY <1>0, <2>1 DEF Alternate
  <2>3. CASE pipe[n].ends
    BY <1>6, <2>1, <2>2, <2>3
  <2>4. CASE ~pipe[n].ends
    BY <1>7, <2>1, <2>2, <2>4
  <2>5. QED
    BY <2>3, <2>4
<1>9. WholeLines'
  <2> SUFFICES ASSUME stream' = "open"
               PROVE  IF Len(pipe') = 0 THEN Len(buffer') = 0
                                        ELSE pipe'[Len(pipe')].ends
    BY DEF WholeLines
  <2>1. pipe[Len(pipe)].ends
    <3>1. stream' = stream
      BY DEF Hear
    <3>2. QED
      BY <1>0, <3>1 DEF WholeLines
  <2>2. CASE Len(pipe') = 0
    BY <1>0, <1>2, <1>6, <2>1, <2>2
  <2>3. CASE Len(pipe') # 0
    <3>1. Len(pipe') \in 1..Len(pipe') /\ n + Len(pipe') = Len(pipe)
      BY <1>0, <1>2, <2>3
    <3>2. QED
      BY <1>2, <2>1, <2>3, <3>1
  <2>4. QED
    BY <2>2, <2>3
<1>10. QED
  BY <1>3, <1>8, <1>9 DEF Cut

\* Nothing on its way, and no stream that was opened.
LEMMA EmptyIsCut ==
  ASSUME pipe' = <<>>, stream' # "open"
  PROVE  Cut'
BY DEF Cut, Alternate, HeadFits, WholeLines

LEMMA SameIsCut ==
  ASSUME Cut, pipe' = pipe, buffer' = buffer, stream' = stream
  PROVE  Cut'
BY DEF Cut, Alternate, HeadFits, WholeLines

LEMMA OutsideCuts ==
  ASSUME Types, Quiet, Cut, Touched, buffer' = buffer
  PROVE  Cut'
<1>0. /\ Halves(NoOrder) \in Seq(Half) /\ Len(Halves(NoOrder)) = 2
      /\ Halves(NoOrder)[1] = [line |-> NoOrder, ends |-> FALSE]
      /\ Halves(NoOrder)[2] = [line |-> NoOrder, ends |-> TRUE]
      /\ NoOrder.id = 0 /\ NoOrder \in Line
  BY HalvesType, NoOrderType
<1>1. CASE pipe' = Halves(NoOrder)
  <2>1. Len(pipe') = 2 /\ pipe'[1].line.id = 0 /\ ~pipe'[1].ends /\ pipe'[2].ends
        /\ pipe'[1].line = pipe'[2].line
    BY <1>0, <1>1
  <2>2. Alternate'
    BY <2>1 DEF Alternate
  <2>3. QED
    BY <2>1, <2>2 DEF Cut, HeadFits, WholeLines
<1>2. CASE stream' = "page" /\ pipe' = <<Halves(NoOrder)[1]>>
  <2>1. Len(pipe') = 1 /\ pipe'[1].line.id = 0
    BY <1>0, <1>2
  <2>2. QED
    BY <1>2, <2>1 DEF Cut, Alternate, HeadFits, WholeLines
<1>3. ASSUME NEW l \in Line, stream = "open", stream' = "open", pipe' = pipe \o Halves(l)
      PROVE  Cut'
  <2>1. /\ Halves(l) \in Seq(Half) /\ Len(Halves(l)) = 2
        /\ Halves(l)[1].line = l /\ Halves(l)[1].ends = FALSE
        /\ Halves(l)[2].line = l /\ Halves(l)[2].ends = TRUE
    <3>1. /\ Halves(l) \in Seq(Half) /\ Len(Halves(l)) = 2
          /\ Halves(l)[1] = [line |-> l, ends |-> FALSE]
          /\ Halves(l)[2] = [line |-> l, ends |-> TRUE]
      BY HalvesType
    <3>2. QED
      BY <3>1
  <2>2. /\ Len(pipe) \in Nat /\ Len(pipe') = Len(pipe) + 2
        /\ \A i \in 1..Len(pipe) : pipe'[i] = pipe[i]
        /\ pipe'[Len(pipe) + 1] = Halves(l)[1] /\ pipe'[Len(pipe) + 2] = Halves(l)[2]
    <3>1. pipe \in Seq(Half)
      BY DEF Types, LineTypes
    <3>2. pipe' = pipe \o Halves(l)
      BY <1>3
    <3>3. Halves(l) \in Seq(Half) /\ Len(Halves(l)) = 2
      BY <2>1
    <3>4. /\ Len(pipe \o Halves(l)) = Len(pipe) + Len(Halves(l))
          /\ \A i \in 1..Len(pipe) + Len(Halves(l)) :
               (pipe \o Halves(l))[i] = IF i <= Len(pipe) THEN pipe[i]
                                        ELSE Halves(l)[i - Len(pipe)]
      BY <3>1, <3>3, ConcatProperties
    <3>5. Len(pipe) \in Nat
      BY <3>1
    <3>6. QED
      BY <3>2, <3>3, <3>4, <3>5
  <2>3. Alternate /\ HeadFits /\ WholeLines
    BY DEF Cut
  <2>4. Alternate'
    <3> SUFFICES ASSUME NEW i \in 2..Len(pipe')
                 PROVE  /\ pipe'[i].ends <=> ~pipe'[i - 1].ends
                        /\ pipe'[i].ends => pipe'[i].line = pipe'[i - 1].line
      BY DEF Alternate
    <3>1. CASE i <= Len(pipe)
      <4>1. i \in 2..Len(pipe) /\ i \in 1..Len(pipe) /\ i - 1 \in 1..Len(pipe)
        BY <2>2, <3>1
      <4>2. QED
        BY <2>2, <2>3, <4>1 DEF Alternate
    <3>2. CASE i = Len(pipe) + 1
      <4>1. Len(pipe) # 0 /\ i - 1 = Len(pipe) /\ i - 1 \in 1..Len(pipe)
        BY <2>2, <3>2
      <4>2. pipe[i - 1].ends
        BY <1>3, <2>3, <4>1 DEF WholeLines
      <4>3. QED
        BY <2>1, <2>2, <3>2, <4>1, <4>2
    <3>3. CASE i = Len(pipe) + 2
      <4>1. i - 1 = Len(pipe) + 1
        BY <2>2, <3>3
      <4>2. QED
        BY <2>1, <2>2, <3>3, <4>1
    <3>4. QED
      BY <2>2, <3>1, <3>2, <3>3
  <2>5. HeadFits'
    <3>1. CASE Len(pipe) = 0
      <4>1. pipe'[1] = Halves(l)[1] /\ Len(buffer) = 0
        BY <1>3, <2>2, <2>3, <3>1 DEF WholeLines
      <4>2. QED
        BY <2>1, <4>1 DEF HeadFits
    <3>2. CASE Len(pipe) # 0
      <4>1. pipe'[1] = pipe[1] /\ Len(pipe) > 0
        BY <2>2, <3>2
      <4>2. QED
        BY <2>3, <4>1 DEF HeadFits
    <3>3. QED
      BY <3>1, <3>2
  <2>6. WholeLines'
    BY <2>1, <2>2 DEF WholeLines
  <2>7. QED
    BY <2>4, <2>5, <2>6 DEF Cut
<1>4. CASE pipe' = <<>> /\ stream' = "dead"
  BY <1>4, EmptyIsCut
<1>5. CASE UNCHANGED <<stream, pipe>>
  BY <1>5, SameIsCut
<1>6. QED
  BY <1>1, <1>2, <1>3, <1>4, <1>5 DEF Touched

Obedient == Types /\ Quiet /\ Cut /\ ArrivedIsObeyed

LEMMA ObedientStep == Obedient /\ [Next]_vars => Obedient'
<1> SUFFICES ASSUME Types, Quiet, Cut, ArrivedIsObeyed, [Next]_vars
             PROVE  Cut' /\ ArrivedIsObeyed'
  BY TypesStep DEF Obedient
<1>0. Types'
  BY TypesStep
<1>1. ASSUME UNCHANGED <<arrived, obeyed>> PROVE ArrivedIsObeyed'
  BY <1>1 DEF ArrivedIsObeyed
<1>2. ASSUME NEW s \in Configs, Configure(s) PROVE Cut' /\ ArrivedIsObeyed'
  <2>1. /\ UNCHANGED <<arrived, obeyed>>
        /\ \/ Stopped /\ pipe' = <<>>
           \/ Asked(s) /\ pipe' = <<>>
           \/ Gone /\ pipe' = <<>>
           \/ LeftAlone(s)
    BY <1>2, ConfigureDoes
  <2>2. CASE LeftAlone(s)
    <3>1. pipe' = pipe /\ buffer' = buffer /\ stream' = stream
      BY <2>2 DEF LeftAlone
    <3>2. QED
      BY <1>1, <2>1, <3>1, SameIsCut
  <2>3. CASE ~LeftAlone(s)
    <3>1. pipe' = <<>> /\ stream' # "open"
      BY <2>1, <2>3 DEF Stopped, Asked, Gone
    <3>2. QED
      BY <1>1, <2>1, <3>1, EmptyIsCut
  <2>4. QED
    BY <2>2, <2>3
<1>3. ASSUME NEW n \in 1..Len(pipe), Hear(n) PROVE Cut' /\ ArrivedIsObeyed'
  BY <1>0, <1>3, HearCuts, HearObeys
<1>4. CASE Start
  <2>1. /\ buffer' = buffer /\ UNCHANGED <<arrived, obeyed>>
        /\ \/ Asked(settings) /\ pipe' = <<>>
           \/ stream' = stream /\ pipe' = pipe
    BY <1>4, StartDoes
  <2>2. QED
    BY <1>1, <2>1, EmptyIsCut, SameIsCut DEF Asked
<1>5. CASE Retry
  <2>1. /\ buffer' = buffer /\ UNCHANGED <<arrived, obeyed>>
        /\ \/ Asked(settings) /\ pipe' = <<>>
           \/ stream' = stream /\ pipe' = pipe
    BY <1>5, RetryDoes
  <2>2. QED
    BY <1>1, <2>1, EmptyIsCut, SameIsCut DEF Asked
<1>6. CASE Finished
  <2>1. /\ UNCHANGED <<arrived, obeyed>>
        /\ stream' = "none" /\ pipe' = <<>>
    BY <1>6, FinishedDoes
  <2>2. QED
    BY <1>1, <2>1, EmptyIsCut
<1>7. CASE Network \/ Publishes
  <2>1. Touched /\ buffer' = buffer /\ UNCHANGED <<arrived, obeyed>>
    BY <1>7, OutsideDoes
  <2>2. QED
    BY <1>1, <2>1, OutsideCuts
<1>8. CASE UNCHANGED vars
  <2>1. /\ UNCHANGED <<arrived, obeyed>>
        /\ pipe' = pipe /\ buffer' = buffer /\ stream' = stream
    BY <1>8 DEF vars, client, request, history
  <2>2. QED
    BY <1>1, <2>1, SameIsCut
<1>9. QED
  BY <1>2, <1>3, <1>4, <1>5, <1>6, <1>7, <1>8, NextDoes

LEMMA InitObedient == Init => Obedient
<1>1. Init => Cut /\ ArrivedIsObeyed
  BY DEF Init, Cut, Alternate, HeadFits, WholeLines, ArrivedIsObeyed
<1>2. QED
  BY <1>1, InitTypes, InitQuiet DEF Obedient

\* An order that came whole is obeyed, wherever it was cut on its way.
THEOREM WholeOrdersObeyed == Spec => []ArrivedIsObeyed
<1>1. Obedient => ArrivedIsObeyed
  BY DEF Obedient
<1>2. QED
  BY <1>1, InitObedient, ObedientStep, PTL DEF Spec

-----------------------------------------------------------------------------
(***************************************************************************)
(* Nothing else is obeyed.                                                 *)
(***************************************************************************)
\* The buffer is cut at the last end of line, so an end is read only once: an
\* order is found in the step in which its second half arrives.
NoEndHeld == \A i \in 1..Len(buffer) : ~buffer[i].ends

LEMMA HearArrives ==
  ASSUME Types, NoEndHeld, OnlyArrivedIsObeyed, NEW n \in 1..Len(pipe), Hear(n)
  PROVE  OnlyArrivedIsObeyed'
<1> DEFINE b == Len(buffer)
<1> DEFINE s == Read(n)
<1> DEFINE came == {pipe[i].line : i \in {j \in 1..n : pipe[j].ends}}
<1>1. /\ arrived' = arrived \cup CommandsIn(came, settings.key)
      /\ obeyed' = obeyed \cup CommandsIn(Whole(s), settings.key)
  BY DEF Hear
<1>2. /\ LineTypes /\ n \in Nat /\ b \in Nat /\ Len(s) = b + n
      /\ \A k \in 1..b : s[k] = buffer[k]
      /\ \A k \in 1..n : s[b + k] = pipe[k]
  BY ReadType DEF Types, LineTypes
<1>3. Whole(s) \subseteq came
  <2> SUFFICES ASSUME NEW l \in Whole(s) PROVE l \in came
    OBVIOUS
  <2>1. PICK j \in 2..Len(s) : s[j].ends /\ l = s[j].line
    BY DEF Whole
  <2>2. j > b
    BY <1>2, <2>1 DEF NoEndHeld
  <2>3. j - b \in 1..n /\ b + (j - b) = j
    BY <1>2, <2>2
  <2>4. s[j] = pipe[j - b]
    BY <1>2, <2>3
  <2>5. QED
    BY <2>1, <2>3, <2>4
<1>4. QED
  BY <1>1, <1>3 DEF CommandsIn, OnlyArrivedIsObeyed

LEMMA HearHoldsNoEnd ==
  ASSUME Types, NEW n \in 1..Len(pipe), Hear(n)
  PROVE  NoEndHeld'
<1> DEFINE s == Read(n)
<1>1. s \in Seq(Half) /\ Len(s) \in Nat
  BY ReadType DEF Types
<1>2. PICK e \in 0..Len(s) : LastEnd(s, e) /\ buffer' = Held(SubSeq(s, e + 1, Len(s)))
  BY DEF Hear
<1>3. CASE buffer' = <<>>
  BY <1>3 DEF NoEndHeld
<1>4. CASE buffer' = SubSeq(s, e + 1, Len(s))
  <2>1. /\ Len(buffer') = Len(s) - e
        /\ \A i \in 1..Len(buffer') : buffer'[i] = s[e + i]
    BY <1>1, <1>4
  <2>2. \A j \in e + 1..Len(s) : ~s[j].ends
    BY <1>2 DEF LastEnd
  <2>3. \A i \in 1..Len(buffer') : e + i \in e + 1..Len(s)
    BY <1>1, <2>1
  <2>4. QED
    BY <2>1, <2>2, <2>3 DEF NoEndHeld
<1>5. QED
  BY <1>2, <1>3, <1>4 DEF Held

Honest == Types /\ Quiet /\ NoEndHeld /\ OnlyArrivedIsObeyed

LEMMA HonestStep == Honest /\ [Next]_vars => Honest'
<1> SUFFICES ASSUME Types, Quiet, NoEndHeld, OnlyArrivedIsObeyed, [Next]_vars
             PROVE  NoEndHeld' /\ OnlyArrivedIsObeyed'
  BY TypesStep DEF Honest
<1>1. ASSUME buffer' = <<>> \/ buffer' = buffer, UNCHANGED <<arrived, obeyed>>
      PROVE  NoEndHeld' /\ OnlyArrivedIsObeyed'
  BY <1>1 DEF NoEndHeld, OnlyArrivedIsObeyed
<1>2. ASSUME NEW s \in Configs, Configure(s) PROVE NoEndHeld' /\ OnlyArrivedIsObeyed'
  <2>1. (buffer' = <<>> \/ buffer' = buffer) /\ UNCHANGED <<arrived, obeyed>>
    BY <1>2, ConfigureDoes
  <2>2. QED
    BY <1>1, <2>1
<1>3. ASSUME NEW n \in 1..Len(pipe), Hear(n) PROVE NoEndHeld' /\ OnlyArrivedIsObeyed'
  BY <1>3, HearArrives, HearHoldsNoEnd
<1>4. CASE Start
  BY <1>1, <1>4, StartDoes
<1>5. CASE Retry
  BY <1>1, <1>5, RetryDoes
<1>6. CASE Finished
  BY <1>1, <1>6, FinishedDoes
<1>7. CASE Network \/ Publishes
  BY <1>1, <1>7, OutsideDoes
<1>8. CASE UNCHANGED vars
  BY <1>1, <1>8 DEF vars, client, history
<1>9. QED
  BY <1>2, <1>3, <1>4, <1>5, <1>6, <1>7, <1>8, NextDoes

\* Nothing is obeyed but orders whose line came whole, when their key was the
\* owner's: the daemon is never handed what is left of a broken line, nor one
\* that came before the owner chose the key it opens with.
THEOREM NothingElseIsObeyed == Spec => []OnlyArrivedIsObeyed
<1>1. Init => Honest
  BY InitTypes, InitQuiet DEF Init, Honest, NoEndHeld, OnlyArrivedIsObeyed
<1>2. Honest => OnlyArrivedIsObeyed
  BY DEF Honest
<1>3. QED
  BY <1>1, <1>2, HonestStep, PTL DEF Spec
=============================================================================
