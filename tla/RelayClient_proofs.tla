------------------------ MODULE RelayClient_proofs ------------------------
(***************************************************************************)
(* Proofs about RelayClient, for every set of tokens and settings files,   *)
(* any back-off and any number of failures and positions.                  *)
(***************************************************************************)
EXTENDS RelayClient, TLAPS

ClientTypes ==
  /\ settings \in Settings
  /\ poll \in BOOLEAN /\ retry \in Nat \cup {Off} /\ connected \in BOOLEAN
  /\ failures \in 0..MaxFailures
  /\ told \in BOOLEAN
  /\ answer \in {"-", "none", "refused", "order", "empty", "broken"}

ReportTypes ==
  /\ pending \in BOOLEAN /\ undelivered \in 0..MaxFixes
  /\ posts \in SUBSET (1..MaxFixes)
  /\ taken \in 0..MaxFixes /\ panel \in 0..MaxFixes

RelayTypes ==
  /\ requests \in Nat
  /\ known \in SUBSET Tokens /\ up \in BOOLEAN

LEMMA TypesTogether == TypeOK <=> ClientTypes /\ ReportTypes /\ RelayTypes
BY DEF TypeOK, ClientTypes, ReportTypes, RelayTypes

\* Either there is a poll or there is a timer, never both; neither of them
\* without a reason to poll; and what is pending is a position.
Alive == /\ poll => retry = Off
         /\ poll \/ retry # Off => Wanted(settings)

Kept == pending => undelivered # 0

IInv == /\ ClientTypes /\ ReportTypes /\ RelayTypes
        /\ Kept /\ Alive
        /\ OnePollAtATime /\ GivesUpForGood /\ ConnectedIsListening

-----------------------------------------------------------------------------
\* The reports take no part in the polling.
LEMMA PostingType ==
  ASSUME NEW s, NEW fix \in 1..MaxFixes
  PROVE  Posting(s, fix) \in SUBSET (1..MaxFixes)
BY DEF Posting

LEMMA SetConnectedType ==
  ASSUME ReportTypes, Kept, NEW s, NEW alive \in BOOLEAN,
         SetConnected(s, alive), UNCHANGED <<undelivered, panel, taken>>
  PROVE  ReportTypes' /\ Kept' /\ connected' = alive
<1>1. connected' = alive /\ pending' = (pending /\ ~alive)
  BY DEF SetConnected
<1>2. posts' \in SUBSET (1..MaxFixes)
  <2>1. CASE alive /\ pending
    <3>1. undelivered \in 1..MaxFixes
      BY <2>1, RelayAssumption DEF ReportTypes, Kept
    <3>2. QED
      BY <2>1, <3>1, PostingType DEF SetConnected, ReportTypes
  <2>2. CASE ~(alive /\ pending)
    BY <2>2 DEF SetConnected, ReportTypes
  <2>3. QED
    BY <2>1, <2>2
<1>3. pending' \in BOOLEAN /\ (pending' => pending)
  BY <1>1 DEF ReportTypes
<1>4. QED
  BY <1>1, <1>2, <1>3 DEF ReportTypes, Kept

LEMMA BackOffType ==
  ASSUME NEW f \in Nat \ {0}
  PROVE  BackOff(f) \in Nat
<1>1. (IF f < 9 THEN f ELSE 9) \in 1..9
  OBVIOUS
<1>2. \A i \in 1..9 : Shifted[i] \in Nat
  BY DEF Shifted
<1>3. Doubled(f) \in Nat
  BY <1>1, <1>2, RelayAssumption DEF Doubled
<1>4. QED
  BY <1>3, RelayAssumption DEF BackOff

-----------------------------------------------------------------------------
LEMMA Bounds ==
  /\ 0 \in 0..MaxFixes /\ 0 \in 0..MaxFailures /\ 0 \in Nat
  /\ Unconfigured \in Settings
<1>1. 0 \in 0..MaxFixes /\ 0 \in 0..MaxFailures /\ 0 \in Nat
  BY RelayAssumption
<1>2. Unconfigured \in Settings
  BY <1>1 DEF Unconfigured, Settings
<1>3. QED
  BY <1>1, <1>2

LEMMA InitIInv == Init => IInv
<1> SUFFICES ASSUME Init PROVE IInv
  OBVIOUS
<1>1. ClientTypes
  BY Bounds, Zenon DEF Init, ClientTypes
<1>2. ReportTypes /\ Kept
  BY Bounds, Zenon DEF Init, ReportTypes, Kept
<1>3. RelayTypes
  BY DEF Init, RelayTypes
<1>4. Alive /\ OnePollAtATime /\ GivesUpForGood /\ ConnectedIsListening
  BY DEF Init, Alive, OnePollAtATime, GivesUpForGood, ConnectedIsListening
<1>5. QED
  BY <1>1, <1>2, <1>3, <1>4 DEF IInv

\* poll(), whether or not it counts as connected.
LEMMA PollKeepsReports ==
  ASSUME ReportTypes, Kept, connected \in BOOLEAN, NEW s,
         SetConnected(s, TRUE) \/ Unconnected,
         UNCHANGED <<undelivered, panel, taken>>
  PROVE  ReportTypes' /\ Kept' /\ connected' \in BOOLEAN
<1>1. CASE SetConnected(s, TRUE)
  <2>1. ReportTypes' /\ Kept' /\ connected' = TRUE
    BY <1>1, SetConnectedType
  <2>2. QED
    BY <2>1
<1>2. CASE Unconnected
  BY <1>2 DEF Unconnected, ReportTypes, Kept
<1>3. QED
  BY <1>1, <1>2

LEMMA ConfigureKeeps ==
  ASSUME IInv, NEW s \in Configs, Configure(s)
  PROVE  IInv'
<1>0. /\ s \in Settings /\ settings' = s
      /\ UNCHANGED <<undelivered, panel, taken>> /\ UNCHANGED <<known, up>>
  BY RelayAssumption DEF Configure, relay
<1>1. Aborted = 0
  BY DEF IInv, Aborted, OnePollAtATime
<1>2. CASE ~Wanted(s) /\ poll' = FALSE /\ requests' = Aborted /\ retry' = Off
           /\ SetConnected(s, FALSE) /\ told' = FALSE /\ UNCHANGED <<failures, answer>>
  <2>1. ReportTypes' /\ Kept' /\ connected' = FALSE
    BY <1>0, <1>2, SetConnectedType DEF IInv
  <2>2. ClientTypes'
    BY <1>0, <1>2, <2>1 DEF IInv, ClientTypes
  <2>3. RelayTypes' /\ OnePollAtATime'
    BY <1>0, <1>1, <1>2 DEF IInv, RelayTypes, OnePollAtATime
  <2>4. Alive' /\ GivesUpForGood' /\ ConnectedIsListening'
    BY <1>2, <2>1 DEF Alive, GivesUpForGood, ConnectedIsListening
  <2>5. QED
    BY <2>1, <2>2, <2>3, <2>4 DEF IInv
<1>3. CASE Restarts(s) /\ retry' = Off /\ failures' = 0 /\ told' = FALSE
           /\ Poll(s, Aborted, 0, FALSE)
  <2>0. Wanted(s)
    BY <1>3 DEF Restarts
  <2>1. /\ ReportTypes' /\ Kept' /\ poll' = TRUE /\ requests' = 1
        /\ connected' \in BOOLEAN /\ answer' = "-"
    <3>1. /\ poll' = TRUE /\ requests' = 0 + 1 /\ answer' = "-"
          /\ SetConnected(s, TRUE)
      BY <1>1, <1>3, <2>0, Zenon DEF Poll
    <3>2. ReportTypes /\ Kept /\ connected \in BOOLEAN
      BY DEF IInv, ClientTypes
    <3>3. ReportTypes' /\ Kept' /\ connected' \in BOOLEAN
      BY <1>0, <3>1, <3>2, PollKeepsReports
    <3>4. requests' = 1
      BY <3>1
    <3>5. QED
      BY <3>1, <3>3, <3>4, Zenon
  <2>2. ClientTypes'
    BY <1>0, <1>3, <2>1, Bounds, Zenon DEF ClientTypes
  <2>3. RelayTypes' /\ OnePollAtATime'
    BY <1>0, <2>1 DEF IInv, RelayTypes, OnePollAtATime
  <2>4. Wanted(settings')
    BY <1>0, <2>0
  <2>5. Alive' /\ GivesUpForGood' /\ ConnectedIsListening'
    BY <1>0, <1>3, <2>0, <2>1 DEF Alive, GivesUpForGood, ConnectedIsListening
  <2>6. QED
    BY <2>1, <2>2, <2>3, <2>5 DEF IInv
<1>4. CASE Wanted(s) /\ ~Restarts(s) /\ Unconnected
           /\ UNCHANGED <<poll, requests, retry, failures, told, answer>>
  <2>1. ClientTypes' /\ ReportTypes' /\ RelayTypes' /\ Kept'
    BY <1>0, <1>4 DEF IInv, ClientTypes, ReportTypes, RelayTypes, Kept, Unconnected
  <2>2. Alive' /\ OnePollAtATime' /\ GivesUpForGood' /\ ConnectedIsListening'
    BY <1>0, <1>4 DEF IInv, Alive, OnePollAtATime, GivesUpForGood,
                      ConnectedIsListening, Unconnected
  <2>3. QED
    BY <2>1, <2>2 DEF IInv
<1>5. QED
  BY <1>2, <1>3, <1>4 DEF Configure

LEMMA RetryKeeps ==
  ASSUME IInv, Retry
  PROVE  IInv'
<1>1. poll = FALSE /\ requests = 0 /\ Wanted(settings) /\ told = FALSE
  BY DEF IInv, Retry, Alive, OnePollAtATime, GivesUpForGood, ClientTypes
<1>2. /\ retry' = Off /\ settings' = settings /\ failures' = failures /\ told' = told
      /\ UNCHANGED <<undelivered, panel, taken>> /\ UNCHANGED <<known, up>>
      /\ Poll(settings, 0, failures, FALSE)
  BY <1>1 DEF Retry, relay
<1>3. /\ ReportTypes' /\ Kept' /\ poll' = TRUE /\ requests' = 1
      /\ connected' \in BOOLEAN /\ answer' = "-"
  <2>1. ReportTypes /\ Kept /\ connected \in BOOLEAN
    BY DEF IInv, ClientTypes
  <2>2. /\ poll' = TRUE /\ requests' = 0 + 1 /\ answer' = "-"
        /\ SetConnected(settings, TRUE) \/ Unconnected
    BY <1>1, <1>2, Zenon DEF Poll
  <2>3. ReportTypes' /\ Kept' /\ connected' \in BOOLEAN
    BY <1>2, <2>1, <2>2, PollKeepsReports
  <2>4. requests' = 1
    BY <2>2
  <2>5. QED
    BY <2>2, <2>3, <2>4, Zenon
<1>4. ClientTypes' /\ RelayTypes'
  BY <1>2, <1>3 DEF IInv, ClientTypes, RelayTypes
<1>5. Alive' /\ OnePollAtATime' /\ GivesUpForGood' /\ ConnectedIsListening'
  BY <1>1, <1>2, <1>3 DEF Alive, OnePollAtATime, GivesUpForGood,
                          ConnectedIsListening, Wanted
<1>6. QED
  BY <1>3, <1>4, <1>5 DEF IInv

\* A poll that ended leaves a timer behind, or is the refusal.
LEMMA EndKeeps ==
  ASSUME IInv,
         NEW how \in {"none", "refused", "order", "empty", "broken"}, Ends(how),
         NEW alive \in BOOLEAN, SetConnected(settings, alive),
         failures' \in 0..MaxFailures,
         \/ retry' \in Nat /\ told' = told
         \/ retry' = retry /\ told' = TRUE /\ alive = FALSE
  PROVE  IInv'
<1>1. poll = TRUE /\ requests = 1 /\ retry = Off /\ told = FALSE /\ Wanted(settings)
  BY DEF IInv, Ends, OnePollAtATime, Alive, GivesUpForGood, ClientTypes
<1>2. /\ poll' = FALSE /\ requests' = 0 /\ answer' = how
      /\ settings' = settings
      /\ UNCHANGED <<undelivered, panel, taken>> /\ UNCHANGED <<known, up>>
  BY <1>1 DEF Ends, relay
<1>3. ReportTypes' /\ Kept' /\ connected' = alive
  BY <1>2, SetConnectedType DEF IInv
<1>4. retry' \in Nat \cup {Off} /\ told' \in BOOLEAN
  BY <1>1
<1>5. ClientTypes' /\ RelayTypes'
  BY <1>2, <1>3, <1>4 DEF IInv, ClientTypes, RelayTypes
<1>6. OnePollAtATime' /\ Alive'
  BY <1>1, <1>2 DEF OnePollAtATime, Alive, Wanted
<1>7. GivesUpForGood' /\ ConnectedIsListening'
  BY <1>1, <1>2, <1>3, RelayAssumption DEF GivesUpForGood, ConnectedIsListening
<1>8. QED
  BY <1>3, <1>5, <1>6, <1>7 DEF IInv

LEMMA PollEndsKeeps ==
  ASSUME IInv, PollEnds
  PROVE  IInv'
<1>0. /\ failures \in Nat /\ failures <= MaxFailures /\ settings.idle \in Nat
      /\ MaxFailures \in Nat \ {0}
  BY RelayAssumption DEF IInv, ClientTypes, Settings
<1>1. CASE NoAnswer
  <2>1. failures' \in 0..MaxFailures /\ failures' \in Nat \ {0}
    BY <1>0, <1>1 DEF NoAnswer
  <2>2. retry' \in Nat
    BY <1>1, <2>1, BackOffType DEF NoAnswer
  <2>3. QED
    BY <1>1, <2>1, <2>2, EndKeeps DEF NoAnswer
<1>2. CASE Refused
  <2>1. /\ Ends("refused") /\ SetConnected(settings, FALSE)
        /\ failures' \in 0..MaxFailures /\ retry' = retry /\ told' = TRUE
    BY <1>2, Bounds, Zenon DEF Refused
  <2>2. QED
    BY <2>1, EndKeeps
<1>3. CASE Order
  <2>1. /\ Ends("order") /\ SetConnected(settings, TRUE)
        /\ failures' \in 0..MaxFailures /\ retry' \in Nat /\ told' = told
    BY <1>3, Bounds, Zenon DEF Order
  <2>2. QED
    BY <2>1, EndKeeps
<1>4. ASSUME NEW how \in {"empty", "broken"}, Rest(how)
      PROVE  IInv'
  <2>1. retry' \in Nat
    BY <1>0, <1>4 DEF Rest
  <2>2. /\ Ends(how) /\ SetConnected(settings, TRUE)
        /\ failures' \in 0..MaxFailures /\ told' = told
    BY <1>4, Bounds, Zenon DEF Rest
  <2>3. how \in {"none", "refused", "order", "empty", "broken"}
    OBVIOUS
  <2>4. QED
    BY <2>1, <2>2, <2>3, EndKeeps
<1>5. QED
  BY <1>1, <1>2, <1>3, <1>4 DEF PollEnds, NothingToDo, Broken

LEMMA ReportKeeps ==
  ASSUME IInv,
         \/ Report
         \/ \E fix \in 1..MaxFixes : Delivered(fix) \/ Undelivered(fix)
  PROVE  IInv'
<1>1. UNCHANGED <<settings, poll, retry, connected, failures, told, answer>>
      /\ UNCHANGED <<known, up, requests>>
  BY DEF Report, Delivered, Undelivered, client, relay
<1>2. ReportTypes' /\ Kept'
  <2>1. CASE Report
    <3>1. taken' \in 1..MaxFixes
      BY <2>1, RelayAssumption DEF Report, IInv, ReportTypes
    <3>2. posts' \in SUBSET (1..MaxFixes)
      <4>1. posts' = posts \cup Posting(settings, taken')
        BY <2>1 DEF Report
      <4>2. QED
        BY <3>1, <4>1, PostingType DEF IInv, ReportTypes
    <3>3. taken' \in 0..MaxFixes
      BY <3>1, RelayAssumption
    <3>4. UNCHANGED <<pending, undelivered, panel>>
      BY <2>1 DEF Report
    <3>5. QED
      BY <3>2, <3>3, <3>4 DEF IInv, ReportTypes, Kept
  <2>2. ASSUME NEW fix \in 1..MaxFixes, Delivered(fix)
        PROVE  ReportTypes' /\ Kept'
    BY <2>2, RelayAssumption DEF Delivered, IInv, ReportTypes, Kept
  <2>3. ASSUME NEW fix \in 1..MaxFixes, Undelivered(fix)
        PROVE  ReportTypes' /\ Kept'
    BY <2>3, RelayAssumption DEF Undelivered, IInv, ReportTypes, Kept
  <2>4. QED
    BY <2>1, <2>2, <2>3
<1>3. ClientTypes' /\ RelayTypes'
  BY <1>1 DEF IInv, ClientTypes, RelayTypes
<1>4. Alive' /\ OnePollAtATime' /\ GivesUpForGood' /\ ConnectedIsListening'
  BY <1>1 DEF IInv, Alive, OnePollAtATime, GivesUpForGood, ConnectedIsListening,
              Wanted
<1>5. QED
  BY <1>2, <1>3, <1>4 DEF IInv

LEMMA RelayKeeps ==
  ASSUME IInv, GoesUpOrDown \/ (\E t \in Tokens : Forget(t)) \/ UNCHANGED vars
  PROVE  IInv'
<1>1. /\ UNCHANGED <<settings, poll, retry, connected, failures, told, answer>>
      /\ UNCHANGED <<pending, undelivered, posts, panel, taken>>
      /\ UNCHANGED requests
  BY DEF GoesUpOrDown, Forget, vars, client, reports
<1>2. known' \in SUBSET Tokens /\ up' \in BOOLEAN
  BY DEF GoesUpOrDown, Forget, vars, relay, IInv, RelayTypes
<1>3. ClientTypes' /\ ReportTypes' /\ RelayTypes' /\ Kept'
  BY <1>1, <1>2 DEF IInv, ClientTypes, ReportTypes, RelayTypes, Kept
<1>4. Alive' /\ OnePollAtATime' /\ GivesUpForGood' /\ ConnectedIsListening'
  BY <1>1 DEF IInv, Alive, OnePollAtATime, GivesUpForGood, ConnectedIsListening,
              Wanted
<1>5. QED
  BY <1>3, <1>4 DEF IInv

LEMMA StepIInv == IInv /\ [Next]_vars => IInv'
<1> SUFFICES ASSUME IInv, [Next]_vars PROVE IInv'
  OBVIOUS
<1>1. CASE \E s \in Configs : Configure(s)
  BY <1>1, ConfigureKeeps
<1>2. CASE Retry
  BY <1>2, RetryKeeps
<1>3. CASE PollEnds
  BY <1>3, PollEndsKeeps
<1>4. CASE Report \/ \E fix \in 1..MaxFixes : Delivered(fix) \/ Undelivered(fix)
  BY <1>4, ReportKeeps
<1>5. CASE GoesUpOrDown \/ (\E t \in Tokens : Forget(t)) \/ UNCHANGED vars
  BY <1>5, RelayKeeps
<1>6. QED
  BY <1>1, <1>2, <1>3, <1>4, <1>5 DEF Next, PollEnds

LEMMA Always == Spec => []IInv
BY InitIInv, StepIInv, PTL DEF Spec

-----------------------------------------------------------------------------
\* Every variable keeps its type.
THEOREM TypeCorrect == Spec => []TypeOK
<1>1. IInv => TypeOK
  BY TypesTogether DEF IInv
<1>2. QED
  BY <1>1, Always, PTL

\* The network never holds a poll the client does not know of, whatever
\* settings arrive while one is out (relayclient.cpp 84-94, 112-119).
THEOREM OnePoll == Spec => []OnePollAtATime
<1>1. IInv => OnePollAtATime
  BY DEF IInv
<1>2. QED
  BY <1>1, Always, PTL

\* What was refused is not asked again until the settings change
\* (relayclient.cpp 164-171).
THEOREM RefusedIsForGood == Spec => []GivesUpForGood
<1>1. IInv => GivesUpForGood
  BY DEF IInv
<1>2. QED
  BY <1>1, Always, PTL

\* What the screen calls connected is listening, or about to
\* (relayclient.cpp 96-110, 130-137).
THEOREM ConnectedListens == Spec => []ConnectedIsListening
<1>1. IInv => ConnectedIsListening
  BY DEF IInv
<1>2. QED
  BY <1>1, Always, PTL

-----------------------------------------------------------------------------
(***************************************************************************)
(* What makes a client deaf.                                               *)
(***************************************************************************)
\* A poll that ended was either refused, or has left a timer.
LEMMA EndedIsNotDeaf ==
  ASSUME IInv, PollEnds
  PROVE  NeverDeaf'
<1>1. /\ failures \in Nat /\ MaxFailures \in Nat \ {0} /\ failures <= MaxFailures
      /\ settings.idle \in Nat /\ Off \notin Nat
  BY RelayAssumption DEF IInv, ClientTypes, Settings
<1>2. CASE NoAnswer
  <2>1. failures' \in Nat \ {0}
    BY <1>1, <1>2 DEF NoAnswer
  <2>2. retry' \in Nat
    BY <1>2, <2>1, BackOffType DEF NoAnswer
  <2>3. QED
    BY <1>1, <2>2 DEF NeverDeaf
<1>3. CASE Refused
  BY <1>3 DEF Refused, NeverDeaf
<1>4. CASE Order
  BY <1>1, <1>4 DEF Order, NeverDeaf
<1>5. CASE NothingToDo \/ Broken
  <2>1. retry' = 60 * settings.idle
    BY <1>5 DEF NothingToDo, Broken, Rest
  <2>2. retry' \in Nat
    BY <1>1, <2>1
  <2>3. QED
    BY <1>1, <2>2 DEF NeverDeaf
<1>6. QED
  BY <1>2, <1>3, <1>4, <1>5 DEF PollEnds

\* Settings deafen a client in one way only: they are left alone as those of a
\* client that runs, and the client had been stopped by the master switch.
LEMMA DeafenedByConfigure ==
  ASSUME IInv, NeverDeaf, NEW s \in Configs, Configure(s), ~NeverDeaf'
  PROVE  ~settings.enabled /\ s.enabled /\ WasRunning
<1>1. settings' = s /\ Wanted(s) /\ ~poll' /\ retry' = Off /\ ~told'
  BY DEF Configure, NeverDeaf
<1>2. ~Restarts(s)
  <2>1. SUFFICES ASSUME Restarts(s) PROVE FALSE
    OBVIOUS
  <2>2. Poll(s, Aborted, 0, FALSE)
    BY <1>1, <2>1 DEF Configure
  <2>3. poll' = TRUE
    BY <1>1, <2>2 DEF Poll
  <2>4. QED
    BY <1>1, <2>3
<1>3. UNCHANGED <<poll, retry, told>> /\ WasRunning
  BY <1>1, <1>2 DEF Configure, Restarts
<1>4. ~Wanted(settings)
  BY <1>1, <1>3 DEF NeverDeaf
<1>5. QED
  BY <1>1, <1>3, <1>4 DEF Wanted, WasRunning

LEMMA Deafened ==
  ASSUME IInv, NeverDeaf, [Next]_vars, ~NeverDeaf'
  PROVE  ~settings.enabled /\ settings'.enabled /\ WasRunning
<1>1. CASE \E s \in Configs : Configure(s)
  <2>1. PICK s \in Configs : Configure(s)
    BY <1>1
  <2>2. settings' = s
    BY <2>1 DEF Configure
  <2>3. QED
    BY <2>1, <2>2, DeafenedByConfigure
<1>2. CASE Retry
  <2>1. settings' = settings /\ poll = FALSE /\ Wanted(settings)
    BY <1>2 DEF Retry, IInv, Alive, ClientTypes
  <2>2. poll' = TRUE
    BY <1>2, <2>1 DEF Retry, Poll
  <2>3. QED
    BY <2>2 DEF NeverDeaf
<1>3. CASE PollEnds
  BY <1>3, EndedIsNotDeaf
<1>4. CASE Report \/ (\E fix \in 1..MaxFixes : Delivered(fix) \/ Undelivered(fix))
           \/ (\E t \in Tokens : Forget(t)) \/ GoesUpOrDown \/ UNCHANGED vars
  <2>1. UNCHANGED <<settings, poll, retry, told>>
    BY <1>4 DEF Report, Delivered, Undelivered, Forget, GoesUpOrDown, vars, client
  <2>2. QED
    BY <2>1 DEF NeverDeaf, Wanted
<1>5. QED
  BY <1>1, <1>2, <1>3, <1>4 DEF Next, PollEnds

\* Of all that can happen to a client that listens, only the master switch
\* coming on again after it went off leaves it deaf (relayclient.cpp 63-82).
THEOREM OnlyMasterDeafens == Spec => OnlyTheMasterSwitchDeafens
<1>1. IInv /\ [Next]_vars =>
        (NeverDeaf /\ ~NeverDeaf' => ~settings.enabled /\ settings'.enabled)
  BY Deafened
<1>2. IInv /\ [Next]_vars =>
        [NeverDeaf /\ ~NeverDeaf' => ~settings.enabled /\ settings'.enabled]_vars
  BY <1>1
<1>3. QED
  BY <1>2, Always, PTL DEF Spec, OnlyTheMasterSwitchDeafens

\* A client whose master switch stays on.
MasterOn == settings = Unconfigured \/ settings.enabled

DeafInv == IInv /\ MasterOn /\ NeverDeaf

LEMMA MasterStaysOn ==
  ASSUME \A s \in Configs : s.enabled, MasterOn, [Next]_vars
  PROVE  MasterOn'
<1>1. CASE \E s \in Configs : Configure(s)
  BY <1>1 DEF Configure, MasterOn
<1>2. CASE settings' = settings
  BY <1>2 DEF MasterOn
<1>3. QED
  BY <1>1, <1>2 DEF Next, Retry, NoAnswer, Refused, Order, NothingToDo, Broken,
                    Rest, Ends, Report, Delivered, Undelivered, Forget,
                    GoesUpOrDown, vars, client

\* A client that is wanted polls, or has a timer that will, unless it was
\* refused: through every change of the channel's own settings, as long as no
\* settings file turns the master switch off (relayclient.cpp 63-82).
THEOREM AlwaysListening == (\A s \in Configs : s.enabled) => (Spec => []NeverDeaf)
<1> SUFFICES ASSUME \A s \in Configs : s.enabled
             PROVE  Spec => []NeverDeaf
  OBVIOUS
<1>1. Init => DeafInv
  BY InitIInv DEF Init, DeafInv, MasterOn, NeverDeaf, Wanted, Unconfigured
<1>2. DeafInv /\ [Next]_vars => DeafInv'
  <2> SUFFICES ASSUME DeafInv, [Next]_vars PROVE DeafInv'
    OBVIOUS
  <2>1. IInv' /\ MasterOn'
    BY StepIInv, MasterStaysOn DEF DeafInv
  <2>2. WasRunning => settings.enabled
    BY DEF DeafInv, MasterOn, WasRunning, Unconfigured
  <2>3. NeverDeaf'
    BY <2>2, Deafened DEF DeafInv
  <2>4. QED
    BY <2>1, <2>3 DEF DeafInv
<1>3. DeafInv => NeverDeaf
  BY DEF DeafInv
<1>4. QED
  BY <1>1, <1>2, <1>3, PTL DEF Spec

-----------------------------------------------------------------------------
\* A channel that the owner has turned off, or that is not paired, holds no
\* poll on the network and no timer that would start one (config.h 59,
\* relayclient.cpp 66-71, 84-94).
THEOREM SwitchedOffIsSilent == Spec => []OffIsOff
<1>1. IInv => OffIsOff
  BY DEF IInv, Alive, OnePollAtATime, OffIsOff
<1>2. QED
  BY <1>1, Always, PTL

-----------------------------------------------------------------------------
(***************************************************************************)
(* The back-off.                                                           *)
(***************************************************************************)
\* The shift stays where it is after the ninth failure.
LEMMA ShiftBounds ==
  /\ \A i \in 1..9 : Shifted[i] \in Nat \ {0}
  /\ \A i \in 1..8 : Shifted[i] <= Shifted[i + 1]
<1>1. \A i \in 1..9 : Shifted[i] \in Nat \ {0}
  BY DEF Shifted
<1>2. \A i \in 1..8 : Shifted[i] <= Shifted[i + 1]
  BY DEF Shifted
<1>3. QED
  BY <1>1, <1>2

LEMMA Multiplied ==
  ASSUME NEW b \in Nat, NEW k \in Nat, NEW n \in Nat, k <= n
  PROVE  b * k \in Nat /\ b * n \in Nat /\ b * k <= b * n
OBVIOUS

LEMMA BackOffBounds ==
  ASSUME NEW f \in Nat \ {0}
  PROVE  BackOff(f) \in Base..Most
<1>1. (IF f < 9 THEN f ELSE 9) \in 1..9
  OBVIOUS
<1>2. PICK k \in Nat \ {0} : k = Shifted[IF f < 9 THEN f ELSE 9]
  BY <1>1, ShiftBounds
<1>3. 1 \in Nat /\ 1 <= k /\ Base \in Nat /\ Most \in Nat /\ Base <= Most
  BY RelayAssumption
<1>4. Base * 1 <= Base * k /\ Base * k \in Nat
  BY <1>3, Multiplied
<1>5. Doubled(f) = Base * k
  BY <1>2 DEF Doubled
<1>6. Doubled(f) \in Nat /\ Base <= Doubled(f)
  BY <1>3, <1>4, <1>5
<1>7. QED
  BY <1>3, <1>6 DEF BackOff

\* One more failure never means a shorter wait.
LEMMA BackOffGrows ==
  ASSUME NEW f \in Nat \ {0}
  PROVE  BackOff(f) <= BackOff(f + 1)
<1>0. Base \in Nat /\ Most \in Nat
  BY RelayAssumption
<1>1. PICK k \in Nat : k = Shifted[IF f < 9 THEN f ELSE 9]
  <2>1. (IF f < 9 THEN f ELSE 9) \in 1..9
    OBVIOUS
  <2>2. QED
    BY <2>1, ShiftBounds
<1>2. PICK n \in Nat : n = Shifted[IF f + 1 < 9 THEN f + 1 ELSE 9] /\ k <= n
  <2>1. CASE f < 9
    <3>1. f \in 1..8 /\ f + 1 \in 1..9 /\ (IF f + 1 < 9 THEN f + 1 ELSE 9) = f + 1
      BY <2>1
    <3>2. k = Shifted[f]
      BY <1>1, <2>1
    <3>3. QED
      BY <3>1, <3>2, ShiftBounds
  <2>2. CASE ~(f < 9)
    <3>1. (IF f + 1 < 9 THEN f + 1 ELSE 9) = 9
      BY <2>2
    <3>2. k = Shifted[9]
      BY <1>1, <2>2
    <3>3. QED
      BY <3>1, <3>2
  <2>3. QED
    BY <2>1, <2>2
<1>3. Doubled(f) = Base * k /\ Doubled(f + 1) = Base * n
  BY <1>1, <1>2 DEF Doubled
<1>4. Doubled(f) \in Nat /\ Doubled(f + 1) \in Nat /\ Doubled(f) <= Doubled(f + 1)
  BY <1>0, <1>2, <1>3, Multiplied
<1>5. QED
  BY <1>0, <1>4 DEF BackOff

Silence == answer = "none" /\ retry # Off =>
             failures \in Nat \ {0} /\ retry = BackOff(failures)

LEMMA StepSilence ==
  ASSUME IInv, Silence, [Next]_vars
  PROVE  Silence'
<1>1. CASE \E s \in Configs : Configure(s)
  <2>1. \/ retry' = Off
        \/ UNCHANGED <<answer, retry, failures>>
    BY <1>1 DEF Configure
  <2>2. QED
    BY <2>1 DEF Silence
<1>2. CASE Retry
  BY <1>2 DEF Retry, Silence
<1>3. CASE NoAnswer
  <2>1. failures \in Nat /\ MaxFailures \in Nat \ {0}
    BY RelayAssumption DEF IInv, ClientTypes
  <2>2. QED
    BY <1>3, <2>1 DEF NoAnswer, Silence
<1>4. CASE Refused \/ Order \/ NothingToDo \/ Broken
  BY <1>4 DEF Refused, Order, NothingToDo, Broken, Rest, Ends, Silence
<1>5. CASE UNCHANGED <<answer, retry, failures>>
  BY <1>5 DEF Silence
<1>6. CASE Report \/ (\E fix \in 1..MaxFixes : Delivered(fix) \/ Undelivered(fix))
           \/ (\E t \in Tokens : Forget(t)) \/ GoesUpOrDown \/ UNCHANGED vars
  <2>1. UNCHANGED <<answer, retry, failures>>
    BY <1>6 DEF Report, Delivered, Undelivered, Forget, GoesUpOrDown, vars, client
  <2>2. QED
    BY <1>5, <2>1
<1>7. QED
  BY <1>1, <1>2, <1>3, <1>4, <1>6 DEF Next

\* A poll that nobody answered is followed by a wait between the shortest and
\* the longest, the one that belongs to the failures counted, whatever the
\* settings do meanwhile (relayclient.cpp 140-157).
THEOREM NobodyAnswersBacksOff == Spec => []SilenceBacksOff
<1>1. Init => Silence
  BY DEF Init, Silence
<1>2. IInv /\ Silence /\ [Next]_vars => Silence'
  BY StepSilence
<1>3. Silence => SilenceBacksOff
  BY BackOffBounds DEF Silence, SilenceBacksOff
<1>4. QED
  BY <1>1, <1>2, <1>3, Always, PTL DEF Spec

\* "Without it a phone with no coverage would retry in a tight loop"
\* (relayclient.h 97-99) is so unless something between phone and relay answers
\* for it: a 5xx of a proxy counts as an answer (relayclient.cpp 142, 149).
THEOREM DownBacksOff == ~MayBreak => (Spec => []DownMeansBackOff)
<1> SUFFICES ASSUME ~MayBreak PROVE Spec => []DownMeansBackOff
  OBVIOUS
<1> DEFINE Whole == answer # "broken"
<1>1. Init => Silence /\ Whole
  BY DEF Init, Silence
<1>2. IInv /\ Silence /\ [Next]_vars => Silence'
  BY StepSilence
<1>3. Whole /\ [Next]_vars => Whole'
  BY DEF Next, Configure, Poll, Retry, NoAnswer, Refused, Order, NothingToDo, Broken,
         Rest, Ends, Report, Delivered, Undelivered, Forget, GoesUpOrDown, vars, client
<1>4. Silence /\ Whole => DownMeansBackOff
  <2> SUFFICES ASSUME Silence, answer = "none", retry # Off
               PROVE  retry >= Base
    BY DEF DownMeansBackOff
  <2>1. failures \in Nat \ {0} /\ retry = BackOff(failures)
    BY DEF Silence
  <2>2. QED
    BY <2>1, BackOffBounds, RelayAssumption
<1>5. QED
  BY <1>1, <1>2, <1>3, <1>4, Always, PTL DEF Spec
=============================================================================
