--------------------------- MODULE Locator_proofs ---------------------------
(***************************************************************************)
(* What a search promises, for every deadline, tuning window and set of    *)
(* places, whether or not the radios obey.                                 *)
(*                                                                         *)
(* None of the properties is inductive: an answer is made out of what the  *)
(* search has kept until then.  Searching says what a search in progress   *)
(* keeps: a timer, a fix that is of this search or still empty, and two    *)
(* countdowns that agree with the time that has passed.                    *)
(***************************************************************************)
EXTENDS Locator, TLAPS

FixIsOfThisSearch ==
  /\ fix.source \in {"none", "gnss"}
  /\ fix.source = "none" => fix.place = Nowhere
  /\ fix.source = "gnss" => fix.place \in seen
  /\ fix.near # Nowhere => fix.near \in seen

ClocksAgree ==
  /\ deadline + lasted = Patience
  /\ tuning = Unset <=> fix.source = "none"
  /\ tuning = Unset <=> tuned = Unset
  /\ tuning # Unset => tuning + tuned = Tuning

Searching == busy => FixIsOfThisSearch /\ ClocksAgree

ErrandIsKnown == doing = "search" => errand # Nobody

IInv == /\ TypeOK
        /\ ErrandIsKnown
        /\ SearchIsPolled /\ (polling => busy)
        /\ NoSearchSettlesForLess
        /\ at \in seen
        /\ Searching
        /\ CurrentMeansMeasured
        /\ TunedBeforeAnswering

-----------------------------------------------------------------------------
\* The variables a handler sets before it reads the satellites, and those
\* that reading decides.
TypeBefore ==
  /\ doing \in Doing /\ flag \in Flag /\ errand \in Configs \cup {Nobody}
  /\ lit \in BOOLEAN /\ snapshot \in Configs \cup {Nobody}
  /\ deadline \in 0..Patience /\ lasted \in 0..Patience
  /\ known \in Position /\ copy \in Position
  /\ radios \in SUBSET Radio /\ wish \in SUBSET Radio /\ mine \in SUBSET Flag
  /\ stranded \in SUBSET Radio /\ mistaken \in SUBSET Radio
  /\ at \in Places /\ seen \in SUBSET Places
  /\ moves \in Nat /\ switches \in Nat /\ deaths \in Nat

TypeAfter ==
  /\ busy \in BOOLEAN /\ polling \in BOOLEAN /\ sought \in BOOLEAN
  /\ tuning \in (0..Tuning) \cup {Unset}
  /\ tuned \in (0..Tuning) \cup {Unset}
  /\ fix \in Fix /\ answer \in Fix
  /\ saved \in Position

LEMMA TypeSplits == TypeOK <=> TypeBefore /\ TypeAfter
BY DEF TypeOK, TypeBefore, TypeAfter

\* A fix f a search may hold when it has seen what "where" holds.
OfThisSearch(f, where) ==
  /\ f.source \in {"none", "gnss"}
  /\ f.source = "none" => f.place = Nowhere
  /\ f.source = "gnss" => f.place \in where
  /\ f.near # Nowhere => f.near \in where

\* The window of a search that holds f, and the history of its first position.
InTime(f, window, since) ==
  /\ window \in (0..Tuning) \cup {Unset} /\ since \in (0..Tuning) \cup {Unset}
  /\ window = Unset <=> f.source = "none"
  /\ window = Unset <=> since = Unset
  /\ window # Unset => window + since = Tuning

\* A position read now belongs to the search.
LEMMA Better ==
  ASSUME NEW f \in Fix, NEW where \in SUBSET Places, at \in where,
         OfThisSearch(f, where)
  PROVE  LET better == [f EXCEPT !.place = at, !.source = "gnss"]
         IN  /\ better \in Fix
             /\ OfThisSearch(better, where)
             /\ better.source = "gnss" /\ better.place = at
BY DEF Fix, OfThisSearch, Position, Source

\* complete() reports a fix of this search, or what was saved and says so.
LEMMA Completes ==
  ASSUME TypeBefore', ErrandIsKnown', NEW f \in Fix, saved \in Position,
         at' \in seen', OfThisSearch(f, seen'), Complete(f),
         tuning' \in (0..Tuning) \cup {Unset},
         tuned' \in (0..Tuning) \cup {Unset},
         f.source = "gnss" => tuned' = Tuning \/ lasted' = Patience
  PROVE  IInv'
<1>1. busy' = FALSE /\ polling' = FALSE /\ sought' = FALSE /\ fix' = NoFix
  BY DEF Complete
<1>2. \/ answer' = f
      \/ /\ f.place = Nowhere /\ known' # Nowhere
         /\ answer' = [f EXCEPT !.place = known', !.source = "last-known"]
  BY DEF Complete, Reported
<1>3. /\ answer' \in Fix
      /\ answer'.near = f.near
      /\ answer'.source = "gnss" => answer' = f
  <2>1. CASE answer' = f
    BY <2>1
  <2>2. CASE answer' = [f EXCEPT !.place = known', !.source = "last-known"]
    BY <2>2 DEF Fix, TypeBefore, Source
  <2>3. QED
    BY <1>2, <2>1, <2>2
<1>4. saved' \in Position
  BY DEF Complete, Fix
<1>5. NoFix \in Fix
  BY DEF NoFix, Fix, Position, Source
<1>6. TypeOK'
  BY <1>1, <1>3, <1>4, <1>5 DEF TypeOK, TypeBefore
<1>7. CurrentMeansMeasured'
  BY <1>3 DEF CurrentMeansMeasured, OfThisSearch
<1>8. TunedBeforeAnswering'
  BY <1>3 DEF TunedBeforeAnswering
<1>9. QED
  BY <1>1, <1>6, <1>7, <1>8
     DEF IInv, SearchIsPolled, NoSearchSettlesForLess, Searching

\* The search goes on with a fix of its own.
LEMMA GoesOn ==
  ASSUME TypeBefore', ErrandIsKnown', NEW f \in Fix, NEW wanted \in BOOLEAN,
         saved \in Position, at' \in seen',
         OfThisSearch(f, seen'), InTime(f, tuning', tuned'),
         deadline' + lasted' = Patience,
         wanted => lit',
         GoOn(f, wanted, TRUE)
  PROVE  IInv'
<1>1. busy' = TRUE /\ polling' = TRUE /\ sought' = wanted
  BY DEF GoOn
<1>2. fix' = f /\ answer' = NoFix /\ saved' = saved
  BY DEF GoOn
<1>3. NoFix \in Fix
  BY DEF NoFix, Fix, Position, Source
<1>4. TypeOK'
  BY <1>1, <1>2, <1>3 DEF TypeOK, TypeBefore, InTime
<1>5. Searching'
  BY <1>2 DEF Searching, FixIsOfThisSearch, ClocksAgree, OfThisSearch, InTime
<1>6. CurrentMeansMeasured' /\ TunedBeforeAnswering'
  BY <1>2 DEF CurrentMeansMeasured, TunedBeforeAnswering, NoFix
<1>7. QED
  BY <1>1, <1>4, <1>5, <1>6 DEF IInv, SearchIsPolled, NoSearchSettlesForLess

\* pollGnss, whoever calls it.
LEMMA Polls ==
  ASSUME TypeBefore', ErrandIsKnown', NEW f \in Fix, NEW window, NEW since,
         NEW wanted \in BOOLEAN,
         saved \in Position, at' = at, at \in seen',
         OfThisSearch(f, seen'), InTime(f, window, since),
         deadline' + lasted' = Patience,
         wanted => lit',
         PollGnss(f, window, since, wanted, TRUE)
  PROVE  IInv'
<1> DEFINE better == [f EXCEPT !.place = at, !.source = "gnss"]
<1>1. /\ better \in Fix /\ OfThisSearch(better, seen')
      /\ better.source = "gnss"
  BY Better DEF TypeBefore
<1>2. deadline' = 0 => lasted' = Patience
  BY DEF TypeBefore
<1>3. CASE /\ tuning' = IF window = Unset THEN Tuning ELSE window
           /\ tuned' = IF since = Unset THEN 0 ELSE since
           /\ IF tuning' > 0 /\ deadline' > 0
              THEN GoOn(better, wanted, TRUE)
              ELSE Complete(better)
  <2>1. /\ tuning' \in 0..Tuning /\ tuned' \in 0..Tuning
        /\ tuning' + tuned' = Tuning
    BY <1>3, LocatorAssumption DEF InTime
  <2>2. InTime(better, tuning', tuned')
    BY <2>1, <1>1, LocatorAssumption DEF InTime
  <2>3. CASE GoOn(better, wanted, TRUE)
    BY <2>2, <2>3, <1>1, GoesOn
  <2>4. CASE Complete(better) /\ ~(tuning' > 0 /\ deadline' > 0)
    <3>1. tuned' = Tuning \/ lasted' = Patience
      BY <2>1, <2>4, <1>2 DEF TypeBefore
    <3>2. QED
      BY <2>1, <2>4, <3>1, <1>1, Completes
  <2>5. QED
    BY <1>3, <2>3, <2>4
<1>4. CASE /\ tuning' = window /\ tuned' = since
           /\ IF deadline' = 0 THEN Complete(f) ELSE GoOn(f, wanted, TRUE)
  <2>1. CASE deadline' = 0 /\ Complete(f)
    BY <1>2, <1>4, <2>1, Completes DEF InTime
  <2>2. CASE GoOn(f, wanted, TRUE)
    BY <1>4, <2>2, GoesOn
  <2>3. QED
    BY <1>4, <2>1, <2>2
<1>5. QED
  BY <1>3, <1>4 DEF PollGnss, ReadGnss

-----------------------------------------------------------------------------
\* What a command to a radio leaves typed, and where the handler goes on.
LEMMA Radios ==
  ASSUME IInv, TurnOn \/ GiveBack
  PROVE  radios' \in SUBSET Radio /\ mine' \in SUBSET Flag
<1>1. flag \in Flag /\ radios \in SUBSET Radio /\ mine \in SUBSET Flag
  BY DEF IInv, TypeOK
<1>2. TurnedOn(flag) \in SUBSET Radio /\ TurnedOff(flag) \in SUBSET Radio
  BY <1>1 DEF TurnedOn, TurnedOff, Flag, Radio, Sources, Satellites
<1>3. ASSUME NEW all \in SUBSET Radio, NEW obeyed \in Obeying(all)
      PROVE  obeyed \in SUBSET Radio
  BY <1>3 DEF Obeying
<1>4. CASE TurnOn
  BY <1>1, <1>2, <1>3, <1>4 DEF TurnOn
<1>5. CASE GiveBack
  BY <1>1, <1>2, <1>3, <1>5 DEF GiveBack
<1>6. QED
  BY <1>4, <1>5

LEMMA GoesOnUp ==
  ASSUME IInv, GoOnUp
  PROVE  doing' \in Doing /\ flag' \in Flag /\ errand' = errand /\ ErrandIsKnown'
<1>1. flag' \in Flag
  BY DEF IInv, TypeOK, GoOnUp, NextUp, Flag
<1>2. QED
  BY <1>1 DEF GoOnUp, Doing, ErrandIsKnown

LEMMA GoesOnDown ==
  ASSUME IInv, GoOnDown
  PROVE  doing' \in Doing /\ flag' \in Flag /\ errand' = errand /\ ErrandIsKnown'
<1>1. flag' \in Flag
  BY DEF IInv, TypeOK, GoOnDown, NextDown, Flag
<1>2. QED
  BY <1>1 DEF GoOnDown, Doing, ErrandIsKnown

LEMMA Starts == Init => IInv
<1> SUFFICES ASSUME Init PROVE IInv
  OBVIOUS
<1>1. NoFix \in Fix /\ NoFix.source = "none" /\ NoFix.near = Nowhere
  BY DEF NoFix, Fix, Position, Source
<1>2. TypeOK
  <2>1. deadline \in 0..Patience /\ lasted \in 0..Patience
    BY LocatorAssumption DEF Init
  <2>2. known \in Position /\ seen \in SUBSET Places /\ mine \in SUBSET Flag
    BY LocatorAssumption DEF Init, Position
  <2>3. /\ radios \in SUBSET Radio /\ wish \in SUBSET Radio
        /\ stranded \in SUBSET Radio /\ mistaken \in SUBSET Radio
    BY LocatorAssumption DEF Init
  <2>4. saved \in Position /\ copy \in Position
    BY LocatorAssumption DEF Init, Position
  <2>5. doing \in Doing /\ flag \in Flag
    BY DEF Init, Doing, Flag
  <2>6. QED
    BY <1>1, <2>1, <2>2, <2>3, <2>4, <2>5 DEF Init, TypeOK
<1>3. QED
  BY <1>1, <1>2 DEF Init, IInv, ErrandIsKnown, SearchIsPolled, NoSearchSettlesForLess,
                    Searching, CurrentMeansMeasured, TunedBeforeAnswering

\* A step that leaves the search, its clocks and where it has been alone.
LEMMA Elsewhere ==
  ASSUME IInv, UNCHANGED <<clock, search, at>>, answer' = NoFix,
         doing' \in Doing, flag' \in Flag, errand' \in Configs \cup {Nobody},
         ErrandIsKnown',
         radios' \in SUBSET Radio, wish' \in SUBSET Radio,
         stranded' \in SUBSET Radio, mistaken' \in SUBSET Radio,
         mine' \in SUBSET Flag, copy' \in Position, saved' \in Position,
         moves' \in Nat, switches' \in Nat, deaths' \in Nat
  PROVE  IInv'
<1> USE DEF IInv, clock, search
<1>1. NoFix \in Fix /\ NoFix.source = "none" /\ NoFix.near = Nowhere
  BY DEF NoFix, Fix, Position, Source
<1>2. TypeOK'
  BY <1>1 DEF TypeOK
<1>3. Searching'
  BY DEF Searching, FixIsOfThisSearch, ClocksAgree
<1>4. CurrentMeansMeasured' /\ TunedBeforeAnswering'
  BY <1>1 DEF CurrentMeansMeasured, TunedBeforeAnswering
<1>5. QED
  BY <1>2, <1>3, <1>4 DEF SearchIsPolled, NoSearchSettlesForLess

LEMMA RideKeeps ==
  ASSUME IInv, NEW turnOn \in BOOLEAN, Ride(turnOn)
  PROVE  IInv'
<1>1. NoFix \in Fix /\ NoFix.source = "none" /\ NoFix.near = Nowhere
  BY DEF NoFix, Fix, Position, Source
<1>2. TypeOK'
  BY <1>1 DEF IInv, TypeOK, Ride, handler, clock, lent, memory
<1>3. Searching' /\ ErrandIsKnown'
  BY DEF IInv, Searching, FixIsOfThisSearch, ClocksAgree, ErrandIsKnown, Ride,
         handler, clock
<1>4. CurrentMeansMeasured' /\ TunedBeforeAnswering'
  BY <1>1 DEF CurrentMeansMeasured, TunedBeforeAnswering, Ride
<1>5. SearchIsPolled' /\ (polling => busy)' /\ (at \in seen)'
  BY DEF IInv, SearchIsPolled, Ride
<1>6. NoSearchSettlesForLess'
  BY DEF IInv, NoSearchSettlesForLess, Ride, Rides
<1>7. QED
  BY <1>2, <1>3, <1>4, <1>5, <1>6 DEF IInv

\* A search from scratch, with the radios turned on for it or on a Locator that
\* has nothing else to do.
LEMMA SetsOut ==
  ASSUME IInv, NEW s \in Configs, NEW turnOn \in BOOLEAN, SetOut(s, turnOn),
         turnOn \/ ~Rides(FALSE),
         doing' \in Doing, flag' \in Flag, errand' \in Configs \cup {Nobody},
         ErrandIsKnown'
  PROVE  IInv'
<1>0. TypeBefore /\ TypeAfter
  BY TypeSplits DEF IInv
<1>1. PICK near \in Nearby(s) :
        IF s.gnss
        THEN /\ deadline' = Patience
             /\ FirstPoll([NoFix EXCEPT !.near = near], sought \/ turnOn)
        ELSE /\ Complete([NoFix EXCEPT !.near = near])
             /\ tuned' = Unset
             /\ UNCHANGED <<deadline, tuning>>
  BY DEF SetOut
<1> DEFINE start == [NoFix EXCEPT !.near = near]
<1>2. near \in {Nowhere, at}
  BY <1>1 DEF Nearby
<1>3. /\ start \in Fix
      /\ start.source = "none" /\ start.place = Nowhere /\ start.near = near
  BY <1>0, <1>2 DEF NoFix, Fix, Position, Source, TypeBefore
<1>4. /\ lit' = turnOn /\ snapshot' = s /\ known' = copy /\ copy' = copy
      /\ at' = at /\ seen' = {at} /\ lasted' = 0
      /\ UNCHANGED <<lent, moves, deaths>>
  BY DEF SetOut
<1>5. deadline' \in 0..Patience
  BY <1>0, <1>1, LocatorAssumption DEF TypeBefore
<1>6. TypeBefore'
  BY <1>0, <1>4, <1>5, LocatorAssumption DEF TypeBefore, lent
<1>7. at' \in seen' /\ OfThisSearch(start, seen') /\ saved \in Position
  BY <1>0, <1>2, <1>3, <1>4 DEF OfThisSearch, TypeAfter
<1>8. CASE s.gnss
  <2>1. deadline' + lasted' = Patience
    BY <1>1, <1>4, <1>8, LocatorAssumption
  <2>2. sought \/ turnOn => lit'
    BY <1>4 DEF IInv, NoSearchSettlesForLess, Rides
  <2>3. InTime(start, Unset, Unset)
    BY <1>3 DEF InTime
  <2>4. PollGnss(start, Unset, Unset, sought \/ turnOn, TRUE)
    BY <1>1, <1>8 DEF FirstPoll
  <2>5. (sought \/ turnOn) \in BOOLEAN
    BY <1>0 DEF TypeAfter
  <2>6. QED
    BY <1>3, <1>4, <1>6, <1>7, <2>1, <2>2, <2>3, <2>4, <2>5, Polls
<1>9. CASE ~s.gnss
  BY <1>0, <1>1, <1>3, <1>6, <1>7, <1>9, Completes DEF TypeAfter
<1>10. QED
  BY <1>8, <1>9

LEMMA RefreshKeeps ==
  ASSUME IInv, NEW s \in Configs, Refresh(s)
  PROVE  IInv'
<1>1. /\ doing' \in Doing /\ flag' \in Flag /\ errand' \in Configs \cup {Nobody}
      /\ ErrandIsKnown'
  BY DEF Refresh, handler, IInv, TypeOK, ErrandIsKnown
<1>2. QED
  BY <1>1, SetsOut DEF Refresh

LEMMA SearchLitKeeps ==
  ASSUME IInv, SearchLit
  PROVE  IInv'
<1>1. /\ doing' \in Doing /\ flag' \in Flag /\ errand' \in Configs \cup {Nobody}
      /\ ErrandIsKnown'
  BY DEF SearchLit, Doing, IInv, TypeOK, ErrandIsKnown
<1>2. errand \in Configs
  BY DEF SearchLit, IInv, TypeOK, ErrandIsKnown
<1>3. QED
  BY <1>1, <1>2, SetsOut DEF SearchLit

LEMMA PollKeeps == IInv /\ Poll => IInv'
<1> SUFFICES ASSUME IInv, Poll PROVE IInv'
  OBVIOUS
<1>0. TypeBefore /\ TypeAfter
  BY TypeSplits DEF IInv
<1>1. busy /\ polling /\ polling = TRUE
  BY <1>0 DEF Poll, IInv, TypeAfter
<1>2. UNCHANGED <<handler, deadline, lasted, lit, snapshot, known, seen, lent, copy,
                  at, moves, deaths>>
  BY DEF Poll
<1>3. TypeBefore' /\ ErrandIsKnown'
  BY <1>0, <1>2 DEF TypeBefore, lent, handler, IInv, ErrandIsKnown
<1>4. OfThisSearch(fix, seen') /\ deadline' + lasted' = Patience
  BY <1>1, <1>2 DEF IInv, Searching, FixIsOfThisSearch, ClocksAgree, OfThisSearch
<1>5. InTime(fix, tuning, tuned)
  BY <1>0, <1>1 DEF IInv, Searching, ClocksAgree, InTime, TypeAfter
<1>6. sought => lit'
  BY <1>2 DEF IInv, NoSearchSettlesForLess
<1>7. PollGnss(fix, tuning, tuned, sought, TRUE)
  BY <1>1 DEF Poll
<1>8. at \in seen' /\ at' = at /\ fix \in Fix /\ saved \in Position
      /\ sought \in BOOLEAN
  BY <1>0, <1>2 DEF IInv, TypeAfter
<1>9. QED
  BY <1>3, <1>4, <1>5, <1>6, <1>7, <1>8, Polls

\* One poll period: the countdowns and the histories move together.
LEMMA TickKeeps == IInv /\ Tick => IInv'
<1> SUFFICES ASSUME IInv, Tick PROVE IInv'
  OBVIOUS
<1>1. NoFix \in Fix /\ NoFix.source = "none" /\ NoFix.near = Nowhere
  BY DEF NoFix, Fix, Position, Source
<1>2. /\ deadline' = Less(deadline) /\ tuning' = Less(tuning)
      /\ tuned' = More(tuned, Tuning) /\ lasted' = More(lasted, Patience)
      /\ answer' = NoFix
  BY DEF Tick
<1>3. /\ deadline \in 0..Patience /\ lasted \in 0..Patience
      /\ tuning \in (0..Tuning) \cup {Unset} /\ tuned \in (0..Tuning) \cup {Unset}
  BY DEF IInv, TypeOK
<1>4. deadline' \in 0..Patience /\ lasted' \in 0..Patience
  BY <1>2, <1>3, LocatorAssumption DEF Less, More
<1>5. tuning' \in (0..Tuning) \cup {Unset} /\ tuned' \in (0..Tuning) \cup {Unset}
  BY <1>2, <1>3, LocatorAssumption DEF Less, More
<1>6. TypeOK'
  BY <1>1, <1>2, <1>4, <1>5 DEF IInv, TypeOK, Tick, handler, search, lent, memory
<1>7. deadline + lasted = Patience => deadline' + lasted' = Patience
  BY <1>2, <1>3, LocatorAssumption DEF Less, More
<1>8. /\ tuning' = Unset <=> tuning = Unset
      /\ tuned' = Unset <=> tuned = Unset
  BY <1>2, <1>3, LocatorAssumption DEF Less, More
<1>9. (tuning # Unset /\ tuned # Unset /\ tuning + tuned = Tuning)
        => tuning' + tuned' = Tuning
  BY <1>2, <1>3, LocatorAssumption DEF Less, More
<1>10. Searching'
  BY <1>7, <1>8, <1>9 DEF IInv, Searching, ClocksAgree, FixIsOfThisSearch,
                          Tick, search
<1>11. CurrentMeansMeasured' /\ TunedBeforeAnswering'
  BY <1>1, <1>2 DEF CurrentMeansMeasured, TunedBeforeAnswering
<1>12. QED
  BY <1>6, <1>10, <1>11 DEF IInv, SearchIsPolled, NoSearchSettlesForLess,
                            ErrandIsKnown, Tick, handler, search

\* Carried elsewhere: the search has now seen that place too.
LEMMA MoveKeeps ==
  ASSUME IInv, NEW p \in Places, Move(p)
  PROVE  IInv'
<1>1. NoFix \in Fix /\ NoFix.source = "none" /\ NoFix.near = Nowhere
  BY DEF NoFix, Fix, Position, Source
<1>2. TypeOK'
  BY <1>1 DEF IInv, TypeOK, Move, handler, clock, lent, memory
<1>3. Searching'
  BY DEF IInv, Searching, FixIsOfThisSearch, ClocksAgree, Move, clock
<1>4. CurrentMeansMeasured' /\ TunedBeforeAnswering'
  BY <1>1 DEF CurrentMeansMeasured, TunedBeforeAnswering, Move
<1>5. QED
  BY <1>2, <1>3, <1>4
     DEF IInv, SearchIsPolled, NoSearchSettlesForLess, ErrandIsKnown, Move, handler

\* A process that starts again knows of no search.
LEMMA DieKeeps == IInv /\ Die => IInv'
<1> SUFFICES ASSUME IInv, Die PROVE IInv'
  OBVIOUS
<1>1. NoFix \in Fix /\ NoFix.source = "none" /\ NoFix.near = Nowhere
  BY DEF NoFix, Fix, Position, Source
<1>2. TypeOK
  BY DEF IInv
<1>3. /\ doing' \in Doing /\ flag' \in Flag /\ errand' = Nobody
      /\ deadline' \in 0..Patience /\ lasted' \in 0..Patience
  BY LocatorAssumption DEF Die, Doing, Flag
<1>4. stranded' \in SUBSET Radio
  BY <1>2 DEF Die, TypeOK
<1>5. known' \in Position /\ copy' \in Position /\ seen' \in SUBSET Places
  BY <1>2 DEF Die, TypeOK, Position
<1>6. TypeOK'
  <2>1. /\ busy' \in BOOLEAN /\ lit' \in BOOLEAN /\ polling' \in BOOLEAN
        /\ sought' \in BOOLEAN
        /\ snapshot' \in Configs \cup {Nobody}
        /\ tuning' \in (0..Tuning) \cup {Unset}
        /\ tuned' \in (0..Tuning) \cup {Unset} /\ lasted' \in 0..Patience
    <3>1. Nobody \in Configs \cup {Nobody} /\ Unset \in (0..Tuning) \cup {Unset}
          /\ 0 \in 0..Patience /\ FALSE \in BOOLEAN
      BY LocatorAssumption
    <3>2. busy' = FALSE /\ lit' = FALSE /\ polling' = FALSE /\ sought' = FALSE
          /\ tuning' = Unset /\ tuned' = Unset /\ lasted' = 0
          /\ snapshot' = Nobody
      BY DEF Die
    <3>3. QED
      BY <3>1, <3>2
  <2>2. fix' \in Fix /\ answer' \in Fix
    BY <1>1 DEF Die
  <2>3. /\ saved' \in Position /\ radios' \in SUBSET Radio
        /\ wish' \in SUBSET Radio /\ mine' \in SUBSET Flag
        /\ mistaken' \in SUBSET Radio /\ at' \in Places
        /\ moves' \in Nat /\ switches' \in Nat
    BY <1>2 DEF Die, TypeOK
  <2>4. deaths' \in Nat
    BY <1>2 DEF Die, TypeOK
  <2>5. doing' \in Doing /\ flag' \in Flag /\ errand' \in Configs \cup {Nobody}
        /\ deadline' \in 0..Patience
    BY <1>3
  <2>6. QED
    BY <1>4, <1>5, <2>1, <2>2, <2>3, <2>4, <2>5 DEF TypeOK
<1>7. QED
  BY <1>1, <1>6 DEF Die, IInv, ErrandIsKnown, SearchIsPolled, Searching,
     NoSearchSettlesForLess, CurrentMeansMeasured, TunedBeforeAnswering

LEMMA Keeps == IInv /\ [Next]_vars => IInv'
<1> SUFFICES ASSUME IInv, [Next]_vars PROVE IInv'
  OBVIOUS
<1>0. TypeBefore /\ TypeAfter /\ ErrandIsKnown
  BY TypeSplits DEF IInv
<1>1. ASSUME NEW turnOn \in BOOLEAN, Ride(turnOn)
      PROVE  IInv'
  BY <1>1, RideKeeps
<1>2. ASSUME NEW s \in Configs, Refresh(s)
      PROVE  IInv'
  BY <1>2, RefreshKeeps
<1>3. ASSUME NEW s \in Configs, Prepare(s)
      PROVE  IInv'
  <2>1. doing' \in Doing /\ flag' \in Flag /\ ErrandIsKnown'
    BY <1>3 DEF Prepare, Doing, Flag, ErrandIsKnown
  <2>2. QED
    BY <1>0, <1>3, <2>1, Elsewhere DEF Prepare, TypeBefore, TypeAfter, lent, memory
<1>4. CASE LateTurnOn \/ GiveBackRadios
  <2>1. doing' \in Doing /\ flag' \in Flag /\ ErrandIsKnown'
    BY <1>4 DEF LateTurnOn, GiveBackRadios, Doing, Flag, ErrandIsKnown
  <2>2. QED
    BY <1>0, <1>4, <2>1, Elsewhere
       DEF LateTurnOn, GiveBackRadios, TypeBefore, TypeAfter, lent, memory
<1>5. CASE Look
  <2>1. \/ doing' = "turnOn" /\ UNCHANGED <<flag, errand>>
        \/ GoOnUp
    BY <1>5 DEF Look
  <2>2. doing' \in Doing /\ flag' \in Flag /\ errand' = errand /\ ErrandIsKnown'
    BY <1>0, <2>1, GoesOnUp DEF Doing, TypeBefore, ErrandIsKnown
  <2>3. QED
    BY <1>0, <1>5, <2>2, Elsewhere DEF Look, TypeBefore, TypeAfter, lent, memory
<1>6. CASE TurnOn
  BY <1>0, <1>6, Radios, GoesOnUp, Elsewhere
     DEF TurnOn, TypeBefore, TypeAfter, memory
<1>7. CASE GiveBack
  BY <1>0, <1>7, Radios, GoesOnDown, Elsewhere
     DEF GiveBack, TypeBefore, TypeAfter, memory
<1>8. CASE SearchLit
  BY <1>8, SearchLitKeeps
<1>10. CASE Poll
  BY <1>10, PollKeeps
<1>11. CASE Tick
  BY <1>11, TickKeeps
<1>12. CASE Reload
  BY <1>0, <1>12, Elsewhere
     DEF Reload, TypeBefore, TypeAfter, lent, handler, ErrandIsKnown
<1>13. ASSUME NEW p \in Places, Move(p)
       PROVE  IInv'
  BY <1>13, MoveKeeps
<1>14. ASSUME NEW r \in ByHand, Switch(r)
       PROVE  IInv'
  <2>1. r \in Radio
    BY LocatorAssumption
  <2>2. /\ radios' \in SUBSET Radio /\ wish' \in SUBSET Radio
        /\ stranded' \in SUBSET Radio /\ mistaken' \in SUBSET Radio
    BY <1>0, <1>14, <2>1 DEF Switch, TypeBefore
  <2>3. QED
    BY <1>0, <1>14, <2>2, Elsewhere
       DEF Switch, TypeBefore, TypeAfter, memory, handler, ErrandIsKnown
<1>15. CASE Die
  BY <1>15, DieKeeps
<1>9. CASE UNCHANGED vars
  <2>1. TypeOK'
    BY <1>9 DEF IInv, TypeOK, vars, handler, clock, search, lent, memory
  <2>2. Searching'
    BY <1>9 DEF IInv, Searching, FixIsOfThisSearch, ClocksAgree, vars, clock,
                search
  <2>3. CurrentMeansMeasured' /\ TunedBeforeAnswering'
    BY <1>9 DEF IInv, CurrentMeansMeasured, TunedBeforeAnswering, vars, clock,
                search
  <2>4. QED
    BY <1>9, <2>1, <2>2, <2>3
       DEF IInv, SearchIsPolled, NoSearchSettlesForLess, ErrandIsKnown, vars,
           handler, search
<1>16. QED
  BY <1>1, <1>2, <1>3, <1>4, <1>5, <1>6, <1>7, <1>8, <1>9, <1>10, <1>11, <1>12,
     <1>13, <1>14, <1>15 DEF Next

LEMMA Always == Spec => []IInv
BY Starts, Keeps, PTL DEF Spec

\* Type correctness.
THEOREM TypeCorrect == Spec => []TypeOK
<1>1. IInv => TypeOK
  BY DEF IInv
<1>2. QED
  BY <1>1, Always, PTL

-----------------------------------------------------------------------------
\* A search in progress always has its timer running: no first read, ride or
\* restart leaves it hanging.
THEOREM SearchesArePolled == Spec => []SearchIsPolled
<1>1. IInv => SearchIsPolled
  BY DEF IInv
<1>2. QED
  BY <1>1, Always, PTL

\* Whoever searches for the phone never waits on a background refresh.
THEOREM RealSearchesAreReal == Spec => []NoSearchSettlesForLess
<1>1. IInv => NoSearchSettlesForLess
  BY DEF IInv
<1>2. QED
  BY <1>1, Always, PTL

\* pollGnss ends the search and drops everybody's question, or does neither.
LEMMA PollGnssOutcome ==
  ASSUME NEW f, NEW window, NEW since, NEW wanted, NEW armed,
         PollGnss(f, window, since, wanted, armed)
  PROVE  \/ busy' = FALSE /\ sought' = FALSE
         \/ busy' = TRUE /\ sought' = wanted
BY DEF PollGnss, Complete, GoOn

\* What each of the abstract steps is here.
LEMMA SearchStepsHere ==
  ASSUME TypeOK, sought' \in BOOLEAN
  PROVE  /\ busy' /\ lit' /\ sought' \in {sought, TRUE} => Searches!Ask
         /\ ~busy /\ busy' /\ ~lit' /\ sought' = sought => Searches!Refresh
         /\ ~busy' /\ ~sought' => Searches!End
         /\ UNCHANGED <<busy, lit, sought>> => UNCHANGED Searches!vars
<1>1. ASSUME busy', lit', sought' \in {sought, TRUE} PROVE Searches!Ask
  BY <1>1 DEF Searches!Ask
<1>2. ASSUME ~busy, busy', ~lit', sought' = sought PROVE Searches!Refresh
  BY <1>2 DEF Searches!Refresh
<1>3. ASSUME ~busy', ~sought' PROVE Searches!End
  BY <1>3 DEF Searches!End
<1>4. ASSUME UNCHANGED <<busy, lit, sought>> PROVE UNCHANGED Searches!vars
  BY <1>4 DEF Searches!vars
<1>5. QED
  BY <1>1, <1>2, <1>3, <1>4

LEMMA SetOutRefines ==
  ASSUME IInv, IInv', NEW s, NEW turnOn \in BOOLEAN, SetOut(s, turnOn),
         turnOn \/ ~Rides(FALSE)
  PROVE  Searches!Next
<1> USE DEF Searches!Next
<1>0. TypeOK /\ sought' \in BOOLEAN
  BY DEF IInv, TypeOK
<1>1. lit' = turnOn
  BY DEF SetOut
<1>2. \/ busy' = FALSE /\ sought' = FALSE
      \/ busy' = TRUE /\ sought' = (sought \/ turnOn)
  BY PollGnssOutcome DEF SetOut, FirstPoll, Complete
<1>3. CASE busy' = FALSE /\ sought' = FALSE
  BY <1>0, <1>3, SearchStepsHere
<1>4. CASE busy' = TRUE /\ sought' = (sought \/ turnOn) /\ turnOn
  BY <1>0, <1>1, <1>4, SearchStepsHere
<1>5. CASE busy' = TRUE /\ sought' = (sought \/ turnOn) /\ ~turnOn
  <2>1. ~busy
    BY <1>5 DEF Rides
  <2>2. sought' = sought
    BY <1>5, <1>0 DEF TypeOK
  <2>3. QED
    BY <1>0, <1>1, <1>5, <2>1, <2>2, SearchStepsHere
<1>6. QED
  BY <1>2, <1>3, <1>4, <1>5

LEMMA RideRefines ==
  ASSUME IInv, IInv', NEW turnOn \in BOOLEAN, Ride(turnOn)
  PROVE  [Searches!Next]_(Searches!vars)
<1> USE DEF Searches!Next
<1>0. TypeOK /\ sought' \in BOOLEAN
  BY DEF IInv, TypeOK
<1>1. busy' = busy /\ lit' = lit /\ sought' = (sought \/ turnOn)
  BY DEF Ride
<1>2. CASE turnOn
  <2>1. busy /\ lit
    BY <1>2 DEF Ride, Rides
  <2>2. QED
    BY <1>0, <1>1, <1>2, <2>1, SearchStepsHere
<1>3. CASE ~turnOn
  BY <1>0, <1>1, <1>3, SearchStepsHere DEF TypeOK
<1>4. QED
  BY <1>2, <1>3

LEMMA SearchRefines == IInv /\ IInv' /\ [Next]_vars => [Searches!Next]_(Searches!vars)
<1> SUFFICES ASSUME IInv, IInv', [Next]_vars PROVE [Searches!Next]_(Searches!vars)
  OBVIOUS
<1> USE DEF Searches!Next
<1>0. TypeOK /\ sought' \in BOOLEAN
  BY DEF IInv, TypeOK
<1>Q. UNCHANGED <<busy, lit, sought>> => UNCHANGED Searches!vars
  BY <1>0, SearchStepsHere
<1>1. ASSUME NEW turnOn \in BOOLEAN, Ride(turnOn)
      PROVE  [Searches!Next]_(Searches!vars)
  BY <1>1, RideRefines
<1>2. ASSUME NEW s \in Configs, Refresh(s)
      PROVE  [Searches!Next]_(Searches!vars)
  BY <1>2, SetOutRefines DEF Refresh
<1>3. CASE SearchLit
  BY <1>3, SetOutRefines DEF SearchLit
<1>4. CASE Poll
  <2>1. busy = TRUE /\ lit' = lit
    BY <1>0, <1>4 DEF Poll, IInv, TypeOK
  <2>2. \/ busy' = FALSE /\ sought' = FALSE
        \/ busy' = TRUE /\ sought' = sought
    BY <1>4, PollGnssOutcome DEF Poll
  <2>3. QED
    BY <1>0, <1>Q, <2>1, <2>2, SearchStepsHere
<1>5. CASE Die
  BY <1>0, <1>5, SearchStepsHere DEF Die
<1>6. ASSUME NEW s \in Configs, Prepare(s)
      PROVE  [Searches!Next]_(Searches!vars)
  BY <1>6, <1>Q DEF Prepare, search
<1>7. CASE LateTurnOn \/ GiveBackRadios \/ Look \/ TurnOn \/ GiveBack
  BY <1>7, <1>Q DEF LateTurnOn, GiveBackRadios, Look, TurnOn, GiveBack, search
<1>8. CASE Tick \/ Reload
  BY <1>8, <1>Q DEF Tick, Reload, search
<1>9. ASSUME NEW p \in Places, Move(p)
      PROVE  [Searches!Next]_(Searches!vars)
  BY <1>9, <1>Q DEF Move
<1>10. ASSUME NEW r \in ByHand, Switch(r)
       PROVE  [Searches!Next]_(Searches!vars)
  BY <1>10, <1>Q DEF Switch, search
<1>11. CASE UNCHANGED vars
  BY <1>11, <1>Q DEF vars, search
<1>12. QED
  BY <1>1, <1>2, <1>3, <1>4, <1>5, <1>6, <1>7, <1>8, <1>9, <1>10, <1>11 DEF Next

\* Every step of the Locator is one of the steps of Search, or none: whoever
\* looks for the phone keeps a search of their own until it ends.
THEOREM ImplementsTheSearch == Spec => KeepsWhoWaits
<1>1. Init => Searches!Init
  BY DEF Init, Searches!Init
<1>2. QED
  BY <1>1, Always, SearchRefines, PTL DEF Spec, KeepsWhoWaits, Searches!Spec

\* A position presented as current was measured during this very search.
THEOREM CurrentIsMeasured == Spec => []CurrentMeansMeasured
<1>1. IInv => CurrentMeansMeasured
  BY DEF IInv
<1>2. QED
  BY <1>1, Always, PTL

\* No position leaves before its tuning window or its own deadline is over.
THEOREM TunedFirst == Spec => []TunedBeforeAnswering
<1>1. IInv => TunedBeforeAnswering
  BY DEF IInv
<1>2. QED
  BY <1>1, Always, PTL

-----------------------------------------------------------------------------
(***************************************************************************)
(* The radios.  Owed says what the owner's radios may have lost to a loan: *)
(* only what they switched on after it was found off.  Lent says what may  *)
(* be on for a loan.                                                       *)
(***************************************************************************)
Network == {"wifi", "wwan"}

OwnInv ==
  \A r \in Network :
    r \in wish =>
      /\ r \in radios \/ r \in mistaken
      /\ r \in mine => r \in mistaken
      /\ doing = "turnOn" /\ flag = r => r \in mistaken

LentInv == \A r \in Network : r \in radios => r \in wish \/ r \in stranded \/ r \in mine

LEMMA NetworkRadios ==
  ASSUME NEW r \in Network
  PROVE  /\ r \in Radio /\ r # "gps"
         /\ \A f \in Flag : (r \in TurnedOn(f) <=> f = r) /\ (r \in TurnedOff(f) <=> f = r)
BY DEF Network, Radio, Flag, TurnedOn, TurnedOff, Sources, Satellites

LEMMA LookOwn == TypeOK /\ OwnInv /\ Look => OwnInv'
<1> SUFFICES ASSUME TypeOK, OwnInv, Look, NEW r \in Network, r \in wish'
             PROVE  /\ r \in radios' \/ r \in mistaken'
                    /\ r \in mine' => r \in mistaken'
                    /\ doing' = "turnOn" /\ flag' = r => r \in mistaken'
  BY DEF OwnInv
<1>1. UNCHANGED <<radios, mine, wish, mistaken>>
  BY DEF Look, lent
<1>2. ASSUME doing' = "turnOn", flag' = r PROVE r \in mistaken
  <2>1. flag = r /\ \E off \in FoundOff(flag) : off
    BY <1>2 DEF Look, GoOnUp
  <2>2. r \notin radios
    BY <2>1, NetworkRadios DEF FoundOff, Off, TurnedOn
  <2>3. QED
    BY <1>1, <2>2 DEF OwnInv
<1>3. QED
  BY <1>1, <1>2 DEF OwnInv

LEMMA TurnOnOwn == TypeOK /\ OwnInv /\ TurnOn => OwnInv'
<1> SUFFICES ASSUME TypeOK, OwnInv, TurnOn, NEW r \in Network, r \in wish'
             PROVE  /\ r \in radios' \/ r \in mistaken'
                    /\ r \in mine' => r \in mistaken'
                    /\ doing' = "turnOn" /\ flag' = r => r \in mistaken'
  BY DEF OwnInv
<1>1. /\ UNCHANGED <<wish, mistaken>> /\ mine' = mine \cup {flag}
      /\ radios \subseteq radios' /\ doing = "turnOn" /\ doing' # "turnOn"
  BY DEF TurnOn, GoOnUp
<1>2. QED
  BY <1>1 DEF OwnInv

LEMMA GiveBackOwn == TypeOK /\ OwnInv /\ GiveBack => OwnInv'
<1> SUFFICES ASSUME TypeOK, OwnInv, GiveBack, NEW r \in Network, r \in wish'
             PROVE  /\ r \in radios' \/ r \in mistaken'
                    /\ r \in mine' => r \in mistaken'
                    /\ doing' = "turnOn" /\ flag' = r => r \in mistaken'
  BY DEF OwnInv
<1>1. /\ UNCHANGED <<wish, mistaken>> /\ mine' \subseteq mine /\ doing' # "turnOn"
  BY DEF GiveBack, GoOnDown
<1>2. r \in radios' \/ r \in mistaken
  <2>1. CASE flag \in mine /\ \E obeyed \in Obeying(TurnedOff(flag)) : radios' = radios \ obeyed
    <3>1. PICK obeyed \in Obeying(TurnedOff(flag)) : radios' = radios \ obeyed
      BY <2>1
    <3>2. obeyed \subseteq TurnedOff(flag)
      BY DEF Obeying
    <3>3. CASE flag = r
      BY <1>1, <2>1, <3>3 DEF OwnInv
    <3>4. CASE flag # r
      <4>1. r \notin obeyed
        BY <3>2, <3>4, NetworkRadios DEF TypeOK
      <4>2. QED
        BY <1>1, <3>1, <4>1 DEF OwnInv
    <3>5. QED
      BY <3>3, <3>4
  <2>2. CASE UNCHANGED <<radios, mine>>
    BY <1>1, <2>2 DEF OwnInv
  <2>3. QED
    BY <2>1, <2>2 DEF GiveBack
<1>3. QED
  BY <1>1, <1>2 DEF OwnInv

LEMMA LoanOfNetwork ==
  ASSUME TypeOK, NEW r \in Network
  PROVE  /\ OnLoan(r) <=> r \in mine
         /\ AboutToBeTold(r) <=> doing = "turnOn" /\ flag = r
BY NetworkRadios DEF TypeOK, OnLoan, AboutToBeTold, Network, Flag

LEMMA SwitchOwn ==
  ASSUME TypeOK, OwnInv, NEW q \in ByHand, Switch(q)
  PROVE  OwnInv'
<1> SUFFICES ASSUME NEW r \in Network, r \in wish'
             PROVE  /\ r \in radios' \/ r \in mistaken'
                    /\ r \in mine' => r \in mistaken'
                    /\ doing' = "turnOn" /\ flag' = r => r \in mistaken'
  BY DEF OwnInv
<1>1. UNCHANGED <<mine, doing, flag>>
  BY DEF Switch, handler
<1>2. CASE OnLoan(q)
  <2>1. /\ UNCHANGED <<wish, mistaken>>
        /\ q # r => (r \in radios' <=> r \in radios)
    BY <1>2 DEF Switch
  <2>2. q = r => r \in mine
    BY <1>2, LoanOfNetwork
  <2>3. QED
    BY <1>1, <2>1, <2>2 DEF OwnInv
<1>3. CASE ~OnLoan(q) /\ q # r
  <2>1. /\ r \in radios' <=> r \in radios
        /\ r \in wish' <=> r \in wish
        /\ r \in mistaken' <=> r \in mistaken
    BY <1>3 DEF Switch
  <2>2. QED
    BY <1>1, <2>1 DEF OwnInv
<1>4. CASE ~OnLoan(q) /\ q = r
  <2>1. r \notin radios /\ r \in radios' /\ r \notin mine
    BY <1>4, LoanOfNetwork DEF Switch
  <2>2. doing = "turnOn" /\ flag = r => r \in mistaken'
    BY <1>4, <2>1, LoanOfNetwork DEF Switch
  <2>3. QED
    BY <1>1, <2>1, <2>2
<1>5. QED
  BY <1>2, <1>3, <1>4

\* The steps that tell no radio anything.
Quiet == UNCHANGED <<radios, mine, wish, stranded, mistaken>>

LEMMA QuietSteps ==
  ASSUME [Next]_vars
  PROVE  \/ Look \/ TurnOn \/ GiveBack \/ Die
         \/ \E r \in ByHand : Switch(r)
         \/ Quiet /\ UNCHANGED <<doing, flag>>
         \/ Quiet /\ doing' # "turnOn"
<1>1. (\E turnOn \in BOOLEAN : Ride(turnOn)) => Quiet /\ UNCHANGED <<doing, flag>>
  BY DEF Ride, Quiet, lent, handler
<1>2. (\E s \in Configs : Refresh(s)) => Quiet /\ UNCHANGED <<doing, flag>>
  BY DEF Refresh, SetOut, Quiet, lent, handler
<1>3. (\E s \in Configs : Prepare(s)) => Quiet /\ doing' # "turnOn"
  BY DEF Prepare, Quiet, lent
<1>4. LateTurnOn \/ GiveBackRadios => Quiet /\ doing' # "turnOn"
  BY DEF LateTurnOn, GiveBackRadios, Quiet, lent
<1>5. SearchLit => Quiet /\ doing' # "turnOn"
  BY DEF SearchLit, SetOut, Quiet, lent
<1>6. Poll \/ Tick \/ Reload => Quiet /\ UNCHANGED <<doing, flag>>
  BY DEF Poll, Tick, Reload, Quiet, lent, handler
<1>7. (\E p \in Places : Move(p)) => Quiet /\ UNCHANGED <<doing, flag>>
  BY DEF Move, Quiet, lent, handler
<1>8. UNCHANGED vars => Quiet /\ UNCHANGED <<doing, flag>>
  BY DEF vars, Quiet, lent, handler
<1>9. QED
  BY <1>1, <1>2, <1>3, <1>4, <1>5, <1>6, <1>7, <1>8 DEF Next

LEMMA OwnKeeps == TypeOK /\ OwnInv /\ [Next]_vars => OwnInv'
<1> SUFFICES ASSUME TypeOK, OwnInv, [Next]_vars PROVE OwnInv'
  OBVIOUS
<1>1. CASE Look \/ TurnOn \/ GiveBack
  BY <1>1, LookOwn, TurnOnOwn, GiveBackOwn
<1>2. CASE Die
  BY <1>2 DEF Die, OwnInv
<1>3. CASE \E r \in ByHand : Switch(r)
  BY <1>3, SwitchOwn
<1>4. CASE Quiet /\ (UNCHANGED <<doing, flag>> \/ doing' # "turnOn")
  BY <1>4 DEF Quiet, OwnInv
<1>5. QED
  BY <1>1, <1>2, <1>3, <1>4, QuietSteps

LEMMA LentKeeps == ~RadiosFail /\ TypeOK /\ LentInv /\ [Next]_vars => LentInv'
<1> SUFFICES ASSUME ~RadiosFail, TypeOK, LentInv, [Next]_vars, NEW r \in Network,
                    r \in radios'
             PROVE  r \in wish' \/ r \in stranded' \/ r \in mine'
  BY DEF LentInv
<1>1. CASE Look
  BY <1>1 DEF Look, lent, LentInv
<1>2. CASE TurnOn
  <2>1. radios' = radios \cup TurnedOn(flag) /\ mine' = mine \cup {flag}
    BY <1>2 DEF TurnOn, Obeying
  <2>2. r \in radios \/ r = flag
    BY <2>1, NetworkRadios DEF TypeOK
  <2>3. UNCHANGED <<wish, stranded>>
    BY <1>2 DEF TurnOn
  <2>4. QED
    BY <2>1, <2>2, <2>3 DEF LentInv
<1>3. CASE GiveBack
  <2>1. UNCHANGED <<wish, stranded>>
    BY <1>3 DEF GiveBack
  <2>2. CASE flag \in mine
    <3>1. radios' = radios \ TurnedOff(flag) /\ mine' = mine \ {flag}
      BY <1>3, <2>2 DEF GiveBack, Obeying
    <3>2. r # flag /\ r \in radios
      BY <3>1, NetworkRadios DEF TypeOK
    <3>3. QED
      BY <2>1, <3>1, <3>2 DEF LentInv
  <2>3. CASE flag \notin mine
    BY <1>3, <2>1, <2>3 DEF GiveBack, LentInv
  <2>4. QED
    BY <2>2, <2>3
<1>4. CASE Die
  <2>1. /\ radios' = radios /\ wish' = wish
        /\ stranded' = stranded \cup {q \in radios \ wish : OnLoan(q)}
    BY <1>4 DEF Die
  <2>2. r \in mine => OnLoan(r)
    BY LoanOfNetwork
  <2>3. QED
    BY <2>1, <2>2 DEF LentInv
<1>5. ASSUME NEW q \in ByHand, Switch(q)
      PROVE  r \in wish' \/ r \in stranded' \/ r \in mine'
  <2>1. mine' = mine
    BY <1>5 DEF Switch
  <2>2. CASE OnLoan(q)
    <3>1. UNCHANGED <<wish, stranded>> /\ (q = r \/ r \in radios)
      BY <1>5, <2>2 DEF Switch
    <3>2. q = r => r \in mine
      BY <2>2, LoanOfNetwork
    <3>3. QED
      BY <2>1, <3>1, <3>2 DEF LentInv
  <2>3. CASE ~OnLoan(q) /\ q = r
    BY <1>5, <2>3 DEF Switch
  <2>4. CASE ~OnLoan(q) /\ q # r
    <3>1. /\ r \in radios
          /\ r \in wish' <=> r \in wish
          /\ r \in stranded' <=> r \in stranded
      BY <1>5, <2>4 DEF Switch
    <3>2. QED
      BY <2>1, <3>1 DEF LentInv
  <2>5. QED
    BY <2>2, <2>3, <2>4
<1>6. CASE Quiet
  BY <1>6 DEF Quiet, LentInv
<1>7. QED
  BY <1>1, <1>2, <1>3, <1>4, <1>5, <1>6, QuietSteps

LEMMA RadiosAtFirst == Init => OwnInv /\ LentInv
BY DEF Init, OwnInv, LentInv

\* When the radios obey, Wi-Fi and the modem's radio are as their owner had
\* them whenever they are not on loan; but for what a process left on when it
\* died, and what was switched on after it was found off.
THEOREM RadiosComeBack == ~RadiosFail => (Spec => []RadiosAreGivenBack)
<1> SUFFICES ASSUME ~RadiosFail PROVE Spec => []RadiosAreGivenBack
  OBVIOUS
<1>1. TypeOK /\ OwnInv /\ LentInv /\ [Next]_vars => (OwnInv /\ LentInv)'
  BY OwnKeeps, LentKeeps
<1>2. OwnInv /\ LentInv => RadiosAreGivenBack
  BY DEF OwnInv, LentInv, RadiosAreGivenBack, Network
<1>3. QED
  BY <1>1, <1>2, RadiosAtFirst, TypeCorrect, PTL DEF Spec

\* So a process that does not die leaves no radio on: the loss is that of
\* m_encendiWifi and m_encendiWwan, and of nothing else.
THEOREM OnlyADeathLeavesThemOn ==
  ~RadiosFail /\ MaxDeaths = 0 => (Spec => []RadiosAreAsTheyWere)
<1> SUFFICES ASSUME ~RadiosFail, MaxDeaths = 0 PROVE Spec => []RadiosAreAsTheyWere
  OBVIOUS
<1> DEFINE Alive == stranded = {} /\ deaths = 0
<1>1. Init => Alive
  BY DEF Init
<1>2. TypeOK /\ Alive /\ [Next]_vars => Alive'
  <2> SUFFICES ASSUME TypeOK, Alive, [Next]_vars PROVE Alive'
    OBVIOUS
  <2>1. ~Die
    BY DEF Die
  <2>2. stranded' = {}
    <3>1. CASE Look \/ TurnOn \/ GiveBack
      BY <3>1 DEF Look, TurnOn, GiveBack, lent
    <3>2. CASE \E r \in ByHand : Switch(r)
      BY <3>2 DEF Switch
    <3>3. CASE Quiet
      BY <3>3 DEF Quiet
    <3>4. QED
      BY <2>1, <3>1, <3>2, <3>3, QuietSteps
  <2>3. deaths' = deaths
    BY <2>1 DEF Next, Ride, Refresh, Prepare, LateTurnOn, Look, TurnOn, SearchLit,
       SetOut, GiveBackRadios, GiveBack, Poll, Tick, Reload, Move, Switch, vars
  <2>4. QED
    BY <2>2, <2>3
<1>3. Alive /\ RadiosAreGivenBack => RadiosAreAsTheyWere
  BY DEF RadiosAreGivenBack, RadiosAreAsTheyWere
<1>4. QED
  BY <1>1, <1>2, <1>3, RadiosComeBack, TypeCorrect, PTL DEF Spec

\* Wi-Fi and the modem's radio are never switched off on an owner who has them
\* on, whether or not nmcli does what it is told, and whether or not the process
\* dies; but for what was switched on after it was found off.
THEOREM OwnersRadiosStay == Spec => []OwnersRadiosStayOn
<1>1. OwnInv => OwnersRadiosStayOn
  BY DEF OwnInv, OwnersRadiosStayOn, Network
<1>2. QED
  BY <1>1, RadiosAtFirst, OwnKeeps, TypeCorrect, PTL DEF Spec
=============================================================================
