------------------------------ MODULE Locator ------------------------------
(***************************************************************************)
(* Locator (src/src/locator.cpp): one search for the phone at a time, the  *)
(* radios it borrows for it, and the last position it keeps on disk.       *)
(*                                                                         *)
(* A position is a place; a fix keeps the place its coordinates are of and *)
(* the place whose Wi-Fi and cell it carries.  Time is counted in polls of *)
(* five seconds: deadline and tuning are what is left until m_deadline and *)
(* m_refining.                                                             *)
(*                                                                         *)
(* The callers are handlers of the daemon, one at a time, and each of them *)
(* runs to its end.  What it reads and writes of the process itself is one *)
(* action; but it asks after every radio, and switches it, with a command  *)
(* of its own, and between two of them the owner may switch one by hand or *)
(* the process may die.                                                    *)
(***************************************************************************)
EXTENDS Naturals

CONSTANTS Places,      \* where the phone may be
          Nowhere,     \* no position
          Configs,     \* the settings a search may be started with
          Patience,    \* polls until a search gives up
          Tuning,      \* polls it goes on after the first position (4)
          Unset,       \* an invalid QDateTime
          BeginsAt,    \* where it may be at first
          AtFirst,     \* the radios the owner may have on at first
          KnownAtFirst,  \* the last known positions the file may begin with
          ByHand,      \* the radios the owner may switch by hand
          RadiosFail,  \* nmcli and mmcli may not do what they are told
          Nobody,      \* no search's settings
          MaxMoves,    \* bound: how often the phone is taken elsewhere
          MaxSwitches, \* bound: how often the owner switches a radio
          MaxDeaths    \* bound: deaths of the process

Settings == [gnss : BOOLEAN, context : BOOLEAN, lastKnown : BOOLEAN]

Satellites == {"gps-raw", "gps-nmea"}
Sources == Satellites \cup {"3gpp"}       \* mmcli treats them as a set
Radio == {"wifi", "wwan"} \cup Sources

ASSUME LocatorAssumption ==
  /\ Nowhere \notin Places
  /\ Configs \subseteq Settings
  /\ Patience \in Nat \ {0} /\ Tuning \in Nat \ {0}
  /\ Unset \notin Nat
  /\ BeginsAt \subseteq Places
  /\ AtFirst \subseteq SUBSET Radio
  /\ KnownAtFirst \subseteq Places \cup {Nowhere}
  /\ ByHand \subseteq Radio
  /\ RadiosFail \in BOOLEAN
  /\ Nobody \notin Configs
  /\ MaxMoves \in Nat /\ MaxSwitches \in Nat /\ MaxDeaths \in Nat

VARIABLES
  doing,     \* what the handler does next: nothing outside of handlers
  flag,      \* the radio it does it with
  errand,    \* the settings of the search it turns the radios on for
  busy,      \* m_busy
  lit,       \* m_encendio: this search turned the radios on
  snapshot,  \* m_settings
  polling,   \* m_poll runs
  deadline,  \* until m_deadline
  tuning,    \* until m_refining, Unset before the first position
  fix,       \* m_fix
  known,     \* m_settings.lastKnown, as the search took it with it
  radios,    \* what is on
  mine,      \* m_encendiWifi, m_encendiWwan, m_encendiGps
  copy,      \* the daemon's own m_settings.lastKnown
  saved,     \* the one in the file
  at,        \* where the phone is
  moves, switches, deaths,
  answer,    \* history: the fix that the last step reported
  seen,      \* history: where it has been since the search began
  tuned,     \* history: polls since the first position of this search
  lasted,    \* history: polls since the search began
  sought,    \* history: somebody asked for a real search since the last fix
  wish,      \* history: the radios as the owner has them
  stranded,  \* history: borrowed, and left on by a process that died
  mistaken   \* history: switched on by the owner after they were found off and
             \* before they were told to go on

clock == <<deadline, tuning, tuned, lasted>>
search == <<busy, lit, snapshot, polling, fix, known, seen, sought>>
handler == <<doing, flag, errand>>
lent == <<radios, mine, wish, stranded, mistaken, switches>>
memory == <<copy, saved>>
vars == <<handler, clock, search, lent, memory, at, moves, deaths, answer>>

Position == Places \cup {Nowhere}
Source == {"none", "gnss", "last-known"}
Fix == [place : Position, near : Position, source : Source]
NoFix == [place |-> Nowhere, near |-> Nowhere, source |-> "none"]

Doing == {"nothing", "look", "turnOn", "search", "giveBack"}
Flag == {"wifi", "wwan", "gps"}

\* The radios of a flag, as they are told to go on and as they are told to go off.
TurnedOn(f) == IF f = "gps" THEN Sources ELSE {f}
TurnedOff(f) == IF f = "gps" THEN Satellites ELSE {f}

Init ==
  /\ busy = FALSE /\ lit = FALSE /\ polling = FALSE
  /\ snapshot = Nobody
  /\ deadline = 0 /\ tuning = Unset
  /\ fix = NoFix /\ known = Nowhere
  /\ doing = "nothing" /\ flag = "wifi" /\ errand = Nobody
  /\ radios \in AtFirst /\ wish = radios /\ mine = {}
  /\ stranded = {} /\ mistaken = {}
  /\ saved \in KnownAtFirst /\ copy = saved
  /\ at \in BeginsAt /\ moves = 0 /\ switches = 0 /\ deaths = 0
  /\ answer = NoFix /\ seen = {at} /\ tuned = Unset /\ lasted = 0
  /\ sought = FALSE

-----------------------------------------------------------------------------
(***************************************************************************)
(* The radios.  turnOnWhatIsNeeded asks after each and tells it to go on   *)
(* if it is off; giveBackRadios goes the other way.                        *)
(***************************************************************************)
\* Told to switch all of them; which of them did.
Obeying(all) == IF RadiosFail THEN SUBSET all ELSE {all}

Off(f) == ~(TurnedOn(f) \subseteq radios)

\* What the question is taken to have said.  When nmcli does not answer, a radio
\* is not "disabled"; when mmcli does not, no location source is "enabled".
FoundOff(f) == {Off(f)} \cup IF RadiosFail THEN {f = "gps"} ELSE {}

NextUp == [wifi |-> "wwan", wwan |-> "gps", gps |-> "wifi"]
NextDown == [gps |-> "wwan", wwan |-> "wifi", wifi |-> "wifi"]

GoOnUp ==
  /\ doing' = IF flag # "gps" THEN "look"
              ELSE IF errand = Nobody THEN "nothing" ELSE "search"
  /\ flag' = NextUp[flag]
  /\ UNCHANGED errand

GoOnDown ==
  /\ doing' = IF flag = "wifi" THEN "nothing" ELSE "giveBack"
  /\ flag' = NextDown[flag]
  /\ UNCHANGED errand

Look ==
  /\ doing = "look"
  /\ \E off \in FoundOff(flag) :
       IF off THEN doing' = "turnOn" /\ UNCHANGED <<flag, errand>> ELSE GoOnUp
  /\ answer' = NoFix
  /\ UNCHANGED <<clock, search, lent, memory, at, moves, deaths>>

TurnOnForgetful ==
  /\ doing = "turnOn"
  /\ mine' = {flag}
  /\ \E obeyed \in Obeying(TurnedOn(flag)) : radios' = radios \cup obeyed
  /\ GoOnUp
  /\ answer' = NoFix
  /\ UNCHANGED <<clock, search, wish, stranded, mistaken, switches, memory, at,
                 moves, deaths>>

TurnOn ==
  /\ doing = "turnOn"
  /\ mine' = mine \cup {flag}
  /\ \E obeyed \in Obeying(TurnedOn(flag)) : radios' = radios \cup obeyed
  /\ GoOnUp
  /\ answer' = NoFix
  /\ UNCHANGED <<clock, search, wish, stranded, mistaken, switches, memory, at,
                 moves, deaths>>

\* The single shot after a ring or a lock order.
LateTurnOn ==
  /\ doing = "nothing"
  /\ doing' = "look" /\ flag' = "wifi" /\ errand' = Nobody
  /\ answer' = NoFix
  /\ UNCHANGED <<clock, search, lent, memory, at, moves, deaths>>

\* When the alarm goes quiet on a phone that is not lost.
GiveBackRadios ==
  /\ doing = "nothing" /\ mine # {}
  /\ doing' = "giveBack" /\ flag' = "gps" /\ errand' = Nobody
  /\ answer' = NoFix
  /\ UNCHANGED <<clock, search, lent, memory, at, moves, deaths>>

GiveBack ==
  /\ doing = "giveBack"
  /\ \/ /\ flag \in mine
        /\ \E obeyed \in Obeying(TurnedOff(flag)) : radios' = radios \ obeyed
        /\ mine' = mine \ {flag}
     \/ flag \notin mine /\ UNCHANGED <<radios, mine>>
  /\ GoOnDown
  /\ answer' = NoFix
  /\ UNCHANGED <<clock, search, wish, stranded, mistaken, switches, memory, at,
                 moves, deaths>>

-----------------------------------------------------------------------------
(***************************************************************************)
(* The search.  f is m_fix so far.  Locate and Poll have set the settings, *)
(* the radios and the deadline by the time pollGnss looks at them.         *)
(***************************************************************************)
\* readCell and readWifi: whatever of its surroundings the phone can name.
Nearby(s) == {Nowhere} \cup IF s.context THEN {at} ELSE {}

\* readGnss, from the modem's own words or from an NMEA sentence.
ReadGnss(f) == [f EXCEPT !.place = at, !.source = "gnss"]

\* What complete() reports: what was measured, or what was saved.
ReportedAsCurrent(f) ==
  IF f.place = Nowhere /\ snapshot'.lastKnown /\ known' # Nowhere
  THEN [f EXCEPT !.place = known', !.source = "gnss"] ELSE f

Reported(f) ==
  IF f.place = Nowhere /\ snapshot'.lastKnown /\ known' # Nowhere
  THEN [f EXCEPT !.place = known', !.source = "last-known"] ELSE f

\* complete() saves what was measured.  The daemon drops everybody's question with
\* the answer; what m_fix holds from here on nobody reads.
Complete(f) ==
  /\ polling' = FALSE /\ busy' = FALSE /\ sought' = FALSE
  /\ answer' = Reported(f) /\ fix' = NoFix
  /\ saved' = IF f.place # Nowhere THEN f.place ELSE saved

GoOn(f, wanted, armed) ==
  /\ polling' = armed /\ busy' = TRUE /\ sought' = wanted
  /\ fix' = f /\ answer' = NoFix
  /\ UNCHANGED saved

\* pollGnss.  A position needs a satellite source that is on, and the sky; the
\* first one opens the tuning window, which cannot outlast the deadline.
PollGnss(f, window, since, wanted, armed) ==
  \/ /\ radios \cap Satellites # {}
     /\ tuning' = IF window = Unset THEN Tuning ELSE window
     /\ tuned' = IF since = Unset THEN 0 ELSE since
     /\ IF tuning' > 0 /\ deadline' > 0
        THEN GoOn(ReadGnss(f), wanted, armed)
        ELSE Complete(ReadGnss(f))
  \/ /\ tuning' = window /\ tuned' = since
     /\ IF deadline' = 0 THEN Complete(f) ELSE GoOn(f, wanted, armed)

FirstPollInOldWindow(f, wanted) == PollGnss(f, tuning, Unset, wanted, TRUE)

FirstPollBeforeTheTimer(f, wanted) == PollGnss(f, Unset, Unset, wanted, FALSE)

\* The tuning window and the timer are set before the first read.
FirstPoll(f, wanted) == PollGnss(f, Unset, Unset, wanted, TRUE)

RidesOnAnything(turnOn) == busy

\* A second attempt rides on the first; a real search not on a refresh.
Rides(turnOn) == busy /\ (~turnOn \/ lit)

Ride(turnOn) ==
  /\ doing = "nothing" /\ Rides(turnOn)
  /\ sought' = (sought \/ turnOn)
  /\ answer' = NoFix
  /\ UNCHANGED <<handler, clock, busy, lit, snapshot, polling, fix, known, seen,
                 lent, memory, at, moves, deaths>>

\* locate(): from scratch, with what the cheap channels know at once.
SetOut(s, turnOn) ==
  /\ lit' = turnOn /\ snapshot' = s /\ known' = copy
  /\ seen' = {at} /\ lasted' = 0
  /\ \E near \in Nearby(s) :
       LET start == [NoFix EXCEPT !.near = near]
       IN  IF s.gnss
           THEN deadline' = Patience /\ FirstPoll(start, sought \/ turnOn)
           ELSE /\ Complete(start)
                /\ tuned' = Unset
                /\ UNCHANGED <<deadline, tuning>>
  /\ UNCHANGED <<lent, copy, at, moves, deaths>>

\* The background refresh makes do with whatever is on.
Refresh(s) ==
  /\ doing = "nothing" /\ ~Rides(FALSE)
  /\ SetOut(s, FALSE)
  /\ UNCHANGED handler

\* Who searches for the phone turns everything on first.  What locate() writes
\* before that nobody reads until it is done.
Prepare(s) ==
  /\ doing = "nothing" /\ ~Rides(TRUE)
  /\ doing' = "look" /\ flag' = "wifi" /\ errand' = s
  /\ answer' = NoFix
  /\ UNCHANGED <<clock, search, lent, memory, at, moves, deaths>>

SearchLit ==
  /\ doing = "search"
  /\ SetOut(errand, TRUE)
  /\ doing' = "nothing" /\ errand' = Nobody /\ UNCHANGED flag

\* m_poll fires.
Poll ==
  /\ doing = "nothing" /\ polling
  /\ UNCHANGED <<handler, deadline, lasted, lit, snapshot, known, seen, lent, copy,
                 at, moves, deaths>>
  /\ PollGnss(fix, tuning, tuned, sought, polling)

-----------------------------------------------------------------------------
(***************************************************************************)
(* Time, the settings file, the owner and whoever carries the phone.       *)
(***************************************************************************)
Less(n) == IF n \in {0, Unset} THEN n ELSE n - 1
More(n, most) == IF n = Unset \/ n = most THEN n ELSE n + 1

\* Nobody looks at the clock, or at where the phone is, between two commands of a
\* handler: what passes inside it may as well pass before or after.
Tick ==
  /\ doing = "nothing"
  /\ busy \/ tuning \notin {0, Unset}
  /\ deadline' = Less(deadline) /\ tuning' = Less(tuning)
  /\ tuned' = More(tuned, Tuning) /\ lasted' = More(lasted, Patience)
  /\ answer' = NoFix
  /\ UNCHANGED <<handler, search, lent, memory, at, moves, deaths>>

\* The position just saved changed the settings file: the daemon reloads it.
Reload ==
  /\ doing = "nothing" /\ copy # saved
  /\ copy' = saved
  /\ answer' = NoFix
  /\ UNCHANGED <<handler, clock, search, lent, saved, at, moves, deaths>>

Move(p) ==
  /\ doing = "nothing"
  /\ moves < MaxMoves /\ moves' = moves + 1
  /\ p # at /\ at' = p
  /\ seen' = seen \cup {p}
  /\ answer' = NoFix
  /\ UNCHANGED <<handler, clock, busy, lit, snapshot, polling, fix, known, sought,
                 lent, memory, deaths>>

\* By hand.  A radio that is on loan is not the owner's until it is back.
OnLoan(r) == \E f \in mine : r \in TurnedOn(f)

AboutToBeTold(r) == doing = "turnOn" /\ r \in TurnedOn(flag)

Switch(r) ==
  /\ switches < MaxSwitches /\ switches' = switches + 1
  /\ radios' = IF r \in radios THEN radios \ {r} ELSE radios \cup {r}
  /\ IF OnLoan(r)
     THEN UNCHANGED <<wish, stranded, mistaken>>
     ELSE /\ wish' = IF r \in radios THEN wish \ {r} ELSE wish \cup {r}
          /\ stranded' = stranded \ {r}
          /\ mistaken' = IF AboutToBeTold(r) /\ r \notin radios
                         THEN mistaken \cup {r} ELSE mistaken \ {r}
  /\ answer' = NoFix
  /\ UNCHANGED <<handler, clock, search, mine, memory, at, moves, deaths>>

\* The process dies and starts again.  What was borrowed is known to nobody then,
\* and stays on.
Die ==
  /\ deaths < MaxDeaths /\ deaths' = deaths + 1
  /\ doing' = "nothing" /\ flag' = "wifi" /\ errand' = Nobody
  /\ busy' = FALSE /\ lit' = FALSE /\ polling' = FALSE /\ sought' = FALSE
  /\ deadline' = 0 /\ tuning' = Unset /\ tuned' = Unset /\ lasted' = 0
  /\ snapshot' = Nobody /\ fix' = NoFix /\ answer' = NoFix /\ seen' = {at}
  /\ known' = Nowhere /\ copy' = saved
  /\ mine' = {}
  /\ stranded' = stranded \cup {r \in radios \ wish : OnLoan(r)}
  /\ UNCHANGED <<radios, wish, mistaken, switches, saved, at, moves>>

-----------------------------------------------------------------------------
Handler == Look \/ TurnOn \/ GiveBack \/ SearchLit

Next ==
  \/ \E turnOn \in BOOLEAN : Ride(turnOn)
  \/ \E s \in Configs : Refresh(s)
  \/ \E s \in Configs : Prepare(s)
  \/ LateTurnOn
  \/ Look
  \/ TurnOn
  \/ SearchLit
  \/ GiveBackRadios
  \/ GiveBack
  \/ Poll
  \/ Tick
  \/ Reload
  \/ \E p \in Places : Move(p)
  \/ \E r \in ByHand : Switch(r)
  \/ Die

Spec == Init /\ [][Next]_vars

\* Time passes, a handler runs on, and the event loop gives the poll timer its
\* turn, whatever other handlers there are to run.
FairSpec == Spec /\ SF_vars(Poll) /\ SF_vars(Tick) /\ WF_vars(Handler)

-----------------------------------------------------------------------------
(***************************************************************************)
(* Properties.                                                             *)
(***************************************************************************)
\* Every variable keeps its type.
TypeOK ==
  /\ doing \in Doing /\ flag \in Flag /\ errand \in Configs \cup {Nobody}
  /\ busy \in BOOLEAN /\ lit \in BOOLEAN /\ polling \in BOOLEAN
  /\ sought \in BOOLEAN
  /\ snapshot \in Configs \cup {Nobody}
  /\ deadline \in 0..Patience /\ tuning \in (0..Tuning) \cup {Unset}
  /\ tuned \in (0..Tuning) \cup {Unset} /\ lasted \in 0..Patience
  /\ fix \in Fix /\ answer \in Fix
  /\ known \in Position /\ copy \in Position /\ saved \in Position
  /\ radios \in SUBSET Radio /\ wish \in SUBSET Radio /\ mine \in SUBSET Flag
  /\ stranded \in SUBSET Radio /\ mistaken \in SUBSET Radio
  /\ at \in Places /\ seen \in SUBSET Places
  /\ moves \in Nat /\ switches \in Nat /\ deaths \in Nat

\* A search in progress has its timer running, whatever the first read found
\* (locator.cpp 390-397: "leaving the location hung for ever").
SearchIsPolled == busy => polling

\* Whoever is searching for the phone waits on a search that turned the radios
\* on, never on a background refresh (locator.cpp 335-344).
NoSearchSettlesForLess == sought => busy /\ lit

\* The same over time: the search that somebody waits on is neither left nor
\* replaced by a background refresh, through rides, restarts and first polls
\* (locate and complete, locator.cpp 330-400 and 435-451).
Searches == INSTANCE Search WITH
              kind <- IF ~busy THEN "idle" ELSE IF lit THEN "full" ELSE "refresh",
              waiting <- sought

KeepsWhoWaits == Searches!Spec

\* What is presented as current was seen during this very search: neither the
\* fix of the last one nor the position kept from before (locator.cpp 439-441).
CurrentMeansMeasured ==
  /\ answer.source = "gnss" => answer.place \in seen
  /\ answer.near # Nowhere => answer.near \in seen

\* A position is answered after it was tuned for its whole window, or at the
\* deadline of its own search, never of the last one (locator.cpp 380-386).
TunedBeforeAnswering ==
  answer.source = "gnss" => tuned = Tuning \/ lasted = Patience

\* A network radio that is not on loan is as its owner had it, however many
\* searches and alarms borrowed it in between; but for the one a process left on
\* when it died, and the one the owner switched on between a question and an
\* order (locator.cpp 239-260 and 292-328).
RadiosAreGivenBack ==
  \A r \in {"wifi", "wwan"} \ mine :
    /\ r \in radios => r \in wish \/ r \in stranded
    /\ r \in wish => r \in radios \/ r \in mistaken

\* Wi-Fi and the modem's radio are never switched off on an owner who has them
\* on and did not reach for them in that very moment, not even when nmcli does not
\* do what it is told (locator.h 89-91).
OwnersRadiosStayOn ==
  \A r \in {"wifi", "wwan"} : r \in wish => r \in radios \/ r \in mistaken

\* A search ends.
SearchEnds == busy ~> ~busy

-----------------------------------------------------------------------------
\* "Leaves Wi-Fi, the modem radio and the GPS as they were BEFORE we turned
\* them on, and only what we turned on ourselves" (locator.h 89-91).
GpsIsGivenBack ==
  "gps" \notin mine => \A r \in Satellites : r \in radios <=> r \in wish

\* The same of Wi-Fi and the modem's radio, whatever happens to the process.
RadiosAreAsTheyWere ==
  \A r \in {"wifi", "wwan"} \ mine : r \in radios => r \in wish

\* "and only what we turned on ourselves" (locator.h 89-91).
OnlyWhatWeTurnedOn == \A r \in {"wifi", "wwan"} : r \in wish => r \in radios

\* "your search would ride on top of it and answer with no Wi-Fi and no GPS,
\* without telling you it settled for less" (locator.cpp 336-341): it does not.
SearchKeepsItsRadios == sought => Satellites \subseteq radios

\* "The last position the phone managed to work out ... written on every
\* successful fix" (config.h 46-48) is what is reported as last known.
LastKnownIsTheLast == answer.source = "last-known" => answer.place = saved
=============================================================================
