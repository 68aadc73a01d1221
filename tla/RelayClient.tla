---------------------------- MODULE RelayClient ----------------------------
(***************************************************************************)
(* RelayClient (src/src/relayclient.cpp): the long poll through which a    *)
(* phone nobody can address is reached, its back-off, and the position     *)
(* that could not be delivered.                                            *)
(*                                                                         *)
(* Everything happens in the daemon's event loop; aborting a request runs  *)
(* its finished handler at once, which sees its own cancellation and       *)
(* returns.  The relay's address and the token are one credential here:    *)
(* configure() treats a change, or the absence, of either the same way.    *)
(* A fix is its number, in the order in which they were taken.             *)
(***************************************************************************)
EXTENDS Naturals

CONSTANTS Tokens,        \* what pairing may give the phone
          NoToken,       \* not paired
          Configs,       \* the settings files the owner may write
          Base, Most,    \* the shortest and the longest back-off, in seconds
          Off,           \* a timer that does not run
          MayBreak,      \* something between phone and relay may answer 5xx
          MaxFixes,      \* bound: positions taken
          MaxFailures    \* bound: failures counted; more wait no longer

Settings == [enabled : BOOLEAN, on : BOOLEAN, token : Tokens \cup {NoToken},
             idle : Nat]

ASSUME RelayAssumption ==
  /\ NoToken \notin Tokens
  /\ Configs \subseteq Settings
  /\ Base \in Nat \ {0} /\ Most \in Nat /\ Base <= Most
  /\ Off \notin Nat
  /\ MayBreak \in BOOLEAN
  /\ MaxFixes \in Nat /\ MaxFailures \in Nat \ {0}

VARIABLES
  settings,   \* m_settings
  poll,       \* m_poll is set
  retry,      \* m_retry: Off, or in how many seconds it fires
  connected,  \* m_connected
  failures,   \* m_failures
  pending,    \* m_hasPending
  undelivered,\* m_undelivered, 0 before the first
  requests,   \* polls the network holds for us
  posts,      \* reports on their way
  known,      \* the tokens the relay knows
  up,         \* the relay answers
  taken,      \* positions taken so far
  panel,      \* history: the position the relay received last
  told,       \* history: a poll was answered 401 since the client was started
  answer      \* history: how the last poll ended, "-" once another is out

client == <<settings, poll, retry, connected, failures, told, answer>>
reports == <<pending, undelivered, posts, panel, taken>>
relay == <<known, up>>
vars == <<client, requests, reports, relay>>

Unconfigured == [enabled |-> FALSE, on |-> FALSE, token |-> NoToken, idle |-> 0]

Init ==
  /\ settings = Unconfigured
  /\ poll = FALSE /\ retry = Off /\ connected = FALSE /\ failures = 0
  /\ pending = FALSE /\ undelivered = 0 /\ posts = {}
  /\ requests = 0
  /\ known = Tokens /\ up = TRUE
  /\ taken = 0 /\ panel = 0 /\ told = FALSE /\ answer = "-"

Wanted(s) == s.enabled /\ s.on /\ s.token # NoToken

-----------------------------------------------------------------------------
\* report(): nothing is kept of a position there is no relay for.
Posting(s, fix) == IF s.token = NoToken THEN {} ELSE {fix}

SetConnectedOnChange(s, alive) ==
  /\ connected' = alive
  /\ posts' = IF alive /\ ~connected /\ pending
              THEN posts \cup Posting(s, undelivered) ELSE posts
  /\ pending' = (pending /\ ~(alive /\ ~connected))

\* setConnected: a connection that shows signs of life takes what was left.
SetConnected(s, alive) ==
  /\ connected' = alive
  /\ posts' = IF alive /\ pending THEN posts \cup Posting(s, undelivered)
                                  ELSE posts
  /\ pending' = (pending /\ ~alive)

Unconnected == UNCHANGED <<connected, posts, pending>>

\* poll(), for settings s, with "left" requests still out and f failures.  It is
\* connected as soon as the request goes out with a clean record.
Poll(s, left, f, busy) ==
  IF Wanted(s) /\ ~busy
  THEN /\ poll' = TRUE /\ requests' = left + 1 /\ answer' = "-"
       /\ IF f = 0 THEN SetConnected(s, TRUE) ELSE Unconnected
  ELSE poll' = busy /\ requests' = left /\ Unconnected /\ UNCHANGED answer

AbortForgotten == requests

\* stop(): abort() ends the request.
Aborted == IF poll THEN requests - 1 ELSE requests

\* configure() applies settings that changed; otherwise it leaves a client that
\* runs alone.
Changed(s) == s.token # settings.token \/ s.on # settings.on

WasRunning == settings.on /\ settings.token # NoToken

RestartsWhenIdle(s) == Wanted(s) /\ (Changed(s) \/ ~WasRunning \/ ~poll)

Restarts(s) == Wanted(s) /\ (Changed(s) \/ ~WasRunning)

Configure(s) ==
  /\ settings' = s
  /\ \/ /\ ~Wanted(s)
        /\ poll' = FALSE /\ requests' = Aborted /\ retry' = Off
        /\ SetConnected(s, FALSE)
        /\ told' = FALSE
        /\ UNCHANGED <<failures, answer>>
     \/ /\ Restarts(s)
        /\ retry' = Off /\ failures' = 0 /\ told' = FALSE
        /\ Poll(s, Aborted, 0, FALSE)
     \/ /\ Wanted(s) /\ ~Restarts(s)
        /\ UNCHANGED <<poll, requests, retry, failures, told, answer>>
        /\ Unconnected
  /\ UNCHANGED <<undelivered, panel, taken, relay>>

\* m_retry fires.
Retry ==
  /\ retry # Off
  /\ retry' = Off
  /\ Poll(settings, requests, failures, poll)
  /\ UNCHANGED <<settings, failures, told, undelivered, panel, taken, relay>>

-----------------------------------------------------------------------------
(***************************************************************************)
(* How a poll ends.                                                        *)
(***************************************************************************)
Ends(how) ==
  /\ requests > 0
  /\ requests' = requests - 1
  /\ poll' = FALSE
  /\ answer' = how
  /\ UNCHANGED <<settings, undelivered, panel, taken, relay>>

\* 1 << min(f - 1, 8)
Shifted == <<1, 2, 4, 8, 16, 32, 64, 128, 256>>

Doubled(f) == Base * Shifted[IF f < 9 THEN f ELSE 9]

BackOff(f) == IF Doubled(f) < Most THEN Doubled(f) ELSE Most

\* No answer at all: no coverage, relay down, a certificate that is not ours.
NoAnswer ==
  /\ Ends("none")
  /\ SetConnected(settings, FALSE)
  /\ failures' = IF failures < MaxFailures THEN failures + 1 ELSE failures
  /\ retry' = BackOff(failures')
  /\ UNCHANGED told

RefusedAgain ==
  /\ up /\ settings.token \notin known
  /\ Ends("refused")
  /\ failures' = 0
  /\ SetConnected(settings, FALSE)
  /\ told' = TRUE
  /\ retry' = Base

\* 401: the relay does not know this token any more.
Refused ==
  /\ up /\ settings.token \notin known
  /\ Ends("refused")
  /\ failures' = 0
  /\ SetConnected(settings, FALSE)
  /\ told' = TRUE
  /\ UNCHANGED retry

OrderIsTheLast ==
  /\ up /\ settings.token \in known
  /\ Ends("order")
  /\ failures' = 0
  /\ SetConnected(settings, TRUE)
  /\ UNCHANGED <<retry, told>>

\* 200 carries an order, and the next poll follows at once; 204, and any other
\* status, after the idle time.
Order ==
  /\ up /\ settings.token \in known
  /\ Ends("order")
  /\ failures' = 0
  /\ SetConnected(settings, TRUE)
  /\ retry' = 0
  /\ UNCHANGED told

Rest(how) ==
  /\ Ends(how)
  /\ failures' = 0
  /\ SetConnected(settings, TRUE)
  /\ retry' = 60 * settings.idle
  /\ UNCHANGED told

NothingToDo == up /\ settings.token \in known /\ Rest("empty")

Broken == MayBreak /\ Rest("broken")

-----------------------------------------------------------------------------
(***************************************************************************)
(* Positions.                                                              *)
(***************************************************************************)
\* Located, for the panel.
Report ==
  /\ taken < MaxFixes /\ taken' = taken + 1
  /\ posts' = posts \cup Posting(settings, taken')
  /\ UNCHANGED <<client, requests, pending, undelivered, panel, relay>>

Delivered(fix) ==
  /\ up /\ fix \in posts
  /\ posts' = posts \ {fix}
  /\ panel' = fix
  /\ UNCHANGED <<client, requests, pending, undelivered, taken, relay>>

\* It failed on its way there, or its answer on its way back.
Undelivered(fix) ==
  /\ fix \in posts
  /\ posts' = posts \ {fix}
  /\ undelivered' = fix /\ pending' = TRUE
  /\ panel' \in {panel, fix}
  /\ UNCHANGED <<client, requests, taken, relay>>

-----------------------------------------------------------------------------
\* The device is removed from the panel.
Forget(t) ==
  /\ t \in known /\ known' = known \ {t}
  /\ UNCHANGED <<client, requests, reports, up>>

GoesUpOrDown ==
  /\ up' = ~up
  /\ UNCHANGED <<client, requests, reports, known>>

PollEnds == NoAnswer \/ Refused \/ Order \/ NothingToDo \/ Broken

Next ==
  \/ \E s \in Configs : Configure(s)
  \/ Retry
  \/ NoAnswer
  \/ Refused
  \/ Order
  \/ NothingToDo
  \/ Broken
  \/ Report
  \/ \E fix \in 1..MaxFixes : Delivered(fix)
  \/ \E fix \in 1..MaxFixes : Undelivered(fix)
  \/ \E t \in Tokens : Forget(t)
  \/ GoesUpOrDown

Spec == Init /\ [][Next]_vars

\* The timer fires; a poll has its transfer timeout, so it ends; a report has one
\* too; and a network that is back does not lose every one of them.
Fairness ==
  /\ WF_vars(Retry)
  /\ WF_vars(PollEnds)
  /\ SF_vars(Refused \/ Order \/ NothingToDo)
  /\ \A fix \in 1..MaxFixes : /\ WF_vars(Delivered(fix) \/ Undelivered(fix))
                             /\ SF_vars(Delivered(fix))

FairSpec == Spec /\ Fairness

-----------------------------------------------------------------------------
(***************************************************************************)
(* Properties.                                                             *)
(***************************************************************************)
\* Every variable keeps its type.
TypeOK ==
  /\ settings \in Settings
  /\ poll \in BOOLEAN /\ retry \in Nat \cup {Off} /\ connected \in BOOLEAN
  /\ failures \in 0..MaxFailures
  /\ pending \in BOOLEAN /\ undelivered \in 0..MaxFixes
  /\ requests \in Nat /\ posts \in SUBSET (1..MaxFixes)
  /\ known \in SUBSET Tokens /\ up \in BOOLEAN
  /\ taken \in 0..MaxFixes /\ panel \in 0..MaxFixes
  /\ told \in BOOLEAN
  /\ answer \in {"-", "none", "refused", "order", "empty", "broken"}

\* "One poll at a time; a second would be a second phone" (relayclient.cpp 117):
\* the network never holds one the client does not know of.
OnePollAtATime == requests = IF poll THEN 1 ELSE 0

\* A client that is wanted polls, or has a timer that will, unless the relay
\* said it does not know it: nothing else makes the phone unreachable.
NeverDeaf == Wanted(settings) /\ ~told => poll \/ retry # Off

\* Nothing but the master switch makes it deaf, and only by going off and on
\* again: configure() compares the channel's own settings and forgets that the
\* client it leaves alone was stopped (relayclient.cpp 63-82).
OnlyTheMasterSwitchDeafens ==
  [][NeverDeaf /\ ~NeverDeaf' => ~settings.enabled /\ settings'.enabled]_vars

\* A channel that is off holds no poll and no timer (config.h 59, stop()).
OffIsOff == ~Wanted(settings) => ~poll /\ requests = 0 /\ retry = Off

\* After a poll that nobody answered the next one waits, longer with every
\* failure and never beyond the limit (relayclient.cpp 142-157): no retry in a
\* tight loop, no phone that stays away for ever, no shift that overflows.
SilenceBacksOff ==
  answer = "none" /\ retry # Off =>
    failures > 0 /\ retry = BackOff(failures) /\ retry \in Base..Most

\* What was refused is not asked again until the settings change, however
\* often they are re-read ("Retrying for ever against a relay that has
\* forgotten us is battery spent on nothing", relayclient.cpp 165-167).
GivesUpForGood == told => ~poll /\ retry = Off

\* What the screen calls connected is listening, or about to.
ConnectedIsListening == connected => poll \/ retry # Off

\* A relay that stays there gets the position that was left undelivered, or a
\* newer one: there is no timer for it, only the next sign of life.
PendingGoesOut ==
  <>[](up /\ Wanted(settings) /\ settings.token \in known)
     => <>[](~pending /\ posts = {})

-----------------------------------------------------------------------------
\* "Backoff for a relay that is down ... Without it a phone with no coverage
\* would retry in a tight loop" (relayclient.h 97-99).
DownMeansBackOff == answer \in {"none", "broken"} /\ retry # Off => retry >= Base

\* "The last position that could not be delivered" (relayclient.h 55) is newer
\* than what the panel already has.
PendingIsNews == pending => undelivered >= panel
=============================================================================
