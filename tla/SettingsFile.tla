---------------------------- MODULE SettingsFile ----------------------------
(***************************************************************************)
(* The settings file (src/src/config.cpp), which the settings screens      *)
(* (src/backend.cpp) and the daemon (src/daemon/main.cpp) write from       *)
(* different processes, and pairing with a relay (src/src/relayclient.cpp),*)
(* which a screen asks for and whose result the daemon writes.             *)
(*                                                                         *)
(* Writing is KConfig's: it merges, under a lock, what the writer touched. *)
(* The owner's switches are two here, the relay's address and its switch;  *)
(* the others are saved the same way.  A code is typed for every pairing   *)
(* and works once, so a token is the number of its pairing; a certificate  *)
(* is the relay that presents it.  Qt shows a certificate when a           *)
(* connection is set up, and carries a request over one it has if it can.  *)
(***************************************************************************)
EXTENDS Naturals

CONSTANTS Screens,    \* the application and the Settings module
          Relays,
          Signed,     \* the relays with a certificate from a known authority
          NoRelay,    \* no address; no fingerprint
          Nothing,    \* there is no file
          MaxPairs,   \* bound: pairings asked for
          MaxSaves,   \* bound: times a screen saves
          MaxFixes,   \* bound: positions taken
          MaxDeaths   \* bound: deaths of the daemon

ASSUME SettingsFileAssumption ==
  /\ Signed \subseteq Relays /\ NoRelay \notin Relays
  /\ MaxPairs \in Nat /\ MaxSaves \in Nat /\ MaxFixes \in Nat /\ MaxDeaths \in Nat

Address == Relays \cup {NoRelay}
Pairing == 1..MaxPairs

Content == [url : Address, on : BOOLEAN, token : 0..MaxPairs,
            pinned : Address, fix : 0..MaxFixes]

ASSUME NothingAssumption == Nothing \notin Content

VARIABLES
  file,     \* what is on disk
  daemon,   \* the daemon's m_settings
  read,     \* m_fingerprint: the bytes reload() compared last
  pc,       \* "boot" until the file is watched, "loop", and the two
            \* readings of reload(): "reload" and "load"
  due,      \* a 200 ms timer that will reload
  pairs,    \* the pairings: to whom, and how far they got
  seen,     \* m_seenFingerprint, one for all of them
  working,  \* m_working, per screen
  shown,    \* m_saved, per screen
  dirty,    \* m_dirty
  saves,    \* how often the screens have saved
  deaths,
  given,    \* history: what the last pairing that succeeded brought
  taken,    \* history: the last position taken
  blurred,  \* history: the pairings that were out together with another, or
            \* went over a connection that was there before
  torn      \* history: the file was written while the daemon was between
            \* reading it and remembering, or watching, what it read

screens == <<working, shown, dirty, saves>>
pairing == <<pairs, seen, blurred>>
loading == <<daemon, read, pc>>
history == <<given, taken>>
vars == <<file, loading, due, pairing, screens, deaths, history, torn>>

Default == [url |-> NoRelay, on |-> FALSE, token |-> 0, pinned |-> NoRelay,
            fix |-> 0]

\* LostPhoneConfig::load: a file that is not there reads as the defaults.
Loaded == IF file = Nothing THEN Default ELSE file

Init ==
  /\ file = Nothing /\ daemon = Default /\ read = Nothing /\ pc = "boot"
  /\ due = FALSE
  /\ pairs = [n \in Pairing |-> [relay |-> NoRelay, at |-> "new"]]
  /\ seen = NoRelay
  /\ working = [s \in Screens |-> Default] /\ shown = working
  /\ dirty = [s \in Screens |-> FALSE]
  /\ saves = 0 /\ deaths = 0
  /\ given = [token |-> 0, pinned |-> NoRelay] /\ taken = 0
  /\ blurred = {} /\ torn = FALSE

-----------------------------------------------------------------------------
(***************************************************************************)
(* Writing.                                                                *)
(***************************************************************************)
\* addPath fails silently on a file that does not exist.
NoticeByFileOnly == due' = (due \/ (pc # "boot" /\ file # Nothing))

\* The watchers of the file and of its directory, once there are any.
Notice == due' = (due \/ pc # "boot")

Write(content) ==
  /\ file' = content
  /\ IF content = file
     THEN UNCHANGED <<due, torn>>
     ELSE Notice /\ torn' = (torn \/ pc \in {"boot", "load"})

AppliedWhole(w) == w

\* save(): what is the daemon's own stays as it is on disk.
Applied(w) == [Loaded EXCEPT !.url = w.url, !.on = w.on]

\* savePairing: the token, its fingerprint and the switch of the channel.
Paired(n) == [Loaded EXCEPT !.token = n, !.pinned = seen, !.on = TRUE]

\* saveLastKnown
Fixed(n) == [Loaded EXCEPT !.fix = n]

-----------------------------------------------------------------------------
(***************************************************************************)
(* A settings screen.                                                      *)
(***************************************************************************)
\* When it opens, on Discard, and some seconds after it asked for a pairing.
Load(s) ==
  /\ working' = [working EXCEPT ![s] = Loaded]
  /\ shown' = [shown EXCEPT ![s] = Loaded]
  /\ dirty' = [dirty EXCEPT ![s] = FALSE]
  /\ UNCHANGED <<file, loading, due, pairing, saves, deaths, history, torn>>

Edit(s, w) ==
  /\ w # working[s]
  /\ working' = [working EXCEPT ![s] = w]
  /\ dirty' = [dirty EXCEPT ![s] = TRUE]
  /\ UNCHANGED <<file, loading, due, pairing, shown, saves, deaths, history, torn>>

SetRelayEnabled(s, on) == Edit(s, [working[s] EXCEPT !.on = on])

\* The field is there while the switch is on.
SetRelayUrl(s, url) == working[s].on /\ Edit(s, [working[s] EXCEPT !.url = url])

\* The address and the pairing are not preferences to reset.
RestoreDefaults(s) ==
  /\ working' = [working EXCEPT ![s] = [Default EXCEPT !.url = working[s].url,
                                                       !.token = working[s].token]]
  /\ dirty' = [dirty EXCEPT ![s] = TRUE]
  /\ UNCHANGED <<file, loading, due, pairing, shown, saves, deaths, history, torn>>

Save(s) ==
  /\ saves < MaxSaves /\ saves' = saves + 1
  /\ Write(Applied(working[s]))
  /\ shown' = [shown EXCEPT ![s] = working[s]]
  /\ dirty' = [dirty EXCEPT ![s] = FALSE]
  /\ UNCHANGED working

Apply(s) ==
  /\ dirty[s]
  /\ Save(s)
  /\ UNCHANGED <<loading, pairing, deaths, history>>

\* pair(): the address is saved first, and the daemon asked over D-Bus.
Pair(s, n) ==
  /\ pairs[n].at = "new" /\ \A i \in Pairing : i < n => pairs[i].at # "new"
  /\ working[s].on /\ working[s].url # NoRelay
  /\ IF working[s].url # shown[s].url THEN Save(s)
                                      ELSE UNCHANGED <<file, due, torn, screens>>
  /\ pairs' = [pairs EXCEPT ![n] = [relay |-> working[s].url, at |-> "asked"]]
  /\ UNCHANGED <<loading, seen, blurred, deaths, history>>

-----------------------------------------------------------------------------
(***************************************************************************)
(* Pairing, in the daemon.                                                 *)
(***************************************************************************)
\* "over" without a handshake of this daemon's, "done" with one.
Out == {n \in Pairing : pairs[n].at \in {"sent", "shaken"}}

Reaches(n, at) == pairs' = [pairs EXCEPT ![n].at = at]

PairAskedWithOldFingerprint(n) ==
  /\ pc = "loop" /\ pairs[n].at = "asked"
  /\ Reaches(n, "sent")
  /\ blurred' = blurred \cup IF Out = {} THEN {} ELSE Out \cup {n}
  /\ UNCHANGED <<file, loading, due, seen, screens, deaths, history, torn>>

\* RelayClient::pair
PairAsked(n) ==
  /\ pc = "loop" /\ pairs[n].at = "asked"
  /\ Reaches(n, "sent")
  /\ seen' = NoRelay
  /\ blurred' = blurred \cup IF Out = {} THEN {} ELSE Out \cup {n}
  /\ UNCHANGED <<file, loading, due, screens, deaths, history, torn>>

\* trust(): only a certificate nobody signed gets there.
Handshake(n) ==
  /\ pc = "loop" /\ pairs[n].at = "sent"
  /\ Reaches(n, "shaken")
  /\ seen' = IF pairs[n].relay \in Signed THEN seen ELSE pairs[n].relay
  /\ UNCHANGED <<file, loading, due, blurred, screens, deaths, history, torn>>

\* The relays the daemon may have a connection to: those it paired with or
\* tried to, and the one it polls.
Met ==
  {pairs[n].relay : n \in {m \in Pairing : pairs[m].at \in {"shaken", "done"}}}
    \cup IF daemon.on /\ daemon.token # 0 THEN {daemon.url} ELSE {}

\* No handshake, so no certificate to look at.
Reuse(n) ==
  /\ pc = "loop" /\ pairs[n].at = "sent" /\ pairs[n].relay \in Met
  /\ Reaches(n, "shaken")
  /\ blurred' = blurred \cup {n}
  /\ UNCHANGED <<file, loading, due, seen, screens, deaths, history, torn>>

\* The answer has a token: it is written, and reload() follows at once.
Answered(n) ==
  /\ pc = "loop" /\ pairs[n].at = "shaken"
  /\ Reaches(n, "done")
  /\ Write(Paired(n))
  /\ given' = [token |-> n, pinned |-> seen]
  /\ pc' = "reload"
  /\ UNCHANGED <<daemon, read, seen, blurred, screens, deaths, taken>>

\* It has none, there is no answer, or the certificate will not do.
Failed(n) ==
  /\ pc = "loop" /\ n \in Out
  /\ Reaches(n, IF pairs[n].at = "sent" THEN "over" ELSE "done")
  /\ UNCHANGED <<file, loading, due, seen, blurred, screens, deaths, history, torn>>

-----------------------------------------------------------------------------
(***************************************************************************)
(* The rest of the daemon.                                                 *)
(***************************************************************************)
\* Locator::complete
TakeFix ==
  /\ pc = "loop" /\ taken < MaxFixes
  /\ taken' = taken + 1
  /\ Write(Fixed(taken'))
  /\ UNCHANGED <<loading, pairing, screens, deaths, given>>

\* The constructor has loaded the settings and watches the file from now on.
Watch ==
  /\ pc = "boot" /\ pc' = "loop"
  /\ UNCHANGED <<file, daemon, read, due, pairing, screens, deaths, history, torn>>

TimerFires ==
  /\ pc = "loop" /\ due
  /\ due' = FALSE /\ pc' = "reload"
  /\ UNCHANGED <<file, daemon, read, pairing, screens, deaths, history, torn>>

\* reload() reads the file once to see whether it changed ...
Compare ==
  /\ pc = "reload"
  /\ IF file = read
     THEN pc' = "loop" /\ UNCHANGED <<read, torn>>
     ELSE pc' = "load" /\ read' = file /\ torn' = FALSE
  /\ UNCHANGED <<file, daemon, due, pairing, screens, deaths, history>>

\* ... and once more to load it.
LoadAgain ==
  /\ pc = "load" /\ pc' = "loop"
  /\ daemon' = Loaded
  /\ UNCHANGED <<file, read, due, pairing, screens, deaths, history, torn>>

\* Anything else in the directory changes.
Neighbour ==
  /\ pc # "boot" /\ due' = TRUE
  /\ UNCHANGED <<file, loading, pairing, screens, deaths, history, torn>>

\* The daemon dies and is started again; nobody waits for what it was asked.
Die ==
  /\ deaths < MaxDeaths /\ deaths' = deaths + 1
  /\ pc' = "boot" /\ daemon' = Loaded /\ read' = Nothing /\ due' = FALSE
  /\ seen' = NoRelay
  /\ pairs' = [n \in Pairing |->
                 IF pairs[n].at = "new" THEN pairs[n]
                                        ELSE [pairs[n] EXCEPT !.at = "over"]]
  /\ torn' = FALSE
  /\ UNCHANGED <<file, blurred, screens, history>>

-----------------------------------------------------------------------------
Next ==
  \/ \E s \in Screens : Load(s)
  \/ \E s \in Screens, on \in BOOLEAN : SetRelayEnabled(s, on)
  \/ \E s \in Screens, url \in Relays : SetRelayUrl(s, url)
  \/ \E s \in Screens : RestoreDefaults(s)
  \/ \E s \in Screens : Apply(s)
  \/ \E s \in Screens, n \in Pairing : Pair(s, n)
  \/ \E n \in Pairing : PairAsked(n)
  \/ \E n \in Pairing : Handshake(n)
  \/ \E n \in Pairing : Reuse(n)
  \/ \E n \in Pairing : Answered(n)
  \/ \E n \in Pairing : Failed(n)
  \/ TakeFix
  \/ Watch
  \/ TimerFires
  \/ Compare
  \/ LoadAgain
  \/ Neighbour
  \/ Die

Spec == Init /\ [][Next]_vars

-----------------------------------------------------------------------------
(***************************************************************************)
(* Properties.                                                             *)
(***************************************************************************)
\* Every variable keeps its type.
TypeOK ==
  /\ file \in Content \cup {Nothing} /\ daemon \in Content
  /\ read \in Content \cup {Nothing}
  /\ pc \in {"boot", "loop", "reload", "load"} /\ due \in BOOLEAN
  /\ pairs \in [Pairing -> [relay : Address,
                            at : {"new", "asked", "sent", "shaken", "over", "done"}]]
  /\ seen \in Address
  /\ working \in [Screens -> Content] /\ shown \in [Screens -> Content]
  /\ dirty \in [Screens -> BOOLEAN]
  /\ saves \in 0..MaxSaves /\ deaths \in 0..MaxDeaths
  /\ given \in [token : 0..MaxPairs, pinned : Address] /\ taken \in 0..MaxFixes
  /\ blurred \in SUBSET Pairing /\ torn \in BOOLEAN

\* "Pressing Apply must never unpair a phone that paired itself in the
\* meantime", nor "overwrite a fix the daemon just took" (config.cpp 151-154,
\* 176-178): the file keeps what the daemon wrote last, whatever the screens
\* do with the copies they loaded before.
NothingOfTheDaemonIsUndone ==
  /\ Loaded.token = given.token /\ Loaded.pinned = given.pinned
  /\ Loaded.fix = taken

\* The daemon obeys what the file says or is about to read it again: with no
\* file when it started, with writes that come while it reloads, and with
\* reloads skipped because the bytes are those it knows.  The two moments at
\* which it may miss a write are those of "torn".
ChangesAreNoticed ==
  daemon # Loaded => due \/ pc \in {"reload", "load"} \/ torn

Certificate(relay) == IF relay \in Signed THEN NoRelay ELSE relay

Whole(n) == Loaded.pinned = Certificate(pairs[n].relay)

\* A pairing that was out alone, over a connection of its own, leaves the token
\* and the fingerprint of the same relay, after others that failed and others
\* that succeeded, and whatever the screens save meanwhile.
LonePairingIsWhole ==
  Loaded.token \in Pairing \ blurred => Whole(Loaded.token)

-----------------------------------------------------------------------------
(***************************************************************************)
(* What the documents say and the code does not do.                        *)
(***************************************************************************)
\* "The fingerprint is saved TOGETHER with the token ...: they are the two
\* halves of the same trust" (config.h 259-262).
PairingIsWhole == Loaded.token \in Pairing => Whole(Loaded.token)

\* "Pairing is what turns the channel on: having a token and still being
\* ignored would be the most confusing possible outcome" (config.cpp 190-191):
\* an Apply leaves the channel as it is unless its switch was touched.
ApplyChangesOnlyWhatWasEdited ==
  [][\A s \in Screens :
        dirty[s] /\ ~dirty'[s] /\ file' # file /\ Loaded'.on # Loaded.on
          => working[s].on # shown[s].on]_vars

\* "The daemon has to notice rather than be told" (main.cpp 134-135).
EveryChangeIsNoticed == daemon # Loaded => due \/ pc \in {"reload", "load"}
=============================================================================
