# lost-phone: a verification development

lost-phone is a daemon (`lost-phoned`) that lets the owner of a Linux phone make
it ring, locate it, lock it and ask it how it is, through four channels that
trust each other with nothing: SMS, a relay of the owner's, the home network and
an ntfy server. This directory holds TLA+ models of it, the TLC configurations
that check them and the proofs that hold for every value of their constants.
File names below are relative to `src/`.

## 1. The system

Everything runs in one Qt event loop. A handler runs to its end before another
one starts, so concurrency is not threads: it is the order of handlers, the
handlers that run *inside* others (`abort()` inside `stop()`, SMS handling inside
`start()`, a search that completes at once inside the order that asked for it),
the timers that outlive what armed them, the other processes that share a
resource (the modem's message store, the settings file, the volume, the radios),
and the death of the process between any two external commands. systemd runs
`lost-phoned --restaurar` after every stop and starts it again five seconds
after a failure (`lost-phoned.service`).

| component | state it keeps | operations | talks to |
|---|---|---|---|
| order dispatcher `daemon/main.cpp` | settings, noted orders (`m_pending`, `m_pendingSms`), rate limit, who waits for a fix (`m_replyTo`, `m_statusFor`, `m_statusWithPosition`, `m_locateForRelay`, `m_locateForNtfy`), lost mode, refresh timer | `handleSms`, `catchUpSms`, `start`, `runCommand`, `onLocated`, `refreshPosition`, `reload`, D-Bus slots | all the others; ModemManager |
| capability matrix `src/config.cpp` (`allows`) | none | one question | the dispatcher |
| settings file `src/config.cpp`, `backend.cpp` | the file, a copy per process | `load`, `save`, `savePairing`, `saveLastKnown` | daemon and settings screen, two processes |
| `Ringer` `src/ringer.cpp` | player, stop timer, failures, the volume to put back, in memory and in a file | `start`, `stop`, player's `finished`, `--restaurar` | PulseAudio, systemd |
| lost mode `src/lostmode.cpp`, `src/locker.cpp` | `lost-mode` file (and its old name), notification id | `load`, `save`, `lock`, `showMessage`, `clearMessage` | the session |
| `Locator` `src/locator.cpp` | search, deadline, tuning window, fix, flags of borrowed radios | `locate`, poll, `complete`, `turnOnWhatIsNeeded`, `giveBackRadios` | nmcli, mmcli, settings file |
| `RelayClient` `src/relayclient.cpp` | poll in flight, retry timer, failures, undelivered position, pinned fingerprint | `configure`, `poll`, `report`, `pair` | the relay |
| `NtfyClient` `src/ntfyclient.cpp` | stream, buffer, retry timer doubling as watchdog | `configure`, `subscribe`, `onLine`, `say` | an ntfy server |
| `LanServer` `src/lanserver.cpp` | listening socket, mDNS entry, half-read requests | `configure`, `onConnection`, `handle` | the home network, Avahi |
| parsers `src/nmea.cpp`, `src/ntfyprotocol.cpp` | none | `parseGga`, `commandFrom` | |
| settings screen `backend.cpp`, QML | saved and working copy, dirty flag | setters, `save`, `pair` | the daemon over D-Bus, the file |

What makes each of them correct:

* **dispatcher**: a position goes only to who asked and was allowed; who waits is
  served; lost mode ends by the panel or the PIN and by nothing else; an alarm is
  silenced only by who may ring it, never by SMS; off means nothing happens.
* **Ringer**: an output that is other than its owner chose can always be put back,
  whatever dies, as long as the disk takes the note; an alarm ends.
* **lost mode**: it is a state of the phone, not of a process.
* **Locator**: a search ends; what it calls current is current; a search for the
  phone does not settle for less; borrowed radios are given back.
* **RelayClient**: one poll at a time, never deaf, no polling once refused, and an
  undelivered position goes out.
* **settings file**: no screen undoes what the daemon wrote, the daemon notices what
  the screens write, and a saved token comes with the fingerprint of its relay.
* **NtfyClient**: wanted means a stream, to the topic of now, or a timer that will ask
  for one; an order that came whole is obeyed; a server that stays is heard again.
* **LanServer**: a request is handled when it is whole, only for who has the secret of
  now; the announcement does not outlive the listener.

The hazards, line by line, are the list `hazards` of `PROJECT.json`; the
properties below were chosen from it.

## 2. The modules

| module | what it is |
|---|---|
| `Capabilities` | `LostPhoneConfig::allows` as an operator; the settings an order depends on |
| `Daemon` | the dispatcher. `MCDaemon` instantiates it, `Daemon_proofs` proves about it |
| `VolumeLoan` | abstract: the owner's volume is borrowed, remembered and paid back |
| `Ringer` | the alarm command by command, with the backstop; implements `VolumeLoan`. `MCRinger`, `Ringer_proofs` |
| `PhoneLost` | abstract: the phone is reported lost or recovered; nothing else changes that |
| `LostMode` | files, memory, screen and notification step by step; implements `PhoneLost`. `MCLostMode`, `LostMode_proofs` |
| `Search` | abstract: who looks for the phone waits on a search that may use the radios, until it ends |
| `Locator` | one search at a time, and the radios it borrows command by command; implements `Search`, as does `Daemon` with the list of those who asked. `MCLocator`, `Locator_proofs` |
| `RelayClient` | the long poll, its back-off and the undelivered position. `MCRelayClient`, `RelayClient_proofs` |
| `SettingsFile` | the file between the settings screens and the daemon, and pairing, which goes from one to the other through it. `MCSettingsFile`, `SettingsFile_proofs` |
| `NtfyClient` | the stream of lines, its buffer, and the timer that is its back-off and its watchdog. `MCNtfyClient`, `NtfyClient_proofs` |
| `LanServer` | the listener and its announcement, requests in pieces and who is answered. `MCLanServer`, `LanServer_proofs` |

### How they correspond to the code

`PROJECT.json` (`map`) names the lines of every definition. The conventions:

* A handler is one action when nothing can happen inside it (`Daemon`,
  `RelayClient`, `NtfyClient`, `LanServer`). It is cut into steps, with a program counter, exactly where the
  process may die, or somebody else may act, between two external effects that matter:
  at every `pactl` call and at the note in `Ringer`, at both halves of a write, at the
  lock and at the message in `LostMode`, at every `nmcli` and `mmcli` command of `Locator`, the
  question apart from the order that follows it. `LanServer::configure()` closes the listener and
  takes its entry down in one step (`lanserver.cpp:83-84`): both are calls of one
  handler, and a process that dies between them has Avahi drop the entry with its
  connection. `SettingsFile` cuts `reload()` between
  the two readings it makes of a file that another process may write. In `Daemon`, `start()` is cut at
  the handlers it runs inside itself and `stage` keeps all others out meanwhile.
* `QTimer`s are variables: off, or what is left of them. In `Ringer` and `Locator`
  time passes in `Tick`; a timer that is due fires no later than the fairness
  says but other handlers may come first, as in the event loop.
* Secrets, texts and coordinates are atoms. An SMS is whether it opens with the
  key, and its verb; a settings file is a record of the switches that the
  properties tell apart; a position is a place, or, for the relay, its number in
  the order the positions were taken.
* What arrives in arbitrary cuts is measured in the pieces that matter. A line of
  ntfy is two halves, the second with its end of line, and a `readyRead` brings any
  number of halves; a request to `LanServer` is `Headers` pieces and then its body,
  of which it declares a length that need not be the true one.
* `NtfyClient::stop()` calls `deleteLater()` through a `QPointer` that the finished
  handler, run inside `abort()`, has just cleared (`ntfyclient.cpp:77-78`). That is
  undefined: either nothing happens (`StopsTheStream`) or the process dies (`Dies`)
  and systemd starts it again.
* The channels are not composed into one state space. They meet in `Daemon`: its
  `Order` takes any verb of a channel that `Reaches` the daemon, which is weaker than
  what `LanServer` and `NtfyClient` grant (a connection or a stream may be older than
  the settings, but it needs a credential). What an order did, and the reason
  `m_lastCommandReason` keeps of it, is `verdict` in `Daemon`; `LanServer` takes either
  answer (`Results`) and says nothing about which is right, `DoneMeansRinging` does.
* In `Daemon` a handler's outcome is kept in history variables: `out` (the answers
  it sent), `by` (who took the step), `verdict` (what `m_lastCommandReason` says),
  `granted` (who asked, and was allowed, since the last fix) and `from` of a noted
  order (who sent it, which the code does not keep with it: it looks the number up by
  the verb). `granted` is taken from `from`, never from the number looked up, and a noted
  order is granted to all who sent that same order and have it still to be run, since
  the code has one number for them all. They are written and
  never read by a guard; so are `given`, `taken`, `blurred` and `torn` of `SettingsFile`
  (what the daemon wrote last, whose handshake was not their own, and whether the
  file was written between a reading and what follows it). `chosen` in `Ringer` is what
  the owner chose for each knob of each output since the alarm began: any of it counts
  as his when the volume is put back, since nobody can tell which he meant to last.
  `note` says whether the disk took the note (`kept`), `refused` it, or the process died with
  the only copy (`lost`). `wish` in `Locator` is what the owner last chose, frozen for a
  radio that is on loan; `stranded` is what a process left on when it died, `mistaken` what was
  switched on after it was found off and before the order. `declared` (locked because it is
  lost) and `refused` (by the disk) of `LostMode`, `arrived`, `obeyed` and
  `unheard` of `NtfyClient` are history too.
* What is outside `src/` is modelled as far as the code uses it: PulseAudio and
  the radios may or may not do what they are told (`MayFail`, `RadiosFail`), the disk may
  refuse what it is given (`DiskMayFail` of `Ringer` and `LostMode`, where the code goes on all
  the same; `DiskWritable` of `Daemon`), other
  daemons delete messages, the relay forgets devices, something in front of it
  answers 5xx (`MayBreak`). Avahi refuses, restarts,
  and in the extras does not free what it should (`FreeFails`). The ntfy server opens
  every stream with a line of its own. The screen locker and the notification server
  answer.
  A transfer timeout is taken to be an error of its own, not the
  `OperationCanceledError` that `relayclient.cpp:142` takes for its own abort.
  The default output is taken to be one and the same while an alarm lasts, and a note
  that was opened and could not be filled counts as refused; that a note cannot be
  removed is left out. A phone that is restarted has Wi-Fi and WWAN as they were:
  NetworkManager remembers them.
  Two ways of writing a verb (*where*, *donde*) are one verb, although `m_pendingSms` keeps
  them apart: the model has fewer numbers to find than the code.
  KConfig writes atomically, and merges; Qt shows a certificate when a connection is
  set up and may carry a request over one that stands (`Reuse`).

## 3. The runs

Every property of a passing run is also checked against a mutant of a mapped
definition (`mutants` in `PROJECT.json`): a dropped guard, a forgotten reset, a
swapped order that TLC must refute under the same configuration. The mutants are
the otherwise unused operators beside the definition they change.

| run | configuration | asks |
|---|---|---|
| `daemon_ask` | `MCDaemonAsk.cfg` | who is answered: two people by SMS, two messages, and relay, home (in vain) and ntfy asking; settings that change; the grace minute and what was noted in it |
| `daemon_act` | `MCDaemonAct.cfg` | what orders do: alarm and lost mode through a crash or reboot, power-offs, retries, session calls, settings that change |
| `daemon_live` | `MCDaemonLive.cfg` | who waits is served, and start-up completes, although the process dies twice |
| `ringer` | `MCRinger.cfg` | the loan: two alarms, two deaths anywhere, a disk that may refuse the note, the volume keys at any moment, players missing or failing |
| `ringer_trouble` | `MCRingerTrouble.cfg` | the same with a PulseAudio that comes and goes, and one volume level: what is asked is whether notes and alarms end |
| `lost_mode` | `MCLostMode.cfg` | four reports or recoveries, three deaths anywhere, a disk that may refuse, a file inherited from an older version |
| `locator` | `MCLocator.cfg` | searches with and without satellites, rides, restarts, refreshes, alarms, a phone carried elsewhere, an owner who switches a radio and a death between any two commands; and every search ends |
| `relay` | `MCRelayClient.cfg` | two tokens, settings that change at any moment, a relay that forgets, goes down and is fronted by a proxy, two positions |
| `settings` | `MCSettingsFile.cfg` | a screen that edits, applies and resets copies of any age, two pairings with a self-signed and a signed relay, a position, a death, other files written beside |
| `ntfy` | `MCNtfyClient.cfg` | two topics, two keys, both switches, settings that change at any moment, a server that goes, a network that dies unnoticed, a portal's page, a `stop()` that may kill the process |
| `lan` | `MCLanServer.cfg` | two connections in pieces, tokens and keys that change under them, undeclared and overlong bodies, Avahi that refuses and restarts |
| `relay_master` | `MCRelayClientMaster.cfg` | refuted: see section 5 |

Type invariants are not in the runs: every module with proofs proves its own
(`TypeCorrect`), for all values of the constants.

### The bounds and why they are enough

* *Two senders and two messages* (`daemon_ask`): the interference between askers is
  between two; a third would only repeat it. Senders, messages and places are
  symmetric, and `SYMMETRY` is used in runs without liveness only.
* *The home channel* asks but may not locate in `daemon_ask`, as it ships
  (`config.cpp:97`). Where it may, the code reports to the relay what the home network
  asked for (section 5, `RelayGetsOnlyWhatItAsked`), so the property is about the
  others.
* *Crashes*: one in `daemon_act` and `locator`, two in `daemon_live`, `ringer`; three in
  `lost_mode`. State that outlives a crash is only `saved`, `modem` and the screen, so
  a second crash meets a state the first one could have met; the invariants are
  proved for any number.
* *`MaxDue`* bounds the delayed radio switch-ons the other channels may have
  outstanding; an SMS is limited by the modem. *`MaxTries`* is 1 instead of 5: the
  retries differ only in their number.
* *Failures* of the relay are counted to 10, past the point where the back-off
  reaches its maximum. *Positions*: two, enough to be delivered out of order.
* *Ringer*: two players in a row that fail end the alarm in `ringer`, three, as in the code,
  in `ringer_trouble`, and an alarm of `ringer` lasts one tick: the volume does not depend on
  how long it rings.
* *The settings file*: one screen (a second one is another stale copy), two relays,
  two pairings, so that they overlap or follow one another, and two saves: enough
  for the file to become again what the daemon knew (`A`, `B`, `A`). Erasing the
  address is left out: nothing can be paired with it.
* *Locator*: the deadline and the tuning window are 2 and 1 polls (the code: 18 and
  4 by default), so that either may end the search; two places and one move, one
  switch of Wi-Fi by the owner's hand and one death, at any command. It begins at one of
  the places, since they differ in nothing but that. All radios are
  off at first, which borrows most; the proofs start from any of them, and
  `MCLocatorGps.cfg` from location sources that are on.
* *ntfy*: two topics and two messages, so that one may arrive over the old stream and
  one over the new; a buffer of three halves, so that an endless line overflows it.
  The back-off is the code's own, 10 s doubled, of which three failures are counted;
  since 640 s is the most `1 << qMin(m_failures, 6)` gives, its limit of 900 s is
  never met.
* *LAN*: two connections, which is what `m_partial` and `m_lastCommandReason` could
  confuse; headers of two pieces, bodies of none, one and three, and a buffer of
  four, so that a request may be cut anywhere and the long one is over the limit.

### Fairness

Only what the event loop, Qt or systemd owe: a timer that is due fires, a handler
that was begun goes on, a search is polled, time passes, the unit's last command
and its restart run. In `Locator` polls and the passing of time are strongly fair: other handlers
run again and again, and while one runs neither can, but the timer is served between
them. In `RelayClient` also that a poll or a report ends (both have
a transfer timeout) and, strongly, that a relay which stays reachable answers some
poll and receives some report. In `NtfyClient` the timer fires, systemd starts the
daemon again, a page has an end (a closed stream is noticed) and, strongly, a server
that is there opens some stream that was asked for and some of its lines arrive: a
network that let nothing through for ever would be no network. `LanServer` promises
nothing by itself: it only answers. The owner, the channels, the modem, crashes and
failures are never fair.

## 4. The proofs

All are checked by `tlapm` to the last leaf; the constants are arbitrary sets and
numbers under the named assumptions, so the bounds above play no part.

* **`Daemon_proofs`** `TypeCorrect`; `LostOnDisk` (between two handlers the file
  says what the memory says); `LostLocked` (a started daemon of a lost phone has
  locked it, or the PIN was typed); `LostEnds` (lost mode ends by the session or an
  entitled panel). The argument is a case split on how an order touches lost mode
  (`ObeyAndLostMode`): by entering it, by leaving it through the relay with the
  permission, or not at all, lifted through the noted orders, the SMS handler and
  the whole step. `LostOnDisk` needs nothing else; `LostLocked` is inductive with it:
  a reboot reads the file, and `start()` locks before it runs a noted order.
  `LostBeatsFaster`, `SilencedByRight` and `OffIsInert` follow the same split: by the
  verb for who rings and silences, by who touches lost mode for the rhythm. Off is
  inert although `start()` runs noted orders and a connection may be older than the
  switch, because `Obey` asks `Allows` at the moment it acts.
  `OrdersActByRight` says it for all orders at once (`ActsByRight`): what a step does
  to alarm, lock, lost mode and waiting list, its channel may do at that moment, and a
  step of the daemon's own does none of it. `SilencedByRight` is the part about the alarm.
  `NotedOrdersRun`: the list of noted orders grows only in the grace minute and shrinks
  only from the front, by running the order, or with the process; it is empty before
  any other door opens (`StartInv`: the stages of `start()` come in turn).
  `ImplementsTheSearch` maps the daemon to `Search`: `search` is the kind, and
  somebody waits while `granted` names anybody but the relay. It needs no invariant of the
  daemon, and with the one of `Search` (who waits has a full search) it says that nobody
  who asked and was allowed to waits on a background refresh (`LookersAreSearchedFor`).
  `PositionsAreRightful`, `OthersAsked`, `WaitersAreSearchedFor`, `NotedOrdersFindAnAsker`:
  who gets a position is decided by flags that earlier
  steps left, so the property is not inductive. `WaitersAsked` strengthens it: every
  flag that is set is backed by a request that was allowed, for the coordinates that
  it would send. Answering (`DeliverKeeps`), locating (`LocateKeeps`) and each verb
  preserve it; the noted orders are handled by showing that they all came by SMS
  and that the number under a verb is that of the last who sent it, so that it is one
  of those the order is granted to. The invariant holds of every phone, with one
  exception spelled out in it: where some settings let the home channel locate
  (`LanLocates`), the relay may be sent what the home network asked for (`Entitled`).
  `PositionsAreRightful` assumes that none do, `OthersAsked` is about everybody but
  the relay and assumes nothing.
* **`Ringer_proofs`** (assuming `~MayFail`: pactl does what it is told; the disk need not)
  `LoanOnDisk`, `QuietIsRestored`, `ImplementsTheLoan`. The invariant relates, at
  each place of the program counter, the memory, the file and the hand of the
  backstop to the setting of the output (`Remembered`, `PutBack`, `Debt`). The owner's
  hand may act at any of them, so what is remembered is never equal to the setting at
  the beginning: it only fits what he chose since (`Fits`), knob by knob. A note the
  disk refused is owed by the process alone (`Owed`), and lost with it.
  Refinement maps every step to `Begin`, `Promise`, `Use`, `Settle`, `Lose`, `OwnerTurns` or a
  stutter of `VolumeLoan`, where `Lose` needs a promise kept in a head. `TypeCorrect` and `NothingStale` need no such assumption:
  memory and file are emptied by our own process whether or not pactl obeyed. Nor does
  `OthersUntouched`: every note is about the speaker, so whatever fails, no output but
  that and the default one is left disturbed. `SameLengthExtends` and `PlayersMakeItHeard`
  prove what section 5 refutes, under the condition that makes the difference: that all
  ask for the same length (the time left never exceeds what was asked, `AsAsked`), and
  that some player can be started.
* **`LostMode_proofs`** `TypeCorrect`, `WrittenFirst`, `NothingInMemoryOnly`,
  `LostIsAStateOfThePhone`: at each place the file and the draft are related to the
  memory, and only the rename changes what would be read back. A refused write leaves
  memory and file apart until one is taken (`refused`); `WrittenIsEnough` proves
  that without such a disk a locked lost phone always comes back locked. `LostSaysSo` adds
  that a message is taken down only when nobody is lost any more (`Readable`).
  `LockedOnceStarted` is the safety half of `LostIsReasserted`: the only places at which
  a lost phone of a started daemon is open come right before a lock (`Shut`).
  `MessagesAreOfEarlierLives` bounds what section 5 refutes, by counting the set of
  notifications: one for every life that ended, besides the one whose id is known; and
  an idle daemon of a phone that is not lost knows of none. Its corollary
  `OneLifeOneMessage` is what `locker.cpp:79` says, of a daemon that never dies.
* **`Locator_proofs`** `TypeCorrect`, `SearchesArePolled`, `RealSearchesAreReal`, `CurrentIsMeasured`,
  `TunedFirst`, and `RadiosComeBack` (assuming `~RadiosFail`), with deaths between any two
  commands: what the loan loses then is exactly `stranded`, and without a death nothing
  (`OnlyADeathLeavesThemOn`). `OwnersRadiosStay` needs no
  such assumption: a radio that fails to go on or off may be left on, but one the owner
  turned on is not on loan, so it is never switched off; but for the one he reached for
  between the question and the order (`mistaken`).
  `ImplementsTheSearch` maps every step to one of `Search`: riding and restarting are
  `Ask`, `complete()` and a death are `End`, and a poll, an alarm, an owner's switch or
  a giving back is no step at all; `Ask` is the last step of turning the radios on. The invariant says
  that during a search the fix so far was seen during it, and that the window
  and the deadline left, with the polls made, add up (`Searching`); the loan is
  two invariants, one for each direction: what the owner wants is on (`OwnInv`), and what
  is on beyond that is on loan or stranded (`LentInv`).
* **`RelayClient_proofs`** `TypeCorrect`, `OnePoll`, `RefusedIsForGood`,
  `ConnectedListens`, `SwitchedOffIsSilent` from one invariant, since each handler that
  ends a poll must leave a timer or be the refusal. `OnlyMasterDeafens`, without any
  assumption: of all steps, only `configure()` with the master switch going on makes a
  listening client deaf, and only one that the master switch had stopped (`Deafened`).
  So the counterexample of run `relay_master` is the only one there is, and
  `AlwaysListening`, which assumes that no settings file turns the master switch off,
  follows. `NobodyAnswersBacksOff`: the wait after silence is `BackOff` of the failures
  counted (`Silence`), which lies between `Base` and `Most` (`BackOffBounds`) and never
  shrinks with a failure more (`BackOffGrows`). `DownBacksOff`: without a proxy that
  answers 5xx there is no tight loop.
* **`SettingsFile_proofs`** `TypeCorrect`, `NothingUndone`, `ChangesNoticed`,
  `LonePairingsAreWhole`. `ChangesAreNoticed` is not inductive: that `reload()` returns
  on bytes it knows is right only because the daemon then has what those bytes
  said (`Remembers`). `LonePairingIsWhole` needs who owns `m_seenFingerprint` while
  pairings are out (`Apart`).
* **`NtfyClient_proofs`** `TypeCorrect`, `AlwaysReachable`, `RightTopic`: a handler is
  first reduced to what it does to stream, address and timer (`ConfigureDoes`,
  `RetryDoes`, `FinishedDoes`, ...), and the two properties are inductive together
  with `Quiet` (no stream, no address, nothing in the pipe). `WholeOrdersObeyed`
  is not inductive: that what an earlier stream left in `m_buffer` never swallows an
  order rests on `Cut`. An order at the head of the pipe meets an empty buffer or
  exactly its own first half (`HeadFits`), because a stream begins with a line that is
  no order, and that line takes the leftovers with it. `NothingElseIsObeyed` is the other
  half, from `NoEndHeld`: the buffer never holds an end of line, so an order is found in
  the very step in which its second half is read. Together: `obeyed` is `arrived`.
* **`LanServer_proofs`** `TypeCorrect`; `WholeRequests`, with `NothingThrownAway` (what
  was read of an open request is all in its buffer); `RightfulClients`, from what each kind of answer requires; `NoBeacon` (assuming
  `~FreeFails`), with `CanTakeItBack`: whatever is announced is announced by the
  group we still hold, while we listen. `TheDocumentedNameWorks` proves `BothNamesWork`,
  which section 5 refutes, when no request uses the older name.

**Only model-checked**: liveness (`WaitingEnds`, `StartupCompletes`, `AlarmEnds`,
`VolumeComesBack`, `LostIsReasserted`, `SearchEnds`, `PendingGoesOut`, `ComesBack`):
fairness and ENABLED are out of the prover's reach. `BackOffGrows` compares two waits,
not all of a sequence: what `Shifted` holds is a table, so no induction is needed.

**Only proved**: `OwnersRadiosStayOn`, `NotedOrdersAreRun`, `KeepsWhoLooks`,
`OnlyTheMasterSwitchDeafens`, `OffIsOff` and `SilenceBacksOff` (relay), `OnlyArrivedIsObeyed`, `OnlyItsOutputs`,
`LostIsLockedAgain`, `OneMessageALife` and the type invariants are in no run's
configuration; put into that of their module they pass (`OnlyItsOutputs` wants a third
output, to have something to say).

## 5. Where the code and its documents disagree

One disagreement is a run of its own, with TLC's counterexample: `relay_master`.
Turning the master switch off and on leaves the relay client without a poll and
without a timer, against `relayclient.h:44`.

The modules state others under "what the documents say", each with a configuration
that TLC refutes (where a configuration is that of a passing run, put the property
into it as its only one); they are kept out of the runs for economy:

| property | configuration | in short |
|---|---|---|
| `OffMeansSilent` | `MCDaemonOffAnswers.cfg` | with the master switch off a *state* by SMS is still answered (Wi-Fi name, cell, battery; no coordinates), against `config.h:59` |
| `RelayGetsOnlyWhatItAsked` | `MCDaemonLanWhere.cfg` | a *where* from the home network is reported to the relay |
| `QuietPhoneGaveItsRadiosBack` | `MCDaemonRadios.cfg` | a stop within 500 ms of the ring leaves the radios on |
| `NoReplyMeansNoSms` | `MCDaemonMute.cfg` | a *state* is answered by SMS with `smsReply` off |
| `AnsweredToItsSender` | `MCDaemonAsk.cfg` | of two people who send the same order in the grace minute the second is answered twice, the first never, against `main.cpp:785-788` |
| `DoneMeansRinging` | `MCDaemonSilent.cfg` | a ring that could not start is reported as done |
| `AskersAreAnswered` | `MCDaemonTwoAsk.cfg` | a *state* over another channel makes the daemon forget who asked by SMS |
| `StopNeverLeavesItLoud` | `MCRingerPulse.cfg` | the backstop drops its note before a pactl that may fail, against `lost-phoned.service:25-27` |
| `StopNeverLeavesItLoud` | `MCRinger.cfg` | the disk refuses the note, the alarm rings all the same (`ringer.cpp:230-240`) and the process is killed |
| `RingingAgainExtends` | `MCRingerAgain.cfg` | a second `start()` restarts the stop timer with its own duration: testing the alarm cuts a long one short, against `ringer.h:44` |
| `RingingIsPlayed` | `MCRingerMute.cfg` | rings in silence when no player starts |
| `ComesBackLocked` | `MCLostMode.cfg` | the disk refuses the file (`lostmode.cpp:63-65`, `73`) and the screen is locked all the same: a restart finds nobody lost, against `main.cpp:958-961` |
| `OneMessageOnly` | `MCLostModePile.cfg` | a restarted daemon adds a second message |
| `RecoveredSaysNothing` | `MCLostModeStays.cfg` | and cannot take the first one down |
| `GpsIsGivenBack` | `MCLocatorGps.cfg` | location sources that were on are switched off with the loan |
| `RadiosAreAsTheyWere` | `MCLocator.cfg` | what was borrowed is kept in memory only: a death leaves Wi-Fi or WWAN on, against `locator.h:89-91` |
| `OnlyWhatWeTurnedOn` | `MCLocator.cfg` | a radio the owner switches on between the question and the order (`locator.cpp:239-247`) is taken for borrowed, and switched off with the loan |
| `SearchKeepsItsRadios` | `MCLocator.cfg` | an alarm that ends takes the radios from a running search |
| `LastKnownIsTheLast` | `MCLocator.cfg` | the last known position may be one fix old |
| `DownMeansBackOff` | `MCRelayClientDown.cfg` | a proxy's 5xx counts as connected and resets the back-off |
| `PendingIsNews` | `MCRelayClientStale.cfg` | an older position may be kept, and sent, after a newer one |
| `PairingIsWhole` | `MCSettingsFilePair.cfg` | two pairings share one seen fingerprint: the token is saved without one, or with another relay's |
| `ApplyChangesOnlyWhatWasEdited` | `MCSettingsFileStale.cfg` | an Apply from an old copy switches off the channel that pairing turned on |
| `EveryChangeIsNoticed` | `MCSettingsFileBlind.cfg` | a write between the first load and the watch is not noticed |
| `SilentIsNotConnected` | `MCNtfyClient.cfg` | the watchdog goes off and `subscribe()` returns, since the stream is there (`ntfyclient.cpp:96`): a dead stream stays connected, against `ntfyclient.cpp:19` |
| `OffIsOff` | `MCNtfyClient.cfg` | the finished handler inside `stop()` arms the timer of a client that is switched off, which then asks for a stream again, against `config.h:59` |
| `RefusedBacksOff` | `MCNtfyClient.cfg` | an error page is read like a stream and resets the back-off, against `ntfyclient.cpp:144` |
| `ListeningIsAnnounced` | `MCLanServer.cfg` | an Avahi that refuses once or restarts leaves the listener unannounced, against `lanserver.h:19` |
| `OffSaysNothing` | `MCLanServer.cfg` | a connection opened before the master switch went off is still answered, against `config.h:59` |
| `BothNamesWork` | `MCLanServer.cfg` | the older name of the simple door's field loses two letters of its key (`lanserver.cpp:283`: `mid(6)` after `key=`), against `lanserver.cpp:277` |

Met while reading and not modelled: `IdleMinutes` defaults to 30
(`config.cpp:72`) where `config.h:153` says zero; a port that is taken is tried again
only at the next change of the settings (`lanserver.cpp:92`).

## 6. Not modelled, and the plan

Not modelled on purpose: the NMEA parser (pure, unit-tested), the wording of the
answers, what the settings screen displays, QML, the firewall rule, the build. The
limit of one order a minute compares wall-clock times; in `Daemon` the minute just
passes, and a clock that is set back is not there. A screen locker that does not
answer, which `Locker::lock` only logs, is not modelled either, nor is a `systemctl
poweroff` that is refused and leaves its notice where the owner's message was
(`main.cpp:900`).

The plan, most important behaviour first, stands like this:

1. `Daemon`, `Ringer`, `LostMode`, `Locator`, `RelayClient`, `SettingsFile`: done, with
   proofs of every safety property the runs check.
2. `NtfyClient` and `LanServer`: done, likewise.
3. `Search`, which `Locator` and `Daemon` both implement, and the exact conditions of what
   section 5 refutes for the alarm, the messages and the relay: done.
4. Left to prove: one abstract channel that both `RelayClient` and `NtfyClient` implement,
   as far as they do; that `LanServer` answers a connection at most once; and the conditions under which the refuted
   properties of `Locator`, `SettingsFile` and `NtfyClient` hold.
5. Left to model: `Daemon` and the channels as one composition, in which `Reaches` and
   the verdict told to a client would be those of `LanServer` and `NtfyClient` (the state spaces multiply,
   and the interfaces are narrow); a locker and a notification server that fail; and
   the loan of the volume under a PulseAudio that fails now and then, where the code
   only does its best.
