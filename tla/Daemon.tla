------------------------------ MODULE Daemon ------------------------------
(***************************************************************************)
(* LostPhoneDaemon (src/daemon/main.cpp): the one place where an order,    *)
(* whichever door it came in through, is turned into an action.            *)
(*                                                                         *)
(* The daemon is one Qt event loop.  A handler runs to its end before the  *)
(* next one starts, so a handler is one action; start(), which runs other  *)
(* handlers inside itself, is cut at those inner calls, and "stage" keeps  *)
(* every other handler out until it has ended.  The process may die        *)
(* between any two actions; systemd starts it again (Restart=on-failure).  *)
(*                                                                         *)
(* The alarm, the search, the screen and the radios appear here as far as  *)
(* the dispatcher drives them; their own modules model them in full.       *)
(***************************************************************************)
EXTENDS Capabilities, Naturals, Sequences

CONSTANTS Senders,        \* phone numbers an SMS can come from
          NoOne,          \* the empty number
          Sms,            \* messages that may pass through the modem
          Texts,          \* what they may say: [from, keyed, verb]
          Blank,          \* the content of a message that does not exist
          Orders,         \* what the other channels send: <<channel, verb>>
          SessionCalls,   \* which of its D-Bus calls the session makes
          Configs,        \* the settings files the owner may write
          SoundAvailable, \* the Ringer can resolve something to play
          DiskWritable,   \* LostModeState::save can open its file
          MaxTries,       \* quick retries for a message with no body (5)
          MaxDue,         \* bound: delayed radio switch-ons outstanding when one
                          \* of the other channels orders another
          MaxCrashes      \* bound: deaths of the process or of the phone

ASSUME ConstantsAssumption ==
  /\ NoOne \notin Senders \cup Channel
  /\ Senders \cap Channel = {}
  /\ Texts \subseteq [from : Senders, keyed : BOOLEAN, verb : Verb]
  /\ Blank \notin Texts
  /\ Orders \subseteq (Channel \ {"Sms"}) \X Verb
  /\ SessionCalls \subseteq {"StopRing", "TestRing", "LeaveLostMode"}
  /\ Configs \subseteq Settings
  /\ SoundAvailable \in BOOLEAN
  /\ DiskWritable \in BOOLEAN
  /\ MaxTries \in Nat /\ MaxDue \in Nat /\ MaxCrashes \in Nat

VARIABLES
  settings,    \* m_settings
  stage,       \* "off", "grace" (m_started is false), the two halves of
               \* start(), "catchUp" and "pending", or "loop"
  catching,    \* the messages catchUpSms still has to look at
  pending,     \* m_pending; history: with the number each order came "from"
  pendingSms,  \* m_pendingSms, keyed by the verb
  limited,     \* m_lastCommand is less than a minute old
  reads,       \* <<message, attempt>>: a signal or a retry timer to come
  modem,       \* what the modem holds
  lost,        \* m_lost.active
  saved,       \* the lost-mode file
  locked,      \* the screen is locked
  ringing,     \* m_ringer.ringing()
  lit,         \* radios the Locator turned on and remembers (m_encendi*)
  due,         \* 500 ms timers that will call turnOnWhatIsNeeded
  refresh,     \* m_refresh: "off", or the rhythm it was armed with
  search,      \* the Locator: "idle", "refresh" or "full"
  wait,        \* who the fix is for: m_replyTo, m_statusFor, ...
  crashes,     \* deaths so far
  pin,         \* history: the PIN was typed since the last lock
  granted,     \* history: who asked, and was allowed, since the last fix
  by,          \* history: who took the last step
  out,         \* history: the answers that step sent
  verdict      \* history: what that step left in m_lastCommandReason, which
               \* the home channel reads before any other order can run:
               \* "done" when it is empty, "-" when no order was run

intake  == <<catching, pending, pendingSms, limited, reads, modem>>
lostVars == <<lost, saved, locked, refresh, pin>>
fixVars == <<search, wait, granted>>
vars == <<settings, stage, intake, lostVars, ringing, lit, due, fixVars,
          crashes, by, out, verdict>>

Number == Senders \cup {NoOne}
Noted == [channel : Channel, verb : Verb, from : Number]
Wait == [reply : Number, status : Number, withPosition : BOOLEAN,
         relay : BOOLEAN, ntfy : BOOLEAN]
NoWait == [reply |-> NoOne, status |-> NoOne, withPosition |-> FALSE,
           relay |-> FALSE, ntfy |-> FALSE]
NoMessage == [at |-> "none", text |-> Blank]
Arriving == [at |-> "arriving", text |-> Blank]
Gone == [at |-> "gone", text |-> Blank]
Bodies == [at : {"fresh"}, text : Texts]
Message == {NoMessage, Arriving, Gone} \cup [at : {"fresh", "old"}, text : Texts]
Destination == Senders \cup {"Relay", "Ntfy"}

\* A step that runs no order.
Took(who) == by' = who /\ verdict' = "-"

Started == stage \notin {"off", "grace"}
Ready == stage \in {"grace", "loop"}     \* no handler is in the middle

Init ==
  /\ settings \in Configs
  /\ stage = "grace"
  /\ catching = {} /\ pending = <<>> /\ pendingSms = [v \in Verb |-> NoOne]
  /\ limited = FALSE /\ reads = {} /\ modem = [m \in Sms |-> NoMessage]
  /\ lost = FALSE /\ saved = FALSE /\ locked = FALSE /\ pin = FALSE
  /\ refresh = "off"
  /\ ringing = FALSE /\ lit = FALSE /\ due = 0
  /\ search = "idle" /\ wait = NoWait /\ granted = {}
  /\ crashes = 0 /\ by = "boot" /\ out = {} /\ verdict = "-"

-----------------------------------------------------------------------------
(***************************************************************************)
(* The fix and where it goes.                                              *)
(***************************************************************************)

\* onLocated: the answers a fix produces for the waiting w, when g are those
\* who asked for it.  "coords" is whether the fix has coordinates.
Answers(w, g, coords) ==
  {a \in [to : Destination, kind : {"state", "where", "report"},
          position : BOOLEAN, asked : {g}] :
     \/ /\ a.to = w.status /\ a.kind = "state"
        /\ a.position = (w.withPosition /\ coords)
     \/ /\ a.to = w.reply /\ a.kind = "where" /\ settings.smsReply
        /\ a.position = coords
     \/ /\ a.to = "Relay" /\ a.kind = "report" /\ w.relay
        /\ settings.cred["Relay"]
        /\ a.position = coords
     \/ /\ a.to = "Ntfy" /\ a.kind = "report" /\ w.ntfy
        /\ a.position = coords}

DeliverForgetsRelayFlag(w, g) ==
  /\ \E coords \in BOOLEAN : out' = Answers(w, g, coords)
  /\ wait' = [NoWait EXCEPT !.withPosition = w.withPosition, !.relay = w.relay]
  /\ granted' = {}

\* Everything that waited is answered and forgotten; only the flag that says
\* whether a "state" may carry coordinates keeps its value.
Deliver(w, g) ==
  /\ \E coords \in BOOLEAN : out' = Answers(w, g, coords)
  /\ wait' = [NoWait EXCEPT !.withPosition = w.withPosition]
  /\ granted' = {}

\* turnOnWhatIsNeeded: remembers what was off.
TurnOnWhatIsNeeded == lit' \in {lit, TRUE}

\* Locator::locate on behalf of w: ride on the search that is running, or
\* start one; without satellites to wait for it completes at once.
Locate(w, g, turnOn) ==
  \/ /\ search # "idle" /\ (~turnOn \/ search = "full")
     /\ wait' = w /\ granted' = g /\ out' = {}
     /\ UNCHANGED <<search, lit>>
  \/ /\ ~(search # "idle" /\ (~turnOn \/ search = "full"))
     /\ IF turnOn THEN TurnOnWhatIsNeeded ELSE UNCHANGED lit
     /\ \/ /\ settings.gnss
           /\ search' = IF turnOn THEN "full" ELSE "refresh"
           /\ wait' = w /\ granted' = g /\ out' = {}
        \/ /\ ~settings.gnss
           /\ search' = "idle"
           /\ Deliver(w, g)

\* refreshInterval and armRefresh, for a phone that is or is not lost.
Cadence(isLost) == IF isLost
                   THEN IF settings.lostMinutes THEN "lost" ELSE "off"
                   ELSE IF settings.calmMinutes THEN "calm" ELSE "off"

\* LostModeState::save
Written(value) == IF DiskWritable THEN value ELSE saved

EnterLostMode ==
  /\ lost' = TRUE
  /\ saved' = Written(TRUE)
  /\ refresh' = Cadence(TRUE)
  /\ locked' = TRUE
  /\ pin' = FALSE

LeaveLostModeUnsaved ==
  lost' = FALSE /\ refresh' = Cadence(FALSE) /\ UNCHANGED <<saved, locked, pin>>

LeaveLostModeNotArming ==
  lost' = FALSE /\ saved' = Written(FALSE) /\ UNCHANGED <<refresh, locked, pin>>

LeaveLostMode ==
  /\ lost' = FALSE
  /\ saved' = Written(FALSE)
  /\ refresh' = Cadence(FALSE)
  /\ UNCHANGED <<locked, pin>>

\* Ringer::stop, and the ringingChanged(false) handler, which gives the
\* radios back unless the phone is lost.
Silence ==
  /\ ringing' = FALSE
  /\ lit' = (lit /\ (lost \/ ~ringing))

Sound == ringing' = (ringing \/ SoundAvailable)      \* Ringer::start

-----------------------------------------------------------------------------
(***************************************************************************)
(* runCommand, verb by verb.  c is the channel, "to" the number to answer; *)
(* who really asked, "who", is history.                                    *)
(***************************************************************************)
Refuse == /\ verdict' = "refused" /\ out' = {}
          /\ UNCHANGED <<lostVars, ringing, lit, due, fixVars>>

Ring(c) ==
  IF Allows(settings, c, "Ring")
  THEN /\ Sound
       /\ due' = due + 1
       /\ verdict' = "done" /\ out' = {}
       /\ UNCHANGED <<lostVars, lit, fixVars>>
  ELSE Refuse

StopFromAnywhere(c) ==
  IF Allows(settings, c, "Ring")
  THEN Silence /\ verdict' = "done" /\ out' = {}
       /\ UNCHANGED <<lostVars, due, fixVars>>
  ELSE Refuse

Stop(c) ==
  IF c # "Sms" /\ Allows(settings, c, "Ring")
  THEN /\ Silence
       /\ verdict' = "done" /\ out' = {}
       /\ UNCHANGED <<lostVars, due, fixVars>>
  ELSE Refuse

\* One flag per channel that can ask; the home channel's goes to the relay.
AskedBy(c, to) ==
  CASE c = "Sms"  -> [wait EXCEPT !.reply = to]
    [] c = "Ntfy" -> [wait EXCEPT !.ntfy = TRUE]
    [] OTHER      -> [wait EXCEPT !.relay = TRUE]

Where(c, to, who) ==
  IF Allows(settings, c, "Locate")
  THEN /\ Locate(AskedBy(c, to), granted \cup who, TRUE)
       /\ verdict' = "done"
       /\ UNCHANGED <<lostVars, ringing, due>>
  ELSE Refuse

Lock(c) ==
  IF Allows(settings, c, "Lock")
  THEN /\ EnterLostMode
       /\ due' = due + 1
       /\ verdict' = "done" /\ out' = {}
       /\ UNCHANGED <<ringing, lit, fixVars>>
  ELSE Refuse

UnlockByWhoLocks(c) ==
  IF Allows(settings, c, "Lock")
  THEN LeaveLostMode /\ verdict' = "done" /\ out' = {}
       /\ UNCHANGED <<ringing, lit, due, fixVars>>
  ELSE Refuse

Unlock(c) ==
  IF c = "Relay" /\ Allows(settings, c, "Lock")
  THEN /\ LeaveLostMode
       /\ verdict' = "done" /\ out' = {}
       /\ UNCHANGED <<ringing, lit, due, fixVars>>
  ELSE Refuse

\* The order is given and may fail; a phone it succeeds on is PowerOff below.
MayPowerOff(c) == c = "Relay" /\ Allows(settings, c, "Power")

GivePowerOff(c) ==
  IF MayPowerOff(c)
  THEN /\ verdict' = "done" /\ out' = {}
       /\ UNCHANGED <<lostVars, ringing, lit, due, fixVars>>
  ELSE Refuse

StateForAnyChannel(c, to) ==
  [wait EXCEPT !.status = to, !.withPosition = ChannelOn(settings, c)]

\* The only question.  It is answered whatever the channel may do; what the
\* permission decides is whether the answer carries coordinates.
StateFor(c, to) == [wait EXCEPT !.status = to,
                                !.withPosition = Allows(settings, c, "Locate")]

State(c, to, who) ==
  /\ Locate(StateFor(c, to),
            IF Allows(settings, c, "Locate") THEN granted \cup who ELSE granted,
            TRUE)
  /\ verdict' = "done"
  /\ UNCHANGED <<lostVars, ringing, due>>

Gibberish == /\ verdict' = "unknown" /\ out' = {}
             /\ UNCHANGED <<lostVars, ringing, lit, due, fixVars>>

Obey(c, verb, to, who) ==
  \/ verb = "ring"      /\ Ring(c)
  \/ verb = "stop"      /\ Stop(c)
  \/ verb = "where"     /\ Where(c, to, who)
  \/ verb = "lock"      /\ Lock(c)
  \/ verb = "unlock"    /\ Unlock(c)
  \/ verb = "poweroff"  /\ GivePowerOff(c)
  \/ verb = "state"     /\ State(c, to, who)
  \/ verb = "gibberish" /\ Gibberish

NoteDownUnderAnyVerb(c, verb, to) ==
  /\ pending' = Append(pending, [channel |-> c, verb |-> verb, from |-> to])
  /\ pendingSms' = IF to = NoOne THEN pendingSms ELSE [v \in Verb |-> to]
  /\ verdict' = "noted" /\ out' = {}
  /\ UNCHANGED <<lostVars, ringing, lit, due, fixVars>>

\* Still starting up: note it down.  The number is kept under the verb, in the
\* place of the one that an earlier order of that verb left there.
NoteDown(c, verb, to) ==
  /\ pending' = Append(pending, [channel |-> c, verb |-> verb, from |-> to])
  /\ pendingSms' = IF to = NoOne THEN pendingSms
                                 ELSE [pendingSms EXCEPT ![verb] = to]
  /\ verdict' = "noted" /\ out' = {}
  /\ UNCHANGED <<lostVars, ringing, lit, due, fixVars>>

RunCommand(c, verb, to) ==
  IF ~Started THEN NoteDown(c, verb, to)
              ELSE /\ Obey(c, verb, to, IF c = "Sms" THEN {to} ELSE {c})
                   /\ UNCHANGED <<pending, pendingSms>>

-----------------------------------------------------------------------------
(***************************************************************************)
(* An SMS: announced, read, and obeyed.                                    *)
(***************************************************************************)
ChannelReads == ChannelOn(settings, "Sms")    \* note: not the master switch

Readable(m) == modem[m].at \in {"fresh", "old"}

\* Nothing comes of it.
Ignore == /\ out' = {} /\ verdict' = "-"
          /\ UNCHANGED <<lostVars, ringing, lit, due, fixVars, pending,
                         pendingSms>>

Obeyed(m) == ChannelReads /\ Readable(m) /\ modem[m].text.keyed /\ ~limited

\* handleSms.  The message is deleted before it is acted on; the deletion
\* itself may fail.  A message whose body is not there yet is tried again.
\* "others" are the signals and timers left once this one has fired.
HandleSms(m, attempt, others) ==
  \/ /\ Obeyed(m)
     /\ limited' = TRUE
     /\ \/ UNCHANGED modem
        \/ settings.deleteAfter /\ modem' = [modem EXCEPT ![m] = Gone]
     /\ reads' = others
     /\ RunCommand("Sms", modem[m].text.verb, modem[m].text.from)
  \/ /\ ChannelReads /\ ~Readable(m)
     /\ reads' = others \cup (IF attempt < MaxTries THEN {<<m, attempt + 1>>}
                                                    ELSE {})
     /\ Ignore
     /\ UNCHANGED <<limited, modem>>
  \/ /\ ~Obeyed(m) /\ (ChannelReads => Readable(m))
     /\ reads' = others
     /\ Ignore
     /\ UNCHANGED <<limited, modem>>

\* onSmsAdded and the 200 ms retry timers.
OnSmsAdded(m, attempt) ==
  /\ Ready
  /\ <<m, attempt>> \in reads
  /\ HandleSms(m, attempt, reads \ {<<m, attempt>>})
  /\ by' = "Sms"
  /\ UNCHANGED <<settings, stage, catching, crashes>>

-----------------------------------------------------------------------------
(***************************************************************************)
(* start(), after the minute of grace.                                     *)
(***************************************************************************)

\* catchUpSms lists the modem's received messages younger than five minutes;
\* with no modem there is no list.
StartBegins ==
  /\ stage = "grace"
  /\ stage' = "catchUp"
  /\ catching' \in {{}, {m \in Sms : modem[m].at = "fresh"}}
  /\ Took("daemon") /\ out' = {}
  /\ UNCHANGED <<settings, pending, pendingSms, limited, reads, modem,
                 lostVars, ringing, lit, due, fixVars, crashes>>

CatchUpSms(m) ==
  /\ stage = "catchUp" /\ m \in catching
  /\ catching' = catching \ {m}
  /\ HandleSms(m, 0, reads)
  /\ by' = "Sms"
  /\ UNCHANGED <<settings, stage, crashes>>

RelockForgotten == UNCHANGED <<locked, pin>>

\* The components are configured, a position is taken for the relay, and a
\* phone that was lost is locked again.
Relock == IF lost THEN locked' = TRUE /\ pin' = FALSE
                  ELSE UNCHANGED <<locked, pin>>

StartConfigures ==
  /\ stage = "catchUp" /\ catching = {}
  /\ stage' = "pending"
  /\ IF Allows(settings, "Relay", "Locate")
     THEN Locate([wait EXCEPT !.relay = TRUE], granted \cup {"Relay"}, FALSE)
     ELSE out' = {} /\ UNCHANGED <<fixVars, lit>>
  /\ refresh' = Cadence(lost)
  /\ Relock
  /\ Took("daemon")
  /\ UNCHANGED <<settings, intake, lost, saved, ringing, due, crashes>>

\* All who have noted down what comes first now, and wait for it to be run.
Askers == {pending[i].from : i \in {j \in DOMAIN pending :
                                      pending[j].verb = Head(pending).verb}}

RunPendingNeverPops ==
  /\ stage = "pending" /\ pending # <<>>
  /\ Obey(Head(pending).channel, Head(pending).verb,
          pendingSms[Head(pending).verb], Askers)
  /\ by' = Head(pending).channel
  /\ UNCHANGED <<settings, stage, intake, crashes>>

RunPending ==
  /\ stage = "pending" /\ pending # <<>>
  /\ pending' = Tail(pending)
  /\ Obey(Head(pending).channel, Head(pending).verb,
          pendingSms[Head(pending).verb], Askers)
  /\ by' = Head(pending).channel
  /\ UNCHANGED <<settings, stage, catching, pendingSms, limited, reads, modem,
                 crashes>>

StartEnds ==
  /\ stage = "pending" /\ pending = <<>>
  /\ stage' = "loop"
  /\ pendingSms' = [v \in Verb |-> NoOne]
  /\ Took("daemon") /\ out' = {}
  /\ UNCHANGED <<settings, catching, pending, limited, reads, modem, lostVars,
                 ringing, lit, due, fixVars, crashes>>

-----------------------------------------------------------------------------
(***************************************************************************)
(* The running daemon.                                                     *)
(***************************************************************************)

\* The other three doors open only once start() has configured them.  The relay
\* client closes with its switch; a connection the home channel had accepted
\* (LanServer) and a stream that stop() opened again (NtfyClient) outlive it.
Reaches(c) ==
  /\ stage = "loop"
  /\ CASE c = "Relay"           -> settings.enabled /\ ChannelOn(settings, c)
       [] c \in {"Lan", "Ntfy"} -> settings.cred[c]
       [] OTHER                 -> FALSE

Order(c, verb) ==
  /\ <<c, verb>> \in Orders
  /\ Reaches(c)
  /\ verb \in {"ring", "lock"} => due < MaxDue
  /\ RunCommand(c, verb, NoOne)
  /\ by' = c
  /\ UNCHANGED <<settings, stage, catching, limited, reads, modem, crashes>>

\* Locator::finished
Located ==
  /\ stage = "loop" /\ search # "idle"
  /\ search' = "idle"
  /\ Deliver(wait, granted)
  /\ Took("daemon")
  /\ UNCHANGED <<settings, stage, intake, lostVars, ringing, lit, due, crashes>>

\* The single shot 500 ms after a ring or a lock order.
LateTurnOn ==
  /\ Ready /\ due > 0
  /\ due' = due - 1
  /\ TurnOnWhatIsNeeded
  /\ Took("daemon") /\ out' = {}
  /\ UNCHANGED <<settings, stage, intake, lostVars, ringing, fixVars, crashes>>

\* refreshPosition.  It re-arms itself whatever it did.
RefreshPosition ==
  /\ Ready /\ refresh # "off"
  /\ refresh' = Cadence(lost)
  /\ IF Started /\ search = "idle" /\ Allows(settings, "Relay", "Locate")
     THEN Locate([wait EXCEPT !.relay = TRUE], granted \cup {"Relay"}, FALSE)
     ELSE out' = {} /\ UNCHANGED <<fixVars, lit>>
  /\ Took("daemon")
  /\ UNCHANGED <<settings, stage, intake, lost, saved, locked, pin, ringing,
                 due, crashes>>

\* The alarm ends by itself: its timer, or no audio path (Ringer).
AlarmEnds ==
  /\ Ready /\ ringing
  /\ Silence
  /\ Took("ringer") /\ out' = {}
  /\ UNCHANGED <<settings, stage, intake, lostVars, due, fixVars, crashes>>

\* A minute has gone by on the wall clock.
MinutePasses ==
  /\ limited
  /\ limited' = FALSE
  /\ Took("daemon") /\ out' = {}
  /\ UNCHANGED <<settings, stage, catching, pending, pendingSms, reads, modem,
                 lostVars, ringing, lit, due, fixVars, crashes>>

\* The settings file changed and the watcher fired.
Reload(s) ==
  /\ Ready /\ s # settings
  /\ settings' = s
  /\ Took("daemon") /\ out' = {}
  /\ UNCHANGED <<stage, intake, lostVars, ringing, lit, due, fixVars, crashes>>

-----------------------------------------------------------------------------
(***************************************************************************)
(* The session: reached from inside it, so behind the PIN.                 *)
(***************************************************************************)
StopRing ==
  /\ "StopRing" \in SessionCalls /\ Ready
  /\ Silence
  /\ Took("session") /\ out' = {}
  /\ UNCHANGED <<settings, stage, intake, lostVars, due, fixVars, crashes>>

TestRing ==
  /\ "TestRing" \in SessionCalls /\ Ready
  /\ Sound
  /\ Took("session") /\ out' = {}
  /\ UNCHANGED <<settings, stage, intake, lostVars, lit, due, fixVars, crashes>>

SessionLeavesLostMode ==
  /\ "LeaveLostMode" \in SessionCalls /\ Ready
  /\ LeaveLostMode
  /\ Took("session") /\ out' = {}
  /\ UNCHANGED <<settings, stage, intake, ringing, lit, due, fixVars, crashes>>

\* Whoever knows the PIN opens the screen.
TypePin ==
  /\ locked
  /\ locked' = FALSE /\ pin' = TRUE
  /\ Took("session") /\ out' = {}
  /\ UNCHANGED <<settings, stage, intake, lost, saved, refresh, ringing, lit,
                 due, fixVars, crashes>>

-----------------------------------------------------------------------------
(***************************************************************************)
(* The modem and the other daemons that read it.                           *)
(***************************************************************************)
World == /\ Took("daemon") /\ out' = {}
         /\ UNCHANGED <<settings, stage, catching, pending, pendingSms, limited,
                        lostVars, ringing, lit, due, fixVars, crashes>>

\* Announced, with its body or before it.
SmsArrives(m) ==
  /\ modem[m].at = "none"
  /\ modem' \in {[modem EXCEPT ![m] = b] : b \in {Arriving} \cup Bodies}
  /\ reads' = IF stage = "off" THEN reads ELSE reads \cup {<<m, 0>>}
  /\ World

\* Its body gets there, it ages, another daemon deletes it.
SmsMoves(m) ==
  /\ \/ /\ modem[m].at = "arriving"
        /\ modem' \in {[modem EXCEPT ![m] = b] : b \in Bodies}
     \/ /\ modem[m].at = "fresh"
        /\ modem' = [modem EXCEPT ![m].at = "old"]
     \/ /\ modem[m].at \in {"arriving", "fresh", "old"}
        /\ modem' = [modem EXCEPT ![m] = Gone]
  /\ UNCHANGED reads
  /\ World

-----------------------------------------------------------------------------
(***************************************************************************)
(* The process dies, alone or with the phone, and is started again: the    *)
(* constructor reads the settings and the lost-mode file and nothing else. *)
(***************************************************************************)
Reborn(newStage, withPhone) ==
  /\ stage' = newStage
  /\ catching' = {} /\ pending' = <<>> /\ pendingSms' = [v \in Verb |-> NoOne]
  /\ limited' = FALSE /\ reads' = {}
  /\ lost' = saved /\ refresh' = "off"
  /\ locked' = (locked /\ ~withPhone) /\ pin' = (pin /\ ~withPhone)
  /\ ringing' = FALSE /\ lit' = FALSE /\ due' = 0
  /\ search' = "idle" /\ wait' = NoWait /\ granted' = {}
  /\ Took("boot") /\ out' = {}
  /\ UNCHANGED <<settings, modem, saved>>

Crash(withPhone) ==
  /\ crashes < MaxCrashes /\ crashes' = crashes + 1
  /\ stage # "off"
  /\ Reborn("grace", withPhone)

\* systemctl poweroff did what it was asked.
PowerOff ==
  /\ Reaches("Relay") /\ MayPowerOff("Relay")
  /\ Reborn("off", TRUE)
  /\ UNCHANGED crashes

PowerOn ==
  /\ stage = "off"
  /\ Reborn("grace", TRUE)
  /\ UNCHANGED crashes

-----------------------------------------------------------------------------
Next ==
  \/ \E m \in Sms, n \in 0..MaxTries : OnSmsAdded(m, n)
  \/ StartBegins
  \/ \E m \in Sms : CatchUpSms(m)
  \/ StartConfigures
  \/ RunPending
  \/ StartEnds
  \/ \E c \in Channel, v \in Verb : Order(c, v)
  \/ Located
  \/ LateTurnOn
  \/ RefreshPosition
  \/ AlarmEnds
  \/ MinutePasses
  \/ \E s \in Configs : Reload(s)
  \/ StopRing
  \/ TestRing
  \/ SessionLeavesLostMode
  \/ TypePin
  \/ \E m \in Sms : SmsArrives(m)
  \/ \E m \in Sms : SmsMoves(m)
  \/ \E withPhone \in BOOLEAN : Crash(withPhone)
  \/ PowerOff
  \/ PowerOn

Spec == Init /\ [][Next]_vars

\* A search ends by its own deadline, and start() is not interrupted: both
\* are the event loop's doing.
Fairness == /\ WF_vars(Located)
            /\ WF_vars(StartBegins)
            /\ WF_vars(\E m \in Sms : CatchUpSms(m))
            /\ WF_vars(StartConfigures)
            /\ WF_vars(RunPending)
            /\ WF_vars(StartEnds)
            /\ WF_vars(PowerOn)

FairSpec == Spec /\ Fairness

-----------------------------------------------------------------------------
(***************************************************************************)
(* Properties.                                                             *)
(***************************************************************************)

\* Every variable keeps its type.
TypeOK ==
  /\ settings \in Settings
  /\ stage \in {"off", "grace", "catchUp", "pending", "loop"}
  /\ catching \in SUBSET Sms
  /\ pending \in Seq(Noted)
  /\ pendingSms \in [Verb -> Number]
  /\ limited \in BOOLEAN
  /\ reads \in SUBSET (Sms \X (0..MaxTries))
  /\ modem \in [Sms -> Message]
  /\ lost \in BOOLEAN /\ saved \in BOOLEAN
  /\ locked \in BOOLEAN /\ pin \in BOOLEAN
  /\ refresh \in {"off", "calm", "lost"}
  /\ ringing \in BOOLEAN /\ lit \in BOOLEAN /\ due \in Nat
  /\ search \in {"idle", "refresh", "full"}
  /\ wait \in Wait
  /\ granted \in SUBSET (Number \cup Channel)
  /\ verdict \in {"-", "done", "refused", "unknown", "noted"}
  /\ crashes \in Nat

\* Whoever is waiting for a fix has a search running for them: the five
\* places that set a flag and the two that end a search (at its deadline, or
\* at once when there is no GNSS) never leave a flag that nothing will serve.
\* But for the relay's, which a refresh serves too, they have a full one.
SomebodyLooks == wait.reply # NoOne \/ wait.status # NoOne \/ wait.ntfy
SomebodyWaits == SomebodyLooks \/ wait.relay

WaitingMeansSearching == /\ SomebodyWaits => search # "idle"
                         /\ SomebodyLooks => search = "full"

\* The same over time, for whoever asked and was allowed: through noted orders,
\* rides, restarts, reloads of the settings and deaths of the process.  The
\* relay is left out, since it may have asked for no more than a refresh.
Looking == INSTANCE Search WITH kind <- search,
                                waiting <- granted \ {"Relay"} # {}

KeepsWhoLooks == Looking!Spec

\* A position goes only to somebody who asked, and whose channel was allowed
\* to locate when it asked, since the last fix (main.cpp 848-851, 907-911):
\* through orders noted down in the grace minute and looked up by their verb,
\* searches that are ridden on or restarted, and settings that change while the
\* search runs.  It takes a home channel that may not locate, which is how it
\* comes (config.cpp 97): where it may, its question is answered to the relay,
\* and RelayGetsOnlyWhatItAsked below fails.
PositionOnlyToWhoAsked == \A a \in out : a.position => a.to \in a.asked

\* Between two handlers the file says what the memory says, so there is no
\* moment at which dying forgets, or invents, a lost phone.
LostIsOnDisk == DiskWritable => saved = lost

\* Once the daemon has started, a lost phone has its screen locked unless
\* somebody typed the PIN: through crashes, reboots and orders noted down.
LostIsLocked == lost /\ stage \in {"pending", "loop"} => locked \/ pin

\* The refresh timer beats at the lost rhythm exactly while the phone is lost.
CadenceFollowsLost == refresh # "off" => (refresh = "lost" <=> lost)

\* An order noted down in the grace minute, and everything noted with it, is
\* answered at the number of whoever sent that same order last (main.cpp
\* 793-795 and 421): never at the number behind another order, and never
\* nowhere.  What becomes of an earlier sender, AnsweredToItsSender says.
LastToNote(v, n) ==
  \E j \in DOMAIN pending :
     /\ pending[j].verb = v /\ pending[j].from = n
     /\ \A k \in DOMAIN pending : pending[k].verb = v => k <= j

NotedOrdersKnowAnAsker ==
  \A i \in DOMAIN pending : /\ pending[i].channel = "Sms"
                            /\ LastToNote(pending[i].verb,
                                          pendingSms[pending[i].verb])

\* Lost mode ends by the PIN or by an entitled panel, and by nothing else: no
\* SMS, no other channel, no restart (README, "Lost mode").
LostEndsByPanelOrPin ==
  [][DiskWritable /\ lost /\ ~lost' =>
       \/ by' = "session"
       \/ by' = "Relay" /\ Allows(settings, "Relay", "Lock")]_vars

\* The alarm is silenced by the PIN, by itself, or by a channel that may make
\* it ring; never by an SMS, not even by one noted down or caught up with.
AlarmStopsByRight ==
  [][ringing /\ ~ringing' =>
       \/ by' \in {"session", "ringer", "boot"}
       \/ by' # "Sms" /\ Allows(settings, by', "Ring")]_vars

\* An order does no more than its channel may do at the moment it acts, whenever
\* it was sent, noted down or caught up with, and whatever the settings were
\* then; and what the daemon does of its own accord (timers, start(), the modem,
\* a reload) neither rings nor silences, reports lost nor recovers
\* (runCommand, main.cpp 775-930).
ActsByRight ==
  [][/\ by' \in Channel =>
          /\ ringing' # ringing => Allows(settings, by', "Ring")
          /\ ringing /\ ~ringing' => by' # "Sms"
          /\ <<lost, saved, locked>>' # <<lost, saved, locked>> =>
               Allows(settings, by', "Lock")
          /\ lost /\ ~lost' => by' = "Relay"
          /\ granted' \ granted # {} => Allows(settings, by', "Locate")
     /\ by' = "ringer" => UNCHANGED <<lost, saved, locked>> /\ ~ringing'
     /\ by' = "daemon" => UNCHANGED <<ringing, lost, saved>>]_vars

\* An order noted down in the grace minute is run once start() has caught up, in
\* the order they came, and before any other door opens; only the death of the
\* process loses it (main.cpp 264-275 and 785-794).
NotedOrdersAreRun ==
  /\ [](stage = "loop" => pending = <<>> /\ catching = {})
  /\ [][pending' # pending =>
          \/ by' = "boot"
          \/ /\ ~Started
             /\ \E o \in [channel : {"Sms"}, verb : Verb, from : Senders] :
                  pending' = Append(pending, o)
          \/ /\ stage = "pending" /\ catching = {}
             /\ pending' = Tail(pending)
             /\ by' = Head(pending).channel /\ verdict' # "noted"]_vars

\* With the master switch off no channel makes the phone ring or gives it up
\* for lost, whatever was noted down, caught up with or left connected.
OffMeansInert ==
  [][~settings.enabled =>
       /\ ringing' => ringing \/ by' = "session"
       /\ lost' => lost]_vars

\* Whoever waits is served or dropped in the end, never kept for ever.
WaitingEnds == SomebodyWaits ~> ~SomebodyWaits

\* However often it dies, the daemon ends up in its loop with nothing pending.
StartupCompletes == stage # "loop" ~> stage = "loop" /\ pending = <<>>

-----------------------------------------------------------------------------
(***************************************************************************)
(* What the documents say and the code does not do.                        *)
(***************************************************************************)

\* "With it off the daemon keeps running and keeps answering nothing"
\* (config.h 59-60).
OffMeansSilent == [][~settings.enabled => out' = {}]_vars

\* "Each channel has its own credential and they lend nothing to each other"
\* (README), "an answer that went to the wrong one would be a position handed
\* to somebody who never asked for it" (main.cpp 848-851).
RelayGetsOnlyWhatItAsked ==
  \A a \in out : a.to = "Relay" /\ a.position => "Relay" \in a.asked

\* "Only what we turned on ourselves is turned back off" when the alarm goes
\* quiet (main.cpp 171-175): a phone that was only ever rung has no radio left
\* on once it is quiet and no timer is due.
QuietPhoneGaveItsRadiosBack == ~ringing /\ due = 0 /\ ~lost => ~lit

\* "Answer by SMS to whoever asked" is a switch (config.h 89-91): with it off
\* nothing is sent.
NoReplyMeansNoSms == ~settings.smsReply => \A a \in out : a.to \notin Senders

\* "One flag per channel and not a single 'who asked' field, because two
\* channels can ask at once" (main.cpp 848-850): whoever waits for an answer by
\* SMS gets it, or the process died.
AskersAreAnswered ==
  [][/\ wait.status \notin {NoOne, wait'.status} /\ by' # "boot" =>
          \E a \in out' : a.to = wait.status /\ a.kind = "state"
     /\ wait.reply \notin {NoOne, wait'.reply} /\ by' # "boot" /\ settings.smsReply =>
          \E a \in out' : a.to = wait.reply /\ a.kind = "where"]_vars

\* "Still starting up: note it down and do it when done.  Losing the order would
\* be worse" (main.cpp 785-788): an order noted down is answered to whoever sent
\* it, although somebody else sends the same order before it is run.
AnsweredToItsSender ==
  \A i \in DOMAIN pending : pendingSms[pending[i].verb] = pending[i].from

\* "By default, it was NOT done ... only the end of the function clears it"
\* (main.cpp 781-783): an order reported as done to ring made the phone ring.
DoneMeansRinging ==
  [][\A c \in {"Lan", "Relay", "Ntfy"} :
        by' = c /\ due' > due /\ verdict' = "done" /\ lost' = lost => ringing']_vars
=============================================================================
