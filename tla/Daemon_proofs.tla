--------------------------- MODULE Daemon_proofs ---------------------------
(***************************************************************************)
(* Proofs about Daemon, for every set of phone numbers, messages, settings *)
(* files and orders, and for any number of crashes.                        *)
(***************************************************************************)
EXTENDS Daemon, TLAPS

\* A handler that runs an order touches lost mode in one of three ways.
LEMMA ObeyAndLostMode ==
  ASSUME NEW c, NEW verb, NEW to, NEW who, Obey(c, verb, to, who)
  PROVE  \/ EnterLostMode /\ Allows(settings, c, "Lock")
         \/ LeaveLostMode /\ c = "Relay" /\ Allows(settings, "Relay", "Lock")
         \/ UNCHANGED lostVars
<1>1. CASE verb = "ring" /\ Ring(c)
  BY <1>1 DEF Ring, Refuse
<1>2. CASE verb = "stop" /\ Stop(c)
  BY <1>2 DEF Stop, Refuse
<1>3. CASE verb = "where" /\ Where(c, to, who)
  BY <1>3 DEF Where, Refuse
<1>4. CASE verb = "lock" /\ Lock(c)
  BY <1>4 DEF Lock, Refuse
<1>5. CASE verb = "unlock" /\ Unlock(c)
  BY <1>5 DEF Unlock, Refuse
<1>6. CASE verb = "poweroff" /\ GivePowerOff(c)
  BY <1>6 DEF GivePowerOff, Refuse
<1>7. CASE verb = "state" /\ State(c, to, who)
  BY <1>7 DEF State
<1>8. CASE verb = "gibberish" /\ Gibberish
  BY <1>8 DEF Gibberish
<1>9. QED
  BY <1>1, <1>2, <1>3, <1>4, <1>5, <1>6, <1>7, <1>8 DEF Obey

LEMMA RunCommandAndLostMode ==
  ASSUME NEW c, NEW verb, NEW to, RunCommand(c, verb, to)
  PROVE  \/ EnterLostMode /\ Allows(settings, c, "Lock")
         \/ LeaveLostMode /\ c = "Relay" /\ Allows(settings, "Relay", "Lock")
         \/ UNCHANGED lostVars
<1>1. CASE Started
  BY <1>1, ObeyAndLostMode DEF RunCommand
<1>2. CASE ~Started
  BY <1>2 DEF RunCommand, NoteDown
<1>3. QED
  BY <1>1, <1>2

\* An SMS can put the phone in lost mode and do nothing else to it.
LEMMA HandleSmsAndLostMode ==
  ASSUME NEW m, NEW attempt, NEW others, HandleSms(m, attempt, others)
  PROVE  (EnterLostMode /\ Allows(settings, "Sms", "Lock")) \/ UNCHANGED lostVars
<1>1. CASE RunCommand("Sms", modem[m].text.verb, modem[m].text.from)
  BY <1>1, RunCommandAndLostMode
<1>2. CASE Ignore
  BY <1>2 DEF Ignore
<1>3. QED
  BY <1>1, <1>2 DEF HandleSms

\* What a step can do to lost mode, to the screen and to the stage.
GivesUp == EnterLostMode /\ UNCHANGED stage /\ settings.enabled
Recovers ==
  /\ LeaveLostMode /\ UNCHANGED stage
  /\ by' = "session" \/ (by' = "Relay" /\ Allows(settings, "Relay", "Lock"))
Beats == refresh' \in {refresh, Cadence(lost)}
LeavesAlone == UNCHANGED <<lost, saved, locked, pin>> /\ Beats
               /\ stage' \in {stage, "catchUp"} \cup (IF stage = "pending"
                                                      THEN {"loop"} ELSE {})
LocksAgain == Relock /\ UNCHANGED <<lost, saved>> /\ Beats
Opens == locked' = FALSE /\ pin' = TRUE /\ UNCHANGED <<lost, saved, stage, refresh>>
Dies == stage' \in {"off", "grace"} /\ lost' = saved /\ saved' = saved /\ refresh' = "off"

\* Every action does one of these.
LEMMA StepAndLostMode ==
  ASSUME [Next]_vars
  PROVE  GivesUp \/ Recovers \/ LeavesAlone \/ LocksAgain \/ Opens \/ Dies
<1> USE DEF GivesUp, Recovers, Beats, LeavesAlone, LocksAgain, Opens, Dies, lostVars
<1>1. ASSUME NEW m \in Sms, NEW n \in 0..MaxTries, OnSmsAdded(m, n)
      PROVE  /\ (EnterLostMode /\ settings.enabled) \/ UNCHANGED lostVars
             /\ UNCHANGED stage
  BY <1>1, HandleSmsAndLostMode DEF OnSmsAdded, Allows
<1>2. CASE StartBegins
  BY <1>2 DEF StartBegins
<1>3. ASSUME NEW m \in Sms, CatchUpSms(m)
      PROVE  /\ (EnterLostMode /\ settings.enabled) \/ UNCHANGED lostVars
             /\ UNCHANGED stage
  BY <1>3, HandleSmsAndLostMode DEF CatchUpSms, Allows
<1>4. CASE StartConfigures
  BY <1>4 DEF StartConfigures
<1>5. CASE RunPending
  <2>1. /\ Obey(Head(pending).channel, Head(pending).verb,
                pendingSms[Head(pending).verb], Askers)
        /\ by' = Head(pending).channel /\ UNCHANGED stage
    BY <1>5 DEF RunPending
  <2>2. QED
    BY <2>1, ObeyAndLostMode DEF Allows
<1>6. CASE StartEnds
  BY <1>6 DEF StartEnds
<1>7. ASSUME NEW c \in Channel, NEW v \in Verb, Order(c, v)
      PROVE  /\ UNCHANGED stage
             /\ \/ EnterLostMode /\ settings.enabled
                \/ /\ LeaveLostMode
                   /\ by' = "Relay" /\ Allows(settings, "Relay", "Lock")
                \/ UNCHANGED lostVars
  BY <1>7, RunCommandAndLostMode DEF Order, Allows
<1>8. CASE Located
  BY <1>8 DEF Located
<1>9. CASE LateTurnOn
  BY <1>9 DEF LateTurnOn
<1>10. CASE RefreshPosition
  BY <1>10 DEF RefreshPosition
<1>11. CASE AlarmEnds
  BY <1>11 DEF AlarmEnds
<1>12. CASE MinutePasses
  BY <1>12 DEF MinutePasses
<1>13. ASSUME NEW s \in Configs, Reload(s)
       PROVE  UNCHANGED lostVars /\ UNCHANGED stage
  BY <1>13 DEF Reload
<1>14. CASE StopRing
  BY <1>14 DEF StopRing
<1>15. CASE TestRing
  BY <1>15 DEF TestRing
<1>16. CASE SessionLeavesLostMode
  BY <1>16 DEF SessionLeavesLostMode, Took
<1>17. CASE TypePin
  BY <1>17 DEF TypePin
<1>18. ASSUME NEW m \in Sms, SmsArrives(m) \/ SmsMoves(m)
       PROVE  UNCHANGED lostVars /\ UNCHANGED stage
  BY <1>18 DEF SmsArrives, SmsMoves, World
<1>19. ASSUME NEW withPhone \in BOOLEAN, Crash(withPhone)
       PROVE  Dies
  BY <1>19 DEF Crash, Reborn
<1>20. CASE PowerOff
  BY <1>20 DEF PowerOff, Reborn
<1>21. CASE PowerOn
  BY <1>21 DEF PowerOn, Reborn
<1>22. CASE UNCHANGED vars
  BY <1>22 DEF vars
<1>23. QED
  BY <1>1, <1>2, <1>3, <1>4, <1>5, <1>6, <1>7, <1>8, <1>9, <1>10, <1>11,
     <1>12, <1>13, <1>14, <1>15, <1>16, <1>17, <1>18, <1>19, <1>20, <1>21,
     <1>22 DEF Next

-----------------------------------------------------------------------------
(***************************************************************************)
(* A phone that was lost stays lost, and locked.                           *)
(***************************************************************************)

\* The lost-mode file and the memory agree between two handlers, so dying at
\* any point neither forgets nor invents a lost phone (enterLostMode and
\* leaveLostMode always save; the constructor reads what they saved).
THEOREM LostOnDisk == Spec => []LostIsOnDisk
<1>1. Init => LostIsOnDisk
  BY DEF Init, LostIsOnDisk
<1>2. LostIsOnDisk /\ [Next]_vars => LostIsOnDisk'
  <2> SUFFICES ASSUME DiskWritable => saved = lost, [Next]_vars, DiskWritable
               PROVE  saved' = lost'
    BY DEF LostIsOnDisk
  <2>1. CASE GivesUp
    BY <2>1 DEF GivesUp, EnterLostMode, Written
  <2>2. CASE Recovers
    BY <2>2 DEF Recovers, LeaveLostMode, Written
  <2>3. CASE LeavesAlone
    BY <2>3 DEF LeavesAlone
  <2>4. CASE LocksAgain
    BY <2>4 DEF LocksAgain
  <2>5. CASE Opens
    BY <2>5 DEF Opens
  <2>6. CASE Dies
    BY <2>6 DEF Dies
  <2>7. QED
    BY <2>1, <2>2, <2>3, <2>4, <2>5, <2>6, StepAndLostMode
<1>3. QED
  BY <1>1, <1>2, PTL DEF Spec

\* Once start() has configured the components, a lost phone is locked unless
\* the PIN was typed since: start() locks it again after every death, and no
\* order opens it.
THEOREM LostLocked == Spec => []LostIsLocked
<1>1. Init => LostIsLocked
  BY DEF Init, LostIsLocked
<1>2. LostIsLocked /\ [Next]_vars => LostIsLocked'
  <2> SUFFICES ASSUME LostIsLocked, [Next]_vars
               PROVE  LostIsLocked'
    OBVIOUS
  <2> USE DEF LostIsLocked
  <2>1. CASE GivesUp
    BY <2>1 DEF GivesUp, EnterLostMode
  <2>2. CASE Recovers
    BY <2>2 DEF Recovers, LeaveLostMode
  <2>3. CASE LeavesAlone
    BY <2>3 DEF LeavesAlone
  <2>4. CASE LocksAgain
    BY <2>4 DEF LocksAgain, Relock
  <2>5. CASE Opens
    BY <2>5 DEF Opens
  <2>6. CASE Dies
    BY <2>6 DEF Dies
  <2>7. QED
    BY <2>1, <2>2, <2>3, <2>4, <2>5, <2>6, StepAndLostMode
<1>3. QED
  BY <1>1, <1>2, PTL DEF Spec

\* Lost mode ends by the PIN or by a panel that may lock; neither an SMS, nor
\* another channel, nor a restart ends it.
THEOREM LostEnds == Spec => LostEndsByPanelOrPin
<1> DEFINE Entitled == \/ by' = "session"
                       \/ by' = "Relay" /\ Allows(settings, "Relay", "Lock")
<1>1. LostIsOnDisk /\ [Next]_vars => [DiskWritable /\ lost /\ ~lost' => Entitled]_vars
  <2> SUFFICES ASSUME LostIsOnDisk, [Next]_vars, DiskWritable, lost, ~lost'
               PROVE  Entitled
    OBVIOUS
  <2>1. CASE GivesUp
    BY <2>1 DEF GivesUp, EnterLostMode
  <2>2. CASE Recovers
    BY <2>2 DEF Recovers
  <2>3. CASE LeavesAlone
    BY <2>3 DEF LeavesAlone
  <2>4. CASE LocksAgain
    BY <2>4 DEF LocksAgain
  <2>5. CASE Opens
    BY <2>5 DEF Opens
  <2>6. CASE Dies
    BY <2>6 DEF Dies, LostIsOnDisk
  <2>7. QED
    BY <2>1, <2>2, <2>3, <2>4, <2>5, <2>6, StepAndLostMode
<1>2. QED
  BY <1>1, LostOnDisk, PTL DEF Spec, LostEndsByPanelOrPin

\* The refresh timer beats at the lost rhythm exactly while the phone is lost:
\* armRefresh runs with every change of m_lost.active, and a restart stops it.
THEOREM LostBeatsFaster == Spec => []CadenceFollowsLost
<1>1. Init => CadenceFollowsLost
  BY DEF Init, CadenceFollowsLost
<1>2. CadenceFollowsLost /\ [Next]_vars => CadenceFollowsLost'
  <2> SUFFICES ASSUME CadenceFollowsLost, [Next]_vars
               PROVE  CadenceFollowsLost'
    OBVIOUS
  <2> USE DEF CadenceFollowsLost
  <2>1. CASE GivesUp
    BY <2>1 DEF GivesUp, EnterLostMode, Cadence
  <2>2. CASE Recovers
    BY <2>2 DEF Recovers, LeaveLostMode, Cadence
  <2>3. CASE LeavesAlone
    BY <2>3 DEF LeavesAlone, Beats, Cadence
  <2>4. CASE LocksAgain
    BY <2>4 DEF LocksAgain, Beats, Cadence
  <2>5. CASE Opens
    BY <2>5 DEF Opens
  <2>6. CASE Dies
    BY <2>6 DEF Dies
  <2>7. QED
    BY <2>1, <2>2, <2>3, <2>4, <2>5, <2>6, StepAndLostMode
<1>3. QED
  BY <1>1, <1>2, PTL DEF Spec

-----------------------------------------------------------------------------
(***************************************************************************)
(* The alarm: who starts it and who ends it.                               *)
(***************************************************************************)
\* An order touches the alarm in one of three ways.
LEMMA ObeyAndAlarm ==
  ASSUME NEW c, NEW verb, NEW to, NEW who, Obey(c, verb, to, who)
  PROVE  \/ Sound /\ Allows(settings, c, "Ring")
         \/ Silence /\ c # "Sms" /\ Allows(settings, c, "Ring")
         \/ UNCHANGED ringing
<1>1. CASE verb = "ring" /\ Ring(c)
  BY <1>1 DEF Ring, Refuse
<1>2. CASE verb = "stop" /\ Stop(c)
  BY <1>2 DEF Stop, Refuse
<1>3. CASE verb = "where" /\ Where(c, to, who)
  BY <1>3 DEF Where, Refuse
<1>4. CASE verb = "lock" /\ Lock(c)
  BY <1>4 DEF Lock, Refuse
<1>5. CASE verb = "unlock" /\ Unlock(c)
  BY <1>5 DEF Unlock, Refuse
<1>6. CASE verb = "poweroff" /\ GivePowerOff(c)
  BY <1>6 DEF GivePowerOff, Refuse
<1>7. CASE verb = "state" /\ State(c, to, who)
  BY <1>7 DEF State
<1>8. CASE verb = "gibberish" /\ Gibberish
  BY <1>8 DEF Gibberish
<1>9. QED
  BY <1>1, <1>2, <1>3, <1>4, <1>5, <1>6, <1>7, <1>8 DEF Obey

LEMMA RunCommandAndAlarm ==
  ASSUME NEW c, NEW verb, NEW to, RunCommand(c, verb, to)
  PROVE  \/ Sound /\ Allows(settings, c, "Ring")
         \/ Silence /\ c # "Sms" /\ Allows(settings, c, "Ring")
         \/ UNCHANGED ringing
<1>1. CASE Started
  BY <1>1, ObeyAndAlarm DEF RunCommand
<1>2. CASE ~Started
  BY <1>2 DEF RunCommand, NoteDown
<1>3. QED
  BY <1>1, <1>2

\* An SMS can make the phone ring and never make it stop.
LEMMA HandleSmsAndAlarm ==
  ASSUME NEW m, NEW attempt, NEW others, HandleSms(m, attempt, others)
  PROVE  (Sound /\ Allows(settings, "Sms", "Ring")) \/ UNCHANGED ringing
<1>1. CASE RunCommand("Sms", modem[m].text.verb, modem[m].text.from)
  BY <1>1, RunCommandAndAlarm
<1>2. CASE Ignore
  BY <1>2 DEF Ignore
<1>3. QED
  BY <1>1, <1>2 DEF HandleSms

Sounds == Sound /\ (by' = "session" \/ settings.enabled)
Silences ==
  /\ ringing' = FALSE
  /\ \/ by' \in {"session", "ringer", "boot"}
     \/ by' # "Sms" /\ Allows(settings, by', "Ring")

LEMMA StepAndAlarm ==
  ASSUME [Next]_vars
  PROVE  Sounds \/ Silences \/ UNCHANGED ringing
<1> USE DEF Sounds, Silences, Silence, Took
<1>1. ASSUME NEW m \in Sms, NEW n \in 0..MaxTries, OnSmsAdded(m, n)
      PROVE  Sounds \/ UNCHANGED ringing
  BY <1>1, HandleSmsAndAlarm DEF OnSmsAdded, Allows
<1>2. ASSUME NEW m \in Sms, CatchUpSms(m)
      PROVE  Sounds \/ UNCHANGED ringing
  BY <1>2, HandleSmsAndAlarm DEF CatchUpSms, Allows
<1>3. CASE RunPending
  <2>1. /\ Obey(Head(pending).channel, Head(pending).verb,
                pendingSms[Head(pending).verb], Askers)
        /\ by' = Head(pending).channel
    BY <1>3 DEF RunPending
  <2>2. QED
    BY <2>1, ObeyAndAlarm DEF Allows
<1>4. ASSUME NEW c \in Channel, NEW v \in Verb, Order(c, v)
      PROVE  Sounds \/ Silences \/ UNCHANGED ringing
  <2>1. RunCommand(c, v, NoOne) /\ by' = c
    BY <1>4 DEF Order
  <2>2. QED
    BY <2>1, RunCommandAndAlarm DEF Allows
<1>5. CASE AlarmEnds
  BY <1>5 DEF AlarmEnds
<1>6. CASE StopRing
  BY <1>6 DEF StopRing
<1>7. CASE TestRing
  BY <1>7 DEF TestRing
<1>8. ASSUME NEW withPhone \in BOOLEAN, Crash(withPhone)
      PROVE  Silences
  BY <1>8 DEF Crash, Reborn
<1>9. CASE PowerOff \/ PowerOn
  BY <1>9 DEF PowerOff, PowerOn, Reborn
<1>10. CASE StartBegins \/ StartConfigures \/ StartEnds
  BY <1>10 DEF StartBegins, StartConfigures, StartEnds
<1>11. CASE Located \/ LateTurnOn \/ RefreshPosition \/ MinutePasses
  BY <1>11 DEF Located, LateTurnOn, RefreshPosition, MinutePasses
<1>12. CASE SessionLeavesLostMode \/ TypePin
  BY <1>12 DEF SessionLeavesLostMode, TypePin
<1>13. ASSUME NEW s \in Configs, Reload(s)
       PROVE  UNCHANGED ringing
  BY <1>13 DEF Reload
<1>14. ASSUME NEW m \in Sms, SmsArrives(m) \/ SmsMoves(m)
       PROVE  UNCHANGED ringing
  BY <1>14 DEF SmsArrives, SmsMoves, World
<1>15. CASE UNCHANGED vars
  BY <1>15 DEF vars
<1>16. QED
  BY <1>1, <1>2, <1>3, <1>4, <1>5, <1>6, <1>7, <1>8, <1>9, <1>10, <1>11,
     <1>12, <1>13, <1>14, <1>15 DEF Next

\* The alarm is silenced by the PIN, by itself or by a channel that may ring;
\* never by an SMS, also when it was noted down or caught up with.
THEOREM SilencedByRight == Spec => AlarmStopsByRight
<1> DEFINE MayStop == \/ by' \in {"session", "ringer", "boot"}
                      \/ by' # "Sms" /\ Allows(settings, by', "Ring")
<1>1. [Next]_vars => [ringing /\ ~ringing' => MayStop]_vars
  <2> SUFFICES ASSUME [Next]_vars, ringing, ~ringing'
               PROVE  MayStop
    OBVIOUS
  <2>1. ~Sound
    BY DEF Sound
  <2>2. QED
    BY <2>1, StepAndAlarm DEF Sounds, Silences
<1>2. QED
  BY <1>1, PTL DEF Spec, AlarmStopsByRight

\* With the master switch off no channel makes the phone ring or gives it up
\* for lost.  A death could, if it read back a file that the memory had
\* recovered from; it is the other half of LostIsOnDisk that excludes that.
NothingToReadBack == (DiskWritable => saved = lost) /\ (~DiskWritable => ~saved)

THEOREM OffIsInert == Spec => OffMeansInert
<1>1. Init => NothingToReadBack
  BY DEF Init, NothingToReadBack
<1>2. NothingToReadBack /\ [Next]_vars => NothingToReadBack'
  <2> SUFFICES ASSUME NothingToReadBack, [Next]_vars
               PROVE  NothingToReadBack'
    OBVIOUS
  <2> USE DEF NothingToReadBack
  <2>1. CASE GivesUp
    BY <2>1 DEF GivesUp, EnterLostMode, Written
  <2>2. CASE Recovers
    BY <2>2 DEF Recovers, LeaveLostMode, Written
  <2>3. CASE LeavesAlone \/ LocksAgain \/ Opens
    BY <2>3 DEF LeavesAlone, LocksAgain, Opens
  <2>4. CASE Dies
    BY <2>4 DEF Dies
  <2>5. QED
    BY <2>1, <2>2, <2>3, <2>4, StepAndLostMode
<1>3. NothingToReadBack /\ [Next]_vars =>
        [~settings.enabled => /\ ringing' => ringing \/ by' = "session"
                              /\ lost' => lost]_vars
  <2> SUFFICES ASSUME NothingToReadBack, [Next]_vars, ~settings.enabled
               PROVE  (ringing' => ringing \/ by' = "session") /\ (lost' => lost)
    OBVIOUS
  <2>1. ringing' => ringing \/ by' = "session"
    BY StepAndAlarm DEF Sounds, Silences
  <2>2. lost' => lost
    <3>1. CASE Recovers
      BY <3>1 DEF Recovers, LeaveLostMode
    <3>2. CASE Dies
      BY <3>2 DEF Dies, NothingToReadBack
    <3>3. QED
      BY <3>1, <3>2, StepAndLostMode DEF GivesUp, LeavesAlone, LocksAgain, Opens
  <2>3. QED
    BY <2>1, <2>2
<1>4. QED
  BY <1>1, <1>2, <1>3, PTL DEF Spec, OffMeansInert

-----------------------------------------------------------------------------
(***************************************************************************)
(* Types.                                                                  *)
(***************************************************************************)
FixTypes == /\ search \in {"idle", "refresh", "full"}
            /\ wait \in Wait
            /\ granted \in SUBSET (Number \cup Channel)
            /\ lit \in BOOLEAN

PhoneTypes == /\ lost \in BOOLEAN /\ saved \in BOOLEAN
              /\ locked \in BOOLEAN /\ pin \in BOOLEAN
              /\ refresh \in {"off", "calm", "lost"}
              /\ ringing \in BOOLEAN /\ due \in Nat

IntakeTypes == /\ catching \in SUBSET Sms
               /\ pending \in Seq(Noted)
               /\ pendingSms \in [Verb -> Number]
               /\ limited \in BOOLEAN
               /\ reads \in SUBSET (Sms \X (0..MaxTries))
               /\ modem \in [Sms -> Message]

ModeTypes == /\ settings \in Settings
             /\ stage \in {"off", "grace", "catchUp", "pending", "loop"}
             /\ verdict \in {"-", "done", "refused", "unknown", "noted"}
             /\ crashes \in Nat

LEMMA TypesTogether == TypeOK <=> FixTypes /\ PhoneTypes /\ IntakeTypes /\ ModeTypes
  BY DEF TypeOK, FixTypes, PhoneTypes, IntakeTypes, ModeTypes

LEMMA CadenceType == ASSUME NEW isLost PROVE Cadence(isLost) \in {"off", "calm", "lost"}
  BY DEF Cadence

LEMMA NoWaitType == NoWait \in Wait
  BY DEF NoWait, Wait, Number

\* A search started, ridden on or ended leaves well-typed flags.
LEMMA DeliverTypes ==
  ASSUME NEW w \in Wait, NEW g, Deliver(w, g)
  PROVE  wait' \in Wait /\ granted' = {}
BY NoWaitType DEF Deliver, Wait

LEMMA LocateTypes ==
  ASSUME FixTypes, NEW w \in Wait, NEW g \in SUBSET (Number \cup Channel),
         NEW turnOn \in BOOLEAN, Locate(w, g, turnOn)
  PROVE  FixTypes'
<1>1. CASE search # "idle" /\ (~turnOn \/ search = "full")
  BY <1>1 DEF Locate, FixTypes
<1>2. CASE ~(search # "idle" /\ (~turnOn \/ search = "full"))
  <2>1. lit' \in BOOLEAN
    BY <1>2 DEF Locate, FixTypes, TurnOnWhatIsNeeded
  <2>2. /\ search' \in {"idle", "refresh", "full"}
        /\ wait' \in Wait /\ granted' \in SUBSET (Number \cup Channel)
    BY <1>2, DeliverTypes DEF Locate
  <2>3. QED
    BY <2>1, <2>2 DEF FixTypes
<1>3. QED
  BY <1>1, <1>2

\* An order leaves the phone and the flags well typed, whatever it was.
LEMMA ObeyTypes ==
  ASSUME FixTypes, PhoneTypes, NEW c \in Channel, NEW verb \in Verb,
         NEW to \in Number, NEW who \in SUBSET (Number \cup Channel),
         Obey(c, verb, to, who)
  PROVE  FixTypes' /\ PhoneTypes' /\ verdict' \in {"done", "refused", "unknown"}
<1> USE DEF lostVars, fixVars
<1>0. CASE Refuse
  BY <1>0 DEF Refuse, FixTypes, PhoneTypes
<1>1. CASE Ring(c) /\ ~Refuse
  <2>1. Sound /\ due' = due + 1 /\ verdict' = "done"
        /\ UNCHANGED <<lostVars, lit, fixVars>>
    BY <1>1 DEF Ring
  <2>2. ringing' \in BOOLEAN
    BY <2>1, ConstantsAssumption DEF Sound, PhoneTypes
  <2>3. QED
    BY <2>1, <2>2 DEF FixTypes, PhoneTypes
<1>2. CASE Stop(c) /\ ~Refuse
  <2>1. Silence /\ verdict' = "done" /\ UNCHANGED <<lostVars, due, fixVars>>
    BY <1>2 DEF Stop
  <2>2. ringing' \in BOOLEAN /\ lit' \in BOOLEAN
    BY <2>1 DEF Silence, PhoneTypes, FixTypes
  <2>3. QED
    BY <2>1, <2>2 DEF FixTypes, PhoneTypes
<1>3. CASE Where(c, to, who) /\ ~Refuse
  <2>1. /\ Locate(AskedBy(c, to), granted \cup who, TRUE)
        /\ verdict' = "done" /\ UNCHANGED <<lostVars, ringing, due>>
    BY <1>3 DEF Where
  <2>2. AskedBy(c, to) \in Wait
    BY DEF AskedBy, FixTypes, Wait
  <2>3. granted \cup who \in SUBSET (Number \cup Channel)
    BY DEF FixTypes
  <2>4. FixTypes'
    BY <2>1, <2>2, <2>3, LocateTypes
  <2>5. QED
    BY <2>1, <2>4 DEF PhoneTypes
<1>4. CASE Lock(c) /\ ~Refuse
  <2>1. /\ EnterLostMode /\ due' = due + 1 /\ verdict' = "done"
        /\ UNCHANGED <<ringing, lit, fixVars>>
    BY <1>4 DEF Lock
  <2>2. saved' \in BOOLEAN
    BY <2>1 DEF EnterLostMode, Written, PhoneTypes
  <2>3. refresh' \in {"off", "calm", "lost"}
    BY <2>1, CadenceType DEF EnterLostMode
  <2>4. lost' = TRUE /\ locked' = TRUE /\ pin' = FALSE
    BY <2>1 DEF EnterLostMode
  <2>5. ringing' \in BOOLEAN
    BY <2>1 DEF PhoneTypes
  <2>6. due' \in Nat
    BY <2>1 DEF PhoneTypes
  <2>7. FixTypes'
    BY <2>1 DEF FixTypes
  <2>8. PhoneTypes'
    BY <2>2, <2>3, <2>4, <2>5, <2>6 DEF PhoneTypes
  <2>9. QED
    BY <2>1, <2>7, <2>8
<1>5. CASE Unlock(c) /\ ~Refuse
  <2>1. /\ LeaveLostMode /\ verdict' = "done"
        /\ UNCHANGED <<ringing, lit, due, fixVars>>
    BY <1>5 DEF Unlock
  <2>2. saved' \in BOOLEAN
    BY <2>1 DEF LeaveLostMode, Written, PhoneTypes
  <2>3. QED
    BY <2>1, <2>2, CadenceType DEF LeaveLostMode, PhoneTypes, FixTypes
<1>6. CASE GivePowerOff(c) /\ ~Refuse
  BY <1>6 DEF GivePowerOff, PhoneTypes, FixTypes
<1>7. CASE State(c, to, who)
  <2>1. StateFor(c, to) \in Wait
    BY DEF StateFor, FixTypes, Wait, Allows
  <2>2. (IF Allows(settings, c, "Locate") THEN granted \cup who ELSE granted)
          \in SUBSET (Number \cup Channel)
    BY DEF FixTypes
  <2>3. FixTypes'
    BY <1>7, <2>1, <2>2, LocateTypes DEF State
  <2>4. QED
    BY <1>7, <2>3 DEF State, PhoneTypes
<1>8. CASE Gibberish
  BY <1>8 DEF Gibberish, PhoneTypes, FixTypes
<1>9. QED
  BY <1>0, <1>1, <1>2, <1>3, <1>4, <1>5, <1>6, <1>7, <1>8 DEF Obey

LEMMA RunCommandTypes ==
  ASSUME TypeOK, NEW c \in Channel, NEW verb \in Verb, NEW to \in Number,
         RunCommand(c, verb, to)
  PROVE  /\ FixTypes' /\ PhoneTypes'
         /\ pending' \in Seq(Noted)
         /\ pendingSms' \in [Verb -> Number]
         /\ verdict' \in {"-", "done", "refused", "unknown", "noted"}
<1> USE TypesTogether
<1>1. CASE Started
  <2>1. (IF c = "Sms" THEN {to} ELSE {c}) \in SUBSET (Number \cup Channel)
    OBVIOUS
  <2>2. QED
    BY <1>1, <2>1, ObeyTypes DEF RunCommand, IntakeTypes
<1>2. CASE ~Started
  <2>1. NoteDown(c, verb, to)
    BY <1>2 DEF RunCommand
  <2>2. pending' \in Seq(Noted)
    <3>1. [channel |-> c, verb |-> verb, from |-> to] \in Noted
      BY DEF Noted
    <3>2. QED
      BY <2>1, <3>1 DEF NoteDown, IntakeTypes
  <2>3. pendingSms' \in [Verb -> Number]
    BY <2>1 DEF NoteDown, IntakeTypes
  <2>4. QED
    BY <2>1, <2>2, <2>3
    DEF NoteDown, FixTypes, PhoneTypes, lostVars, fixVars
<1>3. QED
  BY <1>1, <1>2

LEMMA HandleSmsTypes ==
  ASSUME TypeOK, NEW m \in Sms, NEW attempt \in 0..MaxTries,
         NEW others \in SUBSET (Sms \X (0..MaxTries)),
         HandleSms(m, attempt, others)
  PROVE  /\ FixTypes' /\ PhoneTypes'
         /\ pending' \in Seq(Noted)
         /\ pendingSms' \in [Verb -> Number]
         /\ limited' \in BOOLEAN
         /\ reads' \in SUBSET (Sms \X (0..MaxTries))
         /\ modem' \in [Sms -> Message]
         /\ verdict' \in {"-", "done", "refused", "unknown", "noted"}
<1> USE TypesTogether
<1>1. CASE /\ Obeyed(m) /\ limited' = TRUE /\ reads' = others
           /\ \/ UNCHANGED modem
              \/ modem' = [modem EXCEPT ![m] = Gone]
           /\ RunCommand("Sms", modem[m].text.verb, modem[m].text.from)
  <2>1. modem[m].text \in Texts
    <3>1. modem[m] \in Message
      BY DEF IntakeTypes
    <3>2. modem[m].at \in {"fresh", "old"} /\ modem[m].text.keyed
      BY <1>1 DEF Obeyed, Readable
    <3>3. QED
      BY <3>1, <3>2 DEF Message, NoMessage, Arriving, Gone
  <2>2. modem[m].text.verb \in Verb /\ modem[m].text.from \in Number
    BY <2>1, ConstantsAssumption DEF Number
  <2>3. Gone \in Message
    BY DEF Gone, Message
  <2>4. modem' \in [Sms -> Message]
    BY <1>1, <2>3 DEF IntakeTypes
  <2>5. "Sms" \in Channel
    BY DEF Channel
  <2>6. QED
    BY <1>1, <2>2, <2>4, <2>5, RunCommandTypes
<1>2. CASE /\ reads' = others \cup (IF attempt < MaxTries THEN {<<m, attempt + 1>>}
                                                         ELSE {})
           /\ Ignore /\ UNCHANGED <<limited, modem>>
  <2>1. reads' \in SUBSET (Sms \X (0..MaxTries))
    BY <1>2, ConstantsAssumption
  <2>2. QED
    BY <1>2, <2>1
    DEF Ignore, FixTypes, PhoneTypes, IntakeTypes, lostVars, fixVars
<1>3. CASE reads' = others /\ Ignore /\ UNCHANGED <<limited, modem>>
  BY <1>3 DEF Ignore, FixTypes, PhoneTypes, IntakeTypes, lostVars, fixVars
<1>4. QED
  BY <1>1, <1>2, <1>3 DEF HandleSms

\* What is first in a sequence, and what follows it.
LEMMA FirstOfSome ==
  ASSUME NEW S, NEW s \in Seq(S), s # <<>>
  PROVE  Head(s) \in S /\ Tail(s) \in Seq(S)
OBVIOUS

LEMMA ElementOf ==
  ASSUME NEW S, NEW s \in Seq(S), NEW i \in DOMAIN s
  PROVE  s[i] \in S
OBVIOUS

LEMMA NotedFields ==
  ASSUME NEW o \in Noted
  PROVE  o.channel \in Channel /\ o.verb \in Verb /\ o.from \in Number
BY DEF Noted

LEMMA AskersType ==
  ASSUME pending \in Seq(Noted)
  PROVE  Askers \in SUBSET (Number \cup Channel)
BY ElementOf, NotedFields DEF Askers

\* Nothing noted down, nothing announced.
LEMMA NothingPending ==
  /\ <<>> \in Seq(Noted)
  /\ [v \in Verb |-> NoOne] \in [Verb -> Number]
  /\ {} \in SUBSET (Sms \X (0..MaxTries))
  /\ {} \in SUBSET Sms
  /\ [m \in Sms |-> NoMessage] \in [Sms -> Message]
<1>1. NoOne \in Number
  BY DEF Number
<1>2. NoMessage \in Message
  BY DEF Message
<1>3. [v \in Verb |-> NoOne] \in [Verb -> Number]
  BY <1>1
<1>4. [m \in Sms |-> NoMessage] \in [Sms -> Message]
  BY <1>2
<1>5. <<>> \in Seq(Noted)
  OBVIOUS
<1>6. QED
  BY <1>3, <1>4, <1>5

\* The type invariant is inductive: one step per action.
LEMMA InitTypes == Init => TypeOK
<1> SUFFICES ASSUME Init
             PROVE  FixTypes /\ PhoneTypes /\ IntakeTypes /\ ModeTypes
  BY TypesTogether
<1>1. FixTypes
  BY NoWaitType DEF Init, FixTypes
<1>2. PhoneTypes
  BY DEF Init, PhoneTypes
<1>3. IntakeTypes
  BY NothingPending DEF Init, IntakeTypes
<1>4. ModeTypes
  BY ConstantsAssumption DEF Init, ModeTypes
<1>5. QED
  BY <1>1, <1>2, <1>3, <1>4

\* The process comes back with everything but the settings, the modem and the
\* lost-mode file at its initial value.
LEMMA RebornTypes ==
  ASSUME TypeOK, NEW newStage \in {"off", "grace"}, NEW withPhone \in BOOLEAN,
         Reborn(newStage, withPhone), crashes' \in Nat
  PROVE  TypeOK'
<1>1. FixTypes'
  BY NoWaitType DEF Reborn, FixTypes
<1>2. PhoneTypes'
  <2>1. lost' \in BOOLEAN /\ saved' \in BOOLEAN
    BY DEF Reborn, TypeOK
  <2>2. locked' \in BOOLEAN /\ pin' \in BOOLEAN
    BY DEF Reborn, TypeOK
  <2>3. refresh' = "off" /\ ringing' = FALSE /\ due' = 0
    BY DEF Reborn
  <2>4. QED
    BY <2>1, <2>2, <2>3 DEF PhoneTypes
<1>3. IntakeTypes'
  BY NothingPending DEF Reborn, TypeOK, IntakeTypes
<1>4. ModeTypes'
  BY DEF Reborn, Took, TypeOK, ModeTypes
<1>5. QED
  BY <1>1, <1>2, <1>3, <1>4 DEF TypeOK, FixTypes, PhoneTypes, IntakeTypes, ModeTypes

LEMMA StepTypes == TypeOK /\ [Next]_vars => TypeOK'
<1> SUFFICES ASSUME TypeOK, [Next]_vars PROVE TypeOK'
  OBVIOUS
<1> USE TypesTogether
<1>0. FixTypes /\ PhoneTypes /\ IntakeTypes /\ ModeTypes
  OBVIOUS
<1>T. TypeOK' <=> FixTypes' /\ PhoneTypes' /\ IntakeTypes' /\ ModeTypes'
  BY DEF TypeOK, FixTypes, PhoneTypes, IntakeTypes, ModeTypes
<1>1. ASSUME NEW m \in Sms, NEW n \in 0..MaxTries, OnSmsAdded(m, n) PROVE TypeOK'
  <2>1. HandleSms(m, n, reads \ {<<m, n>>})
        /\ UNCHANGED <<settings, stage, catching, crashes>>
    BY <1>1 DEF OnSmsAdded
  <2>2. reads \ {<<m, n>>} \in SUBSET (Sms \X (0..MaxTries))
    BY <1>0 DEF IntakeTypes
  <2>3. QED
    BY <1>0, <1>T, <2>1, <2>2, HandleSmsTypes DEF IntakeTypes, ModeTypes
<1>2. CASE StartBegins
  BY <1>0, <1>T, <1>2 DEF StartBegins, Took, FixTypes, PhoneTypes, IntakeTypes,
     ModeTypes, lostVars, fixVars
<1>3. ASSUME NEW m \in Sms, CatchUpSms(m) PROVE TypeOK'
  <2>1. HandleSms(m, 0, reads) /\ catching' = catching \ {m}
        /\ UNCHANGED <<settings, stage, crashes>>
    BY <1>3 DEF CatchUpSms
  <2>2. 0 \in 0..MaxTries
    BY ConstantsAssumption
  <2>3. QED
    BY <1>0, <1>T, <2>1, <2>2, HandleSmsTypes DEF IntakeTypes, ModeTypes
<1>4. CASE StartConfigures
  <2>1. FixTypes'
    <3>1. CASE Allows(settings, "Relay", "Locate")
      <4>1. Locate([wait EXCEPT !.relay = TRUE], granted \cup {"Relay"}, FALSE)
        BY <1>4, <3>1 DEF StartConfigures
      <4>2. [wait EXCEPT !.relay = TRUE] \in Wait
        BY <1>0 DEF FixTypes, Wait
      <4>3. granted \cup {"Relay"} \in SUBSET (Number \cup Channel)
        BY <1>0 DEF FixTypes, Channel
      <4>4. QED
        BY <1>0, <4>1, <4>2, <4>3, LocateTypes
    <3>2. CASE ~Allows(settings, "Relay", "Locate")
      BY <1>0, <1>4, <3>2 DEF StartConfigures, FixTypes, fixVars
    <3>3. QED
      BY <3>1, <3>2
  <2>2. PhoneTypes'
    <3>1. refresh' \in {"off", "calm", "lost"}
      BY <1>4, CadenceType DEF StartConfigures
    <3>2. locked' \in BOOLEAN /\ pin' \in BOOLEAN
      BY <1>0, <1>4 DEF StartConfigures, Relock, PhoneTypes
    <3>3. UNCHANGED <<lost, saved, ringing, due>>
      BY <1>4 DEF StartConfigures
    <3>4. QED
      BY <1>0, <3>1, <3>2, <3>3 DEF PhoneTypes
  <2>3. QED
    BY <1>0, <1>T, <1>4, <2>1, <2>2
    DEF StartConfigures, Took, IntakeTypes, ModeTypes, intake
<1>5. CASE RunPending
  <2>1. Head(pending) \in Noted
    BY <1>0, <1>5, FirstOfSome DEF RunPending, IntakeTypes
  <2>2. /\ pendingSms[Head(pending).verb] \in Number
        /\ Head(pending).channel \in Channel /\ Head(pending).verb \in Verb
        /\ Askers \in SUBSET (Number \cup Channel)
    BY <1>0, <2>1, AskersType DEF IntakeTypes, Noted
  <2>3. /\ Obey(Head(pending).channel, Head(pending).verb,
                pendingSms[Head(pending).verb], Askers)
        /\ pending' = Tail(pending)
        /\ UNCHANGED <<settings, stage, catching, pendingSms, limited, reads,
                       modem, crashes>>
    BY <1>5 DEF RunPending
  <2>4. FixTypes' /\ PhoneTypes' /\ verdict' \in {"done", "refused", "unknown"}
    BY <1>0, <2>1, <2>2, <2>3, ObeyTypes
  <2>5. pending' \in Seq(Noted)
    BY <1>0, <1>5, <2>3, FirstOfSome DEF IntakeTypes, RunPending
  <2>6. QED
    BY <1>0, <1>T, <2>3, <2>4, <2>5 DEF IntakeTypes, ModeTypes
<1>6. CASE StartEnds
  BY <1>0, <1>T, <1>6 DEF StartEnds, Took, FixTypes, PhoneTypes, IntakeTypes,
     ModeTypes, lostVars, fixVars, Number
<1>7. ASSUME NEW c \in Channel, NEW v \in Verb, Order(c, v) PROVE TypeOK'
  <2>1. RunCommand(c, v, NoOne)
        /\ UNCHANGED <<settings, stage, catching, limited, reads, modem, crashes>>
    BY <1>7 DEF Order
  <2>2. NoOne \in Number
    BY DEF Number
  <2>3. QED
    BY <1>0, <1>T, <2>1, <2>2, RunCommandTypes DEF IntakeTypes, ModeTypes
<1>8. CASE Located
  <2>1. wait' \in Wait /\ granted' = {}
    BY <1>0, <1>8, DeliverTypes DEF Located, FixTypes
  <2>2. FixTypes'
    BY <1>0, <1>8, <2>1 DEF Located, FixTypes
  <2>3. QED
    BY <1>0, <1>T, <1>8, <2>2
    DEF Located, Took, PhoneTypes, IntakeTypes, ModeTypes, lostVars, intake
<1>9. CASE LateTurnOn
  <2>1. FixTypes'
    BY <1>0, <1>9 DEF LateTurnOn, TurnOnWhatIsNeeded, FixTypes, fixVars
  <2>2. due' \in Nat
    BY <1>0, <1>9 DEF LateTurnOn, PhoneTypes
  <2>3. PhoneTypes'
    BY <1>0, <1>9, <2>2 DEF LateTurnOn, PhoneTypes, lostVars
  <2>4. QED
    BY <1>0, <1>T, <1>9, <2>1, <2>3
    DEF LateTurnOn, Took, IntakeTypes, ModeTypes, intake
<1>10. CASE RefreshPosition
  <2>1. FixTypes'
    <3>1. CASE Started /\ search = "idle" /\ Allows(settings, "Relay", "Locate")
      <4>1. Locate([wait EXCEPT !.relay = TRUE], granted \cup {"Relay"}, FALSE)
        BY <1>10, <3>1 DEF RefreshPosition
      <4>2. [wait EXCEPT !.relay = TRUE] \in Wait
        BY <1>0 DEF FixTypes, Wait
      <4>3. granted \cup {"Relay"} \in SUBSET (Number \cup Channel)
        BY <1>0 DEF FixTypes, Channel
      <4>4. QED
        BY <1>0, <4>1, <4>2, <4>3, LocateTypes
    <3>2. CASE ~(Started /\ search = "idle" /\ Allows(settings, "Relay", "Locate"))
      BY <1>0, <1>10, <3>2 DEF RefreshPosition, FixTypes, fixVars
    <3>3. QED
      BY <3>1, <3>2
  <2>2. refresh' \in {"off", "calm", "lost"}
    BY <1>10, CadenceType DEF RefreshPosition
  <2>3. PhoneTypes'
    BY <1>0, <1>10, <2>2 DEF RefreshPosition, PhoneTypes
  <2>4. QED
    BY <1>0, <1>T, <1>10, <2>1, <2>3
    DEF RefreshPosition, Took, IntakeTypes, ModeTypes, intake
<1>11. CASE AlarmEnds
  BY <1>0, <1>T, <1>11 DEF AlarmEnds, Silence, Took, FixTypes, PhoneTypes,
     IntakeTypes, ModeTypes, lostVars, fixVars, intake
<1>12. CASE MinutePasses
  BY <1>0, <1>T, <1>12 DEF MinutePasses, Took, FixTypes, PhoneTypes,
     IntakeTypes, ModeTypes, lostVars, fixVars
<1>13. ASSUME NEW s \in Configs, Reload(s) PROVE TypeOK'
  <2>1. settings' \in Settings
    BY <1>13, ConstantsAssumption DEF Reload
  <2>2. QED
    BY <1>0, <1>T, <1>13, <2>1 DEF Reload, Took, FixTypes, PhoneTypes,
       IntakeTypes, ModeTypes, lostVars, fixVars, intake
<1>14. CASE StopRing
  BY <1>0, <1>T, <1>14 DEF StopRing, Silence, Took, FixTypes, PhoneTypes,
     IntakeTypes, ModeTypes, lostVars, fixVars, intake
<1>15. CASE TestRing
  <2>1. ringing' \in BOOLEAN
    BY <1>0, <1>15, ConstantsAssumption DEF TestRing, Sound, PhoneTypes
  <2>2. QED
    BY <1>0, <1>T, <1>15, <2>1 DEF TestRing, Took, FixTypes, PhoneTypes,
       IntakeTypes, ModeTypes, lostVars, fixVars, intake
<1>16. CASE SessionLeavesLostMode
  <2>1. /\ LeaveLostMode
        /\ UNCHANGED <<ringing, due>>
    BY <1>16 DEF SessionLeavesLostMode
  <2>2. saved' \in BOOLEAN
    BY <1>0, <2>1 DEF LeaveLostMode, Written, PhoneTypes
  <2>3. refresh' \in {"off", "calm", "lost"}
    BY <2>1, CadenceType DEF LeaveLostMode
  <2>4. PhoneTypes'
    BY <1>0, <2>1, <2>2, <2>3 DEF LeaveLostMode, PhoneTypes
  <2>5. QED
    BY <1>0, <1>T, <1>16, <2>4 DEF SessionLeavesLostMode, Took, FixTypes,
       IntakeTypes, ModeTypes, fixVars, intake
<1>17. CASE TypePin
  BY <1>0, <1>T, <1>17 DEF TypePin, Took, FixTypes, PhoneTypes, IntakeTypes,
     ModeTypes, fixVars, intake
<1>18. ASSUME NEW m \in Sms, SmsArrives(m) PROVE TypeOK'
  <2>1. modem' \in [Sms -> Message]
    BY <1>0, <1>18 DEF SmsArrives, IntakeTypes, Message, Bodies
  <2>2. reads' \in SUBSET (Sms \X (0..MaxTries))
    BY <1>0, <1>18, ConstantsAssumption DEF SmsArrives, IntakeTypes
  <2>3. QED
    BY <1>0, <1>T, <1>18, <2>1, <2>2 DEF SmsArrives, World, Took, FixTypes,
       PhoneTypes, IntakeTypes, ModeTypes, lostVars, fixVars
<1>19. ASSUME NEW m \in Sms, SmsMoves(m) PROVE TypeOK'
  <2>1. modem' \in [Sms -> Message]
    <3>1. CASE modem' \in {[modem EXCEPT ![m] = b] : b \in Bodies}
      BY <1>0, <3>1 DEF IntakeTypes, Message, Bodies
    <3>2. CASE modem[m].at = "fresh" /\ modem' = [modem EXCEPT ![m].at = "old"]
      <4>1. modem[m] \in [at : {"fresh", "old"}, text : Texts]
        BY <1>0, <3>2 DEF IntakeTypes, Message, NoMessage, Arriving, Gone
      <4>2. [modem[m] EXCEPT !.at = "old"] \in [at : {"fresh", "old"}, text : Texts]
        BY <4>1
      <4>3. QED
        BY <1>0, <3>2, <4>2 DEF IntakeTypes, Message
    <3>3. CASE modem' = [modem EXCEPT ![m] = Gone]
      BY <1>0, <3>3 DEF IntakeTypes, Message
    <3>4. QED
      BY <1>19, <3>1, <3>2, <3>3 DEF SmsMoves
  <2>2. QED
    BY <1>0, <1>T, <1>19, <2>1 DEF SmsMoves, World, Took, FixTypes,
       PhoneTypes, IntakeTypes, ModeTypes, lostVars, fixVars
<1>20. ASSUME NEW withPhone \in BOOLEAN, Crash(withPhone) PROVE TypeOK'
  <2>1. Reborn("grace", withPhone) /\ crashes' \in Nat
    BY <1>0, <1>20 DEF Crash, ModeTypes
  <2>2. QED
    BY <2>1, RebornTypes
<1>21. CASE PowerOff
  <2>1. Reborn("off", TRUE) /\ crashes' \in Nat
    BY <1>0, <1>21 DEF PowerOff, ModeTypes
  <2>2. QED
    BY <2>1, RebornTypes
<1>22. CASE PowerOn
  <2>1. Reborn("grace", TRUE) /\ crashes' \in Nat
    BY <1>0, <1>22 DEF PowerOn, ModeTypes
  <2>2. QED
    BY <2>1, RebornTypes
<1>23. CASE UNCHANGED vars
  BY <1>0, <1>T, <1>23 DEF vars, FixTypes, PhoneTypes, IntakeTypes, ModeTypes,
     lostVars, fixVars, intake
<1>24. QED
  BY <1>1, <1>2, <1>3, <1>4, <1>5, <1>6, <1>7, <1>8, <1>9, <1>10, <1>11,
     <1>12, <1>13, <1>14, <1>15, <1>16, <1>17, <1>18, <1>19, <1>20, <1>21,
     <1>22, <1>23 DEF Next

\* Type correctness.
THEOREM TypeCorrect == Spec => []TypeOK
BY InitTypes, StepTypes, PTL DEF Spec

-----------------------------------------------------------------------------
(***************************************************************************)
(* Who gets a position, and whose search is running.                       *)
(***************************************************************************)

\* Where the home channel may locate, its question is answered to the relay.
LanLocates == \E s \in Configs : "Locate" \in s.may["Lan"]

\* Who may be sent a position when those in g have asked.
Entitled(n, g) == n \in g \/ (n = "Relay" /\ "Lan" \in g /\ LanLocates)

\* Every flag that would send somebody a position is backed by a request that
\* was allowed.  This is what makes PositionOnlyToWhoAsked inductive: the
\* answers of one step are decided by the flags that earlier steps left.
WaitersAsked(w, g) ==
  /\ w.reply # NoOne => w.reply \in g
  /\ w.status # NoOne /\ w.withPosition => w.status \in g
  /\ w.relay => Entitled("Relay", g)
  /\ w.ntfy => "Ntfy" \in g

PositionOnlyToEntitled == \A a \in out : a.position => Entitled(a.to, a.asked)

FixInv == /\ WaitersAsked(wait, granted)
          /\ WaitingMeansSearching
          /\ PositionOnlyToEntitled

IInv == /\ TypeOK
        /\ settings \in Configs
        /\ NotedOrdersKnowAnAsker
        /\ FixInv

\* Nobody with a number is called like a channel, and nobody is NoOne.
LEMMA Strangers ==
  /\ NoOne \notin Destination
  /\ \A n \in Number : n \notin {"Relay", "Ntfy", "Sms", "Lan"}
BY ConstantsAssumption DEF Destination, Number, Channel

\* The answers to well-founded flags are rightful.
LEMMA AnswersRightful ==
  ASSUME NEW w \in Wait, NEW g, WaitersAsked(w, g), NEW coords \in BOOLEAN,
         NEW a \in Answers(w, g, coords), a.position
  PROVE  Entitled(a.to, a.asked)
<1>0. w.status \in Number /\ w.reply \in Number
  BY DEF Wait
<1>1. a.to \in Destination /\ a.asked = g
  BY DEF Answers
<1>2. CASE a.to = w.status /\ a.position = (w.withPosition /\ coords)
  <2>1. w.status # NoOne
    BY <1>0, <1>1, <1>2, Strangers
  <2>2. w.withPosition
    BY <1>2
  <2>3. QED
    BY <1>1, <1>2, <2>1, <2>2 DEF Entitled, WaitersAsked
<1>3. CASE a.to = w.reply
  <2>1. w.reply # NoOne
    BY <1>0, <1>1, <1>3, Strangers
  <2>2. QED
    BY <1>1, <1>3, <2>1 DEF Entitled, WaitersAsked
<1>4. CASE a.to = "Relay" /\ w.relay
  BY <1>1, <1>4 DEF WaitersAsked
<1>5. CASE a.to = "Ntfy" /\ w.ntfy
  BY <1>1, <1>5 DEF Entitled, WaitersAsked
<1>6. QED
  BY <1>2, <1>3, <1>4, <1>5 DEF Answers

\* A fix that is delivered satisfies everybody and leaves nobody waiting.
LEMMA DeliverKeeps ==
  ASSUME NEW w \in Wait, NEW g, WaitersAsked(w, g), Deliver(w, g)
  PROVE  FixInv'
<1>1. PositionOnlyToEntitled'
  <2>1. PICK coords \in BOOLEAN : out' = Answers(w, g, coords)
    BY DEF Deliver
  <2>2. QED
    BY <2>1, AnswersRightful DEF PositionOnlyToEntitled
<1>2. /\ wait'.reply = NoOne /\ wait'.status = NoOne
      /\ wait'.relay = FALSE /\ wait'.ntfy = FALSE
  BY DEF Deliver, NoWait
<1>3. QED
  BY <1>1, <1>2 DEF FixInv, WaitersAsked, WaitingMeansSearching, SomebodyWaits,
     SomebodyLooks

\* A refresh may carry no question but the relay's.
LEMMA LocateKeeps ==
  ASSUME NEW w \in Wait, NEW g, NEW turnOn \in BOOLEAN,
         WaitersAsked(w, g), Locate(w, g, turnOn), FixInv,
         \/ turnOn
         \/ w.reply = wait.reply /\ w.status = wait.status /\ w.ntfy = wait.ntfy
  PROVE  FixInv'
<1>1. CASE search' # "idle" /\ wait' = w /\ granted' = g /\ out' = {}
  <2>1. WaitersAsked(wait', granted') /\ PositionOnlyToEntitled'
    BY <1>1 DEF PositionOnlyToEntitled
  <2>2. SomebodyLooks' => search' = "full"
    <3>1. CASE turnOn
      BY <1>1, <3>1 DEF Locate
    <3>2. CASE ~turnOn
      <4>1. search' = search \/ search = "idle"
        BY <1>1, <3>2 DEF Locate
      <4>2. SomebodyLooks' => search = "full"
        BY <1>1, <3>2 DEF FixInv, WaitingMeansSearching, SomebodyLooks
      <4>3. QED
        BY <4>1, <4>2
    <3>3. QED
      BY <3>1, <3>2
  <2>3. QED
    BY <1>1, <2>1, <2>2 DEF FixInv, WaitingMeansSearching
<1>2. CASE Deliver(w, g)
  BY <1>2, DeliverKeeps
<1>3. QED
  BY <1>1, <1>2 DEF Locate

LEMMA NothingSent ==
  ASSUME FixInv, UNCHANGED fixVars, out' = {}
  PROVE  FixInv'
BY DEF FixInv, fixVars, WaitersAsked, WaitingMeansSearching, SomebodyWaits,
     SomebodyLooks,
   PositionOnlyToEntitled

\* Who asks, when c does and the number to answer is "to".
AskedByThem(c, to, who) == IF c = "Sms" THEN to \in who ELSE to = NoOne /\ c \in who

\* The three questions: where, state, and the daemon's own refresh.
LEMMA WhereKeeps ==
  ASSUME TypeOK, settings \in Configs, FixInv, NEW c \in Channel,
         NEW to \in Number, NEW who, AskedByThem(c, to, who), Where(c, to, who)
  PROVE  FixInv'
<1>1. CASE Refuse
  BY <1>1, NothingSent DEF Refuse
<1>2. CASE /\ Allows(settings, c, "Locate")
           /\ Locate(AskedBy(c, to), granted \cup who, TRUE)
  <2>1. AskedBy(c, to) \in Wait
    BY DEF AskedBy, TypeOK, Wait
  <2>2. WaitersAsked(AskedBy(c, to), granted \cup who)
    <3> USE DEF AskedBy, AskedByThem, FixInv, WaitersAsked, Entitled, TypeOK, Wait
    <3>1. CASE c = "Sms"
      BY <3>1
    <3>2. CASE c = "Ntfy"
      BY <3>2
    <3>3. CASE c = "Relay"
      BY <3>3
    <3>4. CASE c = "Lan"
      <4>1. LanLocates
        BY <1>2, <3>4 DEF Allows, LanLocates
      <4>2. QED
        BY <3>4, <4>1
    <3>5. QED
      BY <3>1, <3>2, <3>3, <3>4 DEF Channel
  <2>3. QED
    BY <1>2, <2>1, <2>2, LocateKeeps
<1>3. QED
  BY <1>1, <1>2 DEF Where

LEMMA StateKeeps ==
  ASSUME TypeOK, FixInv, NEW c \in Channel, NEW to \in Number, NEW who,
         AskedByThem(c, to, who), State(c, to, who)
  PROVE  FixInv'
<1> DEFINE allowed == Allows(settings, c, "Locate")
           w == StateFor(c, to)
           g == IF allowed THEN granted \cup who ELSE granted
<1>1. allowed \in BOOLEAN
  BY DEF TypeOK, Settings, Allows, ChannelOn
<1>2. w \in Wait
  BY <1>1 DEF StateFor, TypeOK, Wait
<1>3. /\ w.reply = wait.reply /\ w.relay = wait.relay /\ w.ntfy = wait.ntfy
      /\ w.status = to /\ w.withPosition = allowed
  BY DEF StateFor, TypeOK, Wait
<1>4. granted \subseteq g
  OBVIOUS
<1>5. w.status # NoOne /\ w.withPosition => w.status \in g
  BY <1>3 DEF AskedByThem
<1>6. WaitersAsked(w, g)
  <2> HIDE DEF w, g
  <2> QED
    BY <1>3, <1>4, <1>5 DEF FixInv, WaitersAsked, Entitled
<1>7. Locate(w, g, TRUE)
  BY DEF State
<1>8. QED
  <2> HIDE DEF w, g
  <2> QED
    BY <1>2, <1>6, <1>7, LocateKeeps

LEMMA RefreshKeeps ==
  ASSUME TypeOK, FixInv,
         Locate([wait EXCEPT !.relay = TRUE], granted \cup {"Relay"}, FALSE)
  PROVE  FixInv'
<1>1. [wait EXCEPT !.relay = TRUE] \in Wait
  BY DEF TypeOK, Wait
<1>2. WaitersAsked([wait EXCEPT !.relay = TRUE], granted \cup {"Relay"})
  BY DEF FixInv, WaitersAsked, Entitled, TypeOK, Wait
<1>3. LET w == [wait EXCEPT !.relay = TRUE]
      IN  w.reply = wait.reply /\ w.status = wait.status /\ w.ntfy = wait.ntfy
  BY DEF TypeOK, Wait
<1>4. QED
  BY <1>1, <1>2, <1>3, LocateKeeps

\* An order, noted down or obeyed.
LEMMA ObeyKeeps ==
  ASSUME TypeOK, settings \in Configs, FixInv, NEW c \in Channel,
         NEW verb \in Verb, NEW to \in Number, NEW who,
         AskedByThem(c, to, who), Obey(c, verb, to, who)
  PROVE  FixInv'
<1>1. CASE Where(c, to, who)
  BY <1>1, WhereKeeps
<1>2. CASE State(c, to, who)
  BY <1>2, StateKeeps
<1>3. CASE Ring(c) \/ Stop(c)
  BY <1>3, NothingSent DEF Ring, Stop, Refuse
<1>4. CASE Lock(c) \/ Unlock(c)
  BY <1>4, NothingSent DEF Lock, Unlock, Refuse
<1>5. CASE GivePowerOff(c) \/ Gibberish
  BY <1>5, NothingSent DEF GivePowerOff, Gibberish, Refuse
<1>6. QED
  BY <1>1, <1>2, <1>3, <1>4, <1>5 DEF Obey

LEMMA NoteDownKeepsSenders ==
  ASSUME TypeOK, NotedOrdersKnowAnAsker, NEW verb \in Verb,
         NEW to \in Senders, NoteDown("Sms", verb, to)
  PROVE  NotedOrdersKnowAnAsker'
<1> DEFINE entry == [channel |-> "Sms", verb |-> verb, from |-> to]
           last == Len(pending) + 1
<1>0. to # NoOne
  BY ConstantsAssumption
<1>1. pending' = Append(pending, entry)
      /\ pendingSms' = [pendingSms EXCEPT ![verb] = to]
  BY <1>0 DEF NoteDown
<1>2. pending \in Seq(Noted) /\ pendingSms \in [Verb -> Number]
  BY DEF TypeOK
<1>3. /\ DOMAIN pending' = 1..last /\ pending'[last] = entry
      /\ \A k \in DOMAIN pending : k < last /\ pending'[k] = pending[k]
      /\ DOMAIN pending = 1..(last - 1) /\ last \in Nat /\ last >= 1
  BY <1>1, <1>2
<1>4. entry.channel = "Sms" /\ entry.verb = verb /\ entry.from = to
  OBVIOUS
<1>5. pendingSms'[verb] = to
  BY <1>1, <1>2
<1>6. LastToNote(verb, to)'
  <2> HIDE DEF entry, last
  <2>1. last \in DOMAIN pending' /\ pending'[last].verb = verb
        /\ pending'[last].from = to
    BY <1>3, <1>4
  <2>2. \A k \in DOMAIN pending' : k <= last
    BY <1>3
  <2>3. QED
    BY <2>1, <2>2 DEF LastToNote
<1> SUFFICES ASSUME NEW i \in DOMAIN pending'
             PROVE  /\ pending'[i].channel = "Sms"
                    /\ LastToNote(pending[i].verb, pendingSms[pending[i].verb])'
  BY DEF NotedOrdersKnowAnAsker
<1>7. CASE pending'[i].verb = verb
  <2>1. pending'[i].channel = "Sms"
    <3> HIDE DEF entry, last
    <3> QED
      BY <1>3, <1>4 DEF NotedOrdersKnowAnAsker
  <2>2. QED
    BY <1>5, <1>6, <1>7, <2>1
<1>8. CASE pending'[i].verb # verb
  <2> DEFINE v == pending[i].verb
  <2>1. i \in DOMAIN pending /\ pending'[i] = pending[i]
    <3> HIDE DEF entry, last
    <3> QED
      BY <1>3, <1>4, <1>8
  <2>2. v \in Verb /\ v # verb
    BY <1>2, <1>8, <2>1, ElementOf, NotedFields
  <2>3. pending[i].channel = "Sms" /\ LastToNote(v, pendingSms[v])
    BY <2>1 DEF NotedOrdersKnowAnAsker
  <2>4. pendingSms'[v] = pendingSms[v]
    BY <1>1, <1>2, <2>2
  <2>5. PICK j \in DOMAIN pending :
          /\ pending[j].verb = v /\ pending[j].from = pendingSms[v]
          /\ \A k \in DOMAIN pending : pending[k].verb = v => k <= j
    BY <2>3 DEF LastToNote
  <2>6. j \in DOMAIN pending' /\ pending'[j] = pending[j]
    BY <1>3, <2>5
  <2>7. \A k \in DOMAIN pending' : pending'[k].verb = v => k <= j
    <3> HIDE DEF entry, last, v
    <3> QED
      BY <1>3, <1>4, <2>2, <2>5
  <2>8. LastToNote(v, pendingSms[v])'
    <3>1. pending'[i].verb = v
      BY <2>1
    <3> HIDE DEF v
    <3>2. \E n \in DOMAIN pending' :
            /\ pending'[n].verb = v /\ pending'[n].from = pendingSms'[v]
            /\ \A k \in DOMAIN pending' : pending'[k].verb = v => k <= n
      BY <2>4, <2>5, <2>6, <2>7
    <3> USE DEF v
    <3>3. QED
      BY <2>1, <3>1, <3>2 DEF LastToNote
  <2>9. QED
    BY <2>1, <2>3, <2>8
<1>9. QED
  BY <1>7, <1>8

LEMMA RunCommandKeeps ==
  ASSUME TypeOK, settings \in Configs, FixInv, NotedOrdersKnowAnAsker,
         NEW c \in Channel, NEW verb \in Verb, NEW to \in Number,
         RunCommand(c, verb, to),
         c = "Sms" => to \in Senders,
         c # "Sms" => to = NoOne /\ Started
  PROVE  FixInv' /\ NotedOrdersKnowAnAsker'
<1>1. CASE Started
  <2>1. PICK who : AskedByThem(c, to, who) /\ Obey(c, verb, to, who)
    BY <1>1 DEF RunCommand, AskedByThem
  <2>2. FixInv'
    BY <2>1, ObeyKeeps
  <2>3. UNCHANGED <<pending, pendingSms>>
    BY <1>1 DEF RunCommand
  <2>4. QED
    BY <2>2, <2>3 DEF NotedOrdersKnowAnAsker, LastToNote
<1>2. CASE ~Started
  <2>1. NoteDown("Sms", verb, to) /\ to \in Senders
    BY <1>2 DEF RunCommand
  <2>2. FixInv'
    BY <2>1, NothingSent DEF NoteDown
  <2>3. QED
    BY <2>1, <2>2, NoteDownKeepsSenders
<1>3. QED
  BY <1>1, <1>2

LEMMA HandleSmsKeeps ==
  ASSUME TypeOK, settings \in Configs, FixInv, NotedOrdersKnowAnAsker,
         NEW m \in Sms, NEW attempt, NEW others, HandleSms(m, attempt, others)
  PROVE  FixInv' /\ NotedOrdersKnowAnAsker'
<1>1. CASE Ignore
  <2>1. FixInv'
    BY <1>1, NothingSent DEF Ignore
  <2>2. QED
    BY <1>1, <2>1 DEF Ignore, NotedOrdersKnowAnAsker, LastToNote
<1>2. CASE /\ Obeyed(m)
           /\ RunCommand("Sms", modem[m].text.verb, modem[m].text.from)
  <2>1. modem[m] \in [at : {"fresh", "old"}, text : Texts]
    BY <1>2 DEF Obeyed, Readable, TypeOK, Message, NoMessage, Arriving, Gone
  <2>2. modem[m].text.verb \in Verb /\ modem[m].text.from \in Senders
    BY <2>1, ConstantsAssumption
  <2>3. modem[m].text.from \in Number /\ "Sms" \in Channel
    BY <2>2 DEF Number, Channel
  <2>4. QED
    BY <1>2, <2>2, <2>3, RunCommandKeeps
<1>3. QED
  BY <1>1, <1>2 DEF HandleSms

\* The process that comes back waits for nothing and remembers no order.
LEMMA RebornKeeps ==
  ASSUME NEW newStage, NEW withPhone, Reborn(newStage, withPhone)
  PROVE  FixInv' /\ NotedOrdersKnowAnAsker'
<1>1. wait' = NoWait /\ out' = {} /\ pending' = <<>>
  BY DEF Reborn
<1>2. FixInv'
  BY <1>1 DEF FixInv, WaitersAsked, WaitingMeansSearching, SomebodyWaits,
     SomebodyLooks,
     PositionOnlyToEntitled, NoWait
<1>3. NotedOrdersKnowAnAsker'
  BY <1>1 DEF NotedOrdersKnowAnAsker
<1>4. QED
  BY <1>2, <1>3

LEMMA InitKeeps == Init => IInv
<1> SUFFICES ASSUME Init PROVE FixInv /\ NotedOrdersKnowAnAsker
  BY InitTypes DEF IInv, Init
<1>1. wait = NoWait /\ out = {} /\ pending = <<>>
  BY DEF Init
<1>2. QED
  BY <1>1 DEF FixInv, WaitersAsked, WaitingMeansSearching, SomebodyWaits,
     SomebodyLooks,
     PositionOnlyToEntitled, NoWait, NotedOrdersKnowAnAsker

LEMMA RunPendingKeeps ==
  ASSUME IInv, RunPending
  PROVE  FixInv' /\ NotedOrdersKnowAnAsker'
<1> DEFINE first == Head(pending)
           to == pendingSms[first.verb]
<1>1. pending \in Seq(Noted) /\ pending # <<>>
  BY DEF IInv, TypeOK, RunPending
<1>2. first \in Noted /\ first.channel \in Channel /\ first.verb \in Verb
  BY <1>1, FirstOfSome, NotedFields
<1>3. first = pending[1] /\ 1 \in DOMAIN pending
  BY <1>1
<1>4. first.channel = "Sms" /\ LastToNote(first.verb, to)
  BY <1>3 DEF IInv, NotedOrdersKnowAnAsker
<1>5. to \in Number
  BY <1>2 DEF IInv, TypeOK
<1>6. Obey(first.channel, first.verb, to, Askers)
      /\ pending' = Tail(pending) /\ UNCHANGED pendingSms
  BY DEF RunPending
<1>7. to \in Askers
  BY <1>4 DEF LastToNote, Askers
<1>8. FixInv'
  BY <1>2, <1>4, <1>5, <1>6, <1>7, ObeyKeeps DEF IInv, AskedByThem
<1>9. NotedOrdersKnowAnAsker'
  <2>0. /\ \A k \in DOMAIN pending' : /\ k + 1 \in DOMAIN pending /\ k \in Nat
                                      /\ pending'[k] = pending[k + 1]
        /\ \A k \in DOMAIN pending : /\ k \in Nat
                                     /\ k > 1 => k - 1 \in DOMAIN pending'
    BY <1>1, <1>6
  <2> SUFFICES ASSUME NEW i \in DOMAIN pending'
               PROVE  /\ pending'[i].channel = "Sms"
                      /\ LastToNote(pending[i].verb, pendingSms[pending[i].verb])'
    BY DEF NotedOrdersKnowAnAsker
  <2> DEFINE v == pending[i + 1].verb
  <2>1. i + 1 \in DOMAIN pending /\ pending'[i] = pending[i + 1] /\ i + 1 > 1
    BY <1>1, <1>6
  <2>2. pending[i + 1].channel = "Sms" /\ LastToNote(v, pendingSms[v])
    BY <2>1 DEF IInv, NotedOrdersKnowAnAsker
  <2>3. PICK j \in DOMAIN pending :
          /\ pending[j].verb = v /\ pending[j].from = pendingSms[v]
          /\ \A k \in DOMAIN pending : pending[k].verb = v => k <= j
    BY <2>2 DEF LastToNote
  <2>4. i + 1 <= j
    BY <2>1, <2>3
  <2>5. j - 1 \in DOMAIN pending' /\ pending'[j - 1] = pending[j]
    BY <2>0, <2>1, <2>3, <2>4
  <2>6. \A k \in DOMAIN pending' : pending'[k].verb = v => k <= j - 1
    BY <2>0, <2>3
  <2>7. \E n \in DOMAIN pending' :
          /\ pending'[n].verb = v /\ pending'[n].from = pendingSms[v]
          /\ \A k \in DOMAIN pending' : pending'[k].verb = v => k <= n
    BY <2>3, <2>5, <2>6
  <2>8. QED
    BY <1>6, <2>1, <2>2, <2>7 DEF LastToNote
<1>10. QED
  BY <1>8, <1>9

\* The settings are always one of the files that the owner may write.
LEMMA StepConfigs == settings \in Configs /\ [Next]_vars => settings' \in Configs
<1> SUFFICES ASSUME settings \in Configs, [Next]_vars PROVE settings' \in Configs
  OBVIOUS
<1>1. CASE UNCHANGED settings
  BY <1>1
<1>2. CASE \E s \in Configs : Reload(s)
  BY <1>2 DEF Reload
<1>3. UNCHANGED settings \/ \E s \in Configs : Reload(s)
  BY DEF Next, vars, OnSmsAdded, StartBegins, CatchUpSms, StartConfigures,
     RunPending, StartEnds, Order, Located, LateTurnOn, RefreshPosition,
     AlarmEnds, MinutePasses, StopRing, TestRing, SessionLeavesLostMode,
     TypePin, SmsArrives, SmsMoves, World, Crash, PowerOff, PowerOn, Reborn
<1>4. QED
  BY <1>1, <1>2, <1>3

LEMMA StepKeeps == IInv /\ [Next]_vars => IInv'
<1> SUFFICES ASSUME IInv, [Next]_vars
             PROVE  FixInv' /\ NotedOrdersKnowAnAsker'
  BY StepTypes, StepConfigs DEF IInv
<1>0. TypeOK /\ settings \in Configs /\ FixInv /\ NotedOrdersKnowAnAsker
  BY DEF IInv
<1>Q. UNCHANGED <<fixVars, pending, pendingSms>> /\ out' = {}
      => FixInv' /\ NotedOrdersKnowAnAsker'
  BY <1>0, NothingSent DEF NotedOrdersKnowAnAsker, LastToNote
<1>1. ASSUME NEW m \in Sms, NEW n \in 0..MaxTries, OnSmsAdded(m, n)
      PROVE  FixInv' /\ NotedOrdersKnowAnAsker'
  BY <1>0, <1>1, HandleSmsKeeps DEF OnSmsAdded
<1>2. ASSUME NEW m \in Sms, CatchUpSms(m)
      PROVE  FixInv' /\ NotedOrdersKnowAnAsker'
  BY <1>0, <1>2, HandleSmsKeeps DEF CatchUpSms
<1>3. CASE StartConfigures \/ RefreshPosition
  <2>1. CASE Locate([wait EXCEPT !.relay = TRUE], granted \cup {"Relay"}, FALSE)
    <3>1. UNCHANGED <<pending, pendingSms>>
      BY <1>3 DEF StartConfigures, RefreshPosition, intake
    <3>2. QED
      BY <1>0, <2>1, <3>1, RefreshKeeps DEF NotedOrdersKnowAnAsker, LastToNote
  <2>2. CASE out' = {} /\ UNCHANGED fixVars
    BY <1>3, <1>Q, <2>2 DEF StartConfigures, RefreshPosition, intake
  <2>3. QED
    BY <1>3, <2>1, <2>2 DEF StartConfigures, RefreshPosition
<1>4. CASE RunPending
  BY <1>4, RunPendingKeeps
<1>5. CASE StartEnds
  <2>1. FixInv'
    BY <1>0, <1>5, NothingSent DEF StartEnds
  <2>2. pending' = <<>>
    BY <1>5 DEF StartEnds
  <2>3. QED
    BY <2>1, <2>2 DEF NotedOrdersKnowAnAsker
<1>6. ASSUME NEW c \in Channel, NEW v \in Verb, Order(c, v)
      PROVE  FixInv' /\ NotedOrdersKnowAnAsker'
  <2>1. c # "Sms"
    BY <1>6, ConstantsAssumption DEF Order
  <2>2. Started /\ RunCommand(c, v, NoOne)
    BY <1>6 DEF Order, Reaches, Started
  <2>3. NoOne \in Number
    BY DEF Number
  <2>4. QED
    BY <1>0, <2>1, <2>2, <2>3, RunCommandKeeps
<1>7. CASE Located
  <2>1. WaitersAsked(wait, granted) /\ wait \in Wait
    BY <1>0 DEF FixInv, TypeOK
  <2>2. FixInv'
    BY <1>7, <2>1, DeliverKeeps DEF Located
  <2>3. QED
    BY <1>0, <1>7, <2>2 DEF Located, intake, NotedOrdersKnowAnAsker, LastToNote
<1>8. CASE StartBegins \/ LateTurnOn \/ AlarmEnds \/ MinutePasses
           \/ StopRing \/ TestRing \/ SessionLeavesLostMode \/ TypePin
           \/ \E s \in Configs : Reload(s)
  BY <1>8, <1>Q DEF StartBegins, LateTurnOn, AlarmEnds, MinutePasses, StopRing,
     TestRing, SessionLeavesLostMode, TypePin, Reload, intake, fixVars
<1>9. CASE \E m \in Sms : SmsArrives(m) \/ SmsMoves(m)
  BY <1>9, <1>Q DEF SmsArrives, SmsMoves, World
<1>10. CASE (\E withPhone \in BOOLEAN : Crash(withPhone)) \/ PowerOff \/ PowerOn
  BY <1>10, RebornKeeps DEF Crash, PowerOff, PowerOn
<1>11. CASE UNCHANGED vars
  <2>1. UNCHANGED <<fixVars, pending, pendingSms, out>>
    BY <1>11 DEF vars, intake
  <2>2. QED
    BY <1>0, <2>1 DEF FixInv, fixVars, WaitersAsked, WaitingMeansSearching,
       SomebodyWaits, SomebodyLooks, PositionOnlyToEntitled,
       Entitled, NotedOrdersKnowAnAsker, LastToNote
<1>12. QED
  BY <1>1, <1>2, <1>3, <1>4, <1>5, <1>6, <1>7, <1>8, <1>9, <1>10, <1>11 DEF Next

\* A position goes only to somebody who asked and was allowed to, in every
\* phone whose home channel may not locate, however its other settings change.
THEOREM PositionsAreRightful ==
  ASSUME \A s \in Configs : "Locate" \notin s.may["Lan"]
  PROVE  Spec => []PositionOnlyToWhoAsked
<1>1. IInv => PositionOnlyToWhoAsked
  BY DEF IInv, FixInv, PositionOnlyToEntitled, Entitled, LanLocates,
     PositionOnlyToWhoAsked
<1>2. QED
  BY <1>1, InitKeeps, StepKeeps, PTL DEF Spec

\* And in every phone: whoever is sent a position, other than the relay, asked
\* for it and was allowed to.
THEOREM OthersAsked ==
  Spec => [](\A a \in out : a.position /\ a.to # "Relay" => a.to \in a.asked)
<1>1. IInv => \A a \in out : a.position /\ a.to # "Relay" => a.to \in a.asked
  BY DEF IInv, FixInv, PositionOnlyToEntitled, Entitled
<1>2. QED
  BY <1>1, InitKeeps, StepKeeps, PTL DEF Spec

\* Nobody waits for a fix that no search will bring.
THEOREM WaitersAreSearchedFor == Spec => []WaitingMeansSearching
<1>1. IInv => WaitingMeansSearching
  BY DEF IInv, FixInv
<1>2. QED
  BY <1>1, InitKeeps, StepKeeps, PTL DEF Spec

\* An order noted down in the grace minute is answered at the number of the last
\* who sent that same order, while anything of that order is still to be run.
THEOREM NotedOrdersFindAnAsker == Spec => []NotedOrdersKnowAnAsker
<1>1. IInv => NotedOrdersKnowAnAsker
  BY DEF IInv
<1>2. QED
  BY <1>1, InitKeeps, StepKeeps, PTL DEF Spec
-----------------------------------------------------------------------------
(***************************************************************************)
(* Whoever asked and was allowed keeps the search that was begun for them: *)
(* the daemon implements Search.                                           *)
(***************************************************************************)
Asking == granted \ {"Relay"} # {}

LookInv == Asking => search = "full"

LookStep == [Looking!Next]_(Looking!vars)

\* What each of the abstract steps is here.
LEMMA LookStepsHere ==
  /\ search' = "full" /\ (Asking => Asking') => LookStep
  /\ search = "idle" /\ search' = "refresh" /\ (Asking <=> Asking') => LookStep
  /\ search' = "idle" /\ granted' = {} => LookStep
  /\ search' = search /\ (Asking <=> Asking') => LookStep
<1> USE DEF LookStep, Looking!Next, Asking
<1>1. ASSUME search' = "full", Asking => Asking' PROVE LookStep
  BY <1>1 DEF Looking!Ask
<1>2. ASSUME search = "idle", search' = "refresh", Asking <=> Asking'
      PROVE  LookStep
  BY <1>2 DEF Looking!Refresh
<1>3. ASSUME search' = "idle", granted' = {} PROVE LookStep
  BY <1>3 DEF Looking!End
<1>4. ASSUME search' = search, Asking <=> Asking' PROVE LookStep
  BY <1>4 DEF Looking!vars
<1>5. QED
  BY <1>1, <1>2, <1>3, <1>4

\* The abstract steps keep who waits with a full search.
LEMMA LookStepKeeps ==
  ASSUME LookInv, LookStep
  PROVE  LookInv'
<1>1. CASE Looking!Ask
  BY <1>1 DEF Looking!Ask, LookInv
<1>2. CASE Looking!Refresh
  BY <1>2 DEF Looking!Refresh, LookInv, Asking
<1>3. CASE Looking!End
  BY <1>3 DEF Looking!End, LookInv, Asking
<1>4. CASE UNCHANGED Looking!vars
  BY <1>4 DEF Looking!vars, LookInv, Asking
<1>5. QED
  BY <1>1, <1>2, <1>3, <1>4 DEF LookStep, Looking!Next

LEMMA LocateLooks ==
  ASSUME NEW w, NEW g, NEW turnOn \in BOOLEAN, Locate(w, g, turnOn),
         granted \subseteq g,
         turnOn \/ g \ {"Relay"} = granted \ {"Relay"}
  PROVE  LookStep
<1>1. CASE granted' = g /\ search' = search /\ (turnOn => search = "full")
  <2>1. Asking => Asking'
    BY <1>1 DEF Asking
  <2>2. ~turnOn => (Asking <=> Asking')
    BY <1>1 DEF Asking
  <2>3. QED
    BY <1>1, <2>1, <2>2, LookStepsHere
<1>2. CASE granted' = g /\ turnOn /\ search' = "full"
  BY <1>2, LookStepsHere DEF Asking
<1>3. CASE granted' = g /\ ~turnOn /\ search = "idle" /\ search' = "refresh"
  <2>1. Asking <=> Asking'
    BY <1>3 DEF Asking
  <2>2. QED
    BY <1>3, <2>1, LookStepsHere
<1>4. CASE search' = "idle" /\ granted' = {}
  BY <1>4, LookStepsHere
<1>5. QED
  BY <1>1, <1>2, <1>3, <1>4 DEF Locate, Deliver

LEMMA NobodyLooks == UNCHANGED fixVars => LookStep
BY LookStepsHere DEF fixVars, Asking

LEMMA ObeyLooks ==
  ASSUME NEW c, NEW verb, NEW to, NEW who, Obey(c, verb, to, who)
  PROVE  LookStep
<1>1. CASE Where(c, to, who)
  BY <1>1, LocateLooks, NobodyLooks DEF Where, Refuse
<1>2. CASE State(c, to, who)
  <2>1. PICK g : g \in {granted \cup who, granted}
                 /\ Locate(StateFor(c, to), g, TRUE)
    BY <1>2 DEF State
  <2>2. granted \subseteq g
    BY <2>1
  <2>3. QED
    BY <2>1, <2>2, LocateLooks
<1>3. CASE Ring(c) \/ Stop(c) \/ Lock(c) \/ Unlock(c)
  BY <1>3, NobodyLooks DEF Ring, Stop, Lock, Unlock, Refuse
<1>4. CASE GivePowerOff(c) \/ Gibberish
  BY <1>4, NobodyLooks DEF GivePowerOff, Gibberish, Refuse
<1>5. QED
  BY <1>1, <1>2, <1>3, <1>4 DEF Obey

LEMMA HandleSmsLooks ==
  ASSUME NEW m, NEW attempt, NEW others, HandleSms(m, attempt, others)
  PROVE  LookStep
BY ObeyLooks, NobodyLooks DEF HandleSms, RunCommand, NoteDown, Ignore

LEMMA StepLooks == [Next]_vars => LookStep
<1> SUFFICES ASSUME [Next]_vars PROVE LookStep
  OBVIOUS
<1>1. ASSUME NEW m \in Sms, NEW n \in 0..MaxTries, OnSmsAdded(m, n)
      PROVE  LookStep
  BY <1>1, HandleSmsLooks DEF OnSmsAdded
<1>2. ASSUME NEW m \in Sms, CatchUpSms(m)
      PROVE  LookStep
  BY <1>2, HandleSmsLooks DEF CatchUpSms
<1>3. CASE StartConfigures \/ RefreshPosition
  <2>1. \/ Locate([wait EXCEPT !.relay = TRUE], granted \cup {"Relay"}, FALSE)
        \/ UNCHANGED fixVars
    BY <1>3 DEF StartConfigures, RefreshPosition
  <2>2. QED
    BY <2>1, LocateLooks, NobodyLooks
<1>4. CASE RunPending
  BY <1>4, ObeyLooks DEF RunPending
<1>5. ASSUME NEW c \in Channel, NEW v \in Verb, Order(c, v)
      PROVE  LookStep
  BY <1>5, ObeyLooks, NobodyLooks DEF Order, RunCommand, NoteDown
<1>6. CASE Located
  BY <1>6, LookStepsHere DEF Located, Deliver
<1>7. CASE \/ StartBegins \/ StartEnds \/ LateTurnOn \/ AlarmEnds
           \/ MinutePasses \/ StopRing \/ TestRing \/ SessionLeavesLostMode
           \/ TypePin
           \/ \E s \in Configs : Reload(s)
  BY <1>7, NobodyLooks DEF StartBegins, StartEnds, LateTurnOn, AlarmEnds,
     MinutePasses, StopRing, TestRing, SessionLeavesLostMode, TypePin, Reload
<1>8. CASE \E m \in Sms : SmsArrives(m) \/ SmsMoves(m)
  BY <1>8, NobodyLooks DEF SmsArrives, SmsMoves, World
<1>9. CASE (\E withPhone \in BOOLEAN : Crash(withPhone)) \/ PowerOff \/ PowerOn
  BY <1>9, LookStepsHere DEF Crash, PowerOff, PowerOn, Reborn
<1>10. CASE UNCHANGED vars
  BY <1>10, NobodyLooks DEF vars
<1>11. QED
  BY <1>1, <1>2, <1>3, <1>4, <1>5, <1>6, <1>7, <1>8, <1>9, <1>10 DEF Next

\* Every step of the daemon is a step of Search, or none: whoever asked where
\* the phone is, and was allowed to, is never left with a refresh.
THEOREM ImplementsTheSearch == Spec => KeepsWhoLooks
<1>1. Init => Looking!Init
  BY DEF Init, Looking!Init
<1>2. [Next]_vars => [Looking!Next]_(Looking!vars)
  BY StepLooks DEF LookStep
<1>3. QED
  BY <1>1, <1>2, PTL DEF Spec, KeepsWhoLooks, Looking!Spec

\* So each of them has a full search as long as they wait.
LEMMA LookersAreSearchedFor == Spec => []LookInv
<1>1. Init => LookInv
  BY DEF Init, LookInv, Asking
<1>2. LookInv /\ [Next]_vars => LookInv'
  BY StepLooks, LookStepKeeps
<1>3. QED
  BY <1>1, <1>2, PTL DEF Spec

-----------------------------------------------------------------------------
(***************************************************************************)
(* No order does more than its channel may do when it is obeyed.           *)
(***************************************************************************)
OrderByRight(c) ==
  /\ ringing' # ringing => Allows(settings, c, "Ring")
  /\ ringing /\ ~ringing' => c # "Sms"
  /\ <<lost, saved, locked>>' # <<lost, saved, locked>> =>
       Allows(settings, c, "Lock")
  /\ lost /\ ~lost' => c = "Relay"
  /\ granted' \ granted # {} => Allows(settings, c, "Locate")

LEMMA LocateGrants ==
  ASSUME NEW w, NEW g, NEW turnOn, Locate(w, g, turnOn)
  PROVE  granted' \in {g, {}}
BY DEF Locate, Deliver

LEMMA ObeyByRight ==
  ASSUME NEW c, NEW verb, NEW to, NEW who, Obey(c, verb, to, who)
  PROVE  OrderByRight(c)
<1>1. ringing' # ringing => Allows(settings, c, "Ring")
  BY ObeyAndAlarm
<1>2. ringing /\ ~ringing' => c # "Sms"
  BY ObeyAndAlarm DEF Sound
<1>3. <<lost, saved, locked>>' # <<lost, saved, locked>> =>
        Allows(settings, c, "Lock")
  BY ObeyAndLostMode DEF lostVars
<1>4. lost /\ ~lost' => c = "Relay"
  BY ObeyAndLostMode DEF EnterLostMode, lostVars
<1>5. granted' \ granted # {} => Allows(settings, c, "Locate")
  <2> SUFFICES ASSUME ~Allows(settings, c, "Locate") PROVE granted' \ granted = {}
    OBVIOUS
  <2>1. CASE Where(c, to, who)
    BY <2>1 DEF Where, Refuse, fixVars
  <2>2. CASE State(c, to, who)
    <3>1. Locate(StateFor(c, to), granted, TRUE)
      BY <2>2 DEF State
    <3>2. QED
      BY <3>1, LocateGrants
  <2>3. CASE Ring(c) \/ Stop(c) \/ Lock(c) \/ Unlock(c)
    BY <2>3 DEF Ring, Stop, Lock, Unlock, Refuse, fixVars
  <2>4. CASE GivePowerOff(c) \/ Gibberish
    BY <2>4 DEF GivePowerOff, Gibberish, Refuse, fixVars
  <2>5. QED
    BY <2>1, <2>2, <2>3, <2>4 DEF Obey
<1>6. QED
  BY <1>1, <1>2, <1>3, <1>4, <1>5 DEF OrderByRight

LEMMA NothingDoneByRight ==
  ASSUME NEW c, UNCHANGED <<ringing, lost, saved, locked, granted>>
  PROVE  OrderByRight(c)
BY DEF OrderByRight

LEMMA RunCommandByRight ==
  ASSUME NEW c, NEW verb, NEW to, RunCommand(c, verb, to)
  PROVE  OrderByRight(c)
BY ObeyByRight, NothingDoneByRight DEF RunCommand, NoteDown, lostVars, fixVars

LEMMA HandleSmsByRight ==
  ASSUME NEW m, NEW attempt, NEW others, HandleSms(m, attempt, others)
  PROVE  OrderByRight("Sms")
<1>1. CASE Ignore
  BY <1>1, NothingDoneByRight DEF Ignore, lostVars, fixVars
<1>2. CASE RunCommand("Sms", modem[m].text.verb, modem[m].text.from)
  BY <1>2, RunCommandByRight
<1>3. QED
  BY <1>1, <1>2 DEF HandleSms

\* What ActsByRight says of a step.
StepByRight ==
  /\ by' \in Channel => OrderByRight(by')
  /\ by' = "ringer" => UNCHANGED <<lost, saved, locked>> /\ ~ringing'
  /\ by' = "daemon" => UNCHANGED <<ringing, lost, saved>>

LEMMA StepsByRight == TypeOK /\ Next => StepByRight
<1> SUFFICES ASSUME TypeOK, Next PROVE StepByRight
  OBVIOUS
<1>0. {"daemon", "ringer", "session", "boot"} \cap Channel = {}
  BY DEF Channel
<1>Q. by' = "daemon" /\ UNCHANGED <<ringing, lost, saved>> => StepByRight
  BY <1>0 DEF StepByRight
<1>S. by' \in {"session", "boot"} => StepByRight
  BY <1>0 DEF StepByRight
<1>C. ASSUME NEW c \in Channel, by' = c, OrderByRight(c) PROVE StepByRight
  BY <1>0, <1>C DEF StepByRight
<1>1. ASSUME NEW m \in Sms, NEW n \in 0..MaxTries, OnSmsAdded(m, n)
      PROVE  StepByRight
  BY <1>1, <1>C, HandleSmsByRight DEF OnSmsAdded, Channel
<1>2. ASSUME NEW m \in Sms, CatchUpSms(m)
      PROVE  StepByRight
  BY <1>2, <1>C, HandleSmsByRight DEF CatchUpSms, Channel
<1>3. ASSUME NEW c \in Channel, NEW v \in Verb, Order(c, v)
      PROVE  StepByRight
  BY <1>3, <1>C, RunCommandByRight DEF Order
<1>4. CASE RunPending
  <2>1. OrderByRight(Head(pending).channel) /\ by' = Head(pending).channel
    BY <1>4, ObeyByRight DEF RunPending
  <2>2. Head(pending).channel \in Channel
    BY <1>4, FirstOfSome, NotedFields DEF RunPending, TypeOK
  <2>3. QED
    BY <1>C, <2>1, <2>2
<1>5. CASE AlarmEnds
  BY <1>0, <1>5 DEF AlarmEnds, Silence, Took, StepByRight, lostVars
<1>6. CASE StopRing \/ TestRing \/ SessionLeavesLostMode \/ TypePin
  BY <1>6, <1>S DEF StopRing, TestRing, SessionLeavesLostMode, TypePin, Took
<1>7. CASE (\E withPhone \in BOOLEAN : Crash(withPhone)) \/ PowerOff \/ PowerOn
  BY <1>7, <1>S DEF Crash, PowerOff, PowerOn, Reborn, Took
<1>8. CASE \/ StartBegins \/ StartConfigures \/ StartEnds \/ Located
           \/ LateTurnOn \/ RefreshPosition \/ MinutePasses
           \/ \E s \in Configs : Reload(s)
  BY <1>8, <1>Q DEF StartBegins, StartConfigures, StartEnds, Located,
     LateTurnOn, RefreshPosition, MinutePasses, Reload, Took, lostVars
<1>9. CASE \E m \in Sms : SmsArrives(m) \/ SmsMoves(m)
  BY <1>9, <1>Q DEF SmsArrives, SmsMoves, World, Took, lostVars
<1>10. QED
  BY <1>1, <1>2, <1>3, <1>4, <1>5, <1>6, <1>7, <1>8, <1>9 DEF Next

\* No order, however and whenever it came, does more than its channel may do at
\* the moment it acts; and the daemon does nothing to alarm or lost mode by
\* itself.
THEOREM OrdersActByRight == Spec => ActsByRight
<1>1. TypeOK /\ [Next]_vars => [StepByRight]_vars
  BY StepsByRight
<1>2. TypeOK /\ [Next]_vars =>
        [/\ by' \in Channel =>
              /\ ringing' # ringing => Allows(settings, by', "Ring")
              /\ ringing /\ ~ringing' => by' # "Sms"
              /\ <<lost, saved, locked>>' # <<lost, saved, locked>> =>
                   Allows(settings, by', "Lock")
              /\ lost /\ ~lost' => by' = "Relay"
              /\ granted' \ granted # {} => Allows(settings, by', "Locate")
         /\ by' = "ringer" => UNCHANGED <<lost, saved, locked>> /\ ~ringing'
         /\ by' = "daemon" => UNCHANGED <<ringing, lost, saved>>]_vars
  BY <1>1 DEF StepByRight, OrderByRight
<1>3. QED
  BY <1>2, TypeCorrect, PTL DEF Spec, ActsByRight

-----------------------------------------------------------------------------
(***************************************************************************)
(* Orders noted down are run, or die with the process.                     *)
(***************************************************************************)

\* While there is something to catch up with, or to run, start() has not ended.
StartInv ==
  /\ catching # {} => stage = "catchUp"
  /\ pending # <<>> => stage \in {"grace", "catchUp", "pending"}

\* What a step does to the noted orders.
NotedStep ==
  \/ UNCHANGED pending
  \/ by' = "boot"
  \/ /\ ~Started
     /\ \E o \in [channel : {"Sms"}, verb : Verb, from : Senders] : pending' = Append(pending, o)
  \/ /\ stage = "pending" /\ catching = {}
     /\ pending' = Tail(pending)
     /\ by' = Head(pending).channel /\ verdict' # "noted"

\* To note down is the only thing that start() not having begun allows.
LEMMA HandleSmsNotes ==
  ASSUME TypeOK, NEW m \in Sms, NEW attempt, NEW others,
         HandleSms(m, attempt, others)
  PROVE  \/ UNCHANGED pending
         \/ /\ ~Started
            /\ \E o \in [channel : {"Sms"}, verb : Verb, from : Senders] :
                 pending' = Append(pending, o)
<1>1. CASE Ignore
  BY <1>1 DEF Ignore
<1>2. CASE /\ Obeyed(m)
           /\ RunCommand("Sms", modem[m].text.verb, modem[m].text.from)
  <2>1. modem[m] \in [at : {"fresh", "old"}, text : Texts]
    BY <1>2 DEF Obeyed, Readable, TypeOK, Message, NoMessage, Arriving, Gone
  <2>2. modem[m].text.verb \in Verb /\ modem[m].text.from \in Senders
    BY <2>1, ConstantsAssumption
  <2>3. [channel |-> "Sms", verb |-> modem[m].text.verb,
         from |-> modem[m].text.from]
          \in [channel : {"Sms"}, verb : Verb, from : Senders]
    BY <2>2
  <2>4. QED
    BY <1>2, <2>3 DEF RunCommand, NoteDown
<1>3. QED
  BY <1>1, <1>2 DEF HandleSms

LEMMA ObeyIsNoNote ==
  ASSUME NEW c, NEW verb, NEW to, NEW who, Obey(c, verb, to, who)
  PROVE  verdict' # "noted"
BY DEF Obey, Ring, Stop, Where, Lock, Unlock, GivePowerOff, State, Gibberish,
   Refuse

LEMMA StartSteps ==
  ASSUME TypeOK, StartInv, [Next]_vars
  PROVE  StartInv' /\ NotedStep
<1>Q. ASSUME UNCHANGED <<stage, catching, pending>>
      PROVE  StartInv' /\ NotedStep
  BY <1>Q DEF StartInv, NotedStep
<1>1. ASSUME NEW m \in Sms, NEW n \in 0..MaxTries, OnSmsAdded(m, n)
      PROVE  StartInv' /\ NotedStep
  <2>1. UNCHANGED <<stage, catching>> /\ stage \in {"grace", "loop"}
    BY <1>1 DEF OnSmsAdded, Ready
  <2>2. UNCHANGED pending \/ stage # "loop"
    BY <1>1, <2>1, HandleSmsNotes DEF OnSmsAdded, Started
  <2>3. QED
    BY <1>1, <2>1, <2>2, HandleSmsNotes DEF OnSmsAdded, StartInv, NotedStep
<1>2. ASSUME NEW m \in Sms, CatchUpSms(m)
      PROVE  StartInv' /\ NotedStep
  <2>1. stage = "catchUp" /\ stage' = stage
    BY <1>2 DEF CatchUpSms
  <2>2. UNCHANGED pending
    BY <1>2, <2>1, HandleSmsNotes DEF CatchUpSms, Started
  <2>3. QED
    BY <2>1, <2>2 DEF StartInv, NotedStep
<1>3. CASE StartBegins \/ StartConfigures
  BY <1>3 DEF StartBegins, StartConfigures, intake, StartInv, NotedStep
<1>4. CASE RunPending
  <2>1. /\ stage = "pending" /\ stage' = stage /\ UNCHANGED catching
        /\ pending' = Tail(pending) /\ by' = Head(pending).channel
    BY <1>4 DEF RunPending
  <2>2. verdict' # "noted"
    BY <1>4, ObeyIsNoNote DEF RunPending
  <2>3. QED
    BY <2>1, <2>2 DEF StartInv, NotedStep
<1>5. CASE StartEnds
  BY <1>5 DEF StartEnds, StartInv, NotedStep
<1>6. ASSUME NEW c \in Channel, NEW v \in Verb, Order(c, v)
      PROVE  StartInv' /\ NotedStep
  <2>1. stage = "loop" /\ UNCHANGED <<stage, catching>>
    BY <1>6 DEF Order, Reaches
  <2>2. UNCHANGED pending
    BY <1>6, <2>1 DEF Order, RunCommand, Started
  <2>3. QED
    BY <1>Q, <2>1, <2>2
<1>7. CASE \/ Located \/ LateTurnOn \/ RefreshPosition \/ AlarmEnds
           \/ MinutePasses \/ StopRing \/ TestRing \/ SessionLeavesLostMode
           \/ TypePin
           \/ \E s \in Configs : Reload(s)
  BY <1>7, <1>Q DEF Located, LateTurnOn, RefreshPosition, AlarmEnds,
     MinutePasses, StopRing, TestRing, SessionLeavesLostMode, TypePin, Reload,
     intake
<1>8. CASE \E m \in Sms : SmsArrives(m) \/ SmsMoves(m)
  BY <1>8, <1>Q DEF SmsArrives, SmsMoves, World
<1>9. CASE (\E withPhone \in BOOLEAN : Crash(withPhone)) \/ PowerOff \/ PowerOn
  BY <1>9 DEF Crash, PowerOff, PowerOn, Reborn, Took, StartInv, NotedStep
<1>10. CASE UNCHANGED vars
  BY <1>10, <1>Q DEF vars, intake
<1>11. QED
  BY <1>1, <1>2, <1>3, <1>4, <1>5, <1>6, <1>7, <1>8, <1>9, <1>10 DEF Next

\* An order noted down in the grace minute is run by start(), in turn, before
\* the other doors open, unless the process dies first.
THEOREM NotedOrdersRun == Spec => NotedOrdersAreRun
<1>1. Init => StartInv
  BY DEF Init, StartInv
<1>2. TypeOK /\ StartInv /\ [Next]_vars => StartInv'
  BY StartSteps
<1>3. StartInv => (stage = "loop" => pending = <<>> /\ catching = {})
  BY DEF StartInv
<1>4. TypeOK /\ StartInv /\ [Next]_vars =>
        [pending' # pending =>
           \/ by' = "boot"
           \/ /\ ~Started
              /\ \E o \in [channel : {"Sms"}, verb : Verb, from : Senders] :
                   pending' = Append(pending, o)
           \/ /\ stage = "pending" /\ catching = {}
              /\ pending' = Tail(pending)
              /\ by' = Head(pending).channel /\ verdict' # "noted"]_vars
  BY StartSteps DEF NotedStep
<1>5. QED
  BY <1>1, <1>2, <1>3, <1>4, TypeCorrect, PTL DEF Spec, NotedOrdersAreRun
=============
