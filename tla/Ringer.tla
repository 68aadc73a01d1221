------------------------------ MODULE Ringer ------------------------------
(***************************************************************************)
(* The alarm (src/src/ringer.cpp) and what happens to the volume when the  *)
(* process that rings dies (lost-phoned.service, --restaurar).             *)
(*                                                                         *)
(* start() and stop() each run several external commands.  They are cut at *)
(* every command, because the process can be killed at any of them; "pc"   *)
(* is the place in the handler, "loop" when no handler runs.  A sound that *)
(* cannot be resolved leaves everything as it was, so it is no step here.  *)
(***************************************************************************)
EXTENDS Naturals

CONSTANTS Outputs,      \* the outputs PulseAudio knows
          Speaker,      \* the one speaker() finds
          Default,      \* the default output, when it finds none
          Volumes,      \* volume levels
          RingVolume,   \* the level the alarm is set to ring at
          None,         \* nothing remembered
          Durations,    \* for how long the callers ask it to ring
          MinDuration,  \* and the least it rings for (5 s)
          MaxFailures,  \* players dying at once before it gives up (3)
          MaySoundless, \* no player may start at all
          MayFail,      \* PulseAudio, or the unit's last command, may die
          DiskMayFail,  \* the note may find no room
          MaxOrders,    \* bound: calls of start()
          MaxDeaths     \* bound: deaths of the daemon

ASSUME RingerAssumption ==
  /\ Speaker \in Outputs /\ Default \in Outputs
  /\ RingVolume \in Volumes
  /\ Durations \subseteq Nat /\ MinDuration \in Nat
  /\ MaxFailures \in Nat \ {0}
  /\ MaySoundless \in BOOLEAN /\ MayFail \in BOOLEAN /\ DiskMayFail \in BOOLEAN
  /\ MaxOrders \in Nat /\ MaxDeaths \in Nat
  /\ None \notin Volumes
  /\ \A o \in Outputs, v \in Volumes, m \in BOOLEAN :
       None # [output |-> o, setting |-> [vol |-> v, mute |-> m]]

VARIABLES
  pc,        \* where the handler, or the unit's last command, is
  ringing,   \* m_ringing
  left,      \* what is left on m_stopTimer
  player,    \* m_player is running
  failures,  \* m_consecutiveFailures
  sink,      \* m_sink
  read,      \* the volume raiseVolume has read, until it has the mute too
  memory,    \* m_savedVolume and m_savedMute, None unless m_volumeSaved
  file,      \* lost-phone-volume in the runtime directory
  hand,      \* what --restaurar has read and not yet put back
  out,       \* what each output is set to
  pulse,     \* PulseAudio answers
  orders,    \* calls of start() so far
  deaths,    \* deaths so far
  chosen,    \* history: what the owner chose for each knob of each output,
             \* since the alarm began or, when there is none, last
  note       \* history: "kept" unless the disk "refused" the note, or the
             \* process died with the only copy and it is "lost"

alarm == <<ringing, left, player, failures>>
volume == <<sink, read, memory, file, hand, out, chosen, note>>
world == <<pulse, orders, deaths>>
vars == <<pc, alarm, volume, world>>

Setting == [vol : Volumes, mute : BOOLEAN]
Note == [output : Outputs, setting : Setting]
Choice == [vol : SUBSET Volumes, mute : SUBSET BOOLEAN]

InHandler == {"listing", "readingVolume", "readingMute", "noting", "unmuting",
              "raising", "playing", "volumeBack", "muteBack", "forgetting"}
Dying == {"dead", "postVolume", "postMute", "down"}

\* What the owner wants each output to be, as far as anybody can tell.
Only(s) == [vol |-> {s.vol}, mute |-> {s.mute}]
Also(c, s) == [vol |-> c.vol \cup {s.vol}, mute |-> c.mute \cup {s.mute}]
AsItIs == [o \in Outputs |-> Only(out[o])]

Fits(s, c) == s.vol \in c.vol /\ s.mute \in c.mute
Restored == \A o \in Outputs : Fits(out[o], chosen[o])

Quiet == pc = "down" \/ (pc = "loop" /\ ~ringing)

Init ==
  /\ pc = "loop"
  /\ ringing = FALSE /\ left = 0 /\ player = FALSE /\ failures = 0
  /\ sink = Default /\ read = None
  /\ memory = None /\ file = None /\ hand = None
  /\ out \in [Outputs -> Setting] /\ chosen = AsItIs /\ note = "kept"
  /\ pulse = TRUE /\ orders = 0 /\ deaths = 0

\* pactl set-sink-volume and set-sink-mute: nothing, without PulseAudio.
SetVolume(o, v) == out' = IF pulse THEN [out EXCEPT ![o].vol = v] ELSE out
SetMute(o, m) == out' = IF pulse THEN [out EXCEPT ![o].mute = m] ELSE out

-----------------------------------------------------------------------------
\* start(): the stop timer first; if it rings already, nothing else.
Lasting(n) == IF n < MinDuration THEN MinDuration ELSE n

Start(n) ==
  /\ pc = "loop" /\ orders < MaxOrders
  /\ orders' = orders + 1
  /\ left' = Lasting(n)
  /\ IF ringing THEN UNCHANGED <<pc, chosen, note>>
                ELSE pc' = "listing" /\ chosen' = AsItIs /\ note' = "kept"
  /\ UNCHANGED <<ringing, player, failures, sink, read, memory, file, hand, out,
                 pulse, deaths>>

\* raiseVolume: speaker() takes the default output when it can list nothing,
\* and when nothing it lists looks like the phone's own.
FindSpeaker ==
  /\ pc = "listing"
  /\ sink' \in IF pulse THEN {Speaker, Default} ELSE {Default}
  /\ pc' = "readingVolume"
  /\ UNCHANGED <<alarm, read, memory, file, hand, out, chosen, note, world>>

ReadVolume ==
  /\ pc = "readingVolume"
  /\ read' = IF pulse THEN out[sink].vol ELSE None
  /\ pc' = "readingMute"
  /\ UNCHANGED <<alarm, sink, memory, file, hand, out, chosen, note, world>>

\* Only with both of them is there anything to note down.
ReadMute ==
  /\ pc = "readingMute"
  /\ IF pulse /\ read # None
     THEN /\ memory' = [output |-> sink,
                       setting |-> [vol |-> read, mute |-> out[sink].mute]]
          /\ pc' = "noting"
     ELSE pc' = "unmuting" /\ UNCHANGED memory
  /\ read' = None
  /\ UNCHANGED <<alarm, sink, file, hand, out, chosen, note, world>>

NoteVolumeInMemory ==
  /\ pc = "noting" /\ pc' = "unmuting"
  /\ UNCHANGED <<alarm, volume, world>>

\* The note; or no note, and the alarm goes on all the same.
NoteVolume ==
  /\ pc = "noting"
  /\ \/ file' = memory /\ UNCHANGED note
     \/ DiskMayFail /\ note' = "refused" /\ UNCHANGED file
  /\ pc' = "unmuting"
  /\ UNCHANGED <<alarm, sink, read, memory, hand, out, chosen, world>>

Unmute ==
  /\ pc = "unmuting"
  /\ SetMute(sink, FALSE)
  /\ pc' = "raising"
  /\ UNCHANGED <<alarm, sink, read, memory, file, hand, chosen, note, world>>

Raise ==
  /\ pc = "raising"
  /\ SetVolume(sink, RingVolume)
  /\ pc' = "playing"
  /\ UNCHANGED <<alarm, sink, read, memory, file, hand, chosen, note, world>>

\* playOnce: paplay, aplay, aplay on the bare card; or none of them starts.
PlayOnce == player' \in {TRUE, ~MaySoundless}

Begin ==
  /\ pc = "playing"
  /\ ringing' = TRUE /\ failures' = 0
  /\ PlayOnce
  /\ pc' = "loop"
  /\ UNCHANGED <<left, volume, world>>

-----------------------------------------------------------------------------
\* stop(): silence first, then the volume, if it was ever read.
Stop ==
  /\ pc = "loop" /\ ringing
  /\ ringing' = FALSE /\ left' = 0 /\ player' = FALSE
  /\ pc' = IF memory = None THEN "loop" ELSE "volumeBack"
  /\ UNCHANGED <<volume, world>>

StopOrdered == Stop /\ UNCHANGED failures

StopTimerWhilePlaying == left = 0 /\ player /\ Stop /\ UNCHANGED failures

StopTimer == left = 0 /\ Stop /\ UNCHANGED failures

VolumeBackToDefault ==
  /\ pc = "volumeBack"
  /\ SetVolume(Default, memory.setting.vol)
  /\ pc' = "muteBack"
  /\ UNCHANGED <<alarm, sink, read, memory, file, hand, chosen, note, world>>

VolumeBack ==
  /\ pc = "volumeBack"
  /\ SetVolume(memory.output, memory.setting.vol)
  /\ pc' = "muteBack"
  /\ UNCHANGED <<alarm, sink, read, memory, file, hand, chosen, note, world>>

MuteBackForgotten ==
  /\ pc = "muteBack" /\ pc' = "forgetting"
  /\ UNCHANGED <<alarm, volume, world>>

MuteBack ==
  /\ pc = "muteBack"
  /\ SetMute(memory.output, memory.setting.mute)
  /\ pc' = "forgetting"
  /\ UNCHANGED <<alarm, sink, read, memory, file, hand, chosen, note, world>>

ForgetLeavesTheFile ==
  /\ pc = "forgetting" /\ pc' = "loop"
  /\ memory' = None
  /\ UNCHANGED <<alarm, sink, read, file, hand, out, chosen, note, world>>

Forget ==
  /\ pc = "forgetting"
  /\ file' = None /\ memory' = None
  /\ pc' = "loop"
  /\ UNCHANGED <<alarm, sink, read, hand, out, chosen, note, world>>

-----------------------------------------------------------------------------
\* The player's finished handler.  One that failed within half a second is
\* counted, and the third in a row ends the alarm; any other is played again.
PlayerEnds(failedAtOnce) ==
  /\ pc = "loop" /\ player /\ ringing
  /\ IF failedAtOnce /\ failures + 1 >= MaxFailures
     THEN Stop /\ failures' = failures + 1
     ELSE /\ failures' = IF failedAtOnce THEN failures + 1 ELSE 0
          /\ PlayOnce
          /\ UNCHANGED <<pc, ringing, left, volume, world>>

-----------------------------------------------------------------------------
(***************************************************************************)
(* The world: time, the owner's hand, PulseAudio, and death.               *)
(***************************************************************************)
Tick ==
  /\ pc = "loop" /\ left > 0
  /\ left' = left - 1
  /\ UNCHANGED <<pc, ringing, player, failures, volume, world>>

\* The volume keys work under the lock screen and belong to another process:
\* between any two commands of start(), stop() and --restaurar.
OwnerTurns(o, s) ==
  /\ out' = [out EXCEPT ![o] = s]
  /\ chosen' = [chosen EXCEPT ![o] = IF Quiet THEN Only(s) ELSE Also(@, s)]
  /\ UNCHANGED <<pc, alarm, sink, read, memory, file, hand, note, world>>

PulseDies == /\ MayFail /\ pulse
             /\ pulse' = FALSE
             /\ UNCHANGED <<pc, alarm, volume, orders, deaths>>

PulseReturns == /\ ~pulse
                /\ pulse' = TRUE
                /\ UNCHANGED <<pc, alarm, volume, orders, deaths>>

\* Killed at any command; its player goes with it, and so does a loan that
\* the disk refused.
Die ==
  /\ pc \in {"loop"} \cup InHandler
  /\ deaths < MaxDeaths /\ deaths' = deaths + 1
  /\ pc' = "dead"
  /\ ringing' = FALSE /\ left' = 0 /\ player' = FALSE /\ failures' = 0
  /\ sink' = Default /\ read' = None /\ memory' = None
  /\ note' = IF note = "refused" /\ ~Restored THEN "lost" ELSE note
  /\ UNCHANGED <<file, hand, out, chosen, pulse, orders>>

\* ExecStopPost: restoreSavedVolume takes the file away before it uses it.
ReadFile ==
  /\ pc = "dead"
  /\ hand' = file /\ file' = None
  /\ pc' = IF file = None THEN "down" ELSE "postVolume"
  /\ UNCHANGED <<alarm, sink, read, memory, out, chosen, note, world>>

PostVolume ==
  /\ pc = "postVolume"
  /\ SetVolume(hand.output, hand.setting.vol)
  /\ pc' = "postMute"
  /\ UNCHANGED <<alarm, sink, read, memory, file, hand, chosen, note, world>>

PostMute ==
  /\ pc = "postMute"
  /\ SetMute(hand.output, hand.setting.mute)
  /\ hand' = None
  /\ pc' = "down"
  /\ UNCHANGED <<alarm, sink, read, memory, file, chosen, note, world>>

PostDies ==
  /\ MayFail /\ pc \in {"postVolume", "postMute"}
  /\ hand' = None
  /\ pc' = "down"
  /\ UNCHANGED <<alarm, sink, read, memory, file, out, chosen, note, world>>

\* RestartSec later.
Restart ==
  /\ pc = "down"
  /\ pc' = "loop"
  /\ UNCHANGED <<alarm, volume, world>>

-----------------------------------------------------------------------------
Handler == \/ FindSpeaker \/ ReadVolume \/ ReadMute \/ NoteVolume
           \/ Unmute \/ Raise \/ Begin \/ VolumeBack \/ MuteBack \/ Forget

Backstop == ReadFile \/ PostVolume \/ PostMute \/ Restart

Next ==
  \/ \E n \in Durations : Start(n)
  \/ Handler
  \/ StopOrdered
  \/ StopTimer
  \/ \E failedAtOnce \in BOOLEAN : PlayerEnds(failedAtOnce)
  \/ Tick
  \/ \E o \in Outputs, s \in Setting : OwnerTurns(o, s)
  \/ PulseDies
  \/ PulseReturns
  \/ Die
  \/ Backstop
  \/ PostDies

Spec == Init /\ [][Next]_vars

\* A handler runs on, a timer that is due fires, time passes, and the unit's
\* last command and its restart are systemd's.
Fairness == /\ WF_vars(Handler)
            /\ WF_vars(Backstop)
            /\ WF_vars(Tick)
            /\ WF_vars(StopTimer)

FairSpec == Spec /\ Fairness

-----------------------------------------------------------------------------
(***************************************************************************)
(* Properties.                                                             *)
(***************************************************************************)
\* Every variable keeps its type.
TypeOK ==
  /\ pc \in {"loop"} \cup InHandler \cup Dying
  /\ ringing \in BOOLEAN /\ player \in BOOLEAN /\ pulse \in BOOLEAN
  /\ left \in Nat /\ failures \in 0..MaxFailures
  /\ sink \in Outputs /\ read \in Volumes \cup {None}
  /\ memory \in Note \cup {None}
  /\ file \in Note \cup {None}
  /\ hand \in Note \cup {None}
  /\ out \in [Outputs -> Setting] /\ chosen \in [Outputs -> Choice]
  /\ note \in {"kept", "refused", "lost"}
  /\ orders \in Nat /\ deaths \in Nat

\* Where what is to be put back is written down: on disk or with the command
\* that puts it back; or, if the disk refused it, in the process that rings.
Owed == IF hand # None THEN hand ELSE IF note = "refused" THEN memory ELSE file

\* An output that is other than its owner chose is on disk, with a setting that
\* is the owner's for each knob, or already in the hands of the command that
\* puts it back: so that no kill leaves the phone loud (ringer.cpp 226-234).
\* Where the disk refuses the note, the process that rings still has it.
LoanIsOnDisk ==
  note # "lost" =>
    \A o \in Outputs : ~Fits(out[o], chosen[o]) =>
      /\ Owed # None /\ Owed.output = o
      /\ Fits(Owed.setting, chosen[o])

\* Every output is as the owner wants it whenever the phone is not ringing and
\* nobody is in the middle of putting it back: after an alarm that was stopped,
\* ran out, gave up or was killed.  Only a kill after the disk had refused the
\* note leaves it loud.
QuietMeansRestored == Quiet /\ note # "lost" => Restored

Loan == INSTANCE VolumeLoan
          WITH owed <- Owed, kept <- IF note = "kept" THEN "disk" ELSE "head"

\* The alarm keeps the promise of VolumeLoan: one output at a time is
\* disturbed, even with headphones as the default one, and the note is given
\* up with the last payment, by stop() as by the unit's last command, whatever
\* the owner's hand does meanwhile.
KeepsTheLoan == Loan!Spec

\* No note outlives its alarm, even when PulseAudio is not there to take it:
\* an old one would undo, at the next death, what the owner chose since.
NoStaleNote == Quiet => memory = None /\ file = None /\ hand = None

\* The alarm never touches an output but the one it found to be the speaker and
\* the default one it takes when it finds none, also when PulseAudio
\* comes and goes (speaker(), raiseVolume, restoreVolume, restoreSavedVolume).
OnlyItsOutputs ==
  \A o \in Outputs \ {Speaker, Default} : Fits(out[o], chosen[o])

\* The alarm ends, whoever died in the middle of it.
AlarmEnds == ringing ~> ~ringing

\* And the phone ends up the way its owner wants it.
VolumeComesBack == ~Restored ~> Restored \/ note = "lost"

-----------------------------------------------------------------------------
\* "A stop can never leave the phone pinned at maximum volume"
\* (lost-phoned.service 25-27).
StopNeverLeavesItLoud == pc = "down" => Restored

\* "Ringing again while already ringing just extends it" (ringer.h 43-45).
RingingAgainExtends == [][orders' > orders => left' >= left]_vars

\* "Starts the alarm and returns whether any audio path accepted it"
\* (ringer.h 43): an alarm that started is being played.
RingingIsPlayed == pc = "loop" /\ ringing => player
=============================================================================
