--------------------------- MODULE Ringer_proofs ---------------------------
(***************************************************************************)
(* Proofs about Ringer, for every set of outputs and volumes, any number   *)
(* of alarms and of deaths, with the owner's hand on the volume keys at    *)
(* every moment and a disk that may refuse the note.  What is said of the  *)
(* outputs is proved as long as PulseAudio and the unit's last command do  *)
(* not fail (MayFail = FALSE); what is said of the notes, also when they   *)
(* do.                                                                     *)
(***************************************************************************)
EXTENDS Ringer, TLAPS

\* The process remembers what to put back from ReadMute to Forget.
WithNote == {"noting", "unmuting", "raising", "playing",
             "volumeBack", "muteBack", "forgetting"}
Reading == {"listing", "readingVolume", "readingMute"}
Posting == {"postVolume", "postMute"}

\* What is remembered, where, at each place of the handlers.  Between
\* NoteVolume and Forget the file agrees with the memory, unless it was refused.
Remembered ==
  /\ hand # None <=> pc \in Posting
  /\ memory # None <=> pc \in WithNote \/ (pc = "loop" /\ ringing)
  /\ file # None => note = "kept"
  /\ pc \in {"loop"} \cup (WithNote \ {"noting"}) =>
       file = IF note = "kept" THEN memory ELSE None
  /\ pc \in Reading \cup Posting \cup {"noting", "down"} => file = None
  /\ pc \in Reading \cup Posting \cup {"noting"} => note = "kept"
  /\ note = "lost" => memory = None
  /\ pc \in {"noting", "unmuting", "raising", "playing"} => memory.output = sink
  /\ pc = "readingMute" => read \in chosen[sink].vol
  /\ pc # "loop" => ~ringing

\* Whatever is remembered is the owner's choice.
Fitting(n) == n # None => Fits(n.setting, chosen[n.output])
Promised == Fitting(memory) /\ Fitting(file) /\ Fitting(hand)

\* What has already been put back.
PutBack ==
  /\ pc \in {"muteBack", "forgetting"} =>
       out[memory.output].vol \in chosen[memory.output].vol
  /\ pc = "forgetting" =>
       out[memory.output].mute \in chosen[memory.output].mute
  /\ pc = "postMute" => out[hand.output].vol \in chosen[hand.output].vol

\* Only the output that is owed for differs from what its owner chose.
Debt == note # "lost" =>
          \A o \in Outputs : ~Fits(out[o], chosen[o]) =>
                               Owed # None /\ Owed.output = o

\* An alarm that has had its last failure is not ringing.
StillTrying == ringing => failures < MaxFailures

IInv == /\ TypeOK /\ pulse = TRUE /\ StillTrying
        /\ Remembered /\ Promised /\ PutBack /\ Debt

LEMMA NoteType ==
  /\ \A n \in Note : n # None /\ n.output \in Outputs /\ n.setting \in Setting
  /\ \A o \in Outputs, s \in Setting : [output |-> o, setting |-> s] \in Note
  /\ None \notin Note
BY RingerAssumption DEF Note, Setting

\* What the owner chooses, added to or alone.
LEMMA Choices ==
  /\ \A s \in Setting : Only(s) \in Choice /\ Fits(s, Only(s))
  /\ \A c \in Choice, s \in Setting : Also(c, s) \in Choice /\ Fits(s, Also(c, s))
  /\ \A c, s : c.vol \subseteq Also(c, s).vol /\ c.mute \subseteq Also(c, s).mute
BY DEF Only, Also, Fits, Choice, Setting

\* Turning one knob of one output.
LEMMA TurnType ==
  ASSUME NEW f \in [Outputs -> Setting], NEW o \in Outputs,
         NEW v \in Volumes, NEW m \in BOOLEAN
  PROVE  /\ [f EXCEPT ![o].vol = v] \in [Outputs -> Setting]
         /\ [f EXCEPT ![o].mute = m] \in [Outputs -> Setting]
<1>1. [f[o] EXCEPT !.vol = v] \in Setting /\ [f[o] EXCEPT !.mute = m] \in Setting
  BY DEF Setting
<1>2. QED
  BY <1>1

LEMMA InitIInv == Init => IInv
<1> SUFFICES ASSUME Init PROVE IInv
  OBVIOUS
<1>1. ringing \in BOOLEAN /\ player \in BOOLEAN /\ pulse \in BOOLEAN
  BY DEF Init
<1>2. chosen \in [Outputs -> Choice] /\ \A o \in Outputs : Fits(out[o], chosen[o])
  BY Choices DEF Init, AsItIs
<1>3. TypeOK
  BY <1>1, <1>2, RingerAssumption DEF Init, TypeOK
<1>4. Remembered /\ StillTrying /\ Promised /\ PutBack
  BY RingerAssumption
  DEF Init, Remembered, StillTrying, Promised, Fitting, PutBack, Reading, Posting,
      WithNote
<1>5. QED
  BY <1>2, <1>3, <1>4 DEF Init, IInv, Debt

\* The parts of the state and their types.
AlarmTypes == /\ ringing \in BOOLEAN /\ player \in BOOLEAN
              /\ left \in Nat /\ failures \in 0..MaxFailures
VolumeTypes == /\ sink \in Outputs /\ read \in Volumes \cup {None}
               /\ memory \in Note \cup {None}
               /\ file \in Note \cup {None}
               /\ hand \in Note \cup {None}
               /\ out \in [Outputs -> Setting] /\ chosen \in [Outputs -> Choice]
               /\ note \in {"kept", "refused", "lost"}
WorldTypes == pulse \in BOOLEAN /\ orders \in Nat /\ deaths \in Nat
PlaceTypes == pc \in {"loop"} \cup InHandler \cup Dying

LEMMA TypesTogether == TypeOK <=> AlarmTypes /\ VolumeTypes /\ WorldTypes /\ PlaceTypes
BY DEF TypeOK, AlarmTypes, VolumeTypes, WorldTypes, PlaceTypes

LEMMA AlarmStep == ASSUME TypeOK, StillTrying, [Next]_vars
                   PROVE  AlarmTypes' /\ StillTrying'
<1>0. AlarmTypes
  BY TypesTogether
<1>1. ASSUME NEW n \in Durations, Start(n) PROVE AlarmTypes' /\ StillTrying'
  BY <1>0, <1>1, RingerAssumption DEF Start, AlarmTypes, Lasting, StillTrying
<1>2. CASE UNCHANGED alarm
  BY <1>0, <1>2 DEF alarm, AlarmTypes, StillTrying
<1>3. CASE Begin
  <2>1. player' \in BOOLEAN
    BY <1>3, RingerAssumption DEF Begin, PlayOnce
  <2>2. QED
    BY <1>0, <1>3, <2>1, RingerAssumption DEF Begin, AlarmTypes, StillTrying
<1>4. CASE StopOrdered \/ StopTimer
  <2>1. ringing' = FALSE /\ left' = 0 /\ player' = FALSE /\ failures' = failures
    BY <1>4 DEF StopOrdered, StopTimer, Stop
  <2>2. QED
    BY <1>0, <2>1 DEF AlarmTypes, StillTrying
<1>5. ASSUME NEW f \in BOOLEAN, PlayerEnds(f) PROVE AlarmTypes' /\ StillTrying'
  <2>1. failures < MaxFailures
    BY <1>5 DEF PlayerEnds, StillTrying
  <2>2. CASE f /\ failures + 1 >= MaxFailures
    <3>1. failures' \in 0..MaxFailures
      BY <1>0, <1>5, <2>1, <2>2, RingerAssumption DEF PlayerEnds, AlarmTypes
    <3>2. ringing' = FALSE /\ left' = 0 /\ player' = FALSE
      BY <1>5, <2>2 DEF PlayerEnds, Stop
    <3>3. QED
      BY <3>1, <3>2 DEF AlarmTypes, StillTrying
  <2>3. CASE ~(f /\ failures + 1 >= MaxFailures)
    <3>1. failures' = (IF f THEN failures + 1 ELSE 0) /\ PlayOnce
          /\ UNCHANGED <<ringing, left>>
      BY <1>5, <2>3 DEF PlayerEnds
    <3>2. player' \in BOOLEAN
      BY <3>1, RingerAssumption DEF PlayOnce
    <3>3. failures' \in 0..MaxFailures /\ failures' < MaxFailures
      BY <1>0, <2>1, <2>3, <3>1, RingerAssumption DEF AlarmTypes
    <3>4. QED
      BY <1>0, <3>1, <3>2, <3>3 DEF AlarmTypes, StillTrying
  <2>4. QED
    BY <2>2, <2>3
<1>6. CASE Tick
  BY <1>0, <1>6 DEF Tick, AlarmTypes, StillTrying
<1>7. CASE Die
  <2>1. ringing' = FALSE /\ left' = 0 /\ player' = FALSE /\ failures' = 0
    BY <1>7 DEF Die
  <2>2. 0 \in 0..MaxFailures
    BY RingerAssumption
  <2>3. QED
    BY <2>1, <2>2 DEF AlarmTypes, StillTrying
<1>8. QED
  BY <1>1, <1>2, <1>3, <1>4, <1>5, <1>6, <1>7
  DEF Next, Handler, Backstop, FindSpeaker, ReadVolume, ReadMute,
      NoteVolume, Unmute, Raise,
      VolumeBack, MuteBack, Forget, OwnerTurns, PulseDies, PulseReturns,
      ReadFile, PostVolume, PostMute, PostDies, Restart, vars

LEMMA PlaceStep == ASSUME TypeOK, [Next]_vars PROVE PlaceTypes'
BY DEF TypeOK, PlaceTypes, InHandler, Dying, Next, Handler, Backstop, Start,
   FindSpeaker, ReadVolume, ReadMute,
      NoteVolume, Unmute, Raise, Begin, Stop, StopOrdered, StopTimer,
   PlayerEnds, VolumeBack, MuteBack, Forget, Tick, OwnerTurns, PulseDies,
   PulseReturns, Die, ReadFile, PostVolume, PostMute, PostDies, Restart, vars

LEMMA WorldStep == ASSUME TypeOK, [Next]_vars PROVE WorldTypes'
<1>0. WorldTypes
  BY TypesTogether
<1>1. CASE UNCHANGED world
  BY <1>0, <1>1 DEF world, WorldTypes
<1>2. CASE (\E n \in Durations : Start(n)) \/ PulseDies \/ PulseReturns \/ Die
  <2>1. pulse' \in BOOLEAN
    BY <1>0, <1>2 DEF Start, PulseDies, PulseReturns, Die, WorldTypes
  <2>2. orders' \in Nat
    BY <1>0, <1>2 DEF Start, PulseDies, PulseReturns, Die, WorldTypes
  <2>3. deaths' \in Nat
    BY <1>0, <1>2 DEF Start, PulseDies, PulseReturns, Die, WorldTypes
  <2>4. QED
    BY <2>1, <2>2, <2>3 DEF WorldTypes
<1>3. QED
  BY <1>1, <1>2
  DEF Next, Handler, Backstop, FindSpeaker, ReadVolume, ReadMute,
      NoteVolume, Unmute, Raise, Begin,
      VolumeBack, MuteBack, Forget, OwnerTurns, Tick, StopOrdered, StopTimer,
      PlayerEnds, Stop, ReadFile, PostVolume, PostMute, PostDies, Restart, vars

LEMMA VolumeStep == ASSUME TypeOK, hand # None \/ pc \notin Posting,
                           memory # None \/ pc \notin {"volumeBack", "muteBack"},
                           [Next]_vars
                    PROVE  VolumeTypes'
<1> USE DEF Posting
<1>0. VolumeTypes
  BY TypesTogether
<1>1. CASE UNCHANGED volume
  BY <1>0, <1>1 DEF volume, VolumeTypes
<1>2. CASE FindSpeaker \/ ReadVolume
  <2>1. sink' \in Outputs /\ read' \in Volumes \cup {None}
    BY <1>0, <1>2, RingerAssumption DEF FindSpeaker, ReadVolume, VolumeTypes, Setting
  <2>2. QED
    BY <1>0, <1>2, <2>1 DEF FindSpeaker, ReadVolume, VolumeTypes
<1>3. CASE ReadMute
  <2>1. memory' \in Note \cup {None}
    <3>1. CASE read # None
      <4>1. [vol |-> read, mute |-> out[sink].mute] \in Setting
        BY <1>0, <3>1 DEF VolumeTypes, Setting
      <4>2. QED
        BY <1>0, <1>3, <4>1, NoteType DEF ReadMute, VolumeTypes
    <3>2. CASE read = None
      BY <1>0, <1>3, <3>2 DEF ReadMute, VolumeTypes
    <3>3. QED
      BY <3>1, <3>2
  <2>2. QED
    BY <1>0, <1>3, <2>1 DEF ReadMute, VolumeTypes
<1>4. CASE NoteVolume \/ Forget \/ ReadFile \/ Die \/ PostDies
  BY <1>0, <1>4, RingerAssumption
  DEF NoteVolume, Forget, ReadFile, Die, PostDies, VolumeTypes
<1>5. CASE Unmute \/ Raise
  <2>1. out' \in [Outputs -> Setting]
    <3>1. CASE Unmute
      BY <1>0, <3>1, TurnType, RingerAssumption DEF Unmute, SetMute, VolumeTypes
    <3>2. CASE Raise
      BY <1>0, <3>2, TurnType, RingerAssumption DEF Raise, SetVolume, VolumeTypes
    <3>3. QED
      BY <1>5, <3>1, <3>2
  <2>2. QED
    BY <1>0, <1>5, <2>1 DEF Unmute, Raise, VolumeTypes
<1>6. CASE VolumeBack \/ MuteBack
  <2>1. memory.output \in Outputs /\ memory.setting.vol \in Volumes
        /\ memory.setting.mute \in BOOLEAN
    BY <1>0, <1>6 DEF VolumeBack, MuteBack, VolumeTypes, Note, Setting
  <2>2. QED
    BY <1>0, <1>6, <2>1, TurnType
    DEF VolumeBack, MuteBack, SetMute, SetVolume, VolumeTypes
<1>7. CASE PostVolume \/ PostMute
  <2>1. hand.output \in Outputs /\ hand.setting.vol \in Volumes
        /\ hand.setting.mute \in BOOLEAN
    BY <1>0, <1>7 DEF PostVolume, PostMute, VolumeTypes, Note, Setting
  <2>2. QED
    BY <1>0, <1>7, <2>1, TurnType
    DEF PostVolume, PostMute, SetMute, SetVolume, VolumeTypes
<1>8. ASSUME NEW o \in Outputs, NEW s \in Setting, OwnerTurns(o, s)
      PROVE  VolumeTypes'
  <2>1. Only(s) \in Choice /\ Also(chosen[o], s) \in Choice
    BY <1>0, Choices DEF VolumeTypes
  <2>2. out' \in [Outputs -> Setting] /\ chosen' \in [Outputs -> Choice]
    BY <1>0, <1>8, <2>1 DEF OwnerTurns, VolumeTypes
  <2>3. QED
    BY <1>0, <1>8, <2>2 DEF OwnerTurns, VolumeTypes
<1>9. ASSUME NEW n \in Durations, Start(n) PROVE VolumeTypes'
  <2>1. AsItIs \in [Outputs -> Choice]
    BY <1>0, Choices DEF AsItIs, VolumeTypes
  <2>2. chosen' \in [Outputs -> Choice] /\ note' \in {"kept", "refused", "lost"}
    BY <1>0, <1>9, <2>1 DEF Start, VolumeTypes
  <2>3. QED
    BY <1>0, <1>9, <2>2 DEF Start, VolumeTypes
<1>10. QED
  BY <1>1, <1>2, <1>3, <1>4, <1>5, <1>6, <1>7, <1>8, <1>9
  DEF Next, Handler, Backstop, Begin, StopOrdered, StopTimer, Stop,
      PlayerEnds, Tick, PulseDies, PulseReturns, Restart, vars

LEMMA TypeStep == ASSUME IInv, [Next]_vars PROVE TypeOK' /\ StillTrying'
<1>1. hand # None \/ pc \notin Posting
  BY DEF IInv, Remembered
<1>2. memory # None \/ pc \notin {"volumeBack", "muteBack"}
  BY DEF IInv, Remembered, WithNote
<1>3. AlarmTypes' /\ StillTrying'
  BY AlarmStep DEF IInv
<1>4. VolumeTypes' /\ WorldTypes' /\ PlaceTypes'
  BY <1>1, <1>2, VolumeStep, WorldStep, PlaceStep DEF IInv
<1>5. QED
  BY <1>3, <1>4 DEF TypeOK, AlarmTypes, VolumeTypes, WorldTypes, PlaceTypes

-----------------------------------------------------------------------------
(***************************************************************************)
(* One step per action: what is remembered, what it promises, what is put  *)
(* back, what is owed.                                                     *)
(***************************************************************************)
Kept == Remembered' /\ Promised' /\ PutBack' /\ Debt'

\* Whoever turns only the output that is owed for adds no debt.
LEMMA NoNewDebt ==
  ASSUME Debt, Owed # None, Owed' = Owed, chosen' = chosen, note' = note,
         \A o \in Outputs \ {Owed.output} : out'[o] = out[o]
  PROVE  Debt'
BY DEF Debt

LEMMA SamePromises ==
  ASSUME Promised, chosen' = chosen,
         memory' \in {memory, None}, file' \in {file, memory, None},
         hand' \in {hand, file, None}
  PROVE  Promised'
BY DEF Promised, Fitting

\* From NoteVolume to Forget the memory is what is owed for.
LEMMA MemoryIsOwed ==
  ASSUME IInv, pc \in WithNote \ {"noting"}
  PROVE  Owed = memory /\ memory # None /\ hand = None /\ note # "lost"
<1>1. memory # None /\ note # "lost" /\ hand = None
  BY DEF IInv, Remembered, WithNote, Posting
<1>2. note \in {"kept", "refused"}
  BY <1>1 DEF IInv, TypeOK
<1>3. QED
  BY <1>1, <1>2 DEF IInv, Remembered, Owed

LEMMA Stops ==
  ASSUME IInv, Stop
  PROVE  Kept
<1>1. pc = "loop" /\ ringing /\ memory # None
  BY DEF Stop, IInv, Remembered
<1>2. pc' = "volumeBack" /\ ringing' = FALSE /\ UNCHANGED volume
  BY <1>1 DEF Stop
<1>3. Remembered'
  BY <1>1, <1>2 DEF IInv, Remembered, volume, Reading, Posting, WithNote
<1>4. Promised' /\ PutBack' /\ Debt'
  BY <1>1, <1>2 DEF IInv, Promised, Fitting, PutBack, Debt, Owed, volume
<1>5. QED
  BY <1>3, <1>4 DEF Kept

\* Reading: nothing is owed yet, and nothing is disturbed.
LEMMA ReadingKeeps ==
  ASSUME IInv, FindSpeaker \/ ReadVolume \/ ReadMute
  PROVE  Kept
<1> USE DEF Reading, Posting, WithNote
<1>1. /\ pc \in Reading /\ ~ringing /\ note = "kept" /\ pulse = TRUE
      /\ memory = None /\ file = None /\ hand = None
  BY DEF FindSpeaker, ReadVolume, ReadMute, IInv, Remembered
<1>2. \A o \in Outputs : Fits(out[o], chosen[o])
  BY <1>1 DEF IInv, Debt, Owed
<1>3. UNCHANGED <<ringing, file, hand, out, chosen, note>>
  BY DEF FindSpeaker, ReadVolume, ReadMute, alarm
<1>4. Debt'
  BY <1>2, <1>3 DEF Debt
<1>5. CASE FindSpeaker
  <2>1. pc' = "readingVolume" /\ memory' = memory
    BY <1>5 DEF FindSpeaker
  <2>2. QED
    BY <1>1, <1>3, <1>4, <2>1 DEF Kept, Remembered, Promised, Fitting, PutBack
<1>6. CASE ReadVolume
  <2>1. pc' = "readingMute" /\ memory' = memory /\ sink' = sink
        /\ read' = out[sink].vol
    BY <1>1, <1>6 DEF ReadVolume
  <2>2. read' \in chosen'[sink'].vol
    BY <1>2, <1>3, <2>1 DEF IInv, TypeOK, Fits
  <2>3. QED
    BY <1>1, <1>3, <1>4, <2>1, <2>2
    DEF Kept, Remembered, Promised, Fitting, PutBack
<1>7. CASE ReadMute
  <2>1. pc = "readingMute"
    BY <1>7 DEF ReadMute
  <2>2. sink \in Outputs /\ read \in chosen[sink].vol /\ read \in Volumes
    <3>1. read \in chosen[sink].vol /\ sink \in Outputs
      BY <2>1 DEF IInv, Remembered, TypeOK
    <3>2. chosen[sink].vol \subseteq Volumes
      BY <3>1 DEF IInv, TypeOK, Choice
    <3>3. QED
      BY <3>1, <3>2
  <2>3. /\ memory' = [output |-> sink,
                      setting |-> [vol |-> read, mute |-> out[sink].mute]]
        /\ pc' = "noting" /\ sink' = sink
    BY <1>1, <1>7, <2>2, RingerAssumption DEF ReadMute
  <2>4. Fits(memory'.setting, chosen[sink])
    BY <1>2, <2>2, <2>3 DEF Fits
  <2>5. memory' # None
    <3>1. [vol |-> read, mute |-> out[sink].mute] \in Setting
      BY <2>2 DEF IInv, TypeOK, Setting
    <3>2. memory' \in Note
      BY <2>2, <2>3, <3>1, NoteType
    <3>3. QED
      BY <3>2, NoteType
  <2>6. Promised'
    BY <1>1, <1>3, <2>3, <2>4 DEF Promised, Fitting
  <2>7. QED
    BY <1>1, <1>3, <1>4, <2>3, <2>5, <2>6 DEF Kept, Remembered, PutBack
<1>8. QED
  BY <1>5, <1>6, <1>7

LEMMA HandlerKeeps ==
  ASSUME IInv, Handler
  PROVE  Kept
<1> USE DEF Reading, Posting, WithNote
<1>1. CASE FindSpeaker \/ ReadVolume \/ ReadMute
  BY <1>1, ReadingKeeps
<1>2. CASE NoteVolume
  <2>1. /\ pc = "noting" /\ pc' = "unmuting" /\ note = "kept"
        /\ memory # None /\ file = None /\ hand = None
        /\ UNCHANGED <<ringing, sink, memory, hand, out, chosen>>
    BY <1>2 DEF NoteVolume, IInv, Remembered, alarm
  <2>2. \/ file' = memory /\ note' = "kept"
        \/ file' = None /\ note' = "refused"
    BY <1>2, <2>1 DEF NoteVolume
  <2>3. \A o \in Outputs : Fits(out[o], chosen[o])
    BY <2>1 DEF IInv, Debt, Owed
  <2>4. Remembered'
    BY <2>1, <2>2 DEF IInv, Remembered
  <2>5. Promised'
    BY <2>1, <2>2, SamePromises DEF IInv
  <2>6. Debt' /\ PutBack'
    BY <2>1, <2>3 DEF Debt, PutBack
  <2>7. QED
    BY <2>4, <2>5, <2>6 DEF Kept
<1>3. CASE Unmute \/ Raise
  <2>1. /\ pc \in {"unmuting", "raising"} /\ pc' \in {"raising", "playing"}
        /\ UNCHANGED <<ringing, sink, memory, file, hand, chosen, note>>
    BY <1>3 DEF Unmute, Raise, alarm
  <2>2. Owed = memory /\ Owed # None /\ Owed.output = sink /\ Owed' = Owed
    <3>1. Owed = memory /\ memory # None /\ memory.output = sink
      BY <2>1, MemoryIsOwed DEF IInv, Remembered
    <3>2. QED
      BY <2>1, <3>1 DEF Owed
  <2>3. \A o \in Outputs \ {sink} : out'[o] = out[o]
    BY <1>3 DEF Unmute, Raise, SetMute, SetVolume, IInv, TypeOK
  <2>4. Debt'
    BY <2>1, <2>2, <2>3, NoNewDebt DEF IInv
  <2>5. Remembered'
    BY <2>1 DEF IInv, Remembered
  <2>6. Promised' /\ PutBack'
    BY <2>1, SamePromises DEF IInv, PutBack
  <2>7. QED
    BY <2>4, <2>5, <2>6 DEF Kept
<1>4. CASE Begin
  <2>1. pc = "playing" /\ pc' = "loop" /\ ringing' = TRUE /\ UNCHANGED volume
    BY <1>4 DEF Begin
  <2>2. Remembered'
    BY <2>1 DEF IInv, Remembered, volume
  <2>3. Promised' /\ PutBack' /\ Debt'
    BY <2>1 DEF IInv, Promised, Fitting, PutBack, Debt, Owed, volume
  <2>4. QED
    BY <2>2, <2>3 DEF Kept
<1>5. CASE VolumeBack \/ MuteBack
  <2>1. /\ pc \in {"volumeBack", "muteBack"} /\ pc' \in {"muteBack", "forgetting"}
        /\ UNCHANGED <<ringing, sink, memory, file, hand, chosen, note>>
    BY <1>5 DEF VolumeBack, MuteBack, alarm
  <2>2. Owed = memory /\ memory # None /\ Owed' = Owed
    <3>1. Owed = memory /\ memory # None
      BY <2>1, MemoryIsOwed
    <3>2. QED
      BY <2>1, <3>1 DEF Owed
  <2>3. memory \in Note /\ memory.output \in Outputs
        /\ pulse = TRUE /\ out \in [Outputs -> Setting]
    BY <2>2, NoteType DEF IInv, TypeOK
  <2>4. \A o \in Outputs \ {memory.output} : out'[o] = out[o]
    BY <1>5, <2>3 DEF VolumeBack, MuteBack, SetMute, SetVolume
  <2>5. Debt'
    BY <2>1, <2>2, <2>4, NoNewDebt DEF IInv
  <2>6. Remembered' /\ Promised'
    BY <2>1, SamePromises DEF IInv, Remembered
  <2>7. Fits(memory.setting, chosen[memory.output])
    BY <2>2 DEF IInv, Promised, Fitting
  <2>8. CASE VolumeBack
    <3>1. out'[memory.output].vol = memory.setting.vol /\ pc' = "muteBack"
      BY <2>3, <2>8 DEF VolumeBack, SetVolume, Setting
    <3>2. PutBack'
      BY <2>1, <2>7, <3>1 DEF PutBack, Fits
    <3>3. QED
      BY <2>5, <2>6, <3>2 DEF Kept
  <2>9. CASE MuteBack
    <3>1. /\ out'[memory.output].mute = memory.setting.mute
          /\ out'[memory.output].vol = out[memory.output].vol
          /\ pc = "muteBack" /\ pc' = "forgetting"
      BY <2>3, <2>9 DEF MuteBack, SetMute, Setting
    <3>2. PutBack'
      BY <2>1, <2>7, <3>1 DEF IInv, PutBack, Fits
    <3>3. QED
      BY <2>5, <2>6, <3>2 DEF Kept
  <2>10. QED
    BY <1>5, <2>8, <2>9
<1>6. CASE Forget
  <2>1. /\ pc = "forgetting" /\ pc' = "loop" /\ file' = None /\ memory' = None
        /\ UNCHANGED <<ringing, sink, hand, out, chosen, note>>
    BY <1>6 DEF Forget, alarm
  <2>2. Owed = memory /\ memory # None /\ ~ringing /\ note # "lost" /\ hand = None
    BY <2>1, MemoryIsOwed DEF IInv, Remembered
  <2>3. Fits(out[memory.output], chosen[memory.output])
    BY <2>1 DEF IInv, PutBack, Fits
  <2>4. Debt'
    BY <2>1, <2>2, <2>3 DEF IInv, Debt
  <2>5. Remembered' /\ PutBack'
    BY <2>1, <2>2 DEF Remembered, PutBack
  <2>6. Promised'
    BY <2>1, SamePromises DEF IInv
  <2>7. QED
    BY <2>4, <2>5, <2>6 DEF Kept
<1>7. QED
  BY <1>1, <1>2, <1>3, <1>4, <1>5, <1>6 DEF Handler

LEMMA BackstopKeeps ==
  ASSUME IInv, Backstop
  PROVE  Kept
<1> USE DEF Reading, Posting, WithNote
<1>1. CASE ReadFile
  <2>1. pc = "dead" /\ hand = None /\ memory = None /\ ~ringing
        /\ (file # None => note = "kept")
    BY <1>1 DEF ReadFile, IInv, Remembered
  <2>2. hand' = file /\ file' = None
        /\ UNCHANGED <<ringing, memory, out, chosen, note>>
        /\ pc' = IF file = None THEN "down" ELSE "postVolume"
    BY <1>1 DEF ReadFile, alarm
  <2>3. Remembered' /\ PutBack'
    BY <2>1, <2>2 DEF IInv, Remembered, PutBack
  <2>4. Promised'
    BY <2>2, SamePromises DEF IInv
  <2>5. Owed' = Owed
    BY <2>1, <2>2 DEF Owed
  <2>6. Debt'
    BY <2>2, <2>5 DEF IInv, Debt
  <2>7. QED
    BY <2>3, <2>4, <2>6 DEF Kept
<1>2. CASE PostVolume
  <2>1. /\ pc = "postVolume" /\ pc' = "postMute"
        /\ UNCHANGED <<ringing, memory, file, hand, chosen, note>>
    BY <1>2 DEF PostVolume, alarm
  <2>2. Owed = hand /\ hand # None /\ Owed' = Owed
    BY <2>1 DEF IInv, Remembered, Owed
  <2>3. hand.output \in Outputs /\ pulse = TRUE /\ out \in [Outputs -> Setting]
    BY <2>2, NoteType DEF IInv, TypeOK
  <2>4. \A o \in Outputs \ {hand.output} : out'[o] = out[o]
    BY <1>2, <2>3 DEF PostVolume, SetVolume
  <2>5. Debt'
    BY <2>1, <2>2, <2>4, NoNewDebt DEF IInv
  <2>6. Remembered' /\ Promised'
    BY <2>1, SamePromises DEF IInv, Remembered
  <2>7. Fits(hand.setting, chosen[hand.output])
    BY <2>2 DEF IInv, Promised, Fitting
  <2>8. out'[hand.output].vol = hand.setting.vol
    BY <1>2, <2>3 DEF PostVolume, SetVolume, Setting
  <2>9. PutBack'
    BY <2>1, <2>7, <2>8 DEF PutBack, Fits
  <2>10. QED
    BY <2>5, <2>6, <2>9 DEF Kept
<1>3. CASE PostMute
  <2>1. /\ pc = "postMute" /\ pc' = "down" /\ hand' = None
        /\ UNCHANGED <<ringing, memory, file, chosen, note>>
    BY <1>3 DEF PostMute, alarm
  <2>2. Owed = hand /\ hand # None /\ file = None /\ note = "kept" /\ memory = None
        /\ ~ringing
    BY <2>1 DEF IInv, Remembered, Owed
  <2>3. hand.output \in Outputs /\ pulse = TRUE /\ out \in [Outputs -> Setting]
    BY <2>2, NoteType DEF IInv, TypeOK
  <2>4. \A o \in Outputs \ {hand.output} : out'[o] = out[o]
    BY <1>3, <2>3 DEF PostMute, SetMute
  <2>5. out'[hand.output].mute = hand.setting.mute
        /\ out'[hand.output].vol = out[hand.output].vol
    BY <1>3, <2>3 DEF PostMute, SetMute, Setting
  <2>6. Fits(out'[hand.output], chosen[hand.output])
    BY <2>1, <2>2, <2>5 DEF IInv, Promised, Fitting, PutBack, Fits
  <2>7. Debt'
    BY <2>1, <2>2, <2>4, <2>6 DEF IInv, Debt
  <2>8. Remembered' /\ PutBack'
    BY <2>1, <2>2 DEF Remembered, PutBack
  <2>9. Promised'
    BY <2>1, SamePromises DEF IInv
  <2>10. QED
    BY <2>7, <2>8, <2>9 DEF Kept
<1>4. CASE Restart
  <2>1. pc = "down" /\ pc' = "loop" /\ UNCHANGED <<alarm, volume>>
    BY <1>4 DEF Restart
  <2>2. Remembered'
    BY <2>1 DEF IInv, Remembered, alarm, volume
  <2>3. Promised' /\ PutBack' /\ Debt'
    BY <2>1 DEF IInv, Promised, Fitting, PutBack, Debt, Owed, volume
  <2>4. QED
    BY <2>2, <2>3 DEF Kept
<1>5. QED
  BY <1>1, <1>2, <1>3, <1>4 DEF Backstop

\* The owner chooses, and what is remembered is still the owner's choice.
LEMMA OwnerKeeps ==
  ASSUME IInv, NEW o \in Outputs, NEW s \in Setting, OwnerTurns(o, s)
  PROVE  Kept
<1>1. /\ out' = [out EXCEPT ![o] = s]
      /\ UNCHANGED <<pc, alarm, sink, read, memory, file, hand, note>>
  BY DEF OwnerTurns
<1>2. out \in [Outputs -> Setting] /\ chosen \in [Outputs -> Choice]
  BY DEF IInv, TypeOK
<1>3. \A x \in Outputs \ {o} : out'[x] = out[x] /\ chosen'[x] = chosen[x]
  BY <1>1, <1>2 DEF OwnerTurns
<1>4. Fits(out'[o], chosen'[o])
  BY <1>1, <1>2, Choices DEF OwnerTurns
<1>5. Owed' = Owed
  BY <1>1 DEF Owed
<1>6. Debt'
  BY <1>1, <1>3, <1>4, <1>5 DEF IInv, Debt
<1>7. CASE Quiet
  <2>1. memory = None /\ file = None /\ hand = None /\ pc \in {"loop", "down"}
    BY <1>7 DEF Quiet, IInv, Remembered, Reading, Posting, WithNote
  <2>2. Promised' /\ PutBack'
    BY <1>1, <2>1 DEF Promised, Fitting, PutBack
  <2>3. Remembered'
    BY <1>1, <2>1 DEF IInv, Remembered, alarm
  <2>4. QED
    BY <1>6, <2>2, <2>3 DEF Kept
<1>8. CASE ~Quiet
  <2>1. \A x \in Outputs : /\ chosen[x].vol \subseteq chosen'[x].vol
                           /\ chosen[x].mute \subseteq chosen'[x].mute
    BY <1>2, <1>8, Choices DEF OwnerTurns
  <2>2. \A n \in Note : Fits(n.setting, chosen[n.output]) =>
                          Fits(n.setting, chosen'[n.output])
    BY <2>1, NoteType DEF Fits
  <2>3. Promised'
    BY <1>1, <2>2 DEF IInv, TypeOK, Promised, Fitting
  <2>4. Remembered'
    <3>1. pc = "readingMute" => read \in chosen'[sink].vol
      BY <2>1 DEF IInv, Remembered, TypeOK
    <3>2. QED
      BY <1>1, <3>1 DEF IInv, Remembered, alarm
  <2>5. PutBack'
    <3>1. \A x \in Outputs : out[x].vol \in chosen[x].vol =>
                               out'[x].vol \in chosen'[x].vol
      BY <1>3, <1>4 DEF Fits
    <3>2. \A x \in Outputs : out[x].mute \in chosen[x].mute =>
                               out'[x].mute \in chosen'[x].mute
      BY <1>3, <1>4 DEF Fits
    <3>3. pc \in {"muteBack", "forgetting"} => memory.output \in Outputs
      BY NoteType DEF IInv, Remembered, TypeOK, WithNote
    <3>4. pc = "postMute" => hand.output \in Outputs
      BY NoteType DEF IInv, Remembered, TypeOK, Posting
    <3>5. QED
      BY <1>1, <3>1, <3>2, <3>3, <3>4 DEF IInv, PutBack
  <2>6. QED
    BY <1>6, <2>3, <2>4, <2>5 DEF Kept
<1>9. QED
  BY <1>7, <1>8

\* An alarm begins with everything as it is.
LEMMA StartKeeps ==
  ASSUME IInv, NEW n \in Durations, Start(n)
  PROVE  Kept
<1>1. pc = "loop" /\ UNCHANGED <<ringing, sink, read, memory, file, hand, out>>
  BY DEF Start
<1>2. CASE ringing
  <2>1. UNCHANGED <<pc, chosen, note>>
    BY <1>2 DEF Start
  <2>2. QED
    BY <1>1, <2>1 DEF IInv, Kept, Remembered, Promised, Fitting, PutBack, Debt, Owed
<1>3. CASE ~ringing
  <2>1. pc' = "listing" /\ chosen' = AsItIs /\ note' = "kept"
    BY <1>3 DEF Start
  <2>2. memory = None /\ file = None /\ hand = None
    BY <1>1, <1>3 DEF IInv, Remembered, Posting, WithNote
  <2>3. \A o \in Outputs : Fits(out'[o], chosen'[o])
    BY <1>1, <2>1, Choices DEF AsItIs, IInv, TypeOK
  <2>4. Debt' /\ Promised' /\ PutBack'
    BY <1>1, <2>1, <2>2, <2>3 DEF Debt, Promised, Fitting, PutBack
  <2>5. Remembered'
    BY <1>1, <1>3, <2>1, <2>2 DEF Remembered, Reading, Posting, WithNote
  <2>6. QED
    BY <2>4, <2>5 DEF Kept
<1>4. QED
  BY <1>2, <1>3

\* With the process goes what only it remembered.
LEMMA DieKeeps == ASSUME IInv, Die PROVE Kept
<1> USE DEF Reading, Posting, WithNote
<1>1. /\ pc' = "dead" /\ ringing' = FALSE /\ memory' = None
      /\ UNCHANGED <<file, hand, out, chosen>>
      /\ note' = IF note = "refused" /\ ~Restored THEN "lost" ELSE note
  BY DEF Die
<1>2. hand = None /\ pc \in {"loop"} \cup InHandler
  BY DEF Die, IInv, Remembered, InHandler
<1>3. (file # None => note = "kept") /\ (file # None => note' = "kept")
  BY <1>1 DEF IInv, Remembered
<1>4. Remembered'
  BY <1>1, <1>2, <1>3 DEF Remembered
<1>5. Promised' /\ PutBack'
  BY <1>1, SamePromises DEF IInv, PutBack
<1>6. Debt'
  <2>1. CASE note = "refused"
    BY <1>1, <2>1 DEF Debt, Restored
  <2>2. CASE note # "refused"
    <3>1. note' = note /\ Owed' = Owed
      BY <1>1, <1>2, <2>2 DEF Owed
    <3>2. QED
      BY <1>1, <3>1 DEF IInv, Debt
  <2>3. QED
    BY <2>1, <2>2
<1>7. QED
  BY <1>4, <1>5, <1>6 DEF Kept

LEMMA StepKeeps == ~MayFail /\ IInv /\ [Next]_vars => IInv'
<1> SUFFICES ASSUME ~MayFail, IInv, [Next]_vars PROVE pulse' = TRUE /\ Kept
  BY TypeStep DEF IInv, Kept
<1>0. pulse' = TRUE
  BY DEF IInv, Next, Start, Handler, Backstop, FindSpeaker, ReadVolume, ReadMute,
     NoteVolume, Unmute, Raise, Begin, StopOrdered, StopTimer, Stop, VolumeBack,
     MuteBack, Forget, PlayerEnds, Tick, OwnerTurns, PulseDies, PulseReturns, Die,
     ReadFile, PostVolume, PostMute, PostDies, Restart, world, vars
<1>1. ASSUME NEW n \in Durations, Start(n) PROVE Kept
  BY <1>1, StartKeeps
<1>2. CASE Handler
  BY <1>0, <1>2, HandlerKeeps
<1>3. CASE StopOrdered \/ StopTimer
  BY <1>0, <1>3, Stops DEF StopOrdered, StopTimer
<1>4. CASE UNCHANGED <<pc, ringing, volume>>
  <2>1. Remembered'
    BY <1>4 DEF IInv, Remembered, volume
  <2>2. Promised' /\ PutBack' /\ Debt'
    BY <1>4 DEF IInv, Promised, Fitting, PutBack, Debt, Owed, volume
  <2>3. QED
    BY <1>0, <2>1, <2>2 DEF Kept
<1>5. ASSUME NEW f \in BOOLEAN, PlayerEnds(f) PROVE Kept
  BY <1>4, <1>5, Stops DEF PlayerEnds
<1>6. ASSUME NEW o \in Outputs, NEW s \in Setting, OwnerTurns(o, s) PROVE Kept
  BY <1>6, OwnerKeeps
<1>7. CASE PulseDies \/ PostDies
  BY <1>0, <1>7 DEF PulseDies, PostDies
<1>8. CASE PulseReturns
  BY <1>8 DEF PulseReturns, IInv
<1>9. CASE Die
  BY <1>0, <1>9, DieKeeps
<1>10. CASE Backstop
  BY <1>0, <1>10, BackstopKeeps
<1>11. QED
  BY <1>0, <1>1, <1>2, <1>3, <1>4, <1>5, <1>6, <1>7, <1>8, <1>9, <1>10
  DEF Next, Tick, vars, alarm

LEMMA IInvHolds == ~MayFail => (Spec => []IInv)
<1> SUFFICES ASSUME ~MayFail PROVE Spec => []IInv
  OBVIOUS
<1>1. IInv /\ [Next]_vars => IInv'
  BY StepKeeps
<1>2. QED
  BY <1>1, InitIInv, PTL DEF Spec

\* Whatever is other than its owner chose is on disk, or in the hands of the
\* command that puts it back; and where the disk refused the note, with the
\* process that rings.
THEOREM LoanOnDisk == ~MayFail => (Spec => []LoanIsOnDisk)
<1>1. IInv => LoanIsOnDisk
  <2> SUFFICES ASSUME IInv, note # "lost", NEW o \in Outputs,
                      ~Fits(out[o], chosen[o])
               PROVE  Owed # None /\ Owed.output = o /\ Fits(Owed.setting, chosen[o])
    BY DEF LoanIsOnDisk
  <2>1. Owed # None /\ Owed.output = o
    BY DEF IInv, Debt
  <2>2. Owed \in {memory, file, hand}
    BY DEF Owed
  <2>3. QED
    BY <2>1, <2>2 DEF IInv, Promised, Fitting
<1>2. QED
  BY <1>1, IInvHolds, PTL

\* A phone that is not ringing is as its owner wants it, unless the disk had
\* refused the note and the process died with the only copy.
THEOREM QuietIsRestored == ~MayFail => (Spec => []QuietMeansRestored)
<1>1. IInv => QuietMeansRestored
  BY DEF IInv, Remembered, Debt, Owed, QuietMeansRestored, Quiet, Restored,
     Reading, Posting, WithNote
<1>2. QED
  BY <1>1, IInvHolds, PTL

-----------------------------------------------------------------------------
(***************************************************************************)
(* The alarm keeps the promise of VolumeLoan.                              *)
(***************************************************************************)
\* How a step of the alarm looks from the loan.
LoanStep == [Loan!Next]_(Loan!vars)

LEMMA SameWords ==
  /\ Loan!Setting = Setting
  /\ \A s, c : Loan!Fits(s, c) <=> Fits(s, c)
  /\ \A s : Loan!Only(s) = Only(s)
  /\ \A c, s : Loan!Also(c, s) = Also(c, s)
BY DEF Loan!Setting, Setting, Loan!Fits, Fits, Loan!Only, Only, Loan!Also, Also

LEMMA LoanUntouched ==
  ASSUME UNCHANGED <<out, chosen, note>>, Owed' = Owed PROVE LoanStep
BY DEF LoanStep, Loan!vars

LEMMA UsesTheLoan ==
  ASSUME Owed # None, Owed' = Owed, UNCHANGED <<chosen, note>>,
         Owed.output \in Outputs,
         out \in [Outputs -> Setting], out' \in [Outputs -> Setting],
         \A o \in Outputs \ {Owed.output} : out'[o] = out[o]
  PROVE  LoanStep
<1>1. out' = [out EXCEPT ![Owed.output] = out'[Owed.output]]
  OBVIOUS
<1>2. out'[Owed.output] \in Loan!Setting
  BY SameWords
<1>3. Loan!Use
  BY <1>1, <1>2 DEF Loan!Use
<1>4. QED
  BY <1>3 DEF LoanStep, Loan!Next

LEMMA SettlesTheLoan ==
  ASSUME Owed # None, Owed' = None, UNCHANGED <<chosen, note>>,
         Owed.output \in Outputs,
         out \in [Outputs -> Setting], out' \in [Outputs -> Setting],
         \A o \in Outputs \ {Owed.output} : out'[o] = out[o],
         Fits(out'[Owed.output], chosen[Owed.output])
  PROVE  LoanStep
<1>1. out' = [out EXCEPT ![Owed.output] = out'[Owed.output]]
  OBVIOUS
<1>2. out'[Owed.output] \in Loan!Setting
      /\ Loan!Fits(out'[Owed.output], chosen[Owed.output])
  BY SameWords
<1>3. Loan!Settle
  BY <1>1, <1>2 DEF Loan!Settle
<1>4. QED
  BY <1>3 DEF LoanStep, Loan!Next

LEMMA HandlerOnLoan == ASSUME IInv, IInv', Handler PROVE LoanStep
<1> USE DEF Reading, Posting, WithNote
<1>0. out \in [Outputs -> Setting] /\ out' \in [Outputs -> Setting]
  BY DEF IInv, TypeOK
<1>1. CASE FindSpeaker \/ ReadVolume \/ ReadMute
  <2>1. UNCHANGED <<file, hand, out, chosen, note>> /\ note = "kept"
    BY <1>1 DEF FindSpeaker, ReadVolume, ReadMute, IInv, Remembered
  <2>2. QED
    BY <2>1, LoanUntouched DEF Owed
<1>2. CASE NoteVolume
  <2>1. /\ note = "kept" /\ memory # None /\ file = None /\ hand = None
        /\ UNCHANGED <<memory, hand, out, chosen>>
        /\ \/ file' = memory /\ note' = "kept"
           \/ file' = None /\ note' = "refused"
    BY <1>2 DEF NoteVolume, IInv, Remembered
  <2>2. Owed = None /\ Owed' = memory
    BY <2>1 DEF Owed
  <2>3. /\ memory.output \in Outputs /\ memory.setting \in Setting
        /\ memory = [output |-> memory.output, setting |-> memory.setting]
    BY <2>1 DEF IInv, TypeOK, Note
  <2>4. Fits(memory.setting, chosen[memory.output])
    BY <2>1 DEF IInv, Promised, Fitting
  <2>5. \E o \in Outputs, s \in Loan!Setting :
          Loan!Fits(s, chosen[o]) /\ Owed' = [output |-> o, setting |-> s]
    BY <2>2, <2>3, <2>4, SameWords
  <2>6. Loan!Promise
    BY <2>1, <2>2, <2>5 DEF Loan!Promise
  <2>7. QED
    BY <2>6 DEF LoanStep, Loan!Next
<1>3. CASE Unmute \/ Raise \/ VolumeBack \/ MuteBack
  <2>1. /\ pc \in WithNote \ {"noting"}
        /\ UNCHANGED <<memory, file, hand, chosen, note>>
    BY <1>3 DEF Unmute, Raise, VolumeBack, MuteBack
  <2>2. Owed = memory /\ memory # None /\ Owed' = Owed
    <3>1. Owed = memory /\ memory # None
      BY <2>1, MemoryIsOwed
    <3>2. QED
      BY <2>1, <3>1 DEF Owed
  <2>3. memory.output \in Outputs
    BY <2>2, NoteType DEF IInv, TypeOK
  <2>4. pc \in {"unmuting", "raising"} => memory.output = sink
    BY DEF IInv, Remembered
  <2>5. \A o \in Outputs \ {memory.output} : out'[o] = out[o]
    BY <1>0, <1>3, <2>3, <2>4
    DEF Unmute, Raise, VolumeBack, MuteBack, SetMute, SetVolume
  <2>6. QED
    BY <1>0, <2>1, <2>2, <2>3, <2>5, UsesTheLoan
<1>4. CASE Begin
  BY <1>4, LoanUntouched DEF Begin, volume, Owed
<1>5. CASE Forget
  <2>1. /\ pc = "forgetting" /\ file' = None /\ memory' = None
        /\ UNCHANGED <<hand, out, chosen, note>>
    BY <1>5 DEF Forget
  <2>2. Owed = memory /\ memory # None /\ hand = None
    BY <2>1, MemoryIsOwed
  <2>3. Owed' = None /\ memory.output \in Outputs
    BY <2>1, <2>2, NoteType DEF IInv, TypeOK, Owed
  <2>4. Fits(out'[memory.output], chosen[memory.output])
    BY <2>1 DEF IInv, PutBack, Fits
  <2>5. QED
    BY <1>0, <2>1, <2>2, <2>3, <2>4, SettlesTheLoan
<1>6. QED
  BY <1>1, <1>2, <1>3, <1>4, <1>5 DEF Handler

LEMMA BackstopOnLoan == ASSUME IInv, IInv', Backstop PROVE LoanStep
<1> USE DEF Reading, Posting, WithNote
<1>0. out \in [Outputs -> Setting] /\ out' \in [Outputs -> Setting]
  BY DEF IInv, TypeOK
<1>1. CASE ReadFile
  <2>1. /\ hand = None /\ hand' = file /\ file' = None
        /\ memory = None /\ UNCHANGED <<memory, out, chosen, note>>
        /\ (file # None => note = "kept")
    BY <1>1 DEF ReadFile, IInv, Remembered
  <2>2. Owed' = Owed
    BY <2>1 DEF Owed
  <2>3. QED
    BY <2>1, <2>2, LoanUntouched
<1>2. CASE PostVolume \/ PostMute
  <2>1. /\ pc \in Posting /\ UNCHANGED <<memory, file, chosen, note>>
    BY <1>2 DEF PostVolume, PostMute
  <2>2. Owed = hand /\ hand # None /\ file = None /\ note = "kept"
    BY <2>1 DEF IInv, Remembered, Owed
  <2>3. hand.output \in Outputs
    BY <2>2, NoteType DEF IInv, TypeOK
  <2>4. \A o \in Outputs \ {hand.output} : out'[o] = out[o]
    BY <1>0, <1>2, <2>3 DEF PostVolume, PostMute, SetVolume, SetMute
  <2>5. CASE PostVolume
    <3>1. Owed' = Owed
      BY <2>1, <2>5 DEF PostVolume, Owed
    <3>2. QED
      BY <1>0, <2>1, <2>2, <2>3, <2>4, <3>1, UsesTheLoan
  <2>6. CASE PostMute
    <3>1. Owed' = None
      BY <2>1, <2>2, <2>6 DEF PostMute, Owed
    <3>2. Fits(out'[hand.output], chosen[hand.output])
      BY <2>1, <2>2, <2>3, <3>1 DEF IInv, Debt
    <3>3. QED
      BY <1>0, <2>1, <2>2, <2>3, <2>4, <3>1, <3>2, SettlesTheLoan
  <2>7. QED
    BY <1>2, <2>5, <2>6
<1>3. CASE Restart
  BY <1>3, LoanUntouched DEF Restart, volume, Owed
<1>4. QED
  BY <1>1, <1>2, <1>3 DEF Backstop

LEMMA WorldOnLoan ==
  ASSUME IInv, (\E o \in Outputs, s \in Setting : OwnerTurns(o, s)) \/ Die
  PROVE  LoanStep
<1> USE DEF Reading, Posting, WithNote
<1>1. ASSUME NEW o \in Outputs, NEW s \in Setting, OwnerTurns(o, s) PROVE LoanStep
  <2>1. /\ out' = [out EXCEPT ![o] = s]
        /\ chosen' = [chosen EXCEPT ![o] = IF Quiet THEN Only(s) ELSE Also(@, s)]
        /\ UNCHANGED <<memory, file, hand, note>>
    BY <1>1 DEF OwnerTurns
  <2>2. Owed' = Owed
    BY <2>1 DEF Owed
  <2>3. Quiet => Owed = None
    BY DEF Quiet, IInv, Remembered, Owed
  <2>4. \/ chosen' = [chosen EXCEPT ![o] = Loan!Also(@, s)]
        \/ Owed = None /\ chosen' = [chosen EXCEPT ![o] = Loan!Only(s)]
    BY <2>1, <2>3, SameWords
  <2>5. Loan!OwnerTurns
    BY <2>1, <2>2, <2>4, SameWords DEF Loan!OwnerTurns
  <2>6. QED
    BY <2>5 DEF LoanStep, Loan!Next
<1>2. CASE Die
  <2>1. /\ memory' = None /\ UNCHANGED <<file, hand, out, chosen>>
        /\ note' = IF note = "refused" /\ ~Restored THEN "lost" ELSE note
    BY <1>2 DEF Die
  <2>2. hand = None /\ (file # None => note = "kept")
    BY <1>2 DEF Die, IInv, Remembered, InHandler
  <2>3. CASE note = "refused" /\ memory # None
    <3>1. Owed # None /\ Owed' = None /\ note' \in {"refused", "lost"}
      BY <2>1, <2>2, <2>3 DEF Owed
    <3>2. Loan!Lose
      BY <2>1, <2>3, <3>1 DEF Loan!Lose
    <3>3. QED
      BY <3>2 DEF LoanStep, Loan!Next
  <2>4. CASE note = "refused" /\ memory = None
    <3>1. Owed = None /\ Owed' = None /\ note' \in {"refused", "lost"}
      BY <2>1, <2>2, <2>4 DEF Owed
    <3>2. QED
      BY <2>1, <2>4, <3>1 DEF LoanStep, Loan!vars
  <2>5. CASE note # "refused"
    <3>1. note' = note /\ Owed' = Owed
      BY <2>1, <2>2, <2>5 DEF Owed
    <3>2. QED
      BY <2>1, <3>1, LoanUntouched
  <2>6. QED
    BY <2>3, <2>4, <2>5
<1>3. QED
  BY <1>1, <1>2

LEMMA StepOnLoan == ~MayFail /\ IInv /\ IInv' /\ [Next]_vars => LoanStep
<1> SUFFICES ASSUME ~MayFail, IInv, IInv', [Next]_vars PROVE LoanStep
  OBVIOUS
<1>1. CASE Handler
  BY <1>1, HandlerOnLoan
<1>2. CASE Backstop
  BY <1>2, BackstopOnLoan
<1>3. CASE (\E o \in Outputs, s \in Setting : OwnerTurns(o, s)) \/ Die
  BY <1>3, WorldOnLoan
<1>4. ASSUME NEW n \in Durations, Start(n) PROVE LoanStep
  <2>1. pc = "loop" /\ UNCHANGED <<memory, file, hand, out>>
    BY <1>4 DEF Start
  <2>2. CASE ringing
    BY <1>4, <2>1, <2>2, LoanUntouched DEF Start, Owed
  <2>3. CASE ~ringing
    <3>1. memory = None /\ file = None /\ hand = None
      BY <2>1, <2>3 DEF IInv, Remembered, Posting, WithNote
    <3>2. chosen' = [o \in Outputs |-> Loan!Only(out[o])] /\ note' = "kept"
      BY <1>4, <2>3, SameWords DEF Start, AsItIs
    <3>3. Owed = None /\ Owed' = None
      BY <2>1, <3>1 DEF Owed
    <3>4. Loan!Begin
      BY <2>1, <3>2, <3>3 DEF Loan!Begin
    <3>5. QED
      BY <3>4 DEF LoanStep, Loan!Next
  <2>4. QED
    BY <2>2, <2>3
<1>5. CASE UNCHANGED volume
  BY <1>5, LoanUntouched DEF volume, Owed
<1>6. QED
  BY <1>1, <1>2, <1>3, <1>4, <1>5
  DEF Next, StopOrdered, StopTimer, Stop, PlayerEnds, Tick, PulseDies,
      PulseReturns, PostDies, vars

\* The alarm keeps the promise of VolumeLoan: nothing is disturbed before it
\* is promised, and a promise is given up only when it is kept or when the
\* disk refused it and the process died (ringer.cpp 138-164, 194-260).
THEOREM ImplementsTheLoan == ~MayFail => (Spec => KeepsTheLoan)
<1> SUFFICES ASSUME ~MayFail PROVE Spec => Loan!Spec
  BY DEF KeepsTheLoan
<1>1. Init => Loan!Init
  BY SameWords DEF Init, Loan!Init, AsItIs, Owed
<1>2. IInv /\ IInv' /\ [Next]_vars => [Loan!Next]_(Loan!vars)
  BY StepOnLoan DEF LoanStep
<1>3. Spec => []IInv
  BY IInvHolds
<1>4. QED
  BY <1>1, <1>2, <1>3, PTL DEF Spec, Loan!Spec

-----------------------------------------------------------------------------
(***************************************************************************)
(* The notes, whether PulseAudio answers or not.                           *)
(***************************************************************************)
\* Where a note may be.  That stop() can tell by the memory alone whether there
\* is something to forget is the third line: a file without a memory is one
\* that a death left, and the unit's last command takes that one away.
Notes ==
  /\ hand # None <=> pc \in {"postVolume", "postMute"}
  /\ memory # None => pc \in WithNote \/ (pc = "loop" /\ ringing)
  /\ file # None => memory # None \/ pc = "dead"
  /\ pc \in {"noting", "volumeBack", "muteBack"} => memory # None

NoteInv == TypeOK /\ StillTrying /\ Notes

LEMMA NotesAway ==
  ASSUME Notes, UNCHANGED <<memory, file, hand>>,
         \/ UNCHANGED <<pc, ringing>>
         \/ pc = "playing" /\ pc' = "loop" /\ ringing'
         \/ pc = "unmuting" /\ pc' = "raising"
         \/ pc = "raising" /\ pc' = "playing"
         \/ pc = "volumeBack" /\ pc' = "muteBack"
         \/ pc = "muteBack" /\ pc' = "forgetting"
         \/ pc = "postVolume" /\ pc' = "postMute"
         \/ pc = "down" /\ pc' = "loop"
         \/ pc = "loop" /\ ~ringing /\ pc' = "listing"
         \/ pc = "listing" /\ pc' = "readingVolume"
         \/ pc = "readingVolume" /\ pc' = "readingMute"
         \/ pc = "loop" /\ memory = None /\ pc' = "loop"
         \/ pc = "loop" /\ memory # None /\ pc' = "volumeBack"
  PROVE  Notes'
BY DEF Notes, WithNote

LEMMA StopNotes == Notes /\ Stop => Notes'
<1> SUFFICES ASSUME Notes, Stop PROVE Notes'
  OBVIOUS
<1>1. UNCHANGED <<memory, file, hand>>
  BY DEF Stop, volume
<1>2. QED
  BY <1>1, NotesAway DEF Stop

LEMMA NotesStep == NoteInv /\ [Next]_vars => Notes'
<1> SUFFICES ASSUME NoteInv, [Next]_vars PROVE Notes'
  OBVIOUS
<1>0. Notes
  BY DEF NoteInv
<1>1. ASSUME NEW n \in Durations, Start(n) PROVE Notes'
  <2>1. UNCHANGED <<memory, file, hand, ringing>>
    BY <1>1 DEF Start, volume
  <2>2. pc = "loop" /\ (pc' = "loop" \/ (~ringing /\ pc' = "listing"))
    BY <1>1 DEF Start
  <2>3. QED
    BY <1>0, <2>1, <2>2, NotesAway
<1>2. CASE ReadMute
  <2>1. pc = "readingMute" /\ memory = None /\ file = None /\ hand = None
    BY <1>0, <1>2 DEF ReadMute, Notes, WithNote
  <2>2. file' = None /\ hand' = None
    BY <1>2, <2>1 DEF ReadMute
  <2>3. \/ memory' # None /\ pc' = "noting"
        \/ memory' = None /\ pc' = "unmuting"
    <3>1. CASE pulse /\ read # None
      <4>1. [vol |-> read, mute |-> out[sink].mute] \in Setting /\ sink \in Outputs
        BY <3>1 DEF NoteInv, TypeOK, Setting
      <4>2. memory' \in Note /\ pc' = "noting"
        BY <1>2, <3>1, <4>1, NoteType DEF ReadMute
      <4>3. QED
        BY <4>2, NoteType
    <3>2. CASE ~(pulse /\ read # None)
      BY <1>2, <2>1, <3>2 DEF ReadMute
    <3>3. QED
      BY <3>1, <3>2
  <2>4. QED
    BY <2>2, <2>3 DEF Notes, WithNote
<1>3. CASE NoteVolume
  <2>1. pc = "noting" /\ memory # None /\ hand = None
    BY <1>0, <1>3 DEF NoteVolume, Notes
  <2>2. pc' = "unmuting" /\ memory' = memory /\ hand' = hand
    BY <1>3 DEF NoteVolume
  <2>3. QED
    BY <2>1, <2>2 DEF Notes, WithNote
<1>4. CASE \/ FindSpeaker \/ ReadVolume \/ Unmute \/ Raise \/ Begin
            \/ VolumeBack \/ MuteBack \/ PostVolume \/ Restart
  <2>1. UNCHANGED <<memory, file, hand>>
    BY <1>4 DEF FindSpeaker, ReadVolume, Unmute, Raise, Begin,
       VolumeBack, MuteBack, PostVolume, Restart, volume
  <2>2. \/ pc = "listing" /\ pc' = "readingVolume"
        \/ pc = "readingVolume" /\ pc' = "readingMute"
        \/ pc = "playing" /\ pc' = "loop" /\ ringing'
        \/ pc = "unmuting" /\ pc' = "raising"
        \/ pc = "raising" /\ pc' = "playing"
        \/ pc = "volumeBack" /\ pc' = "muteBack"
        \/ pc = "muteBack" /\ pc' = "forgetting"
        \/ pc = "postVolume" /\ pc' = "postMute"
        \/ pc = "down" /\ pc' = "loop"
    BY <1>4 DEF FindSpeaker, ReadVolume, Unmute, Raise, Begin, VolumeBack,
       MuteBack, PostVolume, Restart
  <2>3. QED
    BY <1>0, <2>1, <2>2, NotesAway
<1>5. CASE Forget
  <2>1. pc' = "loop" /\ memory' = None /\ file' = None /\ hand' = hand /\ hand = None
    BY <1>0, <1>5 DEF Forget, Notes
  <2>2. QED
    BY <2>1 DEF Notes
<1>6. CASE StopOrdered \/ StopTimer
  BY <1>0, <1>6, StopNotes DEF StopOrdered, StopTimer
<1>7. ASSUME NEW f \in BOOLEAN, PlayerEnds(f) PROVE Notes'
  <2>1. Stop \/ UNCHANGED <<pc, ringing, volume>>
    BY <1>7 DEF PlayerEnds
  <2>2. CASE Stop
    BY <1>0, <2>2, StopNotes
  <2>3. CASE UNCHANGED <<pc, ringing, volume>>
    BY <1>0, <2>3, NotesAway DEF volume
  <2>4. QED
    BY <2>1, <2>2, <2>3
<1>8. CASE Tick \/ PulseDies \/ PulseReturns \/ UNCHANGED vars
  <2>1. UNCHANGED <<pc, ringing>> /\ UNCHANGED <<memory, file, hand>>
    BY <1>8 DEF Tick, PulseDies, PulseReturns, vars, alarm, volume
  <2>2. QED
    BY <1>0, <2>1, NotesAway
<1>9. ASSUME NEW o \in Outputs, NEW s \in Setting, OwnerTurns(o, s) PROVE Notes'
  <2>1. UNCHANGED <<pc, ringing>> /\ UNCHANGED <<memory, file, hand>>
    BY <1>9 DEF OwnerTurns, alarm
  <2>2. QED
    BY <1>0, <2>1, NotesAway
<1>10. CASE Die
  <2>1. pc' = "dead" /\ memory' = None /\ hand' = hand
    BY <1>10 DEF Die
  <2>2. hand = None
    BY <1>0, <1>10 DEF Die, Notes, InHandler
  <2>3. QED
    BY <2>1, <2>2 DEF Notes
<1>11. CASE ReadFile
  <2>1. pc = "dead" /\ memory = None /\ memory' = memory
    BY <1>0, <1>11 DEF ReadFile, Notes, WithNote
  <2>2. hand' = file /\ file' = None
        /\ pc' = (IF file = None THEN "down" ELSE "postVolume")
    BY <1>11 DEF ReadFile
  <2>3. QED
    BY <2>1, <2>2 DEF Notes
<1>12. CASE PostMute \/ PostDies
  <2>1. pc \in {"postVolume", "postMute"} /\ pc' = "down" /\ hand' = None
        /\ memory' = memory /\ file' = file
    BY <1>12 DEF PostMute, PostDies
  <2>2. memory = None /\ file = None
    BY <1>0, <2>1 DEF Notes, WithNote
  <2>3. QED
    BY <2>1, <2>2 DEF Notes
<1>13. QED
  BY <1>1, <1>2, <1>3, <1>4, <1>5, <1>6, <1>7, <1>8, <1>9, <1>10, <1>11, <1>12
  DEF Next, Handler, Backstop

LEMMA NoteInvHolds == Spec => []NoteInv
<1>1. Init => NoteInv
  <2> SUFFICES ASSUME Init PROVE NoteInv
    OBVIOUS
  <2>1. TypeOK /\ StillTrying
    BY InitIInv DEF IInv
  <2>2. Notes
    BY DEF Init, Notes
  <2>3. QED
    BY <2>1, <2>2 DEF NoteInv
<1>2. NoteInv /\ [Next]_vars => NoteInv'
  <2> SUFFICES ASSUME NoteInv, [Next]_vars PROVE NoteInv'
    OBVIOUS
  <2>1. AlarmTypes' /\ StillTrying'
    BY AlarmStep DEF NoteInv
  <2>2. /\ hand # None \/ pc \notin Posting
        /\ memory # None \/ pc \notin {"volumeBack", "muteBack"}
    BY DEF NoteInv, Notes, Posting
  <2>3. VolumeTypes' /\ WorldTypes' /\ PlaceTypes'
    BY <2>2, VolumeStep, WorldStep, PlaceStep DEF NoteInv
  <2>4. TypeOK'
    BY <2>1, <2>3 DEF TypeOK, AlarmTypes, VolumeTypes, WorldTypes, PlaceTypes
  <2>5. QED
    BY <2>1, <2>4, NotesStep DEF NoteInv
<1>3. QED
  BY <1>1, <1>2, PTL DEF Spec

\* Type correctness, whatever fails.
THEOREM TypeCorrect == Spec => []TypeOK
<1>1. NoteInv => TypeOK
  BY DEF NoteInv
<1>2. QED
  BY <1>1, NoteInvHolds, PTL

\* No note outlives its alarm, also when PulseAudio is gone by the time the
\* alarm ends: stop(), forgetSavedVolume and restoreSavedVolume.
THEOREM NothingStale == Spec => []NoStaleNote
<1>1. NoteInv => NoStaleNote
  BY DEF NoteInv, Notes, WithNote, NoStaleNote, Quiet
<1>2. QED
  BY <1>1, NoteInvHolds, PTL

-----------------------------------------------------------------------------
(***************************************************************************)
(* Which outputs the alarm can disturb.                                    *)
(***************************************************************************)
Its == {Speaker, Default}

\* Every note is about one of them, since only ReadMute makes one.
About(n) == n # None => n.output \in Its

OutputInv == /\ sink \in Its
             /\ About(memory) /\ About(file) /\ About(hand)
             /\ OnlyItsOutputs

LEMMA TurnedElsewhere ==
  ASSUME NEW f \in [Outputs -> Setting], NEW x \in Its, NEW v, NEW m,
         NEW o \in Outputs \ Its
  PROVE  [f EXCEPT ![x].vol = v][o] = f[o] /\ [f EXCEPT ![x].mute = m][o] = f[o]
OBVIOUS

LEMMA TurnsOnlyIts ==
  ASSUME TypeOK, OnlyItsOutputs, chosen' = chosen, NEW x \in Its,
         \/ \E v \in Volumes : SetVolume(x, v)
         \/ \E m \in BOOLEAN : SetMute(x, m)
  PROVE  OnlyItsOutputs'
<1> SUFFICES ASSUME NEW o \in Outputs \ {Speaker, Default}
             PROVE  Fits(out'[o], chosen'[o])
  BY DEF OnlyItsOutputs
<1>1. out'[o] = out[o]
  BY TurnedElsewhere DEF SetVolume, SetMute, TypeOK, Its
<1>2. QED
  BY <1>1 DEF OnlyItsOutputs

LEMMA StepOutputInv ==
  ASSUME NoteInv, OutputInv, [Next]_vars
  PROVE  OutputInv'
<1> USE NoteType
<1>0. TypeOK /\ Notes
  BY DEF NoteInv
<1>1. CASE UNCHANGED volume
  BY <1>1 DEF volume, OutputInv, About, OnlyItsOutputs
<1>2. CASE FindSpeaker \/ ReadVolume
  <2>1. sink' \in Its
    BY <1>2 DEF FindSpeaker, ReadVolume, OutputInv, Its
  <2>2. UNCHANGED <<memory, file, hand, out, chosen>>
    BY <1>2 DEF FindSpeaker, ReadVolume
  <2>3. QED
    BY <2>1, <2>2 DEF OutputInv, About, OnlyItsOutputs
<1>3. CASE ReadMute
  <2>1. memory' = memory \/ memory'.output = sink
    BY <1>3 DEF ReadMute
  <2>2. About(memory)'
    BY <2>1 DEF About, OutputInv
  <2>3. UNCHANGED <<sink, file, hand, out, chosen>>
    BY <1>3 DEF ReadMute
  <2>4. QED
    BY <2>2, <2>3 DEF OutputInv, About, OnlyItsOutputs
<1>4. CASE NoteVolume \/ Forget \/ ReadFile \/ PostDies \/ Die
  <2>1. /\ memory' \in {memory, None} /\ file' \in {memory, file, None}
        /\ hand' \in {hand, file, None} /\ sink' \in {sink, Default}
        /\ UNCHANGED <<out, chosen>>
    BY <1>4 DEF NoteVolume, Forget, ReadFile, PostDies, Die
  <2>2. QED
    BY <2>1 DEF OutputInv, About, OnlyItsOutputs, Its
<1>5. CASE Unmute \/ Raise
  <2>1. UNCHANGED <<sink, memory, file, hand, chosen>>
    BY <1>5 DEF Unmute, Raise
  <2>2. (\E v \in Volumes : SetVolume(sink, v)) \/ (\E m \in BOOLEAN : SetMute(sink, m))
    BY <1>5, RingerAssumption DEF Unmute, Raise
  <2>3. OnlyItsOutputs'
    BY <1>0, <2>1, <2>2, TurnsOnlyIts DEF OutputInv
  <2>4. QED
    BY <2>1, <2>3 DEF OutputInv, About
<1>6. CASE VolumeBack \/ MuteBack
  <2>1. UNCHANGED <<sink, memory, file, hand, chosen>>
    BY <1>6 DEF VolumeBack, MuteBack
  <2>2. memory \in Note /\ memory.output \in Its
    BY <1>0, <1>6 DEF VolumeBack, MuteBack, Notes, TypeOK, OutputInv, About
  <2>3. memory.setting.vol \in Volumes /\ memory.setting.mute \in BOOLEAN
    BY <2>2 DEF Note, Setting
  <2>4. \/ \E v \in Volumes : SetVolume(memory.output, v)
        \/ \E m \in BOOLEAN : SetMute(memory.output, m)
    BY <1>6, <2>2, <2>3 DEF VolumeBack, MuteBack
  <2>5. OnlyItsOutputs'
    BY <1>0, <2>1, <2>2, <2>4, TurnsOnlyIts DEF OutputInv
  <2>6. QED
    BY <2>1, <2>5 DEF OutputInv, About
<1>7. CASE PostVolume \/ PostMute
  <2>1. UNCHANGED <<sink, memory, file, chosen>> /\ hand' \in {hand, None}
    BY <1>7 DEF PostVolume, PostMute
  <2>2. hand \in Note /\ hand.output \in Its
    BY <1>0, <1>7 DEF PostVolume, PostMute, Notes, TypeOK, OutputInv, About
  <2>3. hand.setting.vol \in Volumes /\ hand.setting.mute \in BOOLEAN
    BY <2>2 DEF Note, Setting
  <2>4. \/ \E v \in Volumes : SetVolume(hand.output, v)
        \/ \E m \in BOOLEAN : SetMute(hand.output, m)
    BY <1>7, <2>2, <2>3 DEF PostVolume, PostMute
  <2>5. OnlyItsOutputs'
    BY <1>0, <2>1, <2>2, <2>4, TurnsOnlyIts DEF OutputInv
  <2>6. QED
    BY <2>1, <2>5 DEF OutputInv, About
<1>8. ASSUME NEW o \in Outputs, NEW s \in Setting, OwnerTurns(o, s)
      PROVE  OutputInv'
  <2>1. /\ out' = [out EXCEPT ![o] = s]
        /\ chosen' = [chosen EXCEPT ![o] = IF Quiet THEN Only(s) ELSE Also(@, s)]
        /\ UNCHANGED <<sink, memory, file, hand>>
    BY <1>8 DEF OwnerTurns
  <2>2. out \in [Outputs -> Setting] /\ chosen \in [Outputs -> Choice]
    BY <1>0 DEF TypeOK
  <2>3. Fits(out'[o], chosen'[o])
    BY <2>1, <2>2, Choices
  <2>4. \A x \in Outputs \ {o} : out'[x] = out[x] /\ chosen'[x] = chosen[x]
    BY <2>1, <2>2
  <2>5. OnlyItsOutputs'
    BY <2>3, <2>4 DEF OutputInv, OnlyItsOutputs
  <2>6. QED
    BY <2>1, <2>5 DEF OutputInv, About
<1>9. ASSUME NEW n \in Durations, Start(n) PROVE OutputInv'
  <2>1. UNCHANGED <<sink, memory, file, hand, out>>
    BY <1>9 DEF Start
  <2>2. CASE ringing
    BY <1>9, <2>1, <2>2 DEF Start, OutputInv, About, OnlyItsOutputs
  <2>3. CASE ~ringing
    <3>1. chosen' = AsItIs
      BY <1>9, <2>3 DEF Start
    <3>2. \A o \in Outputs : Fits(out'[o], chosen'[o])
      BY <1>0, <2>1, <3>1, Choices DEF AsItIs, TypeOK
    <3>3. QED
      BY <2>1, <3>2 DEF OutputInv, About, OnlyItsOutputs
  <2>4. QED
    BY <2>2, <2>3
<1>10. QED
  BY <1>1, <1>2, <1>3, <1>4, <1>5, <1>6, <1>7, <1>8, <1>9
  DEF Next, Handler, Backstop, Begin, StopOrdered, StopTimer, Stop,
      PlayerEnds, Tick, PulseDies, PulseReturns, Restart, vars

\* However often PulseAudio, the process and the unit's last command fail, no
\* output but the speaker and the default one is ever left other than as its
\* owner set it (ringer.cpp 130-164, 194-260).
THEOREM OthersUntouched == Spec => []OnlyItsOutputs
<1>1. Init => OutputInv
  BY Choices DEF Init, AsItIs, OutputInv, About, OnlyItsOutputs, Its
<1>2. NoteInv /\ OutputInv /\ [Next]_vars => OutputInv'
  BY StepOutputInv
<1>3. OutputInv => OnlyItsOutputs
  BY DEF OutputInv
<1>4. QED
  BY <1>1, <1>2, <1>3, NoteInvHolds, PTL DEF Spec

-----------------------------------------------------------------------------
(***************************************************************************)
(* When the alarm does what its header says of it.                         *)
(***************************************************************************)
\* The time left is never more than some order asked for.
AsAsked == left = 0 \/ \E n \in Durations : left <= Lasting(n)

LEMMA LastingType == \A n \in Durations : Lasting(n) \in Nat
BY RingerAssumption DEF Lasting

LEMMA StepAsAsked ==
  ASSUME NoteInv, AsAsked, [Next]_vars
  PROVE  AsAsked'
<1>1. ASSUME NEW n \in Durations, Start(n) PROVE AsAsked'
  <2>1. left' = Lasting(n) /\ Lasting(n) <= Lasting(n)
    BY <1>1, LastingType DEF Start
  <2>2. QED
    BY <2>1 DEF AsAsked
<1>2. CASE Tick
  <2>1. left \in Nat /\ left > 0 /\ left' = left - 1
    BY <1>2 DEF Tick, NoteInv, TypeOK
  <2>2. PICK n \in Durations : left <= Lasting(n)
    BY <2>1 DEF AsAsked
  <2>3. left' <= Lasting(n)
    BY <2>1, <2>2, LastingType
  <2>4. QED
    BY <2>3 DEF AsAsked
<1>3. CASE left' = 0 \/ left' = left
  BY <1>3 DEF AsAsked
<1>4. QED
  BY <1>1, <1>2, <1>3
  DEF Next, Handler, Backstop, FindSpeaker, ReadVolume, ReadMute,
      NoteVolume, Unmute, Raise, Begin,
      VolumeBack, MuteBack, Forget, OwnerTurns, PulseDies, PulseReturns,
      StopOrdered, StopTimer, Stop, PlayerEnds, Die,
      ReadFile, PostVolume, PostMute, PostDies, Restart, vars, alarm

\* "Ringing again while already ringing just extends it" (ringer.h 43-45) holds
\* as long as everybody asks for the same time; that the settings screen and an
\* order need not is what refutes it (ringer.cpp 317-330).
THEOREM SameLengthExtends ==
  (\A m, n \in Durations : Lasting(m) = Lasting(n)) => (Spec => RingingAgainExtends)
<1> SUFFICES ASSUME \A m, n \in Durations : Lasting(m) = Lasting(n)
             PROVE  Spec => RingingAgainExtends
  OBVIOUS
<1>1. Init => AsAsked
  BY DEF Init, AsAsked
<1>2. NoteInv /\ AsAsked /\ [Next]_vars => AsAsked'
  BY StepAsAsked
<1>3. NoteInv /\ AsAsked /\ [Next]_vars => [orders' > orders => left' >= left]_vars
  <2> SUFFICES ASSUME NoteInv, AsAsked, [Next]_vars, orders' > orders
               PROVE  left' >= left
    OBVIOUS
  <2>1. orders \in Nat /\ left \in Nat
    BY DEF NoteInv, TypeOK
  <2>2. orders' # orders
    BY <2>1
  <2>3. PICK n \in Durations : Start(n)
    BY <2>2
    DEF Next, Handler, Backstop, FindSpeaker, ReadVolume, ReadMute,
      NoteVolume, Unmute, Raise, Begin,
        VolumeBack, MuteBack, Forget, OwnerTurns, PulseDies, PulseReturns,
        StopOrdered, StopTimer, Stop, PlayerEnds, Die, Tick,
        ReadFile, PostVolume, PostMute, PostDies, Restart, vars, world
  <2>4. left' = Lasting(n) /\ Lasting(n) \in Nat
    BY <2>3, LastingType DEF Start
  <2>5. QED
    BY <2>1, <2>4 DEF AsAsked
<1>4. QED
  BY <1>1, <1>2, <1>3, NoteInvHolds, PTL DEF Spec, RingingAgainExtends

Heard == ringing => player

\* An alarm that rings is being played, through every player that ends or fails
\* at once, wherever one of the players can be started at all; that none can is
\* the one case in which it rings in silence (ringer.cpp 83-137).
THEOREM PlayersMakeItHeard == ~MaySoundless => (Spec => []RingingIsPlayed)
<1> SUFFICES ASSUME ~MaySoundless PROVE Spec => []RingingIsPlayed
  OBVIOUS
<1>1. Init => Heard
  BY DEF Init, Heard
<1>2. Heard /\ [Next]_vars => Heard'
  <2> SUFFICES ASSUME Heard, [Next]_vars PROVE Heard'
    OBVIOUS
  <2>1. CASE PlayOnce
    BY <2>1, RingerAssumption DEF PlayOnce, Heard
  <2>2. CASE ringing' = FALSE
    BY <2>2 DEF Heard
  <2>3. CASE UNCHANGED <<ringing, player>>
    BY <2>3 DEF Heard
  <2>4. QED
    BY <2>1, <2>2, <2>3
    DEF Next, Handler, Backstop, FindSpeaker, ReadVolume, ReadMute,
      NoteVolume, Unmute, Raise, Begin,
        VolumeBack, MuteBack, Forget, OwnerTurns, PulseDies, PulseReturns,
        Start, StopOrdered, StopTimer, Stop, PlayerEnds, Die, Tick,
        ReadFile, PostVolume, PostMute, PostDies, Restart, vars, alarm
<1>3. Heard => RingingIsPlayed
  BY DEF Heard, RingingIsPlayed
<1>4. QED
  BY <1>1, <1>2, <1>3, PTL DEF Spec
=============================================================================
