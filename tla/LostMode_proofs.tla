-------------------------- MODULE LostMode_proofs --------------------------
(***************************************************************************)
(* Proofs about LostMode, for any messages, any inherited file, any number *)
(* of orders and deaths, and a disk that refuses whatever it likes.        *)
(***************************************************************************)
EXTENDS LostMode, FiniteSetTheorems, TLAPS

Types == /\ pc \in Places
         /\ active \in BOOLEAN /\ message \in Text
         /\ file \in Content \cup {Absent}
         /\ draft \in Content \cup {Absent}
         /\ legacy \in Content \cup {Absent}

Memory == [active |-> active, message |-> message]

\* Where memory and disk may differ, and how: between an order and the rename
\* that writes it down, and after an order the disk refused.
Apart ==
  /\ pc \in {"idle", "lock", "show", "clear", "relock"} => Memory = Load \/ refused
  /\ pc \in {"draftIn", "renameIn"} => active
  /\ pc \in {"draftOut", "renameOut"} => ~active
  /\ pc \in {"renameIn", "renameOut"} => draft = Memory

\* Who has been declared lost.
Declared ==
  /\ declared => Load.active \/ refused
  /\ pc \in {"lock", "relock", "show"} => active
  /\ pc \in {"draftOut", "renameOut", "clear"} => ~declared

IInv == Types /\ Apart /\ Declared

LEMMA LoadType == ASSUME Types PROVE Load \in Content
BY DEF Types, Load, LoadFrom, NotLost, Content, Text

LEMMA ContentFields ==
  ASSUME NEW c \in Content
  PROVE  /\ c.active \in BOOLEAN /\ c.message \in Text
         /\ c = [active |-> c.active, message |-> c.message]
BY DEF Content

LEMMA InitIInv == Init => IInv
<1> SUFFICES ASSUME Init PROVE IInv
  OBVIOUS
<1>1. Load \in Content
  BY LostModeAssumption DEF Init, Load, LoadFrom, NotLost, Content, Text
<1>2. Memory = Load
  BY <1>1, ContentFields DEF Init, Memory
<1>3. Types
  BY <1>1, ContentFields, LostModeAssumption DEF Init, Types, Places
<1>4. QED
  BY <1>2, <1>3 DEF Init, IInv, Apart, Declared

\* A step that leaves the files alone leaves what they say alone.
LEMMA LoadUnchanged == ASSUME UNCHANGED <<file, legacy>> PROVE Load' = Load
BY DEF Load, LoadFrom

LEMMA StepIInv == IInv /\ [Next]_vars => IInv'
<1> SUFFICES ASSUME IInv, [Next]_vars PROVE IInv'
  OBVIOUS
<1>0. Types /\ Load \in Content
  BY LoadType DEF IInv
<1>1. ASSUME NEW m \in Text, Report(m) PROVE IInv'
  <2>1. Load' = Load
    BY <1>1, LoadUnchanged DEF Report, disk
  <2>2. Types'
    BY <1>0, <1>1 DEF Report, Types, Places, disk
  <2>3. /\ pc = "idle" /\ pc' = "draftIn" /\ active' = TRUE
        /\ UNCHANGED <<declared, refused>>
    BY <1>1 DEF Report
  <2>4. QED
    BY <2>1, <2>2, <2>3 DEF IInv, Apart, Declared
<1>2. CASE Recover
  <2>1. Load' = Load
    BY <1>2, LoadUnchanged DEF Recover, disk
  <2>2. Types'
    BY <1>0, <1>2 DEF Recover, Types, Places, disk
  <2>3. pc' = "draftOut" /\ active' = FALSE /\ declared' = FALSE
    BY <1>2 DEF Recover
  <2>4. QED
    BY <2>1, <2>2, <2>3 DEF IInv, Apart, Declared
<1>3. CASE (Draft \/ Rename) /\ Refuse
  <2>1. Load' = Load
    BY <1>3, LoadUnchanged DEF Draft, Rename, Refuse
  <2>2. Types'
    BY <1>0, <1>3 DEF Draft, Rename, Refuse, AfterSave, Types, Places, memory
  <2>3. refused' /\ UNCHANGED <<active, declared>>
    BY <1>3 DEF Draft, Rename, Refuse, memory
  <2>4. pc \in {"draftIn", "renameIn", "draftOut", "renameOut"}
    BY <1>3 DEF Draft, Rename
  <2>5. pc' = IF pc \in {"draftIn", "renameIn"} THEN "lock" ELSE "clear"
    BY <1>3 DEF Refuse, AfterSave
  <2>6. QED
    BY <2>1, <2>2, <2>3, <2>4, <2>5 DEF IInv, Apart, Declared
<1>4. CASE Draft /\ ~Refuse
  <2>1. Load' = Load /\ refused' = refused
    BY <1>4, LoadUnchanged DEF Draft
  <2>2. draft' = Memory /\ Memory' = Memory /\ Memory \in Content
    BY <1>0, <1>4 DEF Draft, Memory, memory, Types, Content
  <2>3. Types'
    BY <1>0, <1>4, <2>2 DEF Draft, Types, Places, memory
  <2>4. Apart'
    BY <1>4, <2>1, <2>2 DEF Draft, IInv, Apart, memory
  <2>5. Declared'
    BY <1>4, <2>1 DEF Draft, IInv, Declared, memory
  <2>6. QED
    BY <2>3, <2>4, <2>5 DEF IInv
<1>9. CASE Rename /\ ~Refuse
  <2>1. draft = Memory /\ Memory' = Memory /\ Memory \in Content
    BY <1>0, <1>9 DEF Rename, IInv, Apart, Memory, memory, Types, Content
  <2>2. file' = Memory /\ draft' = Absent /\ legacy' = legacy
    BY <1>9, <2>1 DEF Rename
  <2>3. Load' = Memory
    BY <2>1, <2>2, LostModeAssumption DEF Load, LoadFrom
  <2>4. Types'
    BY <1>0, <1>9, <2>1, <2>2 DEF Rename, AfterSave, Types, Places, memory
  <2>5. Apart'
    BY <1>9, <2>1, <2>3 DEF Rename, AfterSave, Apart
  <2>6. Declared'
    BY <1>9, <2>3 DEF Rename, AfterSave, IInv, Apart, Declared, Memory, memory
  <2>7. QED
    BY <2>4, <2>5, <2>6 DEF IInv
<1>5. CASE LockScreen
  <2>1. Load' = Load /\ Memory' = Memory
    BY <1>5, LoadUnchanged DEF LockScreen, disk, memory, Memory
  <2>2. Types'
    BY <1>0, <1>5 DEF LockScreen, Types, Places, disk, memory
  <2>3. /\ active /\ (Memory = Load \/ refused) /\ pc' = "show"
        /\ UNCHANGED <<active, refused>>
    BY <1>5 DEF LockScreen, IInv, Apart, Declared, memory
  <2>4. Load.active \/ refused
    BY <2>3 DEF Memory
  <2>5. QED
    BY <2>1, <2>2, <2>3, <2>4 DEF IInv, Apart, Declared
<1>6. CASE ShowMessage \/ ClearMessage \/ Start
  <2>1. /\ Load' = Load /\ Memory' = Memory
        /\ UNCHANGED <<active, declared, refused>>
    BY <1>6, LoadUnchanged
    DEF ShowMessage, ClearMessage, Start, disk, memory, Memory
  <2>2. Types'
    BY <1>0, <1>6 DEF ShowMessage, ClearMessage, Start, Types, Places, disk, memory
  <2>3. pc \in {"idle", "show", "clear"} /\ (pc' = "idle" \/ (pc' = "relock" /\ active))
    BY <1>6 DEF ShowMessage, ClearMessage, Start
  <2>4. QED
    BY <2>1, <2>2, <2>3 DEF IInv, Apart, Declared
<1>7. CASE TypePin \/ PressPower \/ UNCHANGED vars
  <2>1. /\ Load' = Load
        /\ UNCHANGED <<pc, active, message, draft, file, legacy, declared, refused>>
    BY <1>7, LoadUnchanged DEF TypePin, PressPower, disk, memory, vars
  <2>2. QED
    BY <1>0, <2>1 DEF IInv, Types, Apart, Declared, Memory
<1>8. ASSUME NEW withPhone \in BOOLEAN, Die(withPhone) PROVE IInv'
  <2>1. Load' = Load
    BY <1>8, LoadUnchanged DEF Die
  <2>2. pc' = "idle" /\ active' = Load.active /\ message' = Load.message
        /\ draft' = Absent /\ UNCHANGED <<file, legacy, declared, refused>>
    BY <1>8 DEF Die
  <2>3. Memory' = Load
    BY <1>0, <2>2, ContentFields DEF Memory
  <2>4. Types'
    BY <1>0, <2>2, ContentFields DEF Types, Places
  <2>5. QED
    BY <2>1, <2>2, <2>3, <2>4 DEF IInv, Apart, Declared
<1>10. QED
  BY <1>1, <1>2, <1>3, <1>4, <1>5, <1>6, <1>7, <1>8, <1>9 DEF Next

LEMMA IInvHolds == Spec => []IInv
BY InitIInv, StepIInv, PTL DEF Spec

\* A screen locked because the phone is lost comes back locked, wherever it dies,
\* unless the disk refused the order.
THEOREM WrittenFirst == Spec => []WrittenBeforeLocking
<1>1. IInv => WrittenBeforeLocking
  BY DEF IInv, Declared, WrittenBeforeLocking
<1>2. QED
  BY <1>1, IInvHolds, PTL

\* Between two handlers nothing would be lost with the process but an order the
\* disk refused.
THEOREM NothingInMemoryOnly == Spec => []MemoryMatchesDisk
<1>1. IInv => MemoryMatchesDisk
  BY DEF IInv, Apart, Memory, MemoryMatchesDisk
<1>2. QED
  BY <1>1, IInvHolds, PTL

\* The order of enterLostMode is enough while the disk takes what it is given:
\* then a screen that was locked because the phone is lost always comes back so
\* (main.cpp 958-961).
THEOREM WrittenIsEnough ==
  ASSUME ~DiskMayFail
  PROVE  Spec => []ComesBackLocked
<1>1. Init => ~refused
  BY DEF Init
<1>2. ~refused /\ [Next]_vars => ~refused'
  BY DEF Next, Report, Recover, Draft, Rename, Refuse, LockScreen, ShowMessage,
         ClearMessage, Start, TypePin, PressPower, Die, vars
<1>3. ~refused /\ WrittenBeforeLocking => ComesBackLocked
  BY DEF WrittenBeforeLocking, ComesBackLocked
<1>4. QED
  BY <1>1, <1>2, <1>3, WrittenFirst, PTL DEF Spec

\* What the phone reads back of itself is what it was, or the last order whole.
LEMMA StepOnPhone == IInv /\ [Next]_vars => [Phone!Next]_(Phone!vars)
<1> SUFFICES ASSUME IInv, [Next]_vars PROVE [Phone!Next]_(Phone!vars)
  OBVIOUS
<1>0. Types /\ Load \in Content
  BY LoadType DEF IInv
<1>1. ASSUME NEW m \in Text, Report(m) PROVE Phone!Next
  <2>1. Load' = Load
    BY <1>1, LoadUnchanged DEF Report, disk
  <2>2. Phone!Report
    BY <1>1, <2>1 DEF Report, Phone!Report, Text
  <2>3. QED
    BY <2>2 DEF Phone!Next
<1>2. CASE Recover
  <2>1. Load' = Load
    BY <1>2, LoadUnchanged DEF Recover, disk
  <2>2. active' = FALSE /\ message' = message
    BY <1>2 DEF Recover
  <2>3. Phone!Recover
    BY <2>1, <2>2 DEF Phone!Recover
  <2>4. QED
    BY <2>3 DEF Phone!Next
<1>3. CASE Rename /\ ~Refuse
  <2>1. draft = Memory /\ Memory \in Content
    BY <1>3 DEF Rename, IInv, Apart, Memory, Types, Content
  <2>2. Load' = Memory
    BY <1>3, <2>1, LostModeAssumption DEF Rename, Load, LoadFrom
  <2>3. Phone!TakeIn
    BY <1>3, <2>2 DEF Rename, memory, Memory, Phone!TakeIn
  <2>4. QED
    BY <2>3 DEF Phone!Next
<1>4. ASSUME NEW withPhone \in BOOLEAN, Die(withPhone) PROVE Phone!Next
  <2>1. Load' = Load
    BY <1>4, LoadUnchanged DEF Die
  <2>2. Phone!Die
    BY <1>0, <1>4, <2>1, ContentFields DEF Die, Phone!Die
  <2>3. QED
    BY <2>2 DEF Phone!Next
<1>5. CASE UNCHANGED <<file, legacy, active, message>>
  BY <1>5, LoadUnchanged DEF Phone!vars
<1>6. Draft \/ (Rename /\ Refuse) => UNCHANGED <<file, legacy, active, message>>
  BY DEF Draft, Rename, Refuse, memory
<1>7. LockScreen \/ ShowMessage \/ ClearMessage
        => UNCHANGED <<file, legacy, active, message>>
  BY DEF LockScreen, ShowMessage, ClearMessage, memory, disk
<1>8. Start \/ TypePin \/ PressPower \/ UNCHANGED vars
        => UNCHANGED <<file, legacy, active, message>>
  BY DEF Start, TypePin, PressPower, vars, memory, disk
<1>9. QED
  BY <1>1, <1>2, <1>3, <1>4, <1>5, <1>6, <1>7, <1>8 DEF Next

\* Lost mode is a state of the phone: no death of the process or of the phone,
\* at any command of any handler, and no refusal of the disk enters it, leaves it
\* or changes its message; only the last order does, and whole.
THEOREM LostIsAStateOfThePhone == Spec => StateOfThePhone
<1>1. Init => Phone!Init
  <2> SUFFICES ASSUME Init PROVE Phone!Init
    OBVIOUS
  <2>1. Load \in Content
    BY InitIInv, LoadType DEF IInv
  <2>2. Load = [active |-> active, message |-> message]
    BY <2>1, ContentFields DEF Init
  <2>3. QED
    BY <2>1, <2>2 DEF Phone!Init, Content, Text
<1>2. QED
  BY <1>1, IInvHolds, StepOnPhone, PTL DEF Spec, StateOfThePhone, Phone!Spec

-----------------------------------------------------------------------------
(***************************************************************************)
(* What a stranger reads.                                                  *)
(***************************************************************************)
\* A recovery takes the message down when nobody is lost any more; that is the
\* only place where an idle phone may be left without it.
Readable == MessageIsShown /\ (pc = "clear" => ~active)

LEMMA ReadableStep == IInv /\ Readable /\ [Next]_vars => Readable'
<1> SUFFICES ASSUME IInv, Readable, [Next]_vars PROVE Readable'
  OBVIOUS
<1>1. ASSUME NEW m \in Text, Report(m) PROVE Readable'
  BY <1>1 DEF Report, Readable, MessageIsShown
<1>2. CASE Recover \/ LockScreen
  BY <1>2 DEF Recover, LockScreen, Readable, MessageIsShown
<1>3. CASE Draft \/ Rename
  <2>1. /\ pc' \in {"renameIn", "renameOut", "lock", "clear"}
        /\ pc' = "clear" => pc \in {"draftOut", "renameOut"}
    BY <1>3 DEF Draft, Rename, Refuse, AfterSave
  <2>2. pc \in {"draftOut", "renameOut"} => ~active
    BY DEF IInv, Apart
  <2>3. active' = active
    BY <1>3 DEF Draft, Rename, memory
  <2>4. QED
    BY <2>1, <2>2, <2>3 DEF Readable, MessageIsShown
<1>4. CASE ShowMessage
  <2>1. pc' = "idle" /\ message' = message
    BY <1>4 DEF ShowMessage, memory
  <2>2. message # Empty => <<id', message>> \in shown'
    BY <1>4 DEF ShowMessage, PutUp
  <2>3. QED
    BY <2>1, <2>2 DEF Readable, MessageIsShown
<1>5. CASE ClearMessage
  <2>1. pc' = "idle" /\ ~active' /\ pc = "clear"
    BY <1>5 DEF ClearMessage, memory, Readable
  <2>2. QED
    BY <2>1 DEF Readable, MessageIsShown
<1>6. CASE Start
  <2>1. active' = active /\ (pc' = "idle" => ~active) /\ pc' \in {"idle", "relock"}
    BY <1>6 DEF Start, memory
  <2>2. QED
    BY <2>1 DEF Readable, MessageIsShown
<1>7. CASE TypePin \/ PressPower \/ UNCHANGED vars
  BY <1>7 DEF TypePin, PressPower, vars, memory, notice, Readable, MessageIsShown
<1>8. ASSUME NEW withPhone \in BOOLEAN, Die(withPhone) PROVE Readable'
  BY <1>8 DEF Die, Readable, MessageIsShown
<1>9. QED
  BY <1>1, <1>2, <1>3, <1>4, <1>5, <1>6, <1>7, <1>8 DEF Next

\* Between two handlers of a started daemon, the message of a lost phone is on
\* its screen: Locker::showMessage and clearMessage.
THEOREM LostSaysSo == Spec => []MessageIsShown
<1>1. Init => Readable
  BY DEF Init, Readable, MessageIsShown
<1>2. Readable => MessageIsShown
  BY DEF Readable
<1>3. QED
  BY <1>1, <1>2, IInvHolds, ReadableStep, PTL DEF Spec

-----------------------------------------------------------------------------
(***************************************************************************)
(* Types.                                                                  *)
(***************************************************************************)
FlagTypes == /\ started \in BOOLEAN /\ locked \in BOOLEAN /\ pin \in BOOLEAN
             /\ declared \in BOOLEAN /\ refused \in BOOLEAN

NoticeTypes == id \in Nat /\ nextId \in Nat /\ shown \in SUBSET (Nat \X Messages)

CountTypes == orders \in Nat /\ deaths \in Nat

LEMMA TypesTogether == TypeOK <=> Types /\ FlagTypes /\ NoticeTypes /\ CountTypes
BY DEF TypeOK, Types, FlagTypes, NoticeTypes, CountTypes

LEMMA FlagStep ==
  ASSUME FlagTypes, [Next]_vars
  PROVE  FlagTypes'
<1>1. ASSUME NEW m \in Text, Report(m) PROVE FlagTypes'
  BY <1>1 DEF Report, screen, FlagTypes
<1>2. CASE Recover
  BY <1>2 DEF Recover, screen, FlagTypes
<1>3. CASE Draft \/ Rename \/ ShowMessage \/ ClearMessage
  BY <1>3 DEF Draft, Rename, Refuse, ShowMessage, ClearMessage, screen, FlagTypes
<1>4. CASE LockScreen \/ TypePin \/ PressPower
  BY <1>4 DEF LockScreen, TypePin, PressPower, FlagTypes
<1>5. CASE Start \/ UNCHANGED vars
  BY <1>5 DEF Start, vars, screen, FlagTypes
<1>6. ASSUME NEW withPhone \in BOOLEAN, Die(withPhone) PROVE FlagTypes'
  BY <1>6 DEF Die, screen, FlagTypes
<1>7. QED
  BY <1>1, <1>2, <1>3, <1>4, <1>5, <1>6 DEF Next

LEMMA CountStep ==
  ASSUME CountTypes, [Next]_vars
  PROVE  CountTypes'
<1>1. ASSUME NEW m \in Text, Report(m) PROVE CountTypes'
  BY <1>1 DEF Report, CountTypes
<1>2. CASE Recover
  BY <1>2 DEF Recover, CountTypes
<1>3. CASE UNCHANGED count
  BY <1>3 DEF count, CountTypes
<1>4. ASSUME NEW withPhone \in BOOLEAN, Die(withPhone) PROVE CountTypes'
  BY <1>4 DEF Die, CountTypes
<1>5. Draft \/ Rename \/ LockScreen \/ ShowMessage \/ ClearMessage => UNCHANGED count
  BY DEF Draft, Rename, LockScreen, ShowMessage, ClearMessage
<1>6. Start \/ TypePin \/ PressPower \/ UNCHANGED vars => UNCHANGED count
  BY DEF Start, TypePin, PressPower, vars
<1>7. QED
  BY <1>1, <1>2, <1>3, <1>4, <1>5, <1>6 DEF Next

LEMMA NoticeStep ==
  ASSUME Types, NoticeTypes, [Next]_vars
  PROVE  NoticeTypes'
<1>1. CASE UNCHANGED notice
  BY <1>1 DEF NoticeTypes, notice
<1>2. CASE TakeDown
  BY <1>2 DEF TakeDown, NoticeTypes
<1>3. CASE ShowMessage /\ message # Empty
  <2>1. PutUp /\ message \in Messages
    BY <1>3 DEF ShowMessage, Types, Text
  <2>2. id' \in Nat /\ nextId' \in Nat
    BY <2>1 DEF PutUp, NoticeTypes
  <2>3. QED
    BY <2>1, <2>2 DEF PutUp, NoticeTypes
<1>4. ASSUME NEW withPhone \in BOOLEAN, Die(withPhone) PROVE NoticeTypes'
  BY <1>4 DEF Die, NoticeTypes
<1>5. (\E m \in Text : Report(m)) => UNCHANGED notice
  BY DEF Report
<1>6. Recover \/ Draft \/ Rename \/ LockScreen => UNCHANGED notice
  BY DEF Recover, Draft, Rename, LockScreen
<1>7. Start \/ TypePin \/ PressPower \/ UNCHANGED vars => UNCHANGED notice
  BY DEF Start, TypePin, PressPower, vars
<1>8. (ShowMessage /\ message = Empty) \/ ClearMessage => TakeDown
  BY DEF ShowMessage, ClearMessage
<1>9. QED
  BY <1>1, <1>2, <1>3, <1>4, <1>5, <1>6, <1>7, <1>8 DEF Next

\* Type correctness.
THEOREM TypeCorrect == Spec => []TypeOK
<1> DEFINE Others == FlagTypes /\ NoticeTypes /\ CountTypes
<1>1. Init => Others
  <2>1. Init => FlagTypes
    BY DEF Init, FlagTypes
  <2>2. Init => NoticeTypes /\ CountTypes
    BY DEF Init, NoticeTypes, CountTypes
  <2>3. QED
    BY <2>1, <2>2
<1>2. IInv /\ Others /\ [Next]_vars => Others'
  BY FlagStep, CountStep, NoticeStep DEF IInv
<1>3. IInv /\ Others => TypeOK
  BY TypesTogether DEF IInv
<1>4. QED
  BY <1>1, <1>2, <1>3, IInvHolds, PTL DEF Spec

-----------------------------------------------------------------------------
(***************************************************************************)
(* The lock.                                                               *)
(***************************************************************************)
\* The only places where a lost phone may still be open come before a lock.
Shut == active /\ started /\ pc \notin {"draftIn", "renameIn", "lock", "relock"} =>
          locked \/ pin

LEMMA ShutStep == IInv /\ Shut /\ [Next]_vars => Shut'
<1> SUFFICES ASSUME IInv, Shut, [Next]_vars PROVE Shut'
  OBVIOUS
<1>1. ASSUME NEW m \in Text, Report(m) PROVE Shut'
  BY <1>1 DEF Report, Shut
<1>2. CASE Recover
  BY <1>2 DEF Recover, Shut
<1>3. CASE Draft \/ Rename
  <2>1. active' = active /\ (pc \in {"draftOut", "renameOut"} => ~active)
    BY <1>3 DEF Draft, Rename, memory, IInv, Apart
  <2>2. pc \in {"draftIn", "renameIn"} => pc' \in {"renameIn", "lock"}
    BY <1>3 DEF Draft, Rename, Refuse, AfterSave
  <2>3. pc \in {"draftIn", "renameIn", "draftOut", "renameOut"}
    BY <1>3 DEF Draft, Rename
  <2>4. QED
    BY <2>1, <2>2, <2>3 DEF Shut
<1>4. CASE LockScreen \/ PressPower \/ TypePin
  BY <1>4 DEF LockScreen, PressPower, TypePin, Shut
<1>5. CASE ShowMessage \/ ClearMessage
  <2>1. pc \in {"show", "clear"}
    BY <1>5 DEF ShowMessage, ClearMessage
  <2>2. UNCHANGED <<active, started, locked, pin>>
    BY <1>5 DEF ShowMessage, ClearMessage, memory, screen
  <2>3. QED
    BY <2>1, <2>2 DEF Shut
<1>6. CASE Start
  BY <1>6 DEF Start, memory, Shut
<1>7. ASSUME NEW withPhone \in BOOLEAN, Die(withPhone) PROVE Shut'
  BY <1>7 DEF Die, Shut
<1>8. CASE UNCHANGED vars
  BY <1>8 DEF vars, memory, screen, Shut
<1>9. QED
  BY <1>1, <1>2, <1>3, <1>4, <1>5, <1>6, <1>7, <1>8 DEF Next

\* A lost phone whose daemon has started is locked, or its PIN was typed since:
\* enterLostMode locks last but for the message, and start() locks again what
\* load() found lost (main.cpp 407-416, 950-965).
THEOREM LockedOnceStarted == Spec => []LostIsLockedAgain
<1>1. Init => Shut
  BY DEF Init, Shut
<1>2. Shut => LostIsLockedAgain
  BY DEF Shut, LostIsLockedAgain
<1>3. QED
  BY <1>1, <1>2, IInvHolds, ShutStep, PTL DEF Spec

-----------------------------------------------------------------------------
(***************************************************************************)
(* What piles up on the screen.                                            *)
(***************************************************************************)
Own == {n \in shown : n[1] = id}

\* The message whose id the daemon knows is on the screen; all others are of
\* lives that ended, and these are no more than the deaths.
Piled == /\ IsFiniteSet(shown)
         /\ id # 0 => Own # {}
         /\ Cardinality(shown) <= deaths + (IF id = 0 THEN 0 ELSE 1)

\* Where the daemon may know of a message although nobody is lost: on its way to
\* taking it down.
Knows == /\ ~active => id = 0 \/ pc \in {"draftOut", "renameOut", "clear"}

LEMMA WithoutOwn ==
  ASSUME Piled, deaths \in Nat
  PROVE  /\ IsFiniteSet({n \in shown : n[1] # id \/ id = 0})
         /\ Cardinality({n \in shown : n[1] # id \/ id = 0}) <= deaths
<1> DEFINE Rest == {n \in shown : n[1] # id \/ id = 0}
<1>0. IsFiniteSet(shown) /\ Cardinality(shown) \in Nat
  BY FS_CardinalityType DEF Piled
<1>1. CASE id = 0
  <2>1. Rest = shown
    BY <1>1
  <2>2. QED
    BY <1>0, <1>1, <2>1 DEF Piled
<1>2. CASE id # 0
  <2>1. PICK n \in shown : n[1] = id
    BY <1>2 DEF Piled, Own
  <2>2. Rest \subseteq shown \ {n}
    BY <1>2, <2>1
  <2>3. /\ IsFiniteSet(shown \ {n})
        /\ Cardinality(shown \ {n}) = Cardinality(shown) - 1
    BY <1>0, <2>1, FS_RemoveElement
  <2>4. /\ IsFiniteSet(Rest) /\ Cardinality(Rest) \in Nat
        /\ Cardinality(Rest) <= Cardinality(shown \ {n})
    BY <2>2, <2>3, FS_Subset, FS_CardinalityType
  <2>5. QED
    BY <1>0, <1>2, <2>3, <2>4 DEF Piled
<1>3. QED
  BY <1>1, <1>2

LEMMA PutUpPiles ==
  ASSUME Piled, NoticeTypes, CountTypes, PutUp, deaths' = deaths, nextId # 0
  PROVE  Piled'
<1> DEFINE Rest == {n \in shown : n[1] # id'}
           New == <<id', message>>
<1>1. deaths \in Nat /\ id' # 0 /\ shown' = Rest \cup {New}
  BY DEF PutUp, CountTypes
<1>2. IsFiniteSet(Rest) /\ Cardinality(Rest) <= deaths /\ Cardinality(Rest) \in Nat
  <2>1. Rest \subseteq {n \in shown : n[1] # id \/ id = 0}
    BY DEF PutUp
  <2>2. /\ IsFiniteSet({n \in shown : n[1] # id \/ id = 0})
        /\ Cardinality({n \in shown : n[1] # id \/ id = 0}) <= deaths
    BY <1>1, WithoutOwn
  <2>3. /\ IsFiniteSet(Rest)
        /\ Cardinality(Rest) <= Cardinality({n \in shown : n[1] # id \/ id = 0})
    BY <2>1, <2>2, FS_Subset
  <2>4. /\ Cardinality(Rest) \in Nat
        /\ Cardinality({n \in shown : n[1] # id \/ id = 0}) \in Nat
    BY <2>2, <2>3, FS_CardinalityType
  <2>5. QED
    BY <1>1, <2>2, <2>3, <2>4
<1>3. /\ IsFiniteSet(shown')
      /\ Cardinality(shown') \in {Cardinality(Rest), Cardinality(Rest) + 1}
  BY <1>1, <1>2, FS_AddElement
<1>4. New \in Own'
  BY <1>1 DEF Own
<1>5. Cardinality(shown') <= deaths' + 1
  BY <1>1, <1>2, <1>3
<1>6. QED
  BY <1>1, <1>3, <1>4, <1>5 DEF Piled

LEMMA TakeDownPiles ==
  ASSUME Piled, CountTypes, TakeDown, deaths' = deaths
  PROVE  Piled'
<1>1. id' = 0 /\ shown' = {n \in shown : n[1] # id \/ id = 0} /\ deaths \in Nat
  BY DEF TakeDown, CountTypes
<1>2. QED
  BY <1>1, WithoutOwn DEF Piled

PileInv == NoticeTypes /\ CountTypes /\ nextId # 0 /\ Piled /\ Knows

LEMMA PiledStep ==
  ASSUME IInv, PileInv, [Next]_vars
  PROVE  nextId' # 0 /\ Piled'
<1>0. Piled /\ NoticeTypes /\ CountTypes /\ nextId # 0
  BY DEF PileInv
<1>1. CASE UNCHANGED <<id, shown, nextId, deaths>>
  BY <1>0, <1>1 DEF Piled, Own
<1>2. CASE ShowMessage /\ message # Empty
  <2>1. PutUp /\ deaths' = deaths
    BY <1>2 DEF ShowMessage, count
  <2>2. nextId' # 0
    BY <1>0, <2>1 DEF PutUp, NoticeTypes
  <2>3. QED
    BY <1>0, <2>1, <2>2, PutUpPiles
<1>3. CASE (ShowMessage /\ message = Empty) \/ ClearMessage
  <2>1. TakeDown /\ deaths' = deaths
    BY <1>3 DEF ShowMessage, ClearMessage, count
  <2>2. nextId' # 0
    BY <1>0, <2>1 DEF TakeDown
  <2>3. QED
    BY <1>0, <2>1, <2>2, TakeDownPiles
<1>4. ASSUME NEW withPhone \in BOOLEAN, Die(withPhone)
      PROVE  nextId' # 0 /\ Piled'
  <2>1. deaths' = deaths + 1 /\ id' = 0 /\ deaths \in Nat
    BY <1>0, <1>4 DEF Die, CountTypes
  <2>2. CASE withPhone
    <3>1. shown' = {} /\ nextId' = 1
      BY <1>4, <2>2 DEF Die
    <3>2. IsFiniteSet({}) /\ Cardinality({}) = 0
      BY FS_EmptySet
    <3>3. QED
      BY <2>1, <3>1, <3>2 DEF Piled
  <2>3. CASE ~withPhone
    <3>1. UNCHANGED <<shown, nextId>>
      BY <1>4, <2>3 DEF Die
    <3>2. Cardinality(shown) \in Nat
      BY <1>0, FS_CardinalityType DEF Piled
    <3>3. QED
      BY <1>0, <2>1, <3>1, <3>2 DEF Piled
  <2>4. QED
    BY <2>2, <2>3
<1>5. (\E m \in Text : Report(m)) => UNCHANGED <<id, shown, nextId, deaths>>
  BY DEF Report, notice
<1>6. Recover \/ Draft \/ Rename \/ LockScreen => UNCHANGED <<id, shown, nextId, deaths>>
  BY DEF Recover, Draft, Rename, LockScreen, notice, count
<1>7. Start \/ TypePin \/ PressPower \/ UNCHANGED vars
        => UNCHANGED <<id, shown, nextId, deaths>>
  BY DEF Start, TypePin, PressPower, vars, notice, count
<1>8. QED
  BY <1>1, <1>2, <1>3, <1>4, <1>5, <1>6, <1>7 DEF Next

LEMMA KnowsStep ==
  ASSUME IInv, Knows, [Next]_vars
  PROVE  Knows'
<1>1. ASSUME NEW m \in Text, Report(m) PROVE Knows'
  BY <1>1 DEF Report, Knows
<1>2. CASE Recover
  BY <1>2 DEF Recover, Knows
<1>3. CASE Draft \/ Rename
  <2>1. UNCHANGED <<active, id>> /\ (pc \in {"draftIn", "renameIn"} => active)
    BY <1>3 DEF Draft, Rename, memory, notice, IInv, Apart
  <2>2. pc \in {"draftOut", "renameOut"} => pc' \in {"renameOut", "clear"}
    BY <1>3 DEF Draft, Rename, Refuse, AfterSave
  <2>3. pc \in {"draftIn", "renameIn", "draftOut", "renameOut"}
    BY <1>3 DEF Draft, Rename
  <2>4. QED
    BY <2>1, <2>2, <2>3 DEF Knows
<1>4. CASE LockScreen \/ ShowMessage
  <2>1. active /\ active' = active
    BY <1>4 DEF LockScreen, ShowMessage, memory, IInv, Declared
  <2>2. QED
    BY <2>1 DEF Knows
<1>5. CASE ClearMessage
  BY <1>5 DEF ClearMessage, TakeDown, Knows
<1>6. CASE Start
  BY <1>6 DEF Start, memory, notice, Knows
<1>7. ASSUME NEW withPhone \in BOOLEAN, Die(withPhone) PROVE Knows'
  BY <1>7 DEF Die, Knows
<1>8. CASE TypePin \/ PressPower \/ UNCHANGED vars
  BY <1>8 DEF TypePin, PressPower, vars, memory, notice, Knows
<1>9. QED
  BY <1>1, <1>2, <1>3, <1>4, <1>5, <1>6, <1>7, <1>8 DEF Next

\* That a restarted daemon adds a message, and cannot take down the one of its
\* former life, is bounded: one for every life that ended, and none of its own
\* (locker.cpp 66-105).
THEOREM MessagesAreOfEarlierLives == Spec => []OneMessageALife
<1>1. Init => PileInv
  <2> SUFFICES ASSUME Init PROVE PileInv
    OBVIOUS
  <2>1. IsFiniteSet(shown) /\ Cardinality(shown) = 0
    BY FS_EmptySet DEF Init
  <2>2. QED
    BY <2>1 DEF Init, PileInv, NoticeTypes, CountTypes, Piled, Knows
<1>2. IInv /\ PileInv /\ [Next]_vars => PileInv'
  BY CountStep, NoticeStep, PiledStep, KnowsStep DEF PileInv, IInv
<1>3. PileInv => OneMessageALife
  BY DEF PileInv, Piled, Knows, OneMessageALife
<1>4. QED
  BY <1>1, <1>2, <1>3, IInvHolds, PTL DEF Spec

\* So a daemon that never died shows one message at most, and none after a
\* recovery ("OneMessageOnly", "RecoveredSaysNothing").
THEOREM OneLifeOneMessage ==
  MaxDeaths = 0 => (Spec => [](OneMessageOnly /\ RecoveredSaysNothing))
<1> SUFFICES ASSUME MaxDeaths = 0 PROVE Spec => [](OneMessageOnly /\ RecoveredSaysNothing)
  OBVIOUS
<1> DEFINE Alive == deaths = 0
<1>1. Init => Alive /\ PileInv
  <2> SUFFICES ASSUME Init PROVE Alive /\ PileInv
    OBVIOUS
  <2>1. IsFiniteSet(shown) /\ Cardinality(shown) = 0
    BY FS_EmptySet DEF Init
  <2>2. QED
    BY <2>1 DEF Init, PileInv, NoticeTypes, CountTypes, Piled, Knows
<1>2. Alive /\ [Next]_vars => Alive'
  BY DEF Next, Report, Recover, Draft, Rename, LockScreen, ShowMessage,
         ClearMessage, Start, TypePin, PressPower, Die, count, vars
<1>3. IInv /\ PileInv /\ [Next]_vars => PileInv'
  BY CountStep, NoticeStep, PiledStep, KnowsStep DEF PileInv, IInv
<1>4. Alive /\ PileInv => OneMessageOnly /\ RecoveredSaysNothing
  <2> SUFFICES ASSUME Alive, PileInv PROVE OneMessageOnly /\ RecoveredSaysNothing
    OBVIOUS
  <2>1. /\ IsFiniteSet(shown) /\ Cardinality(shown) \in Nat
        /\ Cardinality(shown) <= (IF id = 0 THEN 0 ELSE 1)
    BY FS_CardinalityType DEF PileInv, Piled
  <2>2. id = 0 => shown = {}
    BY <2>1, FS_EmptySet
  <2>3. pc = "idle" /\ ~active => id = 0
    BY DEF PileInv, Knows
  <2>4. QED
    BY <2>1, <2>2, <2>3 DEF OneMessageOnly, RecoveredSaysNothing
<1>5. QED
  BY <1>1, <1>2, <1>3, <1>4, IInvHolds, PTL DEF Spec
=============================================================================
