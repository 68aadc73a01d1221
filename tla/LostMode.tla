----------------------------- MODULE LostMode -----------------------------
(***************************************************************************)
(* Entering, leaving and re-asserting lost mode, command by command:       *)
(* enterLostMode, leaveLostMode and start() of the daemon, LostModeState   *)
(* (src/src/lostmode.cpp) and Locker (src/src/locker.cpp).  The process or *)
(* the phone may die between any two of them, and the disk may refuse what *)
(* LostModeState writes, which nobody looks at.                            *)
(*                                                                         *)
(* The screen locker and the notification server belong to the session;    *)
(* they are here as far as Locker uses them, and they answer.  An order to *)
(* power off, whose notice replaces the message, is the death of the phone *)
(* here: that systemctl may refuse and leave the notice is left out.       *)
(***************************************************************************)
EXTENDS Naturals, FiniteSets

CONSTANTS Messages,   \* what the owner may leave for whoever finds it
          Empty,      \* no message
          Absent,     \* no file
          Inherited,  \* what an older version may have left in "modo-perdido"
          DiskMayFail,   \* a disk that is full, or read only
          MaxOrders,  \* bound: reports and recoveries
          MaxDeaths   \* bound: deaths of the process or of the phone

Text == Messages \cup {Empty}
Content == [active : BOOLEAN, message : Text]

ASSUME LostModeAssumption ==
  /\ Empty \notin Messages
  /\ Absent \notin Content
  /\ Inherited \subseteq Content \cup {Absent}
  /\ DiskMayFail \in BOOLEAN
  /\ MaxOrders \in Nat /\ MaxDeaths \in Nat

VARIABLES
  pc,        \* where the handler is, "idle" between handlers
  started,   \* m_started
  active, message,   \* m_lost
  file,      \* "lost-mode"
  draft,     \* the neighbour QSaveFile writes to
  legacy,    \* "modo-perdido"
  locked,    \* the screen
  pin,       \* history: the PIN was typed since the last lock
  id,        \* m_notificationId, 0 for none
  shown,     \* the notifications on the screen: <<id, text>>
  nextId,    \* the id the server gives next
  orders, deaths,
  declared,  \* history: the screen was locked because the phone is lost,
             \* and nobody has recovered it since
  refused    \* history: the disk refused the last order it was given

memory == <<active, message>>
disk == <<file, draft, legacy>>
screen == <<locked, pin>>
notice == <<id, shown, nextId>>
count == <<orders, deaths>>
vars == <<pc, started, memory, disk, screen, notice, count, declared, refused>>

Places == {"idle", "draftIn", "renameIn", "lock", "show",
           "draftOut", "renameOut", "clear", "relock"}

NotLost == [active |-> FALSE, message |-> Empty]

\* LostModeState::load: the new name if it is there, otherwise the old one.
LoadFrom(current, old) == IF current # Absent THEN current
                          ELSE IF old # Absent THEN old ELSE NotLost

Load == LoadFrom(file, legacy)

Init ==
  /\ pc = "idle" /\ started = FALSE
  /\ file = Absent /\ draft = Absent /\ legacy \in Inherited
  /\ active = Load.active /\ message = Load.message
  /\ locked = FALSE /\ pin = FALSE
  /\ id = 0 /\ shown = {} /\ nextId = 1
  /\ orders = 0 /\ deaths = 0 /\ declared = FALSE /\ refused = FALSE

-----------------------------------------------------------------------------
\* enterLostMode.  An order is obeyed only once started.
Report(m) ==
  /\ pc = "idle" /\ started /\ orders < MaxOrders
  /\ orders' = orders + 1
  /\ active' = TRUE
  /\ message' = IF m = Empty THEN message ELSE m
  /\ pc' = "draftIn"
  /\ UNCHANGED <<started, disk, screen, notice, deaths, declared, refused>>

\* leaveLostMode, from the panel or from the session.
Recover ==
  /\ pc = "idle" /\ orders < MaxOrders
  /\ orders' = orders + 1
  /\ active' = FALSE
  /\ declared' = FALSE
  /\ pc' = "draftOut"
  /\ UNCHANGED <<started, message, disk, screen, notice, deaths, refused>>

\* LostModeState::save writes to a neighbour and renames it.  What it does when
\* either fails is to return: the handler goes on.
AfterSave == IF pc \in {"draftIn", "renameIn"} THEN "lock" ELSE "clear"

DraftInPlace ==
  /\ pc \in {"draftIn", "draftOut"}
  /\ file' = NotLost
  /\ draft' = [active |-> active, message |-> message]
  /\ pc' = IF pc = "draftIn" THEN "renameIn" ELSE "renameOut"
  /\ UNCHANGED <<started, memory, legacy, screen, notice, count, declared, refused>>

Refuse ==
  /\ DiskMayFail
  /\ refused' = TRUE /\ draft' = Absent
  /\ pc' = AfterSave
  /\ UNCHANGED file

Draft ==
  /\ pc \in {"draftIn", "draftOut"}
  /\ \/ /\ draft' = [active |-> active, message |-> message]
        /\ pc' = IF pc = "draftIn" THEN "renameIn" ELSE "renameOut"
        /\ UNCHANGED <<file, refused>>
     \/ Refuse
  /\ UNCHANGED <<started, memory, legacy, screen, notice, count, declared>>

Rename ==
  /\ pc \in {"renameIn", "renameOut"}
  /\ \/ /\ file' = draft /\ draft' = Absent
        /\ refused' = FALSE
        /\ pc' = AfterSave
     \/ Refuse
  /\ UNCHANGED <<started, memory, legacy, screen, notice, count, declared>>

LockBeforeWriting ==
  /\ pc \in {"draftIn", "relock"}
  /\ locked' = TRUE /\ pin' = FALSE
  /\ declared' = TRUE
  /\ pc' = IF pc = "draftIn" THEN "draftOut" ELSE "show"
  /\ UNCHANGED <<started, memory, disk, notice, count, refused>>

\* Locker::lock
LockScreen ==
  /\ pc \in {"lock", "relock"}
  /\ locked' = TRUE /\ pin' = FALSE
  /\ declared' = TRUE
  /\ pc' = "show"
  /\ UNCHANGED <<started, memory, disk, notice, count, refused>>

\* Locker::clearMessage: only a message whose id it knows.
TakeDown == /\ shown' = {n \in shown : n[1] # id \/ id = 0}
            /\ id' = 0
            /\ UNCHANGED nextId

PutUpOnce == IF id # 0 THEN UNCHANGED notice
             ELSE /\ id' = nextId /\ nextId' = nextId + 1
                  /\ shown' = shown \cup {<<nextId, message>>}

\* Locker::showMessage: it replaces its own, if it has one.
PutUp == /\ id' = IF id = 0 THEN nextId ELSE id
         /\ nextId' = IF id = 0 THEN nextId + 1 ELSE nextId
         /\ shown' = {n \in shown : n[1] # id'} \cup {<<id', message>>}

ShowMessage ==
  /\ pc = "show"
  /\ IF message = Empty THEN TakeDown ELSE PutUp
  /\ pc' = "idle"
  /\ UNCHANGED <<started, memory, disk, screen, count, declared, refused>>

ClearMessage ==
  /\ pc = "clear"
  /\ TakeDown
  /\ pc' = "idle"
  /\ UNCHANGED <<started, memory, disk, screen, count, declared, refused>>

StartAsIfNew ==
  /\ pc = "idle" /\ ~started
  /\ started' = TRUE
  /\ UNCHANGED <<pc, memory, disk, screen, notice, count, declared, refused>>

\* start(), a minute after the process began: a lost phone is locked again.
Start ==
  /\ pc = "idle" /\ ~started
  /\ started' = TRUE
  /\ pc' = IF active THEN "relock" ELSE "idle"
  /\ UNCHANGED <<memory, disk, screen, notice, count, declared, refused>>

-----------------------------------------------------------------------------
TypePin ==
  /\ locked
  /\ locked' = FALSE /\ pin' = TRUE
  /\ UNCHANGED <<pc, started, memory, disk, notice, count, declared, refused>>

\* And whoever holds the phone locks it with the power button.
PressPower ==
  /\ ~locked
  /\ locked' = TRUE /\ pin' = FALSE
  /\ UNCHANGED <<pc, started, memory, disk, notice, count, declared, refused>>

\* The process dies, alone or with the phone, and reads the file again.
Die(withPhone) ==
  /\ deaths < MaxDeaths /\ deaths' = deaths + 1
  /\ pc' = "idle" /\ started' = FALSE
  /\ active' = Load.active /\ message' = Load.message
  /\ draft' = Absent
  /\ id' = 0
  /\ IF withPhone
     THEN locked' = FALSE /\ pin' = FALSE /\ shown' = {} /\ nextId' = 1
     ELSE UNCHANGED <<screen, shown, nextId>>
  /\ UNCHANGED <<file, legacy, orders, declared, refused>>

Handler == Draft \/ Rename \/ LockScreen \/ ShowMessage \/ ClearMessage

Next ==
  \/ \E m \in Text : Report(m)
  \/ Recover
  \/ Draft
  \/ Rename
  \/ LockScreen
  \/ ShowMessage
  \/ ClearMessage
  \/ Start
  \/ TypePin
  \/ PressPower
  \/ \E withPhone \in BOOLEAN : Die(withPhone)

Spec == Init /\ [][Next]_vars

\* A handler runs on, and the start timer fires.
FairSpec == Spec /\ WF_vars(Handler) /\ WF_vars(Start)

-----------------------------------------------------------------------------
(***************************************************************************)
(* Properties.                                                             *)
(***************************************************************************)
\* Every variable keeps its type.
TypeOK ==
  /\ pc \in Places /\ started \in BOOLEAN
  /\ active \in BOOLEAN /\ message \in Text
  /\ file \in Content \cup {Absent}
  /\ draft \in Content \cup {Absent}
  /\ legacy \in Content \cup {Absent}
  /\ locked \in BOOLEAN /\ pin \in BOOLEAN
  /\ id \in Nat /\ nextId \in Nat
  /\ shown \in SUBSET (Nat \X Messages)
  /\ orders \in Nat /\ deaths \in Nat
  /\ declared \in BOOLEAN /\ refused \in BOOLEAN

\* Written before locking: a screen locked because the phone is lost comes back
\* locked, wherever it dies, unless the disk refused the order (main.cpp 958-961,
\* lostmode.cpp 63-65 and 73).
WrittenBeforeLocking == declared => Load.active \/ refused

\* Between two handlers the process and the disk agree, unless the disk refused
\* the last order, so that nothing else is lost with the process: also on a phone
\* that was lost before the file was renamed, and was recovered or reported after.
MemoryMatchesDisk ==
  pc = "idle" => [active |-> active, message |-> message] = Load \/ refused

\* What a stranger reads on a lost phone is the owner's last message.
MessageIsShown ==
  pc = "idle" /\ started /\ active /\ message # Empty => <<id, message>> \in shown

\* A daemon that has started leaves no lost phone open between two handlers,
\* however often it died before, unless the PIN was typed.
LostIsLockedAgain == pc = "idle" /\ started /\ active => locked \/ pin

\* What piles up on the screen is at most one message for every life of the
\* daemon that ended, and what a recovery leaves there is of those lives alone:
\* its own one it knows and takes down.
OneMessageALife ==
  /\ Cardinality(shown) <= deaths + (IF id = 0 THEN 0 ELSE 1)
  /\ pc = "idle" /\ ~active => id = 0

Phone == INSTANCE PhoneLost WITH phone <- Load,
           order <- [active |-> active, message |-> message]

\* Lost mode is a state of the phone: the files, read back as the daemon reads
\* them, change only by taking in the last order whole, and no death, no new
\* start and no refusal of the disk changes them.
StateOfThePhone == Phone!Spec

\* However often it dies, a phone whose files say it is lost ends up locked,
\* recovered or opened with its PIN.
LostIsReasserted == Load.active ~> locked \/ pin \/ ~active

-----------------------------------------------------------------------------
\* "If the phone died between the two, coming back locked is the answer you
\* wanted" (main.cpp 958-961).
ComesBackLocked == declared => Load.active

\* "Replacing our own previous notification rather than adding another: lost
\* mode is re-asserted at every start, and a lock screen with nine identical
\* messages helps nobody" (locker.cpp 79-81).
OneMessageOnly == Cardinality(shown) <= 1

\* "The notification id, so the message can be taken down again" (locker.h
\* 57-58): a recovered phone does not go on saying that it is lost.
RecoveredSaysNothing == pc = "idle" /\ ~active => shown = {}
=============================================================================
