------------------------ MODULE SettingsFile_proofs ------------------------
(***************************************************************************)
(* Proofs about SettingsFile, for any screens and relays and any number of *)
(* pairings, saves, positions and deaths.                                  *)
(***************************************************************************)
EXTENDS SettingsFile, TLAPS

\* The types of what is on disk and of who reads and writes it, and of the
\* rest.
FileTypes ==
  /\ file \in Content \cup {Nothing} /\ daemon \in Content
  /\ read \in Content \cup {Nothing}
  /\ pc \in {"boot", "loop", "reload", "load"} /\ due \in BOOLEAN
  /\ torn \in BOOLEAN

ScreenTypes ==
  /\ working \in [Screens -> Content] /\ shown \in [Screens -> Content]
  /\ dirty \in [Screens -> BOOLEAN] /\ saves \in 0..MaxSaves

PairingTypes ==
  /\ pairs \in [Pairing -> [relay : Address,
                            at : {"new", "asked", "sent", "shaken", "over", "done"}]]
  /\ seen \in Address /\ blurred \in SUBSET Pairing

HistoryTypes ==
  /\ deaths \in 0..MaxDeaths
  /\ given \in [token : 0..MaxPairs, pinned : Address] /\ taken \in 0..MaxFixes

Types == FileTypes /\ ScreenTypes /\ PairingTypes /\ HistoryTypes

LEMMA TypesTogether == TypeOK <=> Types
BY DEF TypeOK, Types, FileTypes, ScreenTypes, PairingTypes, HistoryTypes

-----------------------------------------------------------------------------
(***************************************************************************)
(* What is read and what is written.                                       *)
(***************************************************************************)
LEMMA DefaultIsContent == Default \in Content
BY SettingsFileAssumption DEF Default, Content, Address

LEMMA LoadedIsContent == ASSUME FileTypes PROVE Loaded \in Content
BY DefaultIsContent DEF FileTypes, Loaded

\* Each of the three writers leaves well-formed contents, and what belongs to
\* the others as it is.
LEMMA AppliedIsContent ==
  ASSUME FileTypes, NEW w \in Content
  PROVE  /\ Applied(w) \in Content
         /\ Applied(w).token = Loaded.token
         /\ Applied(w).pinned = Loaded.pinned
         /\ Applied(w).fix = Loaded.fix
BY LoadedIsContent DEF Applied, Content

LEMMA PairedIsContent ==
  ASSUME FileTypes, seen \in Address, NEW n \in Pairing
  PROVE  /\ Paired(n) \in Content
         /\ Paired(n).token = n /\ Paired(n).pinned = seen
         /\ Paired(n).fix = Loaded.fix
<1>1. n \in 0..MaxPairs
  BY SettingsFileAssumption DEF Pairing
<1>2. Loaded \in Content
  BY LoadedIsContent
<1>3. QED
  BY <1>1, <1>2 DEF Paired, Content

LEMMA FixedIsContent ==
  ASSUME FileTypes, NEW n \in 0..MaxFixes
  PROVE  /\ Fixed(n) \in Content
         /\ Fixed(n).token = Loaded.token /\ Fixed(n).pinned = Loaded.pinned
         /\ Fixed(n).fix = n
BY LoadedIsContent DEF Fixed, Content

\* What was written is what is read.
LEMMA Writes ==
  ASSUME FileTypes, NEW content \in Content, Write(content)
  PROVE  /\ file' = content /\ file' # Nothing /\ Loaded' = content
         /\ due' \in BOOLEAN /\ torn' \in BOOLEAN
BY NothingAssumption DEF Write, Notice, Loaded, FileTypes

\* A save is a write of the working copy's switches.
LEMMA Saves ==
  ASSUME FileTypes, ScreenTypes, NEW s \in Screens, Save(s)
  PROVE  /\ Write(Applied(working[s])) /\ Applied(working[s]) \in Content
         /\ Loaded'.token = Loaded.token /\ Loaded'.pinned = Loaded.pinned
         /\ Loaded'.fix = Loaded.fix
         /\ ScreenTypes'
<1>1. working[s] \in Content
  BY DEF ScreenTypes
<1>2. Write(Applied(working[s]))
  BY DEF Save
<1>3. ScreenTypes'
  BY <1>1, SettingsFileAssumption DEF Save, ScreenTypes
<1>4. QED
  BY <1>1, <1>2, <1>3, AppliedIsContent, Writes

\* A pairing that is asked for saves the address first, or writes nothing.
LEMMA PairSaves ==
  ASSUME NEW s, NEW n, Pair(s, n)
  PROVE  Save(s) \/ UNCHANGED <<file, due, torn, screens>>
BY DEF Pair

-----------------------------------------------------------------------------
(***************************************************************************)
(* Types.                                                                  *)
(***************************************************************************)
LEMMA InitTypes == Init => Types
<1> SUFFICES ASSUME Init PROVE Types
  OBVIOUS
<1>1. FileTypes /\ ScreenTypes
  <2>1. FileTypes
    BY DefaultIsContent DEF Init, FileTypes
  <2>2. working \in [Screens -> Content] /\ shown \in [Screens -> Content]
    BY DefaultIsContent DEF Init
  <2>3. dirty \in [Screens -> BOOLEAN]
    BY Zenon DEF Init
  <2>4. saves \in 0..MaxSaves
    BY SettingsFileAssumption DEF Init
  <2>5. QED
    BY <2>1, <2>2, <2>3, <2>4 DEF ScreenTypes
<1>2. PairingTypes
  <2>1. [relay |-> NoRelay, at |-> "new"]
          \in [relay : Address,
              at : {"new", "asked", "sent", "shaken", "over", "done"}]
    BY DEF Address
  <2>2. QED
    BY <2>1 DEF Init, PairingTypes, Address
<1>3. HistoryTypes
  BY SettingsFileAssumption DEF Init, HistoryTypes, Address
<1>4. QED
  BY <1>1, <1>2, <1>3 DEF Types

LEMMA ReachesType ==
  ASSUME PairingTypes, NEW n \in Pairing,
         NEW at \in {"new", "asked", "sent", "shaken", "over", "done"},
         Reaches(n, at), seen' \in Address, blurred' \in SUBSET Pairing
  PROVE  PairingTypes'
BY DEF PairingTypes, Reaches

LEMMA NextTypes == Types /\ [Next]_vars => Types'
<1> SUFFICES ASSUME Types, [Next]_vars PROVE Types'
  OBVIOUS
<1>0. FileTypes /\ ScreenTypes /\ PairingTypes /\ HistoryTypes
  BY DEF Types
<1>1. ASSUME NEW s \in Screens, Load(s) PROVE Types'
  BY <1>0, <1>1, LoadedIsContent
     DEF Load, Types, FileTypes, ScreenTypes, PairingTypes, HistoryTypes,
         loading, pairing, history
<1>2. ASSUME NEW s \in Screens, NEW w \in Content, Edit(s, w) PROVE Types'
  BY <1>0, <1>2
     DEF Edit, Types, FileTypes, ScreenTypes, PairingTypes, HistoryTypes,
         loading, pairing, history
<1>3. ASSUME NEW s \in Screens, NEW on \in BOOLEAN, SetRelayEnabled(s, on)
      PROVE  Types'
  <2>1. [working[s] EXCEPT !.on = on] \in Content
    BY <1>0 DEF ScreenTypes, Content
  <2>2. QED
    BY <1>2, <1>3, <2>1 DEF SetRelayEnabled
<1>4. ASSUME NEW s \in Screens, NEW url \in Relays, SetRelayUrl(s, url)
      PROVE  Types'
  <2>1. [working[s] EXCEPT !.url = url] \in Content
    BY <1>0 DEF ScreenTypes, Content, Address
  <2>2. QED
    BY <1>2, <1>4, <2>1 DEF SetRelayUrl
<1>5. ASSUME NEW s \in Screens, RestoreDefaults(s) PROVE Types'
  <2>1. working[s] \in Content
    BY <1>0 DEF ScreenTypes
  <2>2. [Default EXCEPT !.url = working[s].url, !.token = working[s].token]
          \in Content
    BY <2>1, DefaultIsContent DEF Content
  <2>3. ScreenTypes'
    BY <1>0, <1>5, <2>2 DEF RestoreDefaults, ScreenTypes
  <2>4. QED
    BY <1>0, <1>5, <2>3
       DEF RestoreDefaults, Types, FileTypes, PairingTypes, HistoryTypes,
           loading, pairing, history
<1>6. ASSUME NEW s \in Screens, Save(s), UNCHANGED loading
      PROVE  FileTypes' /\ ScreenTypes'
  BY <1>0, <1>6, Saves, Writes DEF FileTypes, loading
<1>7. ASSUME NEW s \in Screens, Apply(s) PROVE Types'
  BY <1>0, <1>6, <1>7
     DEF Apply, Types, PairingTypes, HistoryTypes, pairing, history
<1>8. ASSUME NEW s \in Screens, NEW n \in Pairing, Pair(s, n) PROVE Types'
  <2>1. FileTypes' /\ ScreenTypes'
    <3>1. CASE Save(s)
      BY <1>6, <1>8, <3>1 DEF Pair
    <3>2. CASE UNCHANGED <<file, due, torn, screens>>
      BY <1>0, <1>8, <3>2 DEF Pair, FileTypes, ScreenTypes, loading, screens
    <3>3. QED
      BY <1>8, <3>1, <3>2, PairSaves
  <2>2. PairingTypes'
    <3>1. working[s].url \in Address
      BY <1>0 DEF ScreenTypes, Content
    <3>2. QED
      BY <1>0, <1>8, <3>1 DEF Pair, PairingTypes
  <2>3. QED
    BY <1>0, <1>8, <2>1, <2>2 DEF Pair, Types, HistoryTypes, history
<1>9. ASSUME NEW n \in Pairing, PairAsked(n) PROVE Types'
  <2>1. PairingTypes'
    BY <1>0, <1>9, ReachesType DEF PairAsked, PairingTypes, Out, Address
  <2>2. QED
    BY <1>0, <1>9, <2>1
       DEF PairAsked, Types, FileTypes, ScreenTypes, HistoryTypes, loading,
           screens, history
<1>10. ASSUME NEW n \in Pairing, Handshake(n) PROVE Types'
  <2>1. PairingTypes'
    <3>1. seen' \in Address
      BY <1>0, <1>10 DEF Handshake, PairingTypes
    <3>2. QED
      BY <1>0, <1>10, <3>1, ReachesType DEF Handshake, PairingTypes
  <2>2. QED
    BY <1>0, <1>10, <2>1
       DEF Handshake, Types, FileTypes, ScreenTypes, HistoryTypes, loading,
           screens, history
<1>11. ASSUME NEW n \in Pairing, Reuse(n) PROVE Types'
  <2>1. PairingTypes'
    BY <1>0, <1>11, ReachesType DEF Reuse, PairingTypes
  <2>2. QED
    BY <1>0, <1>11, <2>1
       DEF Reuse, Types, FileTypes, ScreenTypes, HistoryTypes, loading,
           screens, history
<1>12. ASSUME NEW n \in Pairing, Answered(n) PROVE Types'
  <2>1. PairingTypes'
    BY <1>0, <1>12, ReachesType DEF Answered, PairingTypes
  <2>2. FileTypes'
    BY <1>0, <1>12, PairedIsContent, Writes DEF Answered, FileTypes, PairingTypes
  <2>3. HistoryTypes'
    BY <1>0, <1>12, SettingsFileAssumption
       DEF Answered, HistoryTypes, PairingTypes, Pairing
  <2>4. QED
    BY <1>0, <1>12, <2>1, <2>2, <2>3 DEF Answered, Types, ScreenTypes, screens
<1>13. ASSUME NEW n \in Pairing, Failed(n) PROVE Types'
  <2>1. PairingTypes'
    BY <1>0, <1>13, ReachesType DEF Failed, PairingTypes
  <2>2. QED
    BY <1>0, <1>13, <2>1
       DEF Failed, Types, FileTypes, ScreenTypes, HistoryTypes, loading,
           screens, history
<1>14. CASE TakeFix
  <2>1. taken' \in 0..MaxFixes
    BY <1>0, <1>14, SettingsFileAssumption DEF TakeFix, HistoryTypes
  <2>2. FileTypes'
    BY <1>0, <1>14, <2>1, FixedIsContent, Writes DEF TakeFix, FileTypes, loading
  <2>3. QED
    BY <1>0, <1>14, <2>1, <2>2
       DEF TakeFix, Types, ScreenTypes, PairingTypes, HistoryTypes, pairing,
           screens
<1>15. CASE Watch \/ TimerFires \/ Compare \/ LoadAgain \/ Neighbour
  <2>1. FileTypes'
    BY <1>0, <1>15, LoadedIsContent
       DEF Watch, TimerFires, Compare, LoadAgain, Neighbour, FileTypes, loading
  <2>2. UNCHANGED <<pairing, screens, deaths, history>>
    BY <1>15 DEF Watch, TimerFires, Compare, LoadAgain, Neighbour
  <2>3. QED
    BY <1>0, <2>1, <2>2
       DEF Types, ScreenTypes, PairingTypes, HistoryTypes, pairing, screens,
           history
<1>16. CASE Die
  <2>1. PairingTypes'
    BY <1>0, <1>16 DEF Die, PairingTypes, Address
  <2>2. FileTypes' /\ ScreenTypes'
    BY <1>0, <1>16, LoadedIsContent DEF Die, FileTypes, ScreenTypes, screens
  <2>3. deaths' \in 0..MaxDeaths
    BY <1>0, <1>16, SettingsFileAssumption DEF Die, HistoryTypes
  <2>4. HistoryTypes'
    BY <1>0, <1>16, <2>3 DEF Die, HistoryTypes, history
  <2>5. QED
    BY <2>1, <2>2, <2>4 DEF Types
<1>17. CASE UNCHANGED vars
  BY <1>0, <1>17
     DEF vars, Types, FileTypes, ScreenTypes, PairingTypes, HistoryTypes,
         loading, pairing, screens, history
<1>18. QED
  BY <1>1, <1>3, <1>4, <1>5, <1>7, <1>8, <1>9, <1>10, <1>11, <1>12, <1>13,
     <1>14, <1>15, <1>16, <1>17 DEF Next

LEMMA AlwaysTypes == Spec => []Types
BY InitTypes, NextTypes, PTL DEF Spec

\* Every variable keeps its type.
THEOREM TypeCorrect == Spec => []TypeOK
BY AlwaysTypes, TypesTogether, PTL

-----------------------------------------------------------------------------
(***************************************************************************)
(* What the daemon wrote stays.  Only four actions write, and of those the *)
(* screens' leave it as it is on disk, however old their copies are.       *)
(***************************************************************************)
LEMMA NextKeeps ==
  Types /\ NothingOfTheDaemonIsUndone /\ [Next]_vars
    => NothingOfTheDaemonIsUndone'
<1> SUFFICES ASSUME Types, NothingOfTheDaemonIsUndone, [Next]_vars
             PROVE  NothingOfTheDaemonIsUndone'
  OBVIOUS
<1>0. FileTypes /\ ScreenTypes /\ PairingTypes /\ HistoryTypes
  BY DEF Types
<1>1. ASSUME NEW s \in Screens, Save(s), UNCHANGED history
      PROVE  NothingOfTheDaemonIsUndone'
  BY <1>0, <1>1, Saves DEF NothingOfTheDaemonIsUndone, history
<1>2. CASE UNCHANGED <<file, history>>
  BY <1>2 DEF NothingOfTheDaemonIsUndone, Loaded, history
<1>3. ASSUME NEW s \in Screens, Apply(s) PROVE NothingOfTheDaemonIsUndone'
  BY <1>1, <1>3 DEF Apply
<1>4. ASSUME NEW s \in Screens, NEW n \in Pairing, Pair(s, n)
      PROVE  NothingOfTheDaemonIsUndone'
  BY <1>1, <1>2, <1>4, PairSaves DEF Pair
<1>5. ASSUME NEW n \in Pairing, Answered(n) PROVE NothingOfTheDaemonIsUndone'
  <2>1. Paired(n) \in Content
    BY <1>0, PairedIsContent DEF PairingTypes
  <2>2. Loaded' = Paired(n)
    BY <1>0, <1>5, <2>1, Writes DEF Answered
  <2>3. Paired(n).token = n /\ Paired(n).pinned = seen /\ Paired(n).fix = Loaded.fix
    BY <1>0, PairedIsContent DEF PairingTypes
  <2>4. given' = [token |-> n, pinned |-> seen] /\ taken' = taken
    BY <1>5 DEF Answered
  <2>5. QED
    BY <2>2, <2>3, <2>4 DEF NothingOfTheDaemonIsUndone
<1>6. CASE TakeFix
  <2>1. taken' \in 0..MaxFixes
    BY <1>0, <1>6, SettingsFileAssumption DEF TakeFix, HistoryTypes
  <2>2. Loaded' = Fixed(taken')
    BY <1>0, <1>6, <2>1, FixedIsContent, Writes DEF TakeFix
  <2>3. QED
    BY <1>0, <1>6, <2>1, <2>2, FixedIsContent
       DEF TakeFix, NothingOfTheDaemonIsUndone
<1>7. QED
  BY <1>2, <1>3, <1>4, <1>5, <1>6
     DEF Next, Load, SetRelayEnabled, SetRelayUrl, Edit, RestoreDefaults,
         PairAsked, Handshake, Reuse, Failed, Watch, TimerFires, Compare,
         LoadAgain, Neighbour, Die, vars

\* The file keeps the token, the fingerprint and the position that the daemon
\* wrote last, with any number of screens and copies of any age.
THEOREM NothingUndone == Spec => []NothingOfTheDaemonIsUndone
<1>1. Init => NothingOfTheDaemonIsUndone
  BY DEF Init, NothingOfTheDaemonIsUndone, Loaded, Default
<1>2. QED
  BY <1>1, NextKeeps, AlwaysTypes, PTL DEF Spec

-----------------------------------------------------------------------------
(***************************************************************************)
(* What is written is noticed.  The property is about now; that a reload   *)
(* may be skipped when the bytes are the known ones needs that the daemon  *)
(* has what it remembers, unless the file was written in between.          *)
(***************************************************************************)
Remembers ==
  /\ file = Nothing => daemon = Default /\ read = Nothing
  /\ pc = "boot" => read = Nothing
  /\ pc \in {"loop", "reload"} /\ read # Nothing => torn \/ daemon = read
  /\ pc = "load" => read # Nothing /\ (torn \/ read = file)

Noticed == ChangesAreNoticed /\ Remembers

\* A write that changes the file is followed by a reload, unless nobody
\* watches, and that it came amid a reload is remembered.
LEMMA WriteIsNoticed ==
  ASSUME FileTypes, Noticed, NEW content \in Content, Write(content),
         daemon' = daemon, read' = read,
         pc' = pc \/ (pc = "loop" /\ pc' = "reload")
  PROVE  Noticed'
<1>1. file' = content /\ file' # Nothing
  BY Writes
<1>2. CASE content = file
  <2>1. UNCHANGED <<file, due, torn>>
    BY <1>1, <1>2 DEF Write
  <2>2. Loaded' = Loaded
    BY <2>1 DEF Loaded
  <2>3. QED
    BY <2>1, <2>2 DEF Noticed, ChangesAreNoticed, Remembers
<1>3. CASE content # file
  <2>1. due' = (due \/ pc # "boot") /\ torn' = (torn \/ pc \in {"boot", "load"})
    BY <1>3 DEF Write, Notice
  <2>2. ChangesAreNoticed'
    BY <2>1 DEF ChangesAreNoticed
  <2>3. Remembers'
    BY <1>1, <2>1 DEF Noticed, Remembers
  <2>4. QED
    BY <2>2, <2>3 DEF Noticed
<1>4. QED
  BY <1>2, <1>3

LEMMA NextNotices == Types /\ Noticed /\ [Next]_vars => Noticed'
<1> SUFFICES ASSUME Types, Noticed, [Next]_vars PROVE Noticed'
  OBVIOUS
<1>0. FileTypes /\ ScreenTypes /\ PairingTypes /\ HistoryTypes
  BY DEF Types
<1>1. ASSUME NEW s \in Screens, Save(s), UNCHANGED loading PROVE Noticed'
  <2>1. Write(Applied(working[s])) /\ Applied(working[s]) \in Content
    BY <1>0, <1>1, Saves
  <2>2. QED
    BY <1>0, <1>1, <2>1, WriteIsNoticed DEF loading
<1>2. CASE UNCHANGED <<file, loading, torn>> /\ (due' = due \/ due')
  BY <1>2 DEF Noticed, ChangesAreNoticed, Remembers, Loaded, loading
<1>3. ASSUME NEW s \in Screens, Apply(s) PROVE Noticed'
  BY <1>1, <1>3 DEF Apply
<1>4. ASSUME NEW s \in Screens, NEW n \in Pairing, Pair(s, n) PROVE Noticed'
  BY <1>1, <1>2, <1>4, PairSaves DEF Pair
<1>5. ASSUME NEW n \in Pairing, Answered(n) PROVE Noticed'
  <2>1. Paired(n) \in Content
    BY <1>0, PairedIsContent DEF PairingTypes
  <2>2. QED
    BY <1>0, <1>5, <2>1, WriteIsNoticed DEF Answered
<1>6. CASE TakeFix
  <2>1. taken' \in 0..MaxFixes
    BY <1>0, <1>6, SettingsFileAssumption DEF TakeFix, HistoryTypes
  <2>2. Fixed(taken') \in Content
    BY <1>0, <2>1, FixedIsContent
  <2>3. QED
    BY <1>0, <1>6, <2>2, WriteIsNoticed DEF TakeFix, loading
<1>7. CASE Watch \/ TimerFires
  BY <1>7 DEF Watch, TimerFires, Noticed, ChangesAreNoticed, Remembers, Loaded
<1>8. CASE Compare
  <2>1. CASE file = read
    BY <1>8, <2>1 DEF Compare, Noticed, ChangesAreNoticed, Remembers, Loaded
  <2>2. CASE file # read
    BY <1>8, <2>2 DEF Compare, Noticed, ChangesAreNoticed, Remembers, Loaded
  <2>3. QED
    BY <2>1, <2>2
<1>9. CASE LoadAgain
  BY <1>9 DEF LoadAgain, Noticed, ChangesAreNoticed, Remembers, Loaded
<1>10. CASE Die
  BY <1>10 DEF Die, Noticed, ChangesAreNoticed, Remembers, Loaded
<1>11. QED
  BY <1>2, <1>3, <1>4, <1>5, <1>6, <1>7, <1>8, <1>9, <1>10
     DEF Next, Load, SetRelayEnabled, SetRelayUrl, Edit, RestoreDefaults,
         PairAsked, Handshake, Reuse, Failed, Neighbour, vars

\* The daemon obeys what the file says or is about to read it again, unless
\* the file was written at one of the two moments it cannot see.
THEOREM ChangesNoticed == Spec => []ChangesAreNoticed
<1>1. Init => Noticed
  BY DEF Init, Noticed, ChangesAreNoticed, Remembers, Loaded
<1>2. Noticed => ChangesAreNoticed
  BY DEF Noticed
<1>3. QED
  BY <1>1, <1>2, NextNotices, AlwaysTypes, PTL DEF Spec

-----------------------------------------------------------------------------
(***************************************************************************)
(* Pairing.  There is one m_seenFingerprint for all the pairings that are  *)
(* out.  It belongs to the one that is out alone: at first it is empty,    *)
(* after the handshake it is the certificate.                              *)
(***************************************************************************)
\* Pairings that are out together are known to be; a saved token is that of a
\* pairing that was begun.
Apart ==
  /\ \A m, n \in Out : m # n => n \in blurred
  /\ \A n \in Out \ blurred :
       seen = IF pairs[n].at = "sent" THEN NoRelay ELSE Certificate(pairs[n].relay)
  /\ Loaded.token \in Pairing => pairs[Loaded.token].at # "new"

Trusted == LonePairingIsWhole /\ Apart

\* What the pairings do not take part in.
LEMMA Untouched ==
  ASSUME Trusted, UNCHANGED pairing, Loaded'.token = Loaded.token,
         Loaded'.pinned = Loaded.pinned
  PROVE  Trusted'
BY DEF Trusted, LonePairingIsWhole, Apart, Whole, Out, pairing

\* A pairing that gets further: what it leaves to prove.
LEMMA GetsFurther ==
  ASSUME PairingTypes, Trusted, UNCHANGED file, NEW n \in Pairing,
         NEW at \in {"asked", "sent", "shaken", "over", "done"}, Reaches(n, at),
         blurred \subseteq blurred'
  PROVE  /\ LonePairingIsWhole'
         /\ Loaded'.token \in Pairing => pairs'[Loaded'.token].at # "new"
         /\ \A m \in Pairing : pairs'[m].relay = pairs[m].relay
         /\ \A m \in Pairing \ {n} : pairs'[m] = pairs[m]
         /\ pairs'[n].at = at
         /\ Out' = IF at \in {"sent", "shaken"} THEN Out \cup {n} ELSE Out \ {n}
<1>1. /\ \A m \in Pairing : pairs'[m].relay = pairs[m].relay
      /\ \A m \in Pairing \ {n} : pairs'[m] = pairs[m]
      /\ pairs'[n].at = at
  BY DEF Reaches, PairingTypes
<1>2. Loaded' = Loaded
  BY DEF Loaded
<1>3. LonePairingIsWhole'
  BY <1>1, <1>2 DEF Trusted, LonePairingIsWhole, Whole, Certificate
<1>4. Loaded'.token \in Pairing => pairs'[Loaded'.token].at # "new"
  BY <1>1, <1>2 DEF Trusted, Apart
<1>5. Out' = IF at \in {"sent", "shaken"} THEN Out \cup {n} ELSE Out \ {n}
  BY <1>1 DEF Out
<1>6. QED
  BY <1>1, <1>3, <1>4, <1>5

LEMMA NextTrusts == Types /\ Trusted /\ [Next]_vars => Trusted'
<1> SUFFICES ASSUME Types, Trusted, [Next]_vars PROVE Trusted'
  OBVIOUS
<1>0. FileTypes /\ ScreenTypes /\ PairingTypes /\ HistoryTypes
  BY DEF Types
<1>1. CASE UNCHANGED <<file, pairing>>
  BY <1>1, Untouched DEF Loaded
<1>2. ASSUME NEW s \in Screens, Apply(s) PROVE Trusted'
  BY <1>0, <1>2, Saves, Untouched DEF Apply
<1>3. ASSUME NEW s \in Screens, NEW n \in Pairing, Pair(s, n) PROVE Trusted'
  <2>1. Loaded'.token = Loaded.token /\ Loaded'.pinned = Loaded.pinned
    <3>1. CASE Save(s)
      BY <1>0, <3>1, Saves
    <3>2. CASE UNCHANGED file
      BY <3>2 DEF Loaded
    <3>3. QED
      BY <1>3, <3>1, <3>2, PairSaves
  <2>2. /\ \A m \in Pairing \ {n} : pairs'[m] = pairs[m]
        /\ pairs[n].at = "new" /\ pairs'[n].at = "asked"
    BY <1>0, <1>3 DEF Pair, PairingTypes
  <2>3. Out' = Out /\ n \notin Out
    BY <2>2 DEF Out
  <2>4. seen' = seen /\ blurred' = blurred
    BY <1>3 DEF Pair
  <2>5. Apart'
    BY <2>1, <2>2, <2>3, <2>4 DEF Trusted, Apart, Certificate, Out
  <2>6. Loaded.token # n \/ Loaded.token \notin Pairing
    BY <2>2 DEF Trusted, Apart
  <2>7. LonePairingIsWhole'
    BY <2>1, <2>2, <2>4, <2>6
       DEF Trusted, LonePairingIsWhole, Whole, Certificate
  <2>8. QED
    BY <2>5, <2>7 DEF Trusted
<1>4. ASSUME NEW n \in Pairing, PairAsked(n) PROVE Trusted'
  <2>1. /\ Reaches(n, "sent") /\ file' = file /\ seen' = NoRelay
        /\ blurred' = blurred \cup IF Out = {} THEN {} ELSE Out \cup {n}
    BY <1>4 DEF PairAsked
  <2>2. /\ LonePairingIsWhole'
        /\ Loaded'.token \in Pairing => pairs'[Loaded'.token].at # "new"
        /\ pairs'[n].at = "sent" /\ Out' = Out \cup {n}
    BY <1>0, <2>1, GetsFurther
  <2>3. \A m \in Out' \ blurred' : m = n
    BY <2>1, <2>2
  <2>4. \A l, m \in Out' : l # m => m \in blurred'
    BY <2>1, <2>2
  <2>5. QED
    BY <2>1, <2>2, <2>3, <2>4 DEF Trusted, Apart
<1>5. ASSUME NEW n \in Pairing, Handshake(n) PROVE Trusted'
  <2>1. /\ Reaches(n, "shaken") /\ file' = file /\ blurred' = blurred
        /\ seen' = IF pairs[n].relay \in Signed THEN seen ELSE pairs[n].relay
        /\ n \in Out /\ pairs[n].at = "sent"
    BY <1>5 DEF Handshake, Out
  <2>2. /\ LonePairingIsWhole'
        /\ Loaded'.token \in Pairing => pairs'[Loaded'.token].at # "new"
        /\ pairs'[n].relay = pairs[n].relay
        /\ pairs'[n].at = "shaken" /\ Out' = Out
    BY <1>0, <2>1, GetsFurther
  <2>3. \A m \in Out' \ blurred' : m = n
    BY <2>1, <2>2 DEF Trusted, Apart
  <2>4. n \notin blurred => seen' = Certificate(pairs[n].relay)
    BY <2>1 DEF Trusted, Apart, Certificate
  <2>5. \A l, m \in Out' : l # m => m \in blurred'
    BY <2>1, <2>2 DEF Trusted, Apart
  <2>6. QED
    BY <2>1, <2>2, <2>3, <2>4, <2>5 DEF Trusted, Apart, Certificate
<1>6. ASSUME NEW n \in Pairing, Reuse(n) PROVE Trusted'
  <2>1. /\ Reaches(n, "shaken") /\ file' = file /\ seen' = seen
        /\ blurred' = blurred \cup {n} /\ n \in Out
    BY <1>6 DEF Reuse, Out
  <2>2. /\ LonePairingIsWhole'
        /\ Loaded'.token \in Pairing => pairs'[Loaded'.token].at # "new"
        /\ \A m \in Pairing \ {n} : pairs'[m] = pairs[m]
        /\ Out' = Out
    BY <1>0, <2>1, GetsFurther
  <2>3. Out \subseteq Pairing
    BY DEF Out
  <2>4. QED
    BY <2>1, <2>2, <2>3 DEF Trusted, Apart, Certificate
<1>7. ASSUME NEW n \in Pairing, Failed(n) PROVE Trusted'
  <2>1. \E at \in {"over", "done"} : Reaches(n, at)
    BY <1>7 DEF Failed
  <2>2. file' = file /\ seen' = seen /\ blurred' = blurred
    BY <1>7 DEF Failed
  <2>3. /\ LonePairingIsWhole'
        /\ Loaded'.token \in Pairing => pairs'[Loaded'.token].at # "new"
        /\ \A m \in Pairing \ {n} : pairs'[m] = pairs[m]
        /\ Out' = Out \ {n}
    BY <1>0, <2>1, <2>2, GetsFurther
  <2>4. Out \subseteq Pairing
    BY DEF Out
  <2>5. QED
    BY <2>2, <2>3, <2>4 DEF Trusted, Apart, Certificate
<1>8. ASSUME NEW n \in Pairing, Answered(n) PROVE Trusted'
  <2>1. /\ Loaded' = Paired(n)
        /\ Paired(n).token = n /\ Paired(n).pinned = seen
    BY <1>0, <1>8, PairedIsContent, Writes DEF Answered, PairingTypes
  <2>2. /\ pairs[n].at = "shaken" /\ n \in Out
        /\ seen' = seen /\ blurred' = blurred
    BY <1>8 DEF Answered, Out
  <2>3. /\ \A m \in Pairing : pairs'[m].relay = pairs[m].relay
        /\ \A m \in Pairing \ {n} : pairs'[m] = pairs[m]
        /\ pairs'[n].at = "done"
    BY <1>0, <1>8 DEF Answered, Reaches, PairingTypes
  <2>4. Out' = Out \ {n} /\ Out \subseteq Pairing
    BY <2>3 DEF Out
  <2>5. n \notin blurred => seen = Certificate(pairs[n].relay)
    BY <2>2 DEF Trusted, Apart
  <2>6. LonePairingIsWhole'
    BY <2>1, <2>2, <2>3, <2>5 DEF LonePairingIsWhole, Whole, Certificate
  <2>7. Apart'
    BY <2>1, <2>2, <2>3, <2>4 DEF Trusted, Apart, Certificate
  <2>8. QED
    BY <2>6, <2>7 DEF Trusted
<1>9. CASE TakeFix
  <2>1. taken' \in 0..MaxFixes
    BY <1>0, <1>9, SettingsFileAssumption DEF TakeFix, HistoryTypes
  <2>2. /\ Loaded' = Fixed(taken')
        /\ Fixed(taken').token = Loaded.token
        /\ Fixed(taken').pinned = Loaded.pinned
    BY <1>0, <1>9, <2>1, FixedIsContent, Writes DEF TakeFix
  <2>3. QED
    BY <1>9, <2>2, Untouched DEF TakeFix
<1>10. CASE Die
  <2>1. \A m \in Pairing :
          pairs'[m] = IF pairs[m].at = "new" THEN pairs[m]
                                             ELSE [pairs[m] EXCEPT !.at = "over"]
    BY <1>10 DEF Die
  <2>2. \A m \in Pairing :
          /\ pairs'[m].relay = pairs[m].relay
          /\ pairs[m].at = "new" => pairs'[m].at = "new"
          /\ pairs[m].at # "new" => pairs'[m].at = "over"
    <3>1. TAKE m \in Pairing
    <3>2. pairs[m] \in [relay : Address,
                       at : {"new", "asked", "sent", "shaken", "over", "done"}]
      BY <1>0 DEF PairingTypes
    <3>3. QED
      BY <2>1, <3>2
  <2>3. Loaded' = Loaded /\ blurred' = blurred
    BY <1>10 DEF Die, Loaded
  <2>4. Out' = {}
    BY <2>2 DEF Out
  <2>5. LonePairingIsWhole'
    BY <2>2, <2>3 DEF Trusted, LonePairingIsWhole, Whole, Certificate
  <2>6. Apart'
    BY <2>2, <2>3, <2>4 DEF Trusted, Apart
  <2>7. QED
    BY <2>5, <2>6 DEF Trusted
<1>11. QED
  BY <1>1, <1>2, <1>3, <1>4, <1>5, <1>6, <1>7, <1>8, <1>9, <1>10
     DEF Next, Load, SetRelayEnabled, SetRelayUrl, Edit, RestoreDefaults,
         Watch, TimerFires, Compare, LoadAgain, Neighbour, vars

\* A pairing that was out alone, over a connection of its own, leaves the two
\* halves of one trust in the file, for any number of pairings and relays.
THEOREM LonePairingsAreWhole == Spec => []LonePairingIsWhole
<1>1. Init => Trusted
  BY DEF Init, Trusted, LonePairingIsWhole, Apart, Loaded, Default, Out, Pairing
<1>2. Trusted => LonePairingIsWhole
  BY DEF Trusted
<1>3. QED
  BY <1>1, <1>2, NextTrusts, AlwaysTypes, PTL DEF Spec
=============================================================================
