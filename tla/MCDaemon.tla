----------------------------- MODULE MCDaemon -----------------------------
(***************************************************************************)
(* Small instances of Daemon.  The settings files differ in what the       *)
(* properties tell apart: the master switch, what SMS and the relay may    *)
(* do, deletion, and whether a search waits for the satellites.            *)
(***************************************************************************)
EXTENDS Daemon, TLC

Everything == [c \in Channel |-> Capability]
AllOn == [c \in Channel |-> TRUE]

Open == [enabled |-> TRUE, on |-> AllOn, cred |-> AllOn, may |-> Everything,
         smsReply |-> TRUE, deleteAfter |-> TRUE, gnss |-> TRUE,
         calmMinutes |-> TRUE, lostMinutes |-> TRUE]

\* A phone with SMS locating off.
Discreet == [Open EXCEPT !.may = [Everything EXCEPT !["Sms"] = {"Ring", "Lock"}],
                         !.deleteAfter = FALSE, !.calmMinutes = FALSE]

Off == [Open EXCEPT !.enabled = FALSE, !.gnss = FALSE]

Mute == [Open EXCEPT !.smsReply = FALSE, !.gnss = FALSE]

ConfigsOwner == {Open, Discreet, Off}
\* The home channel may not locate: that is how it comes.  And there is always a
\* refresh to come.
ConfigsAsk == {[s EXCEPT !.may["Lan"] = @ \ {"Locate"}, !.calmMinutes = TRUE] :
                 s \in ConfigsOwner}
ConfigsSwitch == {Open, Off}
ConfigsLanLocates ==
  {[Open EXCEPT !.may = [c \in Channel |-> IF c = "Lan" THEN {"Ring", "Locate"}
                                                        ELSE {"Ring"}],
                !.gnss = FALSE]}
ConfigsRingOnly ==
  {[Open EXCEPT !.may = [c \in Channel |-> IF c = "Lan" THEN {"Ring"} ELSE {}],
                !.calmMinutes = FALSE]}
ConfigsMute == {Mute}
ConfigsOff == {Off}

Says(who, verbs) == [from : who, keyed : {TRUE}, verb : verbs]
TextsAsk == Says(Senders, {"where", "state"})
\* Also an order that asks for nothing and does nothing, by SMS.
TextsWho == Says(Senders, {"where", "state", "stop"})
TextsAct == Says(Senders, {"ring", "stop", "lock", "unlock"})
              \cup [from : Senders, keyed : {FALSE}, verb : {"ring"}]
TextsState == Says(Senders, {"state"})
NoTexts == {}

OrdersAsk == {<<"Relay", "state">>, <<"Lan", "where">>, <<"Ntfy", "where">>}

OrdersLost == {"Relay", "Lan"} \X {"lock", "unlock"}
                \cup {<<"Relay", "poweroff">>, <<"Relay", "gibberish">>}
OrdersAlarm == {"Relay", "Lan"} \X {"ring", "stop"}
OrdersLanWhere == {<<"Lan", "where">>}
OrdersAct == OrdersAlarm \cup OrdersLost
OrdersNone == {}

Alike == Permutations(Senders) \cup Permutations(Sms)
=============================================================================
