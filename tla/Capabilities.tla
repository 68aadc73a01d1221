--------------------------- MODULE Capabilities ---------------------------
(***************************************************************************)
(* The capability matrix: which channel may make the phone do what.        *)
(* Translated from LostPhoneConfig::allows (src/src/config.cpp) and from   *)
(* the fields of struct Settings (src/src/config.h) it consults.           *)
(*                                                                         *)
(* A settings record keeps, for each channel, its switch ("on"), whether   *)
(* all the credentials that channel needs are filled in ("cred"), and the  *)
(* set of its capability switches that are on ("may").  The remaining      *)
(* fields are the settings the order dispatcher in daemon/main.cpp reads.  *)
(***************************************************************************)

Channel == {"Sms", "Relay", "Lan", "Ntfy"}

Capability == {"Ring", "Locate", "Lock", "Power"}

Settings ==
  [ enabled     : BOOLEAN,                   \* the master switch
    on          : [Channel -> BOOLEAN],
    cred        : [Channel -> BOOLEAN],
    may         : [Channel -> SUBSET Capability],
    smsReply    : BOOLEAN,                   \* answer by SMS to whoever asked
    deleteAfter : BOOLEAN,                   \* delete the command message
    gnss        : BOOLEAN,                   \* a search waits for the satellites
    calmMinutes : BOOLEAN,                   \* relayReportMinutes > 0
    lostMinutes : BOOLEAN ]                  \* relayReportLostMinutes > 0

\* What the switches of a channel can grant at all: power-off exists for the
\* relay alone, whatever the file says.
Grantable(channel) == IF channel = "Relay" THEN Capability
                                           ELSE Capability \ {"Power"}

\* The channel itself exists: its switch is on and its credentials are there.
ChannelOn(s, channel) == s.on[channel] /\ s.cred[channel]

AllowsWhenOff(s, channel, what) ==
  ChannelOn(s, channel) /\ what \in Grantable(channel) \cap s.may[channel]

Allows(s, channel, what) ==
  /\ s.enabled
  /\ ChannelOn(s, channel)
  /\ what \in Grantable(channel)
  /\ what \in s.may[channel]

(***************************************************************************)
(* An order is a verb and, for a lock order, the message to leave on the   *)
(* screen.  The Spanish synonyms of a verb are the same order; anything    *)
(* else is "gibberish".                                                    *)
(***************************************************************************)
Verb == {"ring", "stop", "where", "lock", "unlock", "poweroff", "state",
         "gibberish"}
=============================================================================
