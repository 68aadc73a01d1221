--------------------------- MODULE MCRelayClient ---------------------------
(***************************************************************************)
(* Small instances of RelayClient: an owner who switches the channel and   *)
(* pairs again, with the master switch left alone and without.             *)
(***************************************************************************)
EXTENDS RelayClient
Running(t) == [enabled |-> TRUE, on |-> TRUE, token |-> t, idle |-> 0]
Paired == {Running(t) : t \in Tokens}
SwitchedOff == {[s EXCEPT !.on = FALSE] : s \in Paired}
Resting == {[s EXCEPT !.idle = 1] : s \in Paired}
ConfigsChannel == Paired \cup SwitchedOff \cup Resting \cup {Running(NoToken)}
ConfigsMaster == Paired \cup {[s EXCEPT !.enabled = FALSE] : s \in Paired}
=============================================================================
