---------------------------- MODULE MCNtfyClient ----------------------------
(***************************************************************************)
(* Small instances of NtfyClient: an owner who throws either switch, moves *)
(* to another topic and changes the key.                                   *)
(***************************************************************************)
EXTENDS NtfyClient
CONSTANTS t1, t2, k1, k2

Subscribed(t, k) == [enabled |-> TRUE, on |-> TRUE, topic |-> t, key |-> k]
Owner == {Subscribed(t1, k1), Subscribed(t2, k1), Subscribed(t1, k2)}
Switched == {[Subscribed(t1, k1) EXCEPT !.enabled = FALSE],
             [Subscribed(t1, k1) EXCEPT !.on = FALSE], Subscribed(t2, NoKey)}
Everything == Owner \cup Switched
=============================================================================
