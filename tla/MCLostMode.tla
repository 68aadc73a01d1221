---------------------------- MODULE MCLostMode ----------------------------
(***************************************************************************)
(* Small instances of LostMode: two messages, and a phone that may have    *)
(* been lost, or recovered, before the file had its present name.          *)
(***************************************************************************)
EXTENDS LostMode
FromBefore == {Absent, [active |-> TRUE, message |-> Empty],
               [active |-> FALSE, message |-> Empty]}
          \cup {[active |-> TRUE, message |-> m] : m \in Messages}
Nothing == {Absent}
=============================================================================
