----------------------------- MODULE PhoneLost -----------------------------
(***************************************************************************)
(* Lost mode as the documents promise it: "a state of the phone, not a     *)
(* flag in a running process" (src/src/lostmode.h 3).  The process holds   *)
(* the owner's last order; the phone takes it in whole or not at all; and  *)
(* a process that dies leaves the phone as it is, and is told by it.       *)
(***************************************************************************)
CONSTANTS Messages,   \* what the owner may leave for whoever finds it
          Empty       \* no message

VARIABLES phone,      \* whether it is lost, and what it says then
          order       \* what the process was last told

vars == <<phone, order>>

Init == /\ phone \in [active : BOOLEAN, message : Messages \cup {Empty}]
        /\ order = phone

\* A report without a message keeps the one there was.
Report == /\ \E m \in Messages \cup {Empty} :
               order' = [active |-> TRUE,
                         message |-> IF m = Empty THEN order.message ELSE m]
          /\ UNCHANGED phone

Recover == /\ order' = [active |-> FALSE, message |-> order.message]
           /\ UNCHANGED phone

TakeIn == phone' = order /\ UNCHANGED order

Die == order' = phone /\ UNCHANGED phone

Next == Report \/ Recover \/ TakeIn \/ Die

Spec == Init /\ [][Next]_vars
=============================================================================
