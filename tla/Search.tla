------------------------------- MODULE Search -------------------------------
(***************************************************************************)
(* What whoever looks for the phone is promised: the search they wait on   *)
(* is one that may turn the radios on, it is never exchanged for the       *)
(* background refresh that may not, and they wait until it ends.           *)
(*                                                                         *)
(* The Locator keeps this promise with its own flags, and the daemon with  *)
(* the list of those who asked it.                                         *)
(***************************************************************************)
VARIABLES kind,       \* "idle", "refresh" or "full"
          waiting     \* somebody waits for a search of their own

vars == <<kind, waiting>>

Init == kind = "idle" /\ waiting = FALSE

\* Somebody looks for the phone, for themselves or riding on another's search.
\* A refresh in progress gives way to it.
Ask == kind' = "full" /\ waiting' \in {waiting, TRUE}

\* The daemon's own look at the cheap channels gives way to everybody.
Refresh == kind = "idle" /\ kind' = "refresh" /\ UNCHANGED waiting

\* The search is over and everybody is answered, or the process died.
End == kind' = "idle" /\ waiting' = FALSE

Next == Ask \/ Refresh \/ End

Spec == Init /\ [][Next]_vars
=============================================================================
