---------------------------- MODULE VolumeLoan ----------------------------
(***************************************************************************)
(* What the alarm promises about the owner's volume, whatever happens to   *)
(* the process that rings: an output is disturbed only while somebody      *)
(* remembers what it was set to, one output at a time, and the debt is     *)
(* forgotten only once it is paid, unless it was in nobody's memory but    *)
(* that of a process that died.  The owner's hand is never kept off.       *)
(***************************************************************************)
CONSTANTS Outputs,    \* audio outputs
          Volumes,    \* volume levels
          None        \* no debt

VARIABLES out,        \* what each output is set to
          chosen,     \* what its owner chose for each knob since it began
          owed,       \* None, or [output, setting] to be put back
          kept        \* "disk", or "head": in a process that may die

vars == <<out, chosen, owed, kept>>

Setting == [vol : Volumes, mute : BOOLEAN]

\* The owner asked for both.
Fits(s, c) == s.vol \in c.vol /\ s.mute \in c.mute

Only(s) == [vol |-> {s.vol}, mute |-> {s.mute}]
Also(c, s) == [vol |-> c.vol \cup {s.vol}, mute |-> c.mute \cup {s.mute}]

Init == /\ out \in [Outputs -> Setting]
        /\ chosen = [o \in Outputs |-> Only(out[o])]
        /\ owed = None /\ kept = "disk"

Begin == /\ owed = None
         /\ chosen' = [o \in Outputs |-> Only(out[o])]
         /\ kept' = "disk"
         /\ UNCHANGED <<out, owed>>

Promise == /\ owed = None
           /\ \E o \in Outputs, s \in Setting :
                Fits(s, chosen[o]) /\ owed' = [output |-> o, setting |-> s]
           /\ kept' \in {"disk", "head"}
           /\ UNCHANGED <<out, chosen>>

Use == /\ owed # None
       /\ \E s \in Setting : out' = [out EXCEPT ![owed.output] = s]
       /\ UNCHANGED <<chosen, owed, kept>>

Settle == /\ owed # None
          /\ \E s \in Setting : /\ Fits(s, chosen[owed.output])
                                /\ out' = [out EXCEPT ![owed.output] = s]
          /\ owed' = None
          /\ UNCHANGED <<chosen, kept>>

Lose == /\ owed # None /\ kept = "head"
        /\ owed' = None
        /\ UNCHANGED <<out, chosen, kept>>

OwnerTurns == /\ \E o \in Outputs, s \in Setting :
                   /\ out' = [out EXCEPT ![o] = s]
                   /\ \/ chosen' = [chosen EXCEPT ![o] = Also(@, s)]
                      \/ owed = None /\ chosen' = [chosen EXCEPT ![o] = Only(s)]
              /\ UNCHANGED <<owed, kept>>

Next == Begin \/ Promise \/ Use \/ Settle \/ Lose \/ OwnerTurns

Spec == Init /\ [][Next]_vars
=============================================================================
