----------------------------- MODULE MCLocator -----------------------------
(***************************************************************************)
(* Small instances of Locator: searches with and without satellites; all   *)
(* location sources off, one on, or all of them.                           *)
(***************************************************************************)
EXTENDS Locator
Full == [gnss |-> TRUE, context |-> TRUE, lastKnown |-> TRUE]
Satellite == {Full}
Mixed == {Full, [Full EXCEPT !.gnss = FALSE]}
AllOff == {{}}
Usual == {{}, {"wwan", "gps-nmea"}}
=============================================================================
