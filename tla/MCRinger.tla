----------------------------- MODULE MCRinger -----------------------------
(***************************************************************************)
(* Small instances of Ringer: a speaker and headphones, which are the      *)
(* default output; two volume levels, one of them the alarm's own.         *)
(***************************************************************************)
EXTENDS Ringer
LongAndShort == {1, 2}
Brief == {1}
OneLength == {2}
=============================================================================
