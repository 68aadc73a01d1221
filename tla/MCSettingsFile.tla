-------------------------- MODULE MCSettingsFile --------------------------
(***************************************************************************)
(* Small instances of SettingsFile: a relay with a certificate of its own  *)
(* and, where it matters, one with a certificate from a known authority.   *)
(***************************************************************************)
EXTENDS SettingsFile
=============================================================================
