--------------------------- MODULE MCSwitchRepairs ---------------------------
(***************************************************************************)
(* SwitchRepairs on the instances of MCLocaleSettings.                     *)
(***************************************************************************)
EXTENDS MCLocaleSettings, SwitchRepairs
=============================================================================
