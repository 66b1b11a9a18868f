------------------------- MODULE StreamTranslatorMC -------------------------
(***************************************************************************)
(* Small instances of StreamTranslator for TLC.                            *)
(***************************************************************************)
EXTENDS StreamTranslator

(* Any reason for content_filter behaves as any other. *)
SomeReasons == {"STOP", "MAX_TOKENS", "SAFETY"}
=============================================================================
