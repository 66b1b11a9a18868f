--------------------------- MODULE RequestLoggerMC --------------------------
(***************************************************************************)
(* A small instance of RequestLogger for TLC.                              *)
(***************************************************************************)
EXTENDS RequestLogger

CONSTANTS h1, h2
=============================================================================
