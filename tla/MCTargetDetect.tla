---------------------------- MODULE MCTargetDetect ----------------------------
(* TargetDetect with both pins of the Rev 7.1 board. *)
EXTENDS TargetDetect
===============================================================================
