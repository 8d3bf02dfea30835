----------------------------- MODULE MCLogCollect -----------------------------
(***************************************************************************)
(* A log of three entries, so that it fills up and wraps; an answer holds  *)
(* one run or two smaller entries.                                         *)
(***************************************************************************)
EXTENDS LogCollect

MCEntrySize == [RUN |-> 2, BOOT |-> 1, UNKNOWN |-> 1]
===============================================================================
