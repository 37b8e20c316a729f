--------------------------- MODULE MigrateQueueMC ----------------------------
(***************************************************************************)
(* MigrateQueue for TLC: which messages wait, and in which order.          *)
(***************************************************************************)
EXTENDS MigrateQueue

CONSTANTS m1, m2, m3, m4

FirstThree == <<m1, m2, m3>>
=============================================================================
