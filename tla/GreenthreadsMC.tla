--------------------------- MODULE GreenthreadsMC ----------------------------
(***************************************************************************)
(* Greenthreads for TLC.                                                   *)
(***************************************************************************)
EXTENDS Greenthreads, TLC

CONSTANTS health, metrics, reaper,    \* greenthreads
          HealthInterval, MetricsInterval, ReapInterval

MCInterval == [s \in Sleeper |->
    IF s = health THEN HealthInterval
    ELSE IF s = metrics THEN MetricsInterval ELSE ReapInterval]

Interchangeable == Permutations(Consumer)
=============================================================================
