---------------------------- MODULE MCSLOWindows ----------------------------
(***************************************************************************)
(* Instances of SLOWindows: objectives in units of 1/100.                  *)
(***************************************************************************)
EXTENDS SLOWindows

\* An ordinary SLO, one whose thresholds are the wrong way round, and one whose
\* objective is so low that an all-bad window stays below both thresholds.
MCDefinitions ==
    { [objective |-> 90, fastT |-> 40, slowT |-> 20],
      [objective |-> 90, fastT |-> 20, slowT |-> 40],
      [objective |-> 50, fastT |-> 144, slowT |-> 60] }
=============================================================================
