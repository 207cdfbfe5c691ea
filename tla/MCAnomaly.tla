----------------------------- MODULE MCAnomaly ------------------------------
(***************************************************************************)
(* Hourly values with a period of two. One unit of latency is 49152, which *)
(* all the divisions divide for up to eight points. The calendar has a      *)
(* long window with a short one inside, listed out of order. Rounding may  *)
(* add up to Critical, so that a ratio of two roundings has any severity.  *)
(***************************************************************************)
EXTENDS Anomaly

Unit == 49152
MCLevels == {0, 4 * Unit}
MCWindows == <<[start |-> 6, end |-> 7], [start |-> 5, end |-> 8]>>
=============================================================================
