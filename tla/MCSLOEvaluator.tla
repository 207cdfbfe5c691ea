--------------------------- MODULE MCSLOEvaluator ---------------------------
(***************************************************************************)
(* Instances of SLOEvaluator. Objectives are in units of 1/100, so that an *)
(* all-bad window burns at ten times the budget of a 90 % objective, and   *)
(* at a hundred times that of a 99 % one, which is the first rate that the *)
(* column (MaxRate = 100) does not hold.                                   *)
(***************************************************************************)
EXTENDS SLOEvaluator

Def(o, u, e) == [objective |-> o, fastT |-> 40, slowT |-> 20, url |-> u, enabled |-> e]

\* Nothing, one good, one bad row, and half of each: with a 90 % objective the last
\* one burns at 5, which is above both thresholds; 3 good of 4 burn at 2.5, above slowT.
AllAnswers == { [total |-> 0, good |-> 0], [total |-> 1, good |-> 1],
                [total |-> 1, good |-> 0], [total |-> 4, good |-> 3] }

\* A webhook SLO, one whose rate can overflow, a plaintext one, a log-only one with the
\* default fast threshold, a disabled one and one the API rejects.
AllDefinitions == { Def(90, "https", TRUE), Def(99, "https", TRUE), Def(90, "http", TRUE),
                    [Def(90, "log", TRUE) EXCEPT !.fastT = 0], Def(90, "https", FALSE),
                    Def(100, "https", TRUE) }

LiveDefinitions == { Def(90, "https", TRUE), Def(90, "https", FALSE), Def(90, "http", TRUE) }
LiveAnswers == { [total |-> 1, good |-> 1], [total |-> 1, good |-> 0] }
=============================================================================
