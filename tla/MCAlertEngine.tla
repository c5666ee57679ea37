---------------------------- MODULE MCAlertEngine ----------------------------
(* Small instances of AlertEngine for TLC.                                  *)
EXTENDS AlertEngine

CONSTANTS e1, wide

Reading(svc, progress, hot, errors) ==
  [svc |-> svc, progress |-> progress, hot |-> hot, errors |-> errors]

(* A folding host, one whose progress moved on and that is hot, and one     *)
(* whose service failed; the error texts differ, so one can follow another. *)
FoldingReadings ==
  { Reading("active", 4, FALSE, e1), Reading("active", 6, TRUE, NoErrors),
    Reading("failed", NoProgress, FALSE, wide) }

(* A healthy host, and one that reports error lines.                        *)
SteadyReadings == { Reading("active", 4, FALSE, NoErrors) }
FaultyReadings == { Reading("active", 4, FALSE, wide) }

(* A report may arrive a tick after it was stamped, or with a clock ahead.  *)
LateOrAhead == {-1, 0, 1}
==============================================================================
