----------------------------- MODULE MCFahStatus -----------------------------
(* A small instance of FahStatus for TLC: units that tie, that differ in one *)
(* respect, and one that is not readable.                                    *)
EXTENDS FahStatus

U(status, project, progress, ppd) ==
  [status |-> status, project |-> project, progress |-> progress, ppd |-> ppd, eta |-> FALSE]

MCUnits ==
  { U("RUN", 1, 40, 0), U("RUN", 2, 40, 7), U("RUN", 2, 60, None), U("RUN", 1, 60, 0),
    U("READY", 1, 0, None), U("CORE", None, 100, 7), U("other", None, 0, None) }

S(project, progress, ppd) == [project |-> project, progress |-> progress, ppd |-> ppd]

MCLogStates == { S(1, 0, None), S(None, 50, 9) }
MCWorkStates == { S(2, None, None), S(None, 0, None) }
==============================================================================
