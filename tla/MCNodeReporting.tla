--------------------------- MODULE MCNodeReporting ----------------------------
(* A small instance of NodeReporting for TLC.                               *)
EXTENDS NodeReporting

MCReadings == { [svc |-> "active", progress |-> 4, hot |-> FALSE, errors |-> NoErrors] }
MCOffsets == (-Delay)..0
===============================================================================
