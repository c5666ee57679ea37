----------------------------- MODULE MCNodeControl -----------------------------
(* Two panels, one command each: one that ends, restarts or disturbs a unit  *)
(* against one of the other kinds.                                           *)
EXTENDS NodeControl

MCCommands == {"a1", "b1"}
MCPanelOf == [q \in MCCommands |-> IF q = "b1" THEN "b" ELSE "a"]
MCButtons == [q \in MCCommands |->
  IF q = "b1" THEN {"agent.start", "agent.restart", "fah.pause", "host.reboot"}
  ELSE {"agent.stop", "agent.restart", "fah.stop", "fah.restart"}]
================================================================================
