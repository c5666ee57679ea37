----------------------------- MODULE AlertLedger -----------------------------
(***************************************************************************)
(* What the alerting of the supervisor promises, without machines, clocks, *)
(* locks or a webhook: a set of alerts is active, every change of that set *)
(* is announced by one event per changed alert in the step that makes it,  *)
(* the end of an offline alert also announces the recovery of its host,    *)
(* and only announced events are ever delivered.  A crash may cut a change *)
(* short; then what was changed is announced, and a recovery may be        *)
(* announced before the end it belongs to, and then once more, but none is *)
(* lost.                                                                   *)
(***************************************************************************)
EXTENDS Integers

CONSTANTS
  Alerts,       \* alert ids
  Renewable,    \* the alerts that may be announced again while active
  Recovery      \* Recovery[a]: the recovery ids that the end of alert a announces

VARIABLES
  active,       \* the active alerts
  announced,    \* events committed so far: [epoch, type, id, details]
  epoch,        \* number of changes so far
  delivered,    \* events the webhook accepted
  crashes       \* crashes so far

vars == <<active, announced, epoch, delivered, crashes>>

Init ==
  /\ active = {}
  /\ announced = {}
  /\ epoch = 0
  /\ delivered = {}
  /\ crashes = 0

(* What a step announces, by the type of the event; what it clears; and the *)
(* recoveries that belong to the end of some alerts.                        *)
Announces(type) == { e.id : e \in { f \in announced' \ announced : f.type = type } }
Cleared == active \ active'
RecoveriesOf(ended) == UNION { Recovery[a] : a \in ended }

(* Some alerts are raised and some cleared.  Every raised alert is fired,   *)
(* a renewable one may be fired again while active, every cleared one is    *)
(* resolved; each of these once.                                            *)
Announce ==
  /\ active' \subseteq Alerts
  /\ epoch' = epoch + 1
  /\ announced \subseteq announced'
  /\ \A e \in announced' \ announced : e.epoch = epoch'
  /\ \A e, f \in announced' \ announced : e.type = f.type /\ e.id = f.id => e = f
  /\ active' \ active \subseteq Announces("Fired")
  /\ Announces("Fired") \ (active' \ active) \subseteq Renewable \cap active \cap active'
  /\ Announces("Resolved") = Cleared
  /\ UNCHANGED delivered

(* What was cleared recovers, and nothing else does.                        *)
Change ==
  /\ Announce
  /\ Announces("Recovery") = RecoveriesOf(Cleared)
  /\ UNCHANGED crashes

(* Events reach the webhook; nothing else changes.                          *)
Deliver ==
  /\ delivered \subseteq delivered'
  /\ delivered' \subseteq announced
  /\ UNCHANGED <<active, announced, epoch, crashes>>

(* A crash leaves all as it is, or part of a change: a recovery may come    *)
(* before the end of the alert it belongs to, never after it.               *)
Crash ==
  /\ crashes' = crashes + 1
  /\ \/ UNCHANGED <<active, announced, epoch, delivered>>
     \/ /\ Announce
        /\ RecoveriesOf(Cleared) \subseteq Announces("Recovery")
        /\ Announces("Recovery") \subseteq RecoveriesOf(active)

Next == Change \/ Deliver \/ Crash

Spec == Init /\ [][Next]_vars
==============================================================================
