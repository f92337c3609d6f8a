----------------------------- MODULE MCServices -----------------------------
(***************************************************************************)
(* The services of the main OS that systemd starts again and again:        *)
(* power_throttle on a few CPUs and a short queue, and the clock with two  *)
(* releases, the second one built while the first runs.  They share        *)
(* nothing; `unit' chooses the one that runs, the other rests.             *)
(***************************************************************************)
EXTENDS PowerThrottle

CONSTANTS Oldest, Builds, MaxTime   \* of DateTime

VARIABLES
  unit,
  real, clock, synced, rfs, mmc, temp, start, val, update, best, raced

clockVars == <<real, clock, synced, rfs, mmc, temp, start, val, update, best, raced>>

Clock == INSTANCE DateTime

ASSUME ClockAssumption == Clock!DateTimeAssumption

ServicesInit ==
  \/ unit = "throttle" /\ Init /\ Clock!Init /\ rfs = Oldest
  \/ unit = "clock" /\ Clock!Init /\ Init /\ line = "high"

ServicesNext ==
  /\ \/ unit = "throttle" /\ Next /\ UNCHANGED clockVars
     \/ unit = "clock" /\ Clock!Next /\ UNCHANGED vars
  /\ UNCHANGED unit

(* The fairness of each of the two. *)
ServicesSpec ==
  /\ ServicesInit /\ [][ServicesNext]_<<unit, vars, clockVars>>
  /\ WF_vars(unit = "throttle" /\ Program)
  /\ WF_clockVars(unit = "clock" /\ Clock!DateTimeUpdate)

-----------------------------------------------------------------------------
(* The properties of the clock. *)

(* DateTime's: the clock of a boot is behind no stamp. *)
ClockRestored == Clock!ClockRestored

(* DateTime's: the stamp follows the clock. *)
StampFollows == Clock!StampFollows
=============================================================================
