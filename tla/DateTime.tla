------------------------------ MODULE DateTime ------------------------------
(***************************************************************************)
(* The clock of a card that has none over a reset (package/rootfs/         *)
(* datetime_update).  One service sets it at boot, from the time stamp of  *)
(* the root file system or of the data directory, unless NTP has done so;  *)
(* another touches the stamp of the data directory every minute.  The      *)
(* second waits for the start of the first, not for its end, so the two    *)
(* run side by side, and NTP beside them.                                  *)
(***************************************************************************)
EXTENDS Integers

CONSTANTS
    Oldest,   \* no release is built before; the clock of a boot starts far below
    Builds,   \* times at which releases of the root file system were built
    MaxTime   \* bound on the time

DateTimeAssumption ==
    /\ Oldest \in Nat \ {0} /\ MaxTime \in Nat
    /\ Builds \subseteq Oldest .. MaxTime

VARIABLES
    real, clock, synced,   \* the true time, the card's, and whether NTP has set it in this boot
    rfs, mmc, temp,        \* the stamps: .ts of the root file system, .ts and .tempts of the data
    start, val,            \* the step of datetime_start, and what `date -r' printed
    update,                \* the step of datetime_update
    (* history, read by the properties only *)
    best,                  \* the latest time the data directory was stamped with
    raced                  \* NTP set the clock after datetime_start saw it had not

time == <<real, clock, synced>>
stamps == <<rfs, mmc, temp>>
programs == <<start, val, update>>
history == <<best, raced>>
vars == <<time, stamps, programs, history>>

Missing == -1
Later(t, u) == IF t >= u THEN t ELSE u

TouchMmc == mmc' = clock /\ best' = Later(best, clock)

-----------------------------------------------------------------------------
(* datetime_start: nothing to do for a synchronised clock. *)
Check ==
    /\ start = "check"
    /\ start' = IF synced THEN "done" ELSE "choose"
    /\ UNCHANGED <<time, stamps, val, update, history>>

(* The newer stamp. *)
Choose ==
    /\ start = "choose"
    /\ start' = IF mmc = Missing \/ rfs > mmc THEN "rfs" ELSE "mmc"
    /\ UNCHANGED <<time, stamps, val, update, history>>

(* Nothing else touches the stamp of the root file system in a boot. *)
SetFromRfs ==
    /\ start = "rfs"
    /\ clock' = rfs /\ start' = "touch"
    /\ UNCHANGED <<real, synced, stamps, val, update, history>>

StampAfterRfs ==
    /\ start = "touch"
    /\ TouchMmc /\ start' = "done"
    /\ UNCHANGED <<time, rfs, temp, val, update, raced>>

ReadMmc ==
    /\ start = "mmc"
    /\ val' = mmc /\ start' = "set"
    /\ UNCHANGED <<time, stamps, update, history>>

SetFromMmc ==
    /\ start = "set"
    /\ clock' = val /\ start' = "done"
    /\ UNCHANGED <<real, synced, stamps, val, update, history>>

-----------------------------------------------------------------------------
(* datetime_update: it makes no stamp where there is none. *)
Wake ==
    /\ update = "sleep" /\ mmc # Missing
    /\ update' = "temp"
    /\ UNCHANGED <<time, stamps, start, val, history>>

TouchTemp ==
    /\ update = "temp"
    /\ temp' = clock /\ update' = "test"
    /\ UNCHANGED <<time, rfs, mmc, start, val, history>>

(* Mutants: any stamp is replaced; and only a newer one. *)
TestNothing ==
    /\ update = "test"
    /\ update' = "touch"
    /\ UNCHANGED <<time, stamps, start, val, history>>
TestOlder ==
    /\ update = "test"
    /\ update' = IF temp < mmc THEN "touch" ELSE "rm"
    /\ UNCHANGED <<time, stamps, start, val, history>>

Test ==
    /\ update = "test"
    /\ update' = IF temp > mmc THEN "touch" ELSE "rm"
    /\ UNCHANGED <<time, stamps, start, val, history>>

Stamp ==
    /\ update = "touch"
    /\ TouchMmc /\ update' = "rm"
    /\ UNCHANGED <<time, rfs, temp, start, val, raced>>

Remove ==
    /\ update = "rm"
    /\ temp' = Missing /\ update' = "sleep"
    /\ UNCHANGED <<time, rfs, mmc, start, val, history>>

-----------------------------------------------------------------------------
(* A clock that was not set stays far in the past. *)
Tick ==
    /\ real < MaxTime
    /\ real' = real + 1
    /\ clock' = IF clock + 1 = Oldest THEN clock ELSE clock + 1
    /\ UNCHANGED <<synced, stamps, programs, history>>

Sync ==
    /\ ~synced \/ clock < real
    /\ clock' = real /\ synced' = TRUE
    /\ raced' = (raced \/ start \in {"choose", "rfs", "mmc", "set"})
    /\ UNCHANGED <<real, stamps, programs, best>>

(* All but the stamps is lost, at any step. *)
Boot ==
    /\ clock' = 0 /\ synced' = FALSE
    /\ start' = "check" /\ val' = 0 /\ update' = "sleep"
    /\ raced' = FALSE
    /\ UNCHANGED real

Reset ==
    /\ Boot
    /\ best' = IF raced THEN mmc ELSE best
    /\ UNCHANGED stamps

(* Another release of the root file system; the data directory is in it,   *)
(* or on a disk of its own.                                                *)
Upgrade(built) ==
    /\ built <= real
    /\ Boot
    /\ rfs' = built
    /\ \/ best' = (IF raced THEN mmc ELSE best) /\ UNCHANGED <<mmc, temp>>
       \/ best' = Missing /\ mmc' = Missing /\ temp' = Missing

-----------------------------------------------------------------------------
Init ==
    /\ rfs \in Builds /\ real = rfs
    /\ clock = 0 /\ synced = FALSE
    /\ mmc = Missing /\ temp = Missing
    /\ start = "check" /\ val = 0 /\ update = "sleep"
    /\ best = Missing /\ raced = FALSE

DateTimeStart == Check \/ Choose \/ SetFromRfs \/ StampAfterRfs \/ ReadMmc \/ SetFromMmc
DateTimeUpdate == Wake \/ TouchTemp \/ Test \/ Stamp \/ Remove

Next ==
    \/ DateTimeStart \/ DateTimeUpdate
    \/ Tick \/ Sync \/ Reset
    \/ \E built \in Builds : Upgrade(built)

Spec == Init /\ [][Next]_vars

(* systemd starts the second service again for as long as the card is up.  *)
FairSpec == Spec /\ WF_vars(DateTimeUpdate)

-----------------------------------------------------------------------------
Times == Nat \cup {Missing}

TypeOK ==
    /\ real \in Nat /\ clock \in Nat /\ synced \in BOOLEAN
    /\ rfs \in Builds /\ mmc \in Times /\ temp \in Times
    /\ start \in {"check", "choose", "rfs", "touch", "mmc", "set", "done"} /\ val \in Times
    /\ update \in {"sleep", "temp", "test", "touch", "rm"}
    /\ best \in Times /\ raced \in BOOLEAN

(* When datetime_start is done, the card's clock is not behind any time    *)
(* stamped before, nor behind the release, whatever the services and any   *)
(* number of resets have left in between: unless NTP set the clock while   *)
(* it was being set from a stamp, so that a right clock is set back to the *)
(* last stamp, and that is taken back with it.                             *)
ClockRestored == start = "done" /\ ~raced => clock >= best /\ clock >= rfs

(* What the clock has shown after datetime_start is stamped, if there is a *)
(* stamp to touch: a reset loses what passed since then, and no more.      *)
Shown(t) == start = "done" /\ mmc # Missing /\ clock >= t
StampFollows == \A t \in Oldest .. MaxTime : Shown(t) ~> mmc >= t \/ start # "done"

-----------------------------------------------------------------------------
(* What the theorem rests on: the clock of a boot never goes back, and it  *)
(* shows a time after Oldest from when it was set on.                      *)
InSetting == start \in {"choose", "rfs", "mmc", "set"}

Late ==
    /\ rfs <= real /\ clock <= real
    /\ (start = "check" \/ InSetting) /\ ~synced => clock < Oldest
    /\ start \in {"touch", "done"} \/ synced => clock >= Oldest
    /\ \A t \in {mmc, best} : t # Missing => Oldest <= t /\ t <= real
    /\ start = "set" => val \in Nat /\ Oldest <= val /\ val <= real

Stamping ==
    /\ start \in {"mmc", "set"} \/ update # "sleep" => mmc # Missing
    /\ update = "test" => temp <= clock \/ clock >= Oldest
    /\ update = "touch" => clock >= Oldest

(* Neither service takes the stamp back. *)
StampKept == ~raced => mmc = best

InOrder ==
    ~raced =>
      /\ InSetting => ~synced
      /\ start = "rfs" => mmc < rfs
      /\ start = "mmc" => rfs <= mmc
      /\ start = "set" => val = mmc /\ rfs <= mmc
      /\ start \in {"touch", "done"} \/ synced => mmc <= clock /\ rfs <= clock

ClockInv == TypeOK /\ Late /\ Stamping /\ InOrder /\ StampKept /\ ClockRestored
=============================================================================
