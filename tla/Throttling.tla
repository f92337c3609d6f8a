----------------------------- MODULE Throttling -----------------------------
(***************************************************************************)
(* What power_throttle promises of the CPUs: a request is carried out on   *)
(* every one of them before the next is looked at.  After a restart or a   *)
(* failing write it promises nothing ("unknown") until the next request.   *)
(***************************************************************************)
CONSTANT Cpus

VARIABLES governor, wanted

vars == <<governor, wanted>>

Governors == {"powersave", "ondemand"}

CarriedOut == \A c \in Cpus : governor[c] = wanted

Init ==
  /\ governor = [c \in Cpus |-> "ondemand"]
  /\ wanted = "ondemand"

Request ==
  /\ wanted = "unknown" \/ CarriedOut
  /\ wanted' \in Governors
  /\ UNCHANGED governor

Set(c) ==
  /\ wanted # "unknown"
  /\ governor' = [governor EXCEPT ![c] = wanted]
  /\ UNCHANGED wanted

Lose ==
  /\ wanted' = "unknown"
  /\ UNCHANGED governor

Stray(c) ==
  /\ wanted = "unknown"
  /\ \E g \in Governors : governor' = [governor EXCEPT ![c] = g]
  /\ UNCHANGED wanted

Next == Request \/ Lose \/ \E c \in Cpus : Set(c) \/ Stray(c)

Spec == Init /\ [][Next]_vars
=============================================================================
