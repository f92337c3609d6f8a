--------------------------- MODULE MCDiagnostics ---------------------------
(* Diagnostics on command lines that meet its limits: few descriptors, few *)
(* packets to look at, and a small uint16_t.                               *)
EXTENDS Diagnostics

Run(o, n, d) == [opt |-> o, iter |-> n, devid |-> d]
Once(o) == Run(o, NoIter, "")

MCCommandLines == {
  <<Run("all", 2, "")>>,
  <<Run("all", 0, "1234")>>,
  <<Once("eth1g"), Once("help"), Once("eth1g")>>,
  <<Run("ddr", 3, ""), Once("eth1g"), Once("i2cmd"), Once("uart"), Once("i2ceeprom"), Once("eth1g")>>,
  <<Run("pcie", 1, "1234"), Once("uart"), Run("pcie", 0, "")>>,
  <<Run("pcie", 4, "")>>,
  <<Run("ddr", 0, ""), Once("pcie")>>,
  <<Run("uart", 0, ""), Once("ddr"), Once("ddr")>>,
  <<Run("pcie", 3, ""), Run("pcie", 2, "1234"), Once("uart"), Once("pcie")>> }

Sound == [dev |-> "9038", opens |-> TRUE, pcie |-> TRUE, suc |-> TRUE, eeprom |-> TRUE,
          serial |-> TRUE, port |-> TRUE, cable |-> TRUE]
Broken == [dev |-> "9038", opens |-> TRUE, pcie |-> FALSE, suc |-> FALSE, eeprom |-> FALSE,
           serial |-> FALSE, port |-> TRUE, cable |-> FALSE]
MCBoards == {Sound, Broken, [Sound EXCEPT !.opens = FALSE, !.port = FALSE]}
=============================================================================
