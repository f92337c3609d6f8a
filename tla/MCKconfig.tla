----------------------------- MODULE MCKconfig -----------------------------
(* Kconfig with the menu of the SDK, cut down, its next release, and small *)
(* menus with the expressions that config/expr.c rewrites.                 *)
EXTENDS Kconfig

Config(x, t) == <<[do |-> "config", sym |-> x], [do |-> "type", type |-> t]>>
PromptIf(e) == <<[do |-> "prompt", dep |-> e]>>
Prompt == PromptIf(NULL)
Depends(e) == <<[do |-> "depends", dep |-> e]>>
Default(x) == <<[do |-> "default", expr |-> Sy(x), dep |-> NULL]>>
Selects(x) == <<[do |-> "select", sym |-> x, dep |-> NULL]>>
Within(a, b) == <<[do |-> "range", low |-> a, high |-> b, dep |-> NULL]>>
ChoiceOf(x) == <<[do |-> "choice", sym |-> x]>> \o Prompt
Open == <<[do |-> "open"]>>
Close == <<[do |-> "end"]>>

(* config/../Config.in *)
Mode(condition) ==
    ChoiceOf("<mode>") \o Default("CUSTOMER") \o Open
      \o Config("CUSTOMER", "boolean") \o Prompt
      \o Config("DEVELOPER", "boolean") \o condition \o Prompt \o Close

Release1 ==
    Config("VERSION", "string") \o Default("2010.05") \o Mode(<< >>)
      \o Config("USE_SUBVARIANT", "boolean") \o Depends(Sy("DEVELOPER")) \o Prompt \o Default("n")
      \o Config("SUBVARIANT", "string") \o Depends(Sy("USE_SUBVARIANT")) \o Prompt \o Default("")
      \o Config("JOBS", "int") \o Prompt \o Default("4") \o Within("1", "8")

(* A later release: no subvariants, fewer jobs, and developers only for    *)
(* those who build fast, with a comment to warn them.                      *)
Release2 ==
    Config("VERSION", "string") \o Default("2010.05") \o Mode(Depends(Sy("FAST")))
      \o <<[do |-> "comment"]>> \o Depends(Sy("DEVELOPER"))
      \o Config("JOBS", "int") \o Prompt \o Default("1") \o Within("1", "4")
      \o Config("FAST", "boolean") \o Depends(Comp("EQUAL", "JOBS", "4")) \o Prompt

(* C is shown on a condition over a tristate and a boolean. *)
Tri(e) ==
    Config("MODULES", "boolean") \o <<[do |-> "option", option |-> "modules"]>> \o Prompt \o Default("y")
      \o Config("A", "tristate") \o Prompt
      \o Config("B", "boolean") \o Prompt \o Default("y")
      \o Config("C", "tristate") \o PromptIf(e)

a == Sy("A")
b == Sy("B")
And(e, f) == Two("AND", e, f)
Or(e, f) == Two("OR", e, f)
Eq(x, c) == Comp("EQUAL", x, c)
Ne(x, c) == Comp("UNEQUAL", x, c)

(* Each needs another rewriting. *)
Conditions == <<
    And(Or(a, b), Not(And(a, b))),
    And(Ne("A", "n"), Not(Or(Eq("B", "y"), Not(b)))),
    Or(Eq("A", "m"), And(Eq("A", "y"), b)),
    And(Or(b, Sy("MODULES")), And(Not(b), Not(Sy("MODULES")))),
    And(Ne("A", "y"), And(Ne("A", "m"), b)),
    Or(And(b, Sy("m")), Not(Ne("A", "m"))) >>

Menus == <<Release1, Release2>> \o
  [i \in DOMAIN Conditions |-> Tri(Conditions[i])]
Next1 == (1 :> 2)

(* config/expr.c:582 with a tristate in it, on its own. *)
TristateMenus == <<Tri(And(Or(a, b), And(Not(a), Not(b))))>>
NoSuccessor == << >>
TristateEdits == <<3>>

MCSymbols == Constants \cup {Modules, "MODULES", "VERSION", "2010.05", "<mode>", "CUSTOMER", "DEVELOPER",
   "GONE", "USE_SUBVARIANT", "SUBVARIANT", "", "JOBS", "1", "4", "8", "9", "FAST", "A", "B", "C"}
MCOrder == <<"FAST", "SUBVARIANT", "", "JOBS", "1", "C", "B", "DEVELOPER", "MODULES", "VERSION", "<mode>", "2010.05", Modules,
   "CUSTOMER",  "USE_SUBVARIANT", "4", "8", "9",  "A">>
MCNumber(t, base) == CASE t = "1" -> 1 [] t = "4" -> 4 [] t = "8" -> 8 [] t = "9" -> 9 [] OTHER -> 0
MCText(t, n) == CASE n = 1 -> "1" [] n = 4 -> "4" [] n = 8 -> "8" [] n = 9 -> "9" [] OTHER -> "0"
MCValid(t, v) == t = "string" \/ (t = "int" /\ v \in {"1", "4", "8", "9"})

Hand == <<Line("CUSTOMER", "y", FALSE), Line("DEVELOPER", "y", FALSE), Line("JOBS", "9", FALSE), Line("GONE", "y", FALSE)>>
Holds(c, d) == [n \in User |-> IF n = ".config" THEN c ELSE d]
MCConfigs == [v \in DOMAIN Menus |-> IF v = 1 THEN {Holds(NoFile, Hand), Holds(Hand, NoFile)}
                              ELSE {Holds(NoFile, NoFile)}]
MCLines == {"", "8", "9", "x"}
MCRuns == [v \in DOMAIN Menus |-> IF v = 2 THEN 2 ELSE 1]
MCEdits == [v \in DOMAIN Menus |-> IF v <= 2 THEN 1 ELSE 3]
MCPicks == {[pick |-> [x \in MCSymbols |-> IF x \in {"A", "C"} THEN mod ELSE yes], at |-> [c \in {"<mode>"} |-> 1]]}
=============================================================================
