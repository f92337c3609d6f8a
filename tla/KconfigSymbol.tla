--------------------------- MODULE KconfigSymbol ---------------------------
(***************************************************************************)
(* The values of the symbols (config/symbol.c).  The tree T of KconfigMenu *)
(* stays as it is; what changes is the record s of the fields of every     *)
(* symbol:                                                                 *)
(*   typ, val, tri        the type and the value as last computed          *)
(*   visible, rev         how far prompts show it, how far others select it*)
(*   ptri                 per property, the visibility of a prompt         *)
(*   valid, write         the flags SYMBOL_VALID and SYMBOL_WRITE          *)
(*   has, dval, dtri      the flags SYMBOL_DEF_USER and SYMBOL_DEF_AUTO,   *)
(*                        and the values in def[S_DEF_USER], def[S_DEF_AUTO]*)
(*   known                the symbols that somebody has looked up          *)
(*   modval, changed      modules_val, and sym_change_count # 0            *)
(*   warned, unsaved      conf_warnings # 0 and conf_unsaved # 0           *)
(*   dropped              history: conf_read has dropped a value that      *)
(*                        others were computed from, and they are still    *)
(*                        SYMBOL_VALID                                     *)
(* A computation of the code is an operator from s to the s it leaves.     *)
(* SYMBOL_CHANGED is not here: only the graphical front ends read it.      *)
(***************************************************************************)
EXTENDS KconfigMenu, FiniteSets

CONSTANTS
    Number(_, _),  \* strtol of a text in a base
    Text(_, _)     \* the text of a number for a type

NoText == "<null>"

IsTri(t) == t \in {"boolean", "tristate"}
IsNumber(t) == t \in {"int", "hex"}
Base(t) == IF t = "hex" THEN 16 ELSE 10
NameOf == [v \in Tristate |-> CASE v = no -> "n" [] v = mod -> "m" [] v = yes -> "y"]

(* The symbols as conf_parse leaves them: nothing computed but y, m and n. *)
Fresh(T) ==
    LET Zero == [x \in Symbols |-> no]
        Blank == [x \in Symbols |-> NoText]
        Con == [x \in Symbols |-> IF x \in Constants THEN TriOf[x] ELSE no]
    IN [typ |-> T.typ, tri |-> Con, val |-> [x \in Symbols |-> IF x \in Constants THEN x ELSE NoText],
        visible |-> Zero, rev |-> Zero, ptri |-> [i \in DOMAIN T.prop |-> no],
        valid |-> Constants, write |-> {}, has |-> [user |-> {}, auto |-> {}],
        dval |-> [user |-> Blank, auto |-> Blank], dtri |-> [user |-> Zero, auto |-> Zero],
        known |-> T.known, modval |-> no, changed |-> TRUE, warned |-> FALSE, unsaved |-> FALSE,
        dropped |-> FALSE]

(* A tristate is offered as a boolean within a choice set to y, and        *)
(* without modules.                                                        *)
GetType(T, s, x) ==
    IF s.typ[x] = "tristate" /\ (s.modval = no \/ (IsChoiceValue(T, x) /\ s.visible[x] = yes))
      THEN "boolean" ELSE s.typ[x]

StringValue(s, x) == IF IsTri(s.typ[x]) THEN NameOf[s.tri[x]] ELSE s.val[x]
Val(s, e) == Value(s.tri, [x \in Symbols |-> StringValue(s, x)], e)

RECURSIVE Calc(_, _, _), CalcSeq(_, _, _)
RECURSIVE FirstOf(_, _, _), SeePrompts(_, _, _), FirstVisible(_, _, _), OrDefault(_, _, _)

CalcSeq(T, s, xs) == IF xs = << >> THEN s ELSE CalcSeq(T, Calc(T, s, xs[1]), Tail(xs))

CalcExpr(T, s, e) == CalcSeq(T, s, SymsOf(e))

PropsTyped(T, x, type) == SelectSeq(T.of[x], LAMBDA i : T.prop[i].type = type)

(* The first of some properties whose condition is not n; [s, p]. *)
FirstFrom(T, s, props) ==
    IF Val(s, T.prop[props[1]].vis) # no THEN [s |-> s, p |-> props[1]] ELSE FirstOf(T, s, Tail(props))

FirstOf(T, s, props) ==
    IF props = << >> THEN [s |-> s, p |-> 0]
    ELSE FirstFrom(T, CalcExpr(T, s, T.prop[props[1]].vis), props)

FirstProp(T, s, x, type) == FirstOf(T, s, PropsTyped(T, x, type))

(* A number out of its range becomes the bound it passed: v against the    *)
(* symbols low and high, which are computed as far as they are looked at.  *)
NumberOf(s, y, b) == Number(s.val[y], IF IsNumber(s.typ[y]) THEN Base(s.typ[y]) ELSE b)

BoundTo(s, x, y) == [s EXCEPT !.val[x] = Text(s.typ[x], NumberOf(s, y, Base(s.typ[x])))]

AtMost(s, x, high) ==
    IF NumberOf(s, x, 10) > NumberOf(s, high, Base(s.typ[x])) THEN BoundTo(s, x, high) ELSE s

AtLeast(T, s, x, low, high) ==
    IF NumberOf(s, x, 10) < NumberOf(s, low, Base(s.typ[x])) THEN BoundTo(s, x, low)
    ELSE AtMost(Calc(T, s, high), x, high)

ToRange(T, x, r) ==
    LET e == T.prop[r.p].expr
    IN IF r.p = 0 THEN r.s ELSE AtLeast(T, Calc(T, r.s, e.sym), x, e.sym, e.right)

ValidateRange(T, s, x) ==
    IF IsNumber(s.typ[x]) THEN ToRange(T, x, FirstProp(T, s, x, "RANGE")) ELSE s

Prompts(T, x) == SelectSeq(T.of[x], LAMBDA i : T.prop[i].text)

SeePrompt(T, s, i) == [s EXCEPT !.ptri[i] = Val(s, T.prop[i].vis)]

SeePrompts(T, s, props) ==
    IF props = << >> THEN s
    ELSE SeePrompts(T, SeePrompt(T, CalcExpr(T, s, T.prop[props[1]].vis), props[1]), Tail(props))

(* As m or y, where there is no m. *)
See(s, x, v) ==
    [s EXCEPT !.visible[x] = IF v = mod /\ (s.typ[x] # "tristate" \/ s.modval = no) THEN yes ELSE v]

SeeMost(T, s, x) == See(s, x, Max({no} \cup {s.ptri[i] : i \in Range(Prompts(T, x))}))

Demand(T, s, x, v) ==
    [s EXCEPT !.rev[x] = IF v = mod /\ GetType(T, s, x) = "boolean" THEN yes ELSE v]

SeeDemand(T, s, x) == Demand(T, s, x, IF T.rev[x] = NULL THEN no ELSE Val(s, T.rev[x]))

CalcReverse(T, s, x) == IF IsChoiceValue(T, x) THEN s ELSE SeeDemand(T, CalcExpr(T, s, T.rev[x]), x)

CalcVisibility(T, s, x) == CalcReverse(T, SeeMost(T, SeePrompts(T, s, Prompts(T, x)), x), x)

(* The first of some symbols that is visible, or NoText; [s, v]. *)
VisibleFrom(T, s, xs) ==
    IF s.visible[xs[1]] # no THEN [s |-> s, v |-> xs[1]] ELSE FirstVisible(T, s, Tail(xs))

FirstVisible(T, s, xs) ==
    IF xs = << >> THEN [s |-> s, v |-> NoText] ELSE VisibleFrom(T, CalcVisibility(T, s, xs[1]), xs)

(* The first visible symbol of defaults that hold: the next default that   *)
(* does, while there is one and its symbol is not visible.                 *)
DefaultFrom(T, d, props) ==
    IF d.p = 0 THEN [s |-> d.s, v |-> NoText]
    ELSE OrDefault(T, FirstVisible(T, d.s, <<T.prop[d.p].expr.sym>>),
                   SelectSeq(props, LAMBDA i : i > d.p))

OrDefault(T, q, props) ==
    IF q.v # NoText THEN q ELSE DefaultFrom(T, FirstOf(T, q.s, props), props)

(* Mutant: the user's value of a choice counts though it is not visible. *)
KeepChoice(T, s, x) ==
    IF s.dval.user[x] # NoText THEN [s |-> s, v |-> s.dval.user[x]] ELSE FirstVisible(T, s, T.values[x])

(* The value of a choice: the user's, else a default, else the first one   *)
(* that is visible; [s, v], where v = NoText when there is none.           *)
OrFirst(T, q, x) == IF q.v # NoText THEN q ELSE FirstVisible(T, q.s, T.values[x])

CalcChoice(T, s, x) ==
    LET user == s.dval.user[x]
        Chosen(q) == IF q.v = NoText THEN [q EXCEPT !.s.tri[x] = no] ELSE q
    IN Chosen(OrFirst(T, OrDefault(T, FirstVisible(T, s, IF user = NoText THEN << >> ELSE <<user>>),
                                   PropsTyped(T, x, "DEFAULT")), x))

Writes(s, x) == [s EXCEPT !.write = @ \cup {x}]

(* The tristate value of a symbol that is no visible value of a choice:    *)
(* the user's as far as it is visible, else a default, but never below     *)
(* what selects it.                                                        *)
TriOr(s, x, v) == [s EXCEPT !.tri[x] = EXPR_OR(v, s.rev[x])]

TriFrom(T, s, x, e, cond) == TriOr(s, x, EXPR_AND(Val(s, e), cond))

TriDefault(T, x, d) ==
    LET p == T.prop[d.p]
    IN IF d.p = 0 THEN TriOr(d.s, x, no)
       ELSE TriFrom(T, CalcExpr(T, Writes(d.s, x), p.expr), x, p.expr, Val(d.s, p.vis))

CalcTri(T, s, x) ==
    LET A == IF s.visible[x] # no \/ s.rev[x] # no THEN Writes(s, x) ELSE s
    IN IF s.visible[x] # no /\ x \in s.has.user THEN TriOr(A, x, EXPR_AND(s.dtri.user[x], s.visible[x]))
       ELSE IF IsChoice(x) THEN TriOr(A, x, no)
       ELSE TriDefault(T, x, FirstProp(T, A, x, "DEFAULT"))

SetText(s, x, y) == [s EXCEPT !.val[x] = s.val[y]]

TextDefault(T, x, d) ==
    LET e == T.prop[d.p].expr
    IN IF d.p = 0 \/ e.type # "SYMBOL" THEN d.s
       ELSE SetText(Calc(T, Writes(d.s, x), e.sym), x, e.sym)

CalcText(T, s, x) ==
    LET A == IF s.visible[x] # no THEN Writes(s, x) ELSE s
    IN IF s.visible[x] # no /\ x \in s.has.user THEN [A EXCEPT !.val[x] = s.dval.user[x]]
       ELSE TextDefault(T, x, FirstProp(T, A, x, "DEFAULT"))

(* What is left to do once a symbol has its value: a choice picks one of   *)
(* its values and has them written with it, a number is put in its range.  *)
Finish(T, s, x) ==
    LET Picked(c) == [c.s EXCEPT !.val[x] = c.v]
        Noted(A) == IF x = Modules THEN [A EXCEPT !.modval = A.tri[x]] ELSE A
        Spread(A) == IF IsChoice(x) /\ x \in A.write
                       THEN [A EXCEPT !.write = @ \cup Range(T.values[x])] ELSE A
        Kept(A) == IF x \in T.auto THEN [A EXCEPT !.write = @ \ {x}] ELSE A
        chosen == IsChoice(x) /\ s.tri[x] = yes
    IN Kept(Spread(Noted(ValidateRange(T, IF chosen THEN Picked(CalcChoice(T, s, x)) ELSE s, x))))

(* sym_calc_value *)
Calc(T, s, x) ==
    LET A == [s EXCEPT !.valid = @ \cup {x}]
        B == IF IsChoiceValue(T, x) THEN A ELSE [A EXCEPT !.write = @ \ {x}]
        Blank(C) == [C EXCEPT !.tri[x] = no, !.val[x] = IF IsTri(s.typ[x]) THEN "n" ELSE ""]
        Valued(D) ==
            IF ~IsTri(D.typ[x]) THEN CalcText(T, D, x)
            ELSE IF IsChoiceValue(T, x) /\ D.visible[x] = yes
              THEN [D EXCEPT !.tri[x] = IF D.val[T.choiceOf[x]] = x THEN yes ELSE no]
            ELSE CalcTri(T, D, x)
        Offered(E) == IF E.tri[x] = mod /\ GetType(T, E, x) = "boolean" THEN [E EXCEPT !.tri[x] = yes] ELSE E
    IN IF x \in s.valid THEN s
       ELSE IF ~IsTri(s.typ[x]) /\ ~IsNumber(s.typ[x]) /\ s.typ[x] # "string"
         THEN [A EXCEPT !.val[x] = x, !.tri[x] = no]
       ELSE Finish(T, Offered(Valued(Blank(CalcVisibility(T, B, x)))), x)

ClearAllValid(T, s) == Calc(T, [s EXCEPT !.valid = Constants, !.changed = TRUE, !.dropped = FALSE], Modules)

-----------------------------------------------------------------------------
(* Setting a value.  Each of these reads what was computed last, and       *)
(* answers [s, ok].                                                        *)

TristateWithinRange(T, s, x, v) ==
    LET t == GetType(T, s, x)
    IN /\ s.visible[x] # no
       /\ IsTri(t)
       /\ ~(t = "boolean" /\ v = mod)
       /\ s.visible[x] > s.rev[x]
       /\ IF IsChoiceValue(T, x) /\ s.visible[x] = yes THEN v = yes
          ELSE v >= s.rev[x] /\ v <= s.visible[x]

CanSet(T, s, x, v) == s.tri[x] = v \/ TristateWithinRange(T, s, x, v)

(* Mutant: a new value leaves those that were computed from it as they are. *)
SetAlone(T, s, x, v) ==
    IF ~CanSet(T, s, x, v) THEN [s |-> s, ok |-> FALSE]
    ELSE [s |-> [s EXCEPT !.has.user = @ \cup {x}, !.dtri.user[x] = v, !.valid = @ \ {x}, !.changed = TRUE],
          ok |-> TRUE]

(* A value of a choice that becomes y is the choice's, and no value of the *)
(* choice that is visible is new any more.                                 *)
SetTristate(T, s, x, v) ==
    LET c == T.choiceOf[x]
        A == [s EXCEPT !.has.user = @ \cup {x}, !.dtri.user[x] = v]
        B == IF IsChoiceValue(T, x) /\ v = yes
               THEN [A EXCEPT !.dval.user[c] = x,
                              !.has.user = @ \cup {c} \cup {w \in Range(T.values[c]) : s.visible[w] # no}]
               ELSE A
    IN IF ~CanSet(T, s, x, v) THEN [s |-> s, ok |-> FALSE]
       ELSE [s |-> IF s.tri[x] # v THEN ClearAllValid(T, B) ELSE B, ok |-> TRUE]

(* The next value, in the order n m y, that can be set. *)
Toggle(T, s, x) ==
    LET After(k) == (s.tri[x] + k) % 3
    IN SetTristate(T, s, x, After(Min({k \in 1..3 : CanSet(T, s, x, After(k))}))).s

TriText(v) == CASE v = "y" -> yes [] v = "m" -> mod [] v = "n" -> no [] OTHER -> 3

(* [s, ok]; n is a number against the bounds of the range of x, of which   *)
(* the upper one is computed only for a number that the lower one allows.  *)
Below(s, x, n, high) == [s |-> s, ok |-> n <= NumberOf(s, high, Base(s.typ[x]))]

InBounds(T, s, x, n, e) ==
    IF n < NumberOf(s, e.sym, Base(s.typ[x])) THEN [s |-> s, ok |-> FALSE]
    ELSE Below(Calc(T, s, e.right), x, n, e.right)

InRange(T, x, n, r) ==
    LET e == T.prop[r.p].expr
    IN IF r.p = 0 THEN [s |-> r.s, ok |-> TRUE] ELSE InBounds(T, Calc(T, r.s, e.sym), x, n, e)

StringWithinRange(T, s, x, v) ==
    LET t == s.typ[x]
    IN CASE IsTri(t) -> [s |-> s, ok |-> TriText(v) \in Tristate /\ TristateWithinRange(T, s, x, TriText(v))]
         [] ~IsTri(t) /\ (~IsNumber(t) \/ ~StringValid(t, v)) -> [s |-> s, ok |-> StringValid(t, v)]
         [] OTHER -> InRange(T, x, Number(v, Base(t)), FirstProp(T, s, x, "RANGE"))

(* Mutant: a text that is the value already is taken without being noted. *)
SetNewString(T, s, x, v) ==
    LET With(w) == IF ~w.ok \/ s.val[x] = v THEN w
                   ELSE [s |-> ClearAllValid(T, [w.s EXCEPT !.has.user = @ \cup {x}, !.dval.user[x] = v]),
                         ok |-> TRUE]
    IN IF IsTri(s.typ[x]) THEN [s |-> s, ok |-> FALSE] ELSE With(StringWithinRange(T, s, x, v))

(* Every new text of a hex symbol that lacks 0x invalidates all values; so *)
(* does a text that differs from the one before.                           *)
NoteString(T, s, x, v) ==
    LET new == IF s.typ[x] = "hex" THEN Text("hex", Number(v, 16)) ELSE v
        A == [s EXCEPT !.has.user = @ \cup {x}, !.dval.user[x] = new]
    IN IF new # v \/ s.dval.user[x] # v THEN ClearAllValid(T, A) ELSE A

TakeString(T, w, x, v) == IF w.ok THEN [w EXCEPT !.s = NoteString(T, @, x, v)] ELSE w

SetString(T, s, x, v) ==
    IF ~IsTri(s.typ[x]) THEN TakeString(T, StringWithinRange(T, s, x, v), x, v)
    ELSE IF TriText(v) \in Tristate THEN SetTristate(T, s, x, TriText(v))
    ELSE [s |-> s, ok |-> FALSE]

Changable(s, x) == s.visible[x] > s.rev[x]

(* menu_is_visible, once the symbol is computed; [s, ok]. *)
RECURSIVE Visible(_, _, _), AnyVisible(_, _, _)

OrVisible(T, q, ms) == IF q.ok THEN q ELSE AnyVisible(T, q.s, ms)

AnyVisible(T, s, ms) ==
    IF ms = << >> THEN [s |-> s, ok |-> FALSE] ELSE OrVisible(T, Visible(T, s, ms[1]), Tail(ms))

SymVisible(T, s, m) ==
    LET x == T.node[m].sym
    IN IF s.ptri[T.node[m].prompt] # no \/ s.tri[x] = no
         THEN [s |-> s, ok |-> s.ptri[T.node[m].prompt] # no]
         ELSE AnyVisible(T, s, T.below[m])

PromptVisible(T, s, i) == [s |-> s, ok |-> Val(s, T.prop[i].vis) # no]

Visible(T, s, m) ==
    LET n == T.node[m]
    IN IF n.prompt = 0 THEN [s |-> s, ok |-> FALSE]
       ELSE IF n.sym = "" THEN PromptVisible(T, CalcExpr(T, s, T.prop[n.prompt].vis), n.prompt)
       ELSE SymVisible(T, Calc(T, s, n.sym), m)

(* The menu with a page of its own that a menu lies in. *)
RECURSIVE ParentMenu(_, _)
ParentMenu(T, m) ==
    IF m = ROOT \/ (T.node[m].prompt # 0 /\ T.prop[T.node[m].prompt].type = "MENU")
      THEN m ELSE ParentMenu(T, T.node[m].parent)

-----------------------------------------------------------------------------
(* sym_check_deps, for every symbol after the tree is finished: no value   *)
(* may need itself.  Need(T, x) is what the check follows from x: a value  *)
(* of a choice stands for its choice, and a choice for all its values.     *)
Need(T, x) ==
    LET Of(y) == Range(SymsOf(T.rev[y])) \cup
                 UNION {Range(SymsOf(T.prop[i].vis)) \cup
                        (IF T.prop[i].type = "DEFAULT" /\ ~IsChoice(y)
                           THEN Range(SymsOf(T.prop[i].expr)) ELSE {}) :
                          i \in {i \in Range(T.of[y]) : T.prop[i].type \notin {"CHOICE", "SELECT"}}}
        Group(y) == IF IsChoiceValue(T, y) THEN T.choiceOf[y] ELSE y
        values == IF IsChoice(x) THEN Range(T.values[x]) ELSE {}
    IN {Group(y) : y \in Of(x) \cup (UNION {Of(v) : v \in values} \ {x})}

RECURSIVE NeedsAll(_, _, _)
NeedsAll(T, xs, done) ==
    IF xs \subseteq done THEN done
    ELSE NeedsAll(T, UNION {Need(T, x) : x \in xs \ done}, done \cup xs)

Acyclic(T) == \A x \in Symbols : x \notin NeedsAll(T, Need(T, x), {})
=============================================================================
