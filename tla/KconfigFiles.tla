---------------------------- MODULE KconfigFiles ----------------------------
(***************************************************************************)
(* The files of the configuration (config/confdata.c): .config, which the  *)
(* user saves, and auto.conf, which records what the tree was last built   *)
(* with.  A file is a sequence of lines [sym, text, quoted]; the line      *)
(* "# X is not set" has the text "unset".  Writing escapes quotes and      *)
(* backslashes within a quoted text and reading drops the escapes, so a    *)
(* text stands for itself.                                                 *)
(***************************************************************************)
EXTENDS KconfigSymbol

CONSTANT Order   \* the symbols in the order of symbol_hash

Line(x, v, q) == [sym |-> x, text |-> v, quoted |-> q]
NoFile == <<Line("<none>", "", FALSE)>>

(* for_all_symbols *)
All(s) == SelectSeq(Order, LAMBDA x : x \in s.known \ Constants /\ s.typ[x] # "other")

Warn(s) == [s EXCEPT !.warned = TRUE]

(* conf_set_sym_val; [s, skip], skip when the line is not looked at again. *)
SetSymVal(s, def, ln) ==
    LET x == ln.sym
        Tri(v) == [s EXCEPT !.dtri[def][x] = v, !.has[def] = @ \cup {x}]
        Txt(q) == [q EXCEPT !.dval[def][x] = ln.text, !.has[def] = @ \cup {x}]
        Done(q) == [s |-> q, skip |-> FALSE]
        Skip == [s |-> Warn(s), skip |-> TRUE]
        t == s.typ[x]
        legal == ~ln.quoted /\ ln.text \in IF t = "tristate" THEN {"y", "m", "n"} ELSE {"y", "n"}
    IN CASE IsTri(t) -> Done(IF legal THEN Tri(TriOf[ln.text]) ELSE Warn(s))
         [] t = "other" /\ ~ln.quoted -> Done(Txt([s EXCEPT !.typ[x] = "string"]))
         [] t = "other" /\ ln.quoted -> Skip
         [] t = "string" -> Done(IF ln.quoted THEN Txt(s) ELSE s)
         [] IsNumber(t) -> IF ~ln.quoted /\ StringValid(t, ln.text) THEN Done(Txt(s)) ELSE Skip
         [] OTHER -> Done(s)

(* A value of a choice that is read decides for the choice as well. *)
ReadChoice(T, s, def, x) ==
    LET c == T.choiceOf[x]
        v == s.dtri[def][x]
        clash == v = mod /\ s.dtri[def][c] = yes
        A == CASE clash -> [Warn(s) EXCEPT !.has[def] = @ \ {c}]
               [] v = yes -> [(IF s.dtri[def][c] # no THEN Warn(s) ELSE s) EXCEPT !.dval[def][c] = x]
               [] OTHER -> s
    IN [A EXCEPT !.dtri[def][c] = EXPR_OR(@, v)]

ReadLine(T, s, def, ln) ==
    LET x == ln.sym
        unset == ln.text = "unset"
        A == IF s.typ[x] # "unknown" THEN s
             ELSE [s EXCEPT !.typ[x] = IF unset THEN "boolean" ELSE "other"]
        B == IF def = "user" THEN s ELSE [A EXCEPT !.known = @ \cup {x}]
        C == IF x \in B.has[def] THEN Warn(B) ELSE B
        D == IF ~unset THEN SetSymVal(C, def, ln)
             ELSE [s |-> IF IsTri(C.typ[x]) THEN [C EXCEPT !.dtri[def][x] = no, !.has[def] = @ \cup {x}]
                         ELSE C,
                   skip |-> FALSE]
    IN CASE def = "user" /\ x \notin s.known -> [s EXCEPT !.changed = TRUE]
         [] ~(def = "user" /\ x \notin s.known) /\ ~D.skip /\ IsChoiceValue(T, x) -> ReadChoice(T, D.s, def, x)
         [] OTHER -> D.s

(* conf_read_simple of a file that could be opened: what was known of the  *)
(* values is forgotten, then every line sets one.                          *)
ReadSimple(T, s, def, lines) ==
    LET all == Range(All(s))
        A == [s EXCEPT !.warned = FALSE, !.unsaved = FALSE,
                       !.valid = @ \ all,
                       !.has[def] = (@ \ all) \cup {x \in all : IsChoice(x)},
                       !.dval[def] = [x \in Symbols |-> IF x \in all THEN NoText ELSE @[x]],
                       !.dtri[def] = [x \in Symbols |-> IF x \in all THEN no ELSE @[x]]]
    IN Calc(T, Each(LAMBDA q, ln : ReadLine(T, q, def, ln), A, lines), Modules)

(* The value read is the value computed, or the symbol is neither read nor *)
(* to be written.                                                          *)
Agrees(T, s, x) ==
    \/ IsChoice(x) \/ x \in T.auto
    \/ /\ x \in s.has.user /\ x \in s.write
       /\ IF IsTri(s.typ[x]) THEN s.dtri.user[x] = s.tri[x] ELSE s.val[x] = s.dval.user[x]
    \/ x \notin s.has.user /\ x \notin s.write

(* Every value is computed, and compared with the one that was read; a     *)
(* choice with a visible value that the file does not name is new.         *)
CheckRead(T, s, x) ==
    LET Noted(A) == IF Agrees(T, A, x) THEN A ELSE [A EXCEPT !.unsaved = TRUE]
        New(A) == IsChoice(x) /\ \E v \in Range(T.values[x]) : A.visible[v] # no /\ v \notin A.has.user
        Kept(A) == IF New(A) THEN [A EXCEPT !.has.user = @ \ {x}] ELSE A
    IN Kept(Noted(Calc(T, s, x)))

(* A value that is not visible is forgotten, but only while the file tells *)
(* nothing new; so is one that is out of its range.                        *)
ResetRead(T, s, x) ==
    LET A == IF s.visible[x] = no /\ ~s.unsaved THEN [s EXCEPT !.has.user = @ \ {x}] ELSE s
        With(w) == IF w.ok THEN w.s
                   ELSE [w.s EXCEPT !.valid = @ \ {x}, !.has.user = @ \ {x}, !.unsaved = TRUE, !.dropped = TRUE]
    IN IF x \notin s.has.user \/ IsChoiceValue(T, x) THEN s
       ELSE IF IsTri(s.typ[x]) THEN A
       ELSE With(StringWithinRange(T, A, x, A.dval.user[x]))

(* conf_read of a file that could be opened. *)
ReadConfig(T, s, lines) ==
    LET A == [s EXCEPT !.changed = FALSE, !.dropped = FALSE]
        Check(B) == Each(LAMBDA q, x : CheckRead(T, q, x), B, All(B))
        Reset(B) == Each(LAMBDA q, x : ResetRead(T, q, x), B, All(B))
        Told(B) == [B EXCEPT !.changed = @ \/ B.warned \/ B.unsaved]
    IN Told(Reset(Check(ReadSimple(T, A, "user", lines))))

(* conf_read of a name that no file has, and of no name when there is no   *)
(* .config (defconfig_list names no file that exists).                     *)
ReadMissing(s, named) == [s EXCEPT !.changed = ~named]

-----------------------------------------------------------------------------
RECURSIVE Preorder(_, _)
Preorder(T, ms) ==
    IF ms = << >> THEN << >>
    ELSE <<ms[1]>> \o Preorder(T, T.below[ms[1]]) \o Preorder(T, Tail(ms))

LineOf(s, x) ==
    CASE IsTri(s.typ[x]) -> Line(x, IF s.tri[x] = no THEN "unset" ELSE NameOf[s.tri[x]], FALSE)
      [] s.typ[x] = "string" -> Line(x, s.val[x], TRUE)
      [] OTHER -> Line(x, s.val[x], FALSE)

(* Mutant: only what still has its flag is written, changed or not. *)
WriteOnce(T, s) ==
    LET Put(q, x) == IF x \notin q.s.write THEN q
                     ELSE [s |-> [q.s EXCEPT !.write = @ \ {x}], lines |-> Append(q.lines, LineOf(q.s, x))]
        Visit(q, m) == LET x == T.node[m].sym
                       IN IF x = "" \/ IsChoice(x) THEN q ELSE Put([q EXCEPT !.s = Calc(T, @, x)], x)
    IN Each(Visit, [s |-> s, lines |-> << >>], Preorder(T, T.below[ROOT]))

(* conf_write: the lines, in the order of the menus, and the symbols after *)
(* them.  The WRITE flag of a written symbol is cleared, so that it is not *)
(* written again for a second menu entry.                                  *)
WriteConfig(T, s) ==
    LET Put(q, x) == [s |-> q.s, lines |-> IF q.s.typ[x] = "unknown" THEN q.lines
                                           ELSE Append(q.lines, LineOf(q.s, x))]
        Cleared(A, x) == [A EXCEPT !.write = @ \ {x}]
        Modular(A, x) == IF s.typ[x] = "tristate" THEN Calc(T, A, Modules) ELSE A
        With(A, x, lines) == IF x \notin A.write THEN [s |-> A, lines |-> lines]
                             ELSE Put([s |-> Modular(Cleared(A, x), x), lines |-> lines], x)
        Visit(q, m) ==
            LET x == T.node[m].sym
            IN CASE x = "" -> [q EXCEPT !.s = Visible(T, q.s, m).s]
                 [] x # "" /\ IsChoice(x) -> q
                 [] OTHER -> With(Calc(T, q.s, x), x, q.lines)
    IN Each(Visit, [s |-> IF s.changed THEN s ELSE ClearAllValid(T, s), lines |-> << >>],
            Preorder(T, T.below[ROOT]))

(* Mutant: the values are compared, but not that a symbol is gone. *)
TouchesWritten(T, s, x) ==
    x \in s.write /\ x \notin T.auto /\ s.tri[x] # s.dtri.auto[x]

(* The symbols whose header conf_split_config touches: those whose value   *)
(* is not what auto.conf says, for those that are written now; those that  *)
(* auto.conf names, for the rest.                                          *)
Touches(T, s, x) ==
    /\ x \notin T.auto
    /\ IF x \notin s.write THEN x \in s.has.auto
       ELSE IF IsTri(s.typ[x]) THEN s.tri[x] # IF x \in s.has.auto THEN s.dtri.auto[x] ELSE no
       ELSE x \notin s.has.auto \/ s.val[x] # s.dval.auto[x]

CalcAll(T, s) == CalcSeq(T, s, All(s))

(* conf_write_autoconf up to its first touch: read auto.conf, if there is  *)
(* one, and compute every value.                                           *)
BeginAutoconf(T, s, lines) ==
    LET A == ClearAllValid(T, s)
    IN CalcAll(T, IF lines = NoFile THEN A ELSE ReadSimple(T, A, "auto", lines))

(* Mutant: symbols that .config has no line for are built all the same. *)
EveryLine(T, s) ==
    LET put == SelectSeq(All(s), LAMBDA x : s.typ[x] # "unknown" /\ ~(IsTri(s.typ[x]) /\ s.tri[x] = no))
    IN [i \in DOMAIN put |-> LineOf(s, put[i])]

(* The lines of the new auto.conf: no line for what is n. *)
AutoconfLines(T, s) ==
    LET put == SelectSeq(All(s), LAMBDA x :
                  x \in s.write /\ s.typ[x] # "unknown" /\ ~(IsTri(s.typ[x]) /\ s.tri[x] = no))
    IN [i \in DOMAIN put |-> LineOf(s, put[i])]

(* conf_set_all_new_symbols; pick and at give the random values and the    *)
(* random places in the choices.                                           *)
SetAllNew(T, s, mode, pick, at) ==
    LET new == {x \in Range(All(s)) : x \notin s.has.user /\ IsTri(s.typ[x])}
        To(x) == CASE mode = "yes" -> yes [] mode = "mod" -> mod [] mode = "no" -> no [] OTHER -> pick[x]
        A == IF mode = "default" THEN s
             ELSE [s EXCEPT !.dtri.user = [x \in Symbols |-> IF x \in new THEN To(x) ELSE @[x]],
                            !.has.user = @ \cup {x \in new : ~(IsChoice(x) /\ mode = "random")}]
        Member(c) == T.values[c][(at[c] % Len(T.values[c])) + 1]
        Take(B, c) == IF B.tri[c] # yes THEN B
                      ELSE [B EXCEPT !.dtri.user = [x \in Symbols |->
                                IF x \in Range(T.values[c]) THEN IF x = Member(c) THEN yes ELSE no ELSE @[x]],
                              !.dval.user[c] = Member(c), !.has.user = @ \cup {c}, !.valid = @ \ {c}]
        PickOne(q, c) == IF c \in q.has.user \/ ~IsChoice(c) THEN q ELSE Take(Calc(T, q, c), c)
        Random(C) == Each(PickOne, C, All(C))
    IN IF mode # "random" THEN ClearAllValid(T, A) ELSE Random(ClearAllValid(T, A))
=============================================================================
