---------------------------- MODULE KconfigMenu ----------------------------
(***************************************************************************)
(* The tree of menus (config/menu.c): what the statements of the menu      *)
(* files (Config.in, read by config/zconf.y) add to it, and menu_finalize, *)
(* which pushes conditions down the tree, collects what selects a symbol,  *)
(* and turns symbols that depend on the one before them into its submenu.  *)
(*                                                                         *)
(* The tree is a record T.  Menus and properties are numbered in the order *)
(* they are made, the root menu is 1, and 0 stands for NULL, "" for no     *)
(* symbol.  The properties of a symbol are those that name it, in order.   *)
(***************************************************************************)
EXTENDS KconfigExpr, TLC

CONSTANTS
    Symbols,       \* every symbol of the menu files, constants and choices too
    ChoiceSyms,    \* those that stand for choices
    StringValid(_, _)   \* sym_string_valid of a type and a text

Modules == "<modules>"

ROOT == 1

(* zconf_conf_parse up to zconfparse: only the root menu, with its prompt. *)
MenuInit ==
    [node |-> <<[sym |-> "", prompt |-> 1, dep |-> NULL, parent |-> 0, list |-> 0, next |-> 0]>>,
     prop |-> <<[sym |-> "", type |-> "MENU", text |-> TRUE, vis |-> NULL, expr |-> NULL, menu |-> ROOT]>>,
     typ |-> [x \in Symbols |-> IF x = Modules THEN "boolean" ELSE "unknown"],
     rev |-> [x \in Symbols |-> NULL],
     choiceOf |-> [x \in Symbols |-> ""],
     values |-> [x \in ChoiceSyms |-> << >>],
     optional |-> {}, auto |-> {Modules}, defconfig |-> "",
     cur |-> ROOT, menu |-> ROOT, last |-> <<ROOT, "list">>]

PropAlloc(T, p) == [T EXCEPT !.prop = Append(@, p)]

AddEntry(T, x) ==
    LET n == Len(T.node) + 1
        node == Append(T.node, [sym |-> x, prompt |-> 0, dep |-> NULL,
                                parent |-> T.menu, list |-> 0, next |-> 0])
    IN [T EXCEPT !.node = [node EXCEPT ![T.last[1]][T.last[2]] = n],
                 !.last = <<n, "next">>, !.cur = n]

AddMenu(T) == [T EXCEPT !.last = <<T.cur, "list">>, !.menu = T.cur]

EndMenu(T) == [T EXCEPT !.last = <<T.menu, "next">>, !.menu = T.node[T.menu].parent]

(* A bare 'm' means 'm' && MODULES. *)
RECURSIVE CheckDep(_)
CheckDep(e) ==
    CASE e.type = "NOT" -> Not(CheckDep(e.left))
      [] IsTree(e) -> Two(e.type, CheckDep(e.left), CheckDep(e.right))
      [] e = Sy("m") -> AllocAnd(e, Sy(Modules))
      [] OTHER -> e

AddDep(T, e) == [T EXCEPT !.node[T.cur].dep = AllocAnd(@, CheckDep(e))]

SetTypeOf(T, x, t) == IF T.typ[x] = "unknown" THEN [T EXCEPT !.typ[x] = t] ELSE T
SetType(T, t) == SetTypeOf(T, T.node[T.cur].sym, t)

AddProp(T, type, text, e, dep) ==
    LET A == PropAlloc(T, [sym |-> T.node[T.cur].sym, type |-> type, text |-> text,
                           vis |-> CheckDep(dep), expr |-> e, menu |-> T.cur])
    IN IF text THEN [A EXCEPT !.node[T.cur].prompt = Len(A.prop)] ELSE A

(* option modules, option defconfig_list, and option env of a variable     *)
(* that is set to a value (constant symbols are named by their text).      *)
AddOption(T, o) ==
    LET x == T.node[T.cur].sym
        Default(y, v) == [sym |-> y, type |-> "DEFAULT", text |-> FALSE,
                          vis |-> NULL, expr |-> Sy(v), menu |-> 0]
    IN CASE o.option = "modules" -> PropAlloc(T, Default(Modules, x))
         [] o.option = "defconfig_list" -> [T EXCEPT !.defconfig = IF @ = "" THEN x ELSE @]
         [] o.option = "env" -> PropAlloc([T EXCEPT !.auto = @ \cup {x}], Default(x, o.value))

(* One statement of a menu file, as the grammar's action handles it. *)
Statement(T, st) ==
    CASE st.do = "config" -> AddEntry([T EXCEPT !.optional = @ \cup {st.sym}], st.sym)
      [] st.do = "choice" ->
           AddProp(AddEntry([T EXCEPT !.auto = @ \cup {st.sym}], st.sym), "CHOICE", FALSE, NULL, NULL)
      [] st.do = "menu" -> AddProp(AddEntry(T, ""), "MENU", TRUE, NULL, NULL)
      [] st.do = "comment" -> AddProp(AddEntry(T, ""), "COMMENT", TRUE, NULL, NULL)
      [] st.do = "if" -> AddMenu(AddDep(AddEntry(T, ""), st.dep))
      [] st.do = "open" -> AddMenu(T)
      [] st.do = "end" -> EndMenu(T)
      [] st.do = "type" -> SetType(T, st.type)
      [] st.do = "prompt" -> AddProp(T, "PROMPT", TRUE, NULL, st.dep)
      [] st.do = "default" -> AddProp(T, "DEFAULT", FALSE, st.expr, st.dep)
      [] st.do = "select" -> AddProp(T, "SELECT", FALSE, Sy(st.sym), st.dep)
      [] st.do = "range" -> AddProp(T, "RANGE", FALSE, Comp("RANGE", st.low, st.high), st.dep)
      [] st.do = "depends" -> AddDep(T, st.dep)
      [] st.do = "optional" -> [T EXCEPT !.optional = @ \cup {T.node[T.cur].sym}]
      [] st.do = "option" -> AddOption(T, st)
      [] st.do = "menuconfig" -> [T EXCEPT !.prop[T.node[T.cur].prompt].type = "MENU"]

-----------------------------------------------------------------------------
IsChoice(x) == x \in ChoiceSyms
IsChoiceValue(T, x) == T.choiceOf[x] # ""
PropsOf(T, x) == SelectSeq([i \in 1..Len(T.prop) |-> i], LAMBDA i : T.prop[i].sym = x)

RECURSIVE Chain(_, _)
Chain(T, m) == IF m = 0 THEN << >> ELSE <<m>> \o Chain(T, T.node[m].next)
Children(T, p) == Chain(T, T.node[p].list)

(* A choice takes the type of its first typed value, and gives it to the   *)
(* values that have none.                                                  *)
ChoiceTypes(T, p) ==
    LET x == T.node[p].sym
        typed == SelectSeq(Children(T, p), LAMBDA m :
                            T.node[m].sym # "" /\ T.typ[T.node[m].sym] # "unknown")
        A == IF typed = << >> THEN T ELSE SetTypeOf(T, x, T.typ[T.node[typed[1]].sym])
        Give(B, m) == IF B.node[m].sym = "" THEN B ELSE SetTypeOf(B, B.node[m].sym, A.typ[x])
    IN Each(Give, A, Children(A, p))

ParentDep(T, p) ==
    LET n == T.node[p]
    IN IF n.sym # "" /\ IsChoice(n.sym) THEN Sy(n.sym)
       ELSE IF n.prompt # 0 THEN T.prop[n.prompt].vis ELSE n.dep

(* A property of menu m gets the menu's condition too; a select becomes    *)
(* part of what the selected symbol depends on in reverse.                 *)
PushToProp(T, m, i) ==
    LET x == T.node[m].sym
        Shown(e) == IF x # "" /\ T.typ[x] # "tristate" THEN TransBool(T.typ, e) ELSE e
        With(vis) == LET A == [T EXCEPT !.prop[i].vis = vis]
                     IN IF T.prop[i].type # "SELECT" THEN A
                        ELSE [A EXCEPT !.rev[T.prop[i].expr.sym] = AllocOr(@, AllocAnd(Sy(x), vis))]
    IN With(Shown(EliminateDups(T.typ, AllocAnd(T.node[m].dep, Transform(T.typ, T.prop[i].vis)))))

RECURSIVE PushToProps(_, _, _), PushDown(_, _, _)

PushToProps(T, m, props) ==
    IF props = << >> THEN T ELSE PushToProps(PushToProp(T, m, props[1]), m, Tail(props))

(* The children of p get its condition, and with it their properties. *)
PushDown(T, p, ms) ==
    LET m == ms[1]
        n == T.node[m]
        own == IF n.sym = "" THEN IF n.prompt = 0 THEN << >> ELSE <<n.prompt>>
               ELSE SelectSeq(PropsOf(T, n.sym), LAMBDA i : T.prop[i].menu = m)
        dep == EliminateDups(T.typ, AllocAnd(ParentDep(T, p), Transform(T.typ, n.dep)))
    IN IF ms = << >> THEN T
       ELSE PushDown(PushToProps([T EXCEPT !.node[m].dep = dep], m, own), p, Tail(ms))

CondOf(T, m) == IF T.node[m].prompt # 0 THEN T.prop[T.node[m].prompt].vis ELSE T.node[m].dep

(* That a condition is not n, in the simple form. *)
WhenNotNo(T, e) == EliminateDups(T.typ, Transform(T.typ, TransCompare(e, "UNEQUAL", "n")))

(* Menu m belongs below the symbol of p, whose condition is basedep: it    *)
(* depends on the symbol, or mentions it and is hidden with it.            *)
GoesBelow(T, p, m, basedep) ==
    LET e == CondOf(T, m)
        x == T.node[p].sym
    IN /\ ContainsSymbol(e, x)
       /\ \/ DependsSymbol(e, x)
          \/ IsYes(EliminateEq(WhenNotNo(T, e), basedep)[2])

(* A child of a choice becomes one of its values. *)
MakeValue(T, p, m) ==
    LET x == T.node[p].sym
        v == T.node[m].sym
        on == Comp("EQUAL", x, "y")
        A == IF T.typ[x] = "tristate" /\ T.typ[v] # "tristate"
               THEN [T EXCEPT !.node[m].dep = AllocAnd(on, @),
                      !.prop = [i \in DOMAIN @ |->
                                  IF @[i].sym = v /\ @[i].menu = m
                                    THEN [@[i] EXCEPT !.vis = AllocAnd(on, @)] ELSE @[i]]]
               ELSE T
        B == AddProp([A EXCEPT !.cur = m], "CHOICE", FALSE, Sy(x), NULL)
    IN [B EXCEPT !.choiceOf[v] = x, !.values[x] = Append(@, v)]

(* The children of a menu without a prompt take its place after it. *)
Splice(T, p, m) ==
    LET c == Children(T, m)
        A == [T EXCEPT !.node = [i \in DOMAIN @ |->
                IF i \in Range(c) THEN [@[i] EXCEPT !.parent = p] ELSE @[i]]]
    IN [A EXCEPT !.node[c[Len(c)]].next = T.node[m].next,
                 !.node[m].next = c[1], !.node[m].list = 0]

RECURSIVE Finalize(_, _), FinalizeChain(_, _), Gather(_, _, _, _, _), Settle(_, _, _)

FinalizeChain(T, m) ==
    LET Next(A) == FinalizeChain(A, A.node[m].next)
    IN IF m = 0 THEN T ELSE Next(Finalize(T, m))

(* Take the menus that follow p below it while they belong there. *)
Gather(T, p, m, basedep, last) ==
    LET Next(A) == Gather([A EXCEPT !.node[m].parent = p], p, A.node[m].next, basedep, m)
    IN IF m # 0 /\ GoesBelow(T, p, m, basedep) THEN Next(Finalize(T, m))
       ELSE IF last = 0 THEN T
       ELSE [T EXCEPT !.node[p].list = T.node[p].next,
                      !.node[p].next = T.node[last].next,
                      !.node[last].next = 0]

Settle(T, p, m) ==
    LET x == T.node[p].sym
        v == T.node[m].sym
        Spliced(A) == IF A.node[m].list # 0 /\ A.node[m].prompt = 0 THEN Splice(A, p, m) ELSE A
        Next(A) == Settle(A, p, A.node[m].next)
    IN IF m = 0 THEN T
       ELSE Next(Spliced(IF x # "" /\ IsChoice(x) /\ v # "" /\ ~IsChoiceValue(T, v)
                           THEN MakeValue(T, p, m) ELSE T))

(* What lies below p: its children finished, or the menus that follow it.  *)
Arranged(T, p) ==
    LET x == T.node[p].sym
        base == WhenNotNo(T, IF T.node[p].prompt # 0 THEN T.prop[T.node[p].prompt].vis ELSE NULL)
        Typed == IF x # "" /\ IsChoice(x) THEN ChoiceTypes(T, p) ELSE T
        Finished(A) == FinalizeChain(A, A.node[p].list)
    IN CASE T.node[p].list # 0 -> Finished(PushDown(Typed, p, Children(T, p)))
         [] T.node[p].list = 0 /\ x # "" -> Gather(T, p, T.node[p].next, base, 0)
         [] OTHER -> T

(* A symbol that must have a value can be seen as no less than m. *)
Required(T, p) ==
    LET x == T.node[p].sym
    IN IF x # "" /\ x \notin T.optional /\ T.node[p].prompt # 0
         THEN [T EXCEPT !.rev[x] = AllocOr(@, AllocAnd(T.prop[T.node[p].prompt].vis, Sy("m")))]
         ELSE T

Finalize(T, p) ==
    LET Settled(A) == Settle(A, p, A.node[p].list)
    IN Required(Settled(Arranged(T, p)), p)

-----------------------------------------------------------------------------
(* The symbols a statement looks up. *)
Mentioned(st) ==
    LET Field(f) == IF f \in DOMAIN st THEN Range(SymsOf(st[f])) ELSE {}
        Name(f) == IF f \in DOMAIN st THEN {st[f]} ELSE {}
    IN Field("dep") \cup Field("expr") \cup Name("sym") \cup Name("low") \cup Name("high")

(* The properties of every symbol and the children of every menu, once the *)
(* tree is finished.                                                       *)
Indexed(T) ==
    T @@ [of |-> [x \in Symbols |-> PropsOf(T, x)],
          below |-> [m \in DOMAIN T.node |-> Children(T, m)]]

(* conf_parse: read the statements, and finish the tree. *)
Parsed(statements) ==
    LET A == Each(Statement, MenuInit, statements)
        B == IF PropsOf(A, Modules) # << >> THEN A
             ELSE PropAlloc(A, [sym |-> Modules, type |-> "DEFAULT", text |-> FALSE,
                                vis |-> NULL, expr |-> Sy("MODULES"), menu |-> 0])
        seen == UNION {Mentioned(statements[i]) : i \in DOMAIN statements}
    IN Indexed(Finalize(B, ROOT)) @@ [known |-> seen \cup {Modules, "MODULES"}]
=============================================================================
