---------------------------- MODULE KconfigMconf ----------------------------
(***************************************************************************)
(* mconf (config/mconf.c): `make menuconfig'.  A frame of the stack is an  *)
(* open page ("page"), the list of a choice ("list") or the box of a text  *)
(* ("box"); each is drawn anew before every key, and what it shows decides *)
(* which keys do something.  Keys that do nothing are left out, and so is  *)
(* MENUCONFIG_MODE=single_menu.                                            *)
(***************************************************************************)
EXTENDS KconfigSession

(* build_conf: the items of a page, [s, items], each one with its tag:     *)
(* `m' a page, `t' a tristate or choice, `s' a text, `:' none of these.    *)
RECURSIVE Build(_, _, _), BuildAll(_, _, _, _)

(* The items of some menus, after those there are. *)
BuildAll(q, items, ms, current) ==
    LET Add(a) == BuildAll(a.s, items \o a.items, Tail(ms), current)
    IN IF ms = << >> THEN [s |-> q, items |-> items] ELSE Add(Build(q, ms[1], current))

Build(q, m, current) ==
    LET x == SymOf(m)
        prompt == Menu(m).prompt
        page == prompt # 0 /\ T.prop[prompt].type = "MENU"
        Item(tag) == <<[tag |-> tag, menu |-> m]>>
        Tag(b) == CASE x = "" -> IF page THEN "m" ELSE ":"
                    [] x # "" /\ IsChoiceValue(T, x) /\ b.tri[x] = yes -> ":"
                    [] OTHER -> IF IsTri(GetType(T, b, x)) THEN "t" ELSE "s"
        Chosen(b) == SelectSeq(T.below[m], LAMBDA c : SymOf(c) = b.val[x] /\ Visible(T, b, c).ok)
        (* A choice that is y, with the values that are chosen: only what  *)
        (* lies below the value.                                           *)
        Choice(b, chosen) ==
            LET items == Item(IF Changable(b, x) \/ chosen # << >> THEN "t" ELSE ":")
                below == IF b.tri[x] # yes THEN T.below[m]
                         ELSE IF chosen = << >> \/ T.below[Last(chosen)] = << >> THEN << >>
                         ELSE <<Last(chosen)>>
            IN BuildAll(b, items, below, current)
        Shown(b) ==
            IF x # "" /\ IsChoice(x) THEN Choice(b, Chosen(b))
            ELSE BuildAll(b, IF m # current THEN Item(Tag(b)) ELSE IF x = "" THEN << >> ELSE Item(":"),
                          IF m # current /\ page /\ Tag(b) # "s" THEN << >> ELSE T.below[m], current)
        With(v) == IF v.ok THEN Shown(v.s) ELSE [s |-> v.s, items |-> << >>]
    IN With(Visible(T, q, m))

-----------------------------------------------------------------------------
Page == At("mconf", "page")
Drawn == Build(s, Top.menu, Top.menu)

(* A key on a selected item with one of the tags. *)
Keys(tags) == UNION {{<<d.s, d.items[i].menu>> : i \in {i \in DOMAIN d.items : d.items[i].tag \in tags}} : d \in {Drawn}}

Edit(q) ==
    /\ edits < MaxEdits[ver] /\ edits' = edits + 1
    /\ s' = q
    /\ UNCHANGED <<menus, prog, opt, tmp, todo, disk, runs>>

(* Enter opens what the item stands for. *)
Enter ==
    /\ Page
    /\ \E k \in Keys({"m", "t", "s"}) :
         LET x == SymOf(k[2])
             at == CASE x = "" -> "page"
                     [] x # "" /\ IsChoice(x) /\ k[1].tri[x] = yes -> "list"
                     [] IsNumber(T.typ[x]) \/ T.typ[x] = "string" -> "box"
                     [] OTHER -> IF T.prop[Menu(k[2]).prompt].type = "MENU" THEN "page" ELSE ""
         IN at # "" /\ s' = k[1] /\ stack' = <<Frame(at, k[2])>> \o stack
    /\ UNCHANGED <<menus, prog, opt, tmp, todo, disk, runs, edits>>

(* y, n and m; y is tried as m where y cannot be had. *)
SetYes ==
    /\ Page
    /\ \E k \in Keys({"t"}) :
         LET x == SymOf(k[2])
             v == IF CanSet(T, k[1], x, yes) THEN yes ELSE mod
         IN CanSet(T, k[1], x, v) /\ Edit(SetTristate(T, k[1], x, v).s)
    /\ UNCHANGED stack

SetNoOrMod ==
    /\ Page
    /\ \E k \in Keys({"t"}), v \in {no, mod} :
         CanSet(T, k[1], SymOf(k[2]), v) /\ Edit(SetTristate(T, k[1], SymOf(k[2]), v).s)
    /\ UNCHANGED stack

(* The space bar. *)
ToggleItem ==
    /\ Page
    /\ \E k \in Keys({"t"}) : Edit(Toggle(T, k[1], SymOf(k[2])))
    /\ UNCHANGED stack

(* conf_choice: one of the visible values is selected. *)
Select ==
    /\ At("mconf", "list")
    /\ LET Put(r, c, v) == [s |-> v.s, list |-> IF v.ok THEN Append(r.list, c) ELSE r.list]
       IN \E d \in {Each(LAMBDA r, c : Put(r, c, Visible(T, r.s, c)), [s |-> s, list |-> << >>],
                         T.below[Top.menu])} :
            \E c \in Range(d.list) : SymOf(c) # "" /\ Edit(SetTristate(T, d.s, SymOf(c), yes).s)
    /\ Goto(<< >>)

(* conf_string: the text is taken, or the box stays. *)
Type ==
    /\ At("mconf", "box")
    /\ \E line \in Lines : \E w \in {SetString(T, s, SymOf(Top.menu), line)} : w.ok /\ Edit(w.s)
    /\ Goto(<< >>)

(* Escape or Exit, but from the main page. *)
Leave ==
    /\ At("mconf", "list") \/ At("mconf", "box") \/ (Page /\ Len(stack) > 1)
    /\ Goto(<< >>)
    /\ UNCHANGED <<menus, s, prog, opt, tmp, todo, disk, runs, edits>>

MainPage == Page /\ Len(stack) = 1

(* conf_load: what is there becomes the configuration, and something to be *)
(* saved under that name; asking for a file that is not there forgets that *)
(* anything has changed.                                                   *)
Load ==
    /\ MainPage
    /\ edits < MaxEdits[ver] /\ edits' = edits + 1
    /\ \E name \in User :
         IF file[name] = NoFile
           THEN s' = ReadMissing(s, TRUE) /\ UNCHANGED opt
           ELSE /\ s' = [ReadConfig(T, s, file[name]) EXCEPT !.changed = TRUE]
                /\ opt' = [opt EXCEPT !.name = name]
    /\ UNCHANGED <<menus, prog, stack, tmp, todo, disk, runs>>

(* conf_save *)
Save ==
    /\ MainPage
    /\ edits < MaxEdits[ver] /\ edits' = edits + 1
    /\ \E name \in User : stack' = <<Frame("write", name)>> \o stack
    /\ s' = Drawn.s
    /\ UNCHANGED <<menus, prog, opt, tmp, todo, disk, runs>>

(* Exit: what has changed is saved if the user says so, and auto.conf is   *)
(* written in any case.                                                    *)
Quit ==
    /\ MainPage
    /\ s' = Drawn.s
    /\ \E save \in IF s'.changed THEN BOOLEAN ELSE {FALSE} :
         stack' = (IF save THEN <<Frame("write", opt.name)>> ELSE << >>) \o <<Frame("split", 0)>>
    /\ UNCHANGED <<menus, prog, opt, tmp, todo, disk, runs, edits>>

StartMconf ==
    /\ prog = "off" /\ runs < MaxRuns[ver] /\ Acyclic(T)
    /\ prog' = "mconf" /\ runs' = runs + 1 /\ edits' = 0
    /\ s' = Read(".config")
    /\ stack' = <<Frame("page", ROOT)>> /\ opt' = NoOpt
    /\ UNCHANGED <<menus, tmp, todo, disk>>

MconfStep ==
    \/ Enter \/ SetYes \/ SetNoOrMod \/ ToggleItem \/ Select \/ Type \/ Leave
    \/ Load \/ Save \/ Quit
    \/ SaveStep("mconf") \/ CannotWrite("mconf")
=============================================================================
