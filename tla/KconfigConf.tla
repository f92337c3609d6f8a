----------------------------- MODULE KconfigConf -----------------------------
(***************************************************************************)
(* conf (config/conf.c): oldconfig and its relatives, which ask for the    *)
(* symbols line by line.  A frame of the stack is a call of conf,          *)
(* check_conf, conf_sym, conf_string or conf_choice, or the point within   *)
(* one at which it goes on.  A question is answered by any line that it    *)
(* takes; after any other line it is asked again, and nothing changes.     *)
(***************************************************************************)
EXTENDS KconfigSession

CONSTANTS
    Places,     \* answers to the question of a choice: places in its list
    Picks       \* what rand gives the symbols, and what it gives the choices

Set(q) == /\ s' = q
          /\ UNCHANGED <<menus, prog, tmp, todo, disk, runs, edits>>
Quiet == UNCHANGED opt

(* conf_askvalue asks for what can be changed, and, but when everything is *)
(* asked for, has no value.  Without a terminal conf -s ends instead.      *)
Asks(q, x) == Changable(q, x) /\ (opt.mode = "ask_all" \/ x \notin q.has.user)
NoTerminal == opt.sync /\ opt.tty = FALSE

(* conf(menu) *)
Conf ==
    /\ At("conf", "conf")
    /\ LET m == Top.menu
           x == SymOf(m)
           page == Menu(m).prompt # 0 /\ T.prop[Menu(m).prompt].type = "MENU"
       IN \E v \in {Visible(T, s, m)} :
          /\ Set(v.s)
          /\ CASE ~v.ok -> Goto(<< >>)
               [] v.ok /\ page /\ opt.mode = "ask_silent" /\ opt.root # m -> Goto(<<Frame("check", m)>>)
               [] OTHER ->
                    Goto(CASE x = "" -> Frames("conf", T.below[m])
                           [] x # "" /\ IsChoice(x) -> <<Frame("choice", m), Frame("after", m)>>
                           [] IsNumber(T.typ[x]) \/ T.typ[x] = "string" ->
                                <<Frame("string", m)>> \o Frames("conf", T.below[m])
                           [] OTHER -> <<Frame("sym", m)>> \o Frames("conf", T.below[m]))
    /\ Quiet

(* A choice's values are asked for one by one when it is m. *)
AfterChoice ==
    /\ At("conf", "after")
    /\ Goto(IF s.tri[SymOf(Top.menu)] = mod THEN Frames("conf", T.below[Top.menu]) ELSE << >>)
    /\ Set(s) /\ Quiet

(* Mutant: what an answer brings up is not looked for again. *)
CheckOnce ==
    /\ At("conf", "check")
    /\ \E v \in {Visible(T, s, Top.menu)} :
         Set(v.s) /\ Goto(IF v.ok THEN Frames("check", T.below[Top.menu]) ELSE << >>)
    /\ Quiet

(* check_conf(menu): start anew at the menu of a symbol without a value.   *)
CheckConf ==
    /\ At("conf", "check")
    /\ LET m == Top.menu
           x == SymOf(m)
           New(q) == /\ x # "" /\ x \notin q.has.user
                     /\ Changable(q, x) \/ (IsChoice(x) /\ q.tri[x] = yes)
       IN \E v \in {Visible(T, s, m)} :
          /\ Set(v.s)
          /\ IF v.ok /\ New(v.s)
               THEN /\ opt' = [opt EXCEPT !.cnt = TRUE, !.root = ParentMenu(T, m)]
                    /\ Goto(<<Frame("conf", opt'.root), Frame("rest", m)>>)
               ELSE /\ Goto(IF v.ok THEN Frames("check", T.below[m]) ELSE << >>)
                    /\ UNCHANGED opt

CheckRest ==
    /\ At("conf", "rest")
    /\ Goto(Frames("check", T.below[Top.menu]))
    /\ Set(s) /\ Quiet

(* Leave a question that is not asked, or ask it in vain. *)
NotAsked ==
    /\ At("conf", "sym") \/ At("conf", "string")
    /\ ~Asks(s, SymOf(Top.menu))
    /\ Goto(<< >>)
    /\ Set(s) /\ Quiet

(* conf_string: the value is set, or the question is asked again. *)
AnswerString ==
    /\ At("conf", "string") /\ Asks(s, SymOf(Top.menu)) /\ ~NoTerminal
    /\ \E line \in Lines \ {"?"} :
         LET x == SymOf(Top.menu)
         IN \E w \in {SetString(T, s, x, IF line = "" THEN StringValue(s, x) ELSE line)} : w.ok /\ Set(w.s)
    /\ Goto(<< >>) /\ Quiet

(* conf_sym *)
AnswerSym ==
    /\ At("conf", "sym") /\ Asks(s, SymOf(Top.menu)) /\ ~NoTerminal
    /\ \E line \in {line \in Lines : line = "" \/ TriText(line) \in Tristate} :
         LET x == SymOf(Top.menu)
         IN \E w \in {SetTristate(T, s, x, IF line = "" THEN s.tri[x] ELSE TriText(line))} : w.ok /\ Set(w.s)
    /\ Goto(<< >>) /\ Quiet

(* conf_choice: ask for the choice itself if it can be changed, then for   *)
(* one of its values unless it is n or m.  It is new when it was so before.*)
Choice ==
    /\ At("conf", "choice")
    /\ LET x == SymOf(Top.menu)
           pick == Frame(IF x \in s.has.user THEN "pick" ELSE "pick_new", Top.menu)
       IN Goto(IF Changable(s, x) THEN <<Frame("sym", Top.menu), pick>> ELSE <<pick>>)
    /\ Set(s) /\ Quiet

(* The visible values, [s, list]. *)
Listed(q, m) ==
    LET Put(p, c, v) == [s |-> v.s, list |-> IF v.ok /\ SymOf(c) # "" THEN Append(p.list, c) ELSE p.list]
    IN Each(LAMBDA p, c : Put(p, c, Visible(T, p.s, c)), [s |-> q, list |-> << >>], T.below[m])

(* The question is asked of a choice that is new, or of every one, unless  *)
(* only one value is visible; otherwise the choice keeps its value.        *)
Pick ==
    /\ At("conf", "pick") \/ At("conf", "pick_new")
    /\ LET x == SymOf(Top.menu)
       IN \E q \in {Calc(T, s, x)}, k \in {Listed(s, Top.menu)} :
            LET def == SelectInSeq(k.list, LAMBDA c : SymOf(c) = q.val[x])
                asked == Len(k.list) # 1 /\ (opt.mode = "ask_all" \/ Top.at = "pick_new")
                places == IF asked THEN Places \cup {def} ELSE {IF Len(k.list) = 1 THEN 1 ELSE def}
            IN IF q.tri[x] # yes THEN Set(q) /\ Goto(<< >>)
               ELSE /\ asked => ~NoTerminal
                    /\ \E i \in places \cap DOMAIN k.list :
                         /\ Set(SetTristate(T, k.s, SymOf(k.list[i]), yes).s)
                         /\ Goto(Frames("conf", T.below[k.list[i]]))
    /\ Quiet

(* check_stdin: conf -s has nobody to ask. *)
Aborted ==
    /\ NoTerminal
    /\ \/ (At("conf", "sym") \/ At("conf", "string")) /\ Asks(s, SymOf(Top.menu))
       \/ /\ At("conf", "pick_new")
          /\ LET q == Calc(T, s, SymOf(Top.menu))
             IN q.tri[SymOf(Top.menu)] = yes /\ Len(Listed(q, Top.menu).list) # 1
    /\ End
    /\ UNCHANGED <<menus, disk, runs, edits>>

(* do { conf_cnt = 0; check_conf(&rootmenu); } while (conf_cnt), and then  *)
(* what is saved: conf -s leaves .config alone if nothing changed.         *)
Update ==
    /\ At("conf", "update")
    /\ opt' = [opt EXCEPT !.mode = "ask_silent", !.cnt = FALSE]
    /\ Goto(<<Frame("check", ROOT), Frame("again", ROOT)>>)
    /\ Set(s)

Again ==
    /\ At("conf", "again")
    /\ Goto(IF opt.cnt THEN <<Frame("update", ROOT)>>
            ELSE IF opt.sync /\ ~s.changed THEN <<Frame("split", 0)>>
            ELSE <<Frame("write", ".config"), Frame("split", 0)>>)
    /\ Set(s) /\ Quiet

-----------------------------------------------------------------------------
Begin(q, frames, o) ==
    /\ prog = "off" /\ runs < MaxRuns[ver] /\ Acyclic(T)
    /\ prog' = "conf" /\ runs' = runs + 1 /\ edits' = 0
    /\ s' = q /\ stack' = frames /\ opt' = o
    /\ UNCHANGED <<menus, tmp, todo, disk>>

(* conf, conf -o, conf -s: read .config and ask.  conf -s wants a .config, *)
(* and with KCONFIG_NOSILENTUPDATE one that is up to date.                 *)
StartAsking ==
    \E mode \in {"ask_all", "ask_silent"}, sync, tty, strict \in BOOLEAN, q \in {Read(".config")} :
      /\ sync => mode = "ask_silent" /\ file[".config"] # NoFile /\ ~(strict /\ q.changed)
      /\ ~sync => tty /\ ~strict
      /\ Begin(q, IF mode = "ask_all" THEN <<Frame("conf", ROOT), Frame("update", ROOT)>>
                  ELSE <<Frame("update", ROOT)>>,
               [mode |-> mode, root |-> ROOT, cnt |-> FALSE, sync |-> sync, tty |-> tty,
                name |-> ".config"])

(* conf -n, -m, -y, -r, and -D with the alternate file: no question.       *)
StartSetting ==
    \E mode \in {"no", "mod", "yes", "random", "default"},
       r \in Picks :
      LET q == IF mode = "default" THEN Read("other") ELSE Fresh(T)
      IN /\ mode = "default" => file["other"] # NoFile
         /\ mode # "random" => r = CHOOSE first \in Picks : TRUE
         /\ Begin(SetAllNew(T, q, mode, r.pick, r.at),
                  <<Frame("write", ".config"), Frame("split", 0)>>, NoOpt)

ConfStep ==
    \/ Conf \/ AfterChoice \/ CheckConf \/ CheckRest \/ NotAsked \/ Choice \/ Pick \/ Update \/ Again
    \/ AnswerString \/ AnswerSym \/ Aborted
    \/ SaveStep("conf") \/ CannotWrite("conf")
=============================================================================
