------------------------------ MODULE Kconfig ------------------------------
(***************************************************************************)
(* The configuration of the SDK over many runs of conf and mconf on the    *)
(* same files, any of which may be killed, with the menu files upgraded in *)
(* between; and what it promises.                                          *)
(***************************************************************************)
EXTENDS KconfigConf, KconfigMconf

Init == SessionInit

(* The bound on the runs is reached. *)
Rest == prog = "off" /\ runs = MaxRuns[ver] /\ UNCHANGED vars

Next ==
    \/ StartAsking \/ StartSetting \/ StartMconf
    \/ ConfStep \/ MconfStep
    \/ Kill \/ UpgradeMenus
    \/ Rest

Spec == Init /\ [][Next]_vars

(* A program that runs goes on: conf does not stop between two steps for   *)
(* ever, and the user answers it.  (WF_vars(ConfStep), for a conf that can *)
(* always take a step: the runs check that nothing deadlocks.)             *)
FairSpec == Spec /\ ([]<>(prog # "conf") \/ []<><<prog = "conf">>_vars)

-----------------------------------------------------------------------------
TypeOK ==
    /\ ver \in DOMAIN MenuFiles
    /\ prog \in {"off", "conf", "mconf"}
    /\ prog = "off" <=> s = Nothing
    /\ prog # "off" => stack # << >>
    /\ \A i \in DOMAIN stack :
         IF stack[i].at \in {"write", "backup", "commit"} THEN stack[i].menu \in User
         ELSE stack[i].menu \in 0..Len(T.node)
    /\ prog # "off" =>
         \A x \in Symbols : /\ {s.tri[x], s.visible[x], s.rev[x]} \subseteq Tristate
                            /\ s.typ[x] = "boolean" => s.tri[x] # mod \/ x \notin s.valid
    /\ \A n \in Names : file[n] # NoFile => \A i \in DOMAIN file[n] : file[n][i].sym \in Symbols
    /\ touched \subseteq Symbols
    /\ runs \in Nat /\ edits \in Nat

-----------------------------------------------------------------------------
(* The conditions as the menu files state them, without what menu_finalize *)
(* makes of them: those of a prompt, of its entry, and of all that the     *)
(* entry lies in.                                                          *)
PromptsOf(St) ==
    LET Entries == {"config", "choice", "menu", "if", "comment"}
        EntryAt(i) == Max({k \in 1..i : St[k].do \in Entries})
        Deps(e) == {St[k].dep : k \in {k \in e..Len(St) : St[k].do = "depends" /\ EntryAt(k) = e}}
        Opens(i) == St[i].do \in {"if", "open"}
        Depth(k, i) == Cardinality({j \in k..i : Opens(j)}) - Cardinality({j \in k..i : St[j].do = "end"})
        Around(i) == {EntryAt(k) : k \in {k \in 1..i : Opens(k) /\ \A j \in k..i : Depth(k, j) > 0}}
        Block(e) == CASE St[e].do = "if" -> {St[e].dep}
                      [] St[e].do = "choice" -> {Sy(St[e].sym)}
                      [] OTHER -> Deps(e)
        Told(i) == [sym |-> St[EntryAt(i)].sym,
                    conds |-> {St[i].dep} \cup Deps(EntryAt(i)) \cup UNION {Block(e) : e \in Around(i)}]
    IN Each(LAMBDA r, i : IF St[i].do = "prompt" THEN Append(r, Told(i)) ELSE r,
                << >>, [i \in DOMAIN St |-> i])

Prompted == Each(LAMBDA r, St : Append(r, PromptsOf(St)), << >>, MenuFiles)

Written(q, e) == Val(q, CheckDep(e))

(* A prompt is visible as far as all of its conditions hold, a symbol as   *)
(* its most visible prompt.  What is not tristate is visible or not; a     *)
(* boolean value of a tristate choice needs the choice to be y.            *)
AsWritten(q, x) ==
    LET prompts == {p \in Range(Prompted[ver]) : p.sym = x}
        c == T.choiceOf[x]
        Shown(p) == IF c # "" /\ T.typ[c] = "tristate" /\ T.typ[x] # "tristate" /\ q.tri[c] # yes
                      THEN no
                    ELSE Min({yes} \cup {Written(q, e) : e \in p.conds})
        v == Max({no} \cup {Shown(p) : p \in prompts})
    IN IF v = mod /\ (T.typ[x] # "tristate" \/ q.modval = no) THEN yes ELSE v

Named == {n.sym : n \in Range(T.node)} \ {""}

(* The program waits for the user, or is about to save. *)
Waiting ==
    stack # << >> /\ Top.at \in {"sym", "string", "pick", "pick_new", "again", "page", "list", "box"}

(* Whatever the user does, every symbol is visible exactly when the menu   *)
(* files say so: the simplified and joined expressions mean what was       *)
(* written, and no value computed before an edit outlives it; but for what *)
(* conf_read computed from a number before it dropped it.                  *)
VisibilityAsWritten ==
    Waiting /\ ~s.dropped =>
      \A q \in {CalcAll(T, s)}, x \in Named : q.visible[x] = AsWritten(q, x)

(* Of a choice that is y exactly one value is y, a visible one, even when  *)
(* .config claims several, or one that the menus show no longer.           *)
ChoiceExclusive ==
    Waiting =>
      \A q \in {CalcAll(T, s)}, c \in ChoiceSyms \cap Named : q.tri[c] = yes =>
           \E v \in Range(T.values[c]) :
             /\ q.visible[v] # no /\ q.val[c] = v
             /\ {w \in Range(T.values[c]) : q.tri[w] = yes} = {v}

(* When conf has asked its questions and is about to save, no symbol that  *)
(* the user can see and change is left to a default (conf.c:589, "Update   *)
(* until a loop caused no more changes").                                  *)
EveryNewAsked ==
    At("conf", "again") /\ ~opt.cnt =>
      \A q \in {CalcAll(T, s)}, x \in Named : Changable(q, x) => x \in q.has.user

(* What was written with these menu files is read back as it is: there is  *)
(* nothing to save, and saving it anyway writes the same lines.            *)
SavedIsStable ==
    prog = "off" /\ writer[".config"] = ver /\ file[".config"] # NoFile =>
      \A q \in {ReadConfig(T, Fresh(T), file[".config"])} :
        ~q.changed /\ WriteConfig(T, q).lines = file[".config"]

-----------------------------------------------------------------------------
Entry(name) == IF file[name] = NoFile THEN {} ELSE {ln \in Range(file[name]) : ln.text # "unset"}
EntryOfSym(name, x) == {ln \in Entry(name) : ln.sym = x}

(* The configuration saved last under a name. *)
Latest(n) == IF file[n] # NoFile THEN file[n] ELSE file[Old(n)]

(* No moment at which the program may be killed is without the user's      *)
(* configuration: it is under its name or that of its backup until the     *)
(* next one is complete.                                                   *)
ConfigKept ==
    [][ file' # file => \A n \in User : Latest(n) \in {file'[n], file'[Old(n)]} ]_file

(* After conf, what the tree is built with is what .config says: the same  *)
(* symbols, with the same values.                                          *)
BuiltAsSaved ==
    [][ prog = "conf" /\ prog' = "off" /\ touched' = {} /\ stack[1].at = "rename"
          => Entry("auto.conf")' = Entry(".config")' ]_vars

(* auto.conf is replaced only when the header of every symbol whose entry  *)
(* changes has been touched, in this run or in one that was killed before; *)
(* but for a text that the menu files have no symbol for any more.         *)
TouchedCovers ==
    [][ file'["auto.conf"] # file["auto.conf"] => \A x \in Symbols :
          \/ EntryOfSym("auto.conf", x) = EntryOfSym("auto.conf", x)'
          \/ x \in touched
          \/ T.typ[x] = "unknown" /\ \E ln \in EntryOfSym("auto.conf", x) : ln.quoted ]_file

(* conf comes to an end when its questions are answered: asking for what   *)
(* the last answers brought up does not go on for ever.                    *)
ConfEnds == prog = "conf" ~> prog = "off"
=============================================================================
