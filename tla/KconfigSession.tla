--------------------------- MODULE KconfigSession ---------------------------
(***************************************************************************)
(* What the two programs that edit the configuration share: the files,     *)
(* and how conf_write and conf_write_autoconf replace them (confdata.c).   *)
(* A program may be killed between any two steps; the files stay.          *)
(*                                                                         *)
(* stack is what the running program still has to do: a frame [at, menu]   *)
(* stands for a function that has been called, with the point it is at.    *)
(***************************************************************************)
EXTENDS KconfigFiles

CONSTANTS
    MenuFiles,   \* the statements of each release of the menu files
    Successor,   \* the release an upgrade of the sources goes to
    Configs,     \* what .config and the alternate file may hold at first, per release
    Lines,       \* what the user may type where a text is asked for
    MaxRuns,     \* bound on the runs of the programs, per release
    MaxEdits     \* bound on the edits in one run of mconf, per release

VARIABLES
    ver,       \* the release of the menu files
    T,         \* the tree of menus that conf_parse makes of them
    s,         \* the symbols of the running program
    prog,      \* "off", "conf" or "mconf"
    stack,
    opt,       \* input_mode, rootEntry, conf_cnt # 0 and sync_kconfig of conf,
               \* filename of mconf
    file,      \* the files: a sequence of lines, or NoFile
    tmp,       \* the temporary file that is about to be renamed
    todo,      \* symbols whose header is still to be touched
    touched,   \* symbols whose header was touched since auto.conf was replaced
    writer,    \* history: the release each file was written with; 0 when by hand,
               \* or with values that s.dropped puts in doubt
    runs, edits

session == <<s, prog, stack, opt, tmp, todo>>
disk == <<file, touched, writer>>
menus == <<ver, T>>
vars == <<menus, session, disk, runs, edits>>

Menu(m) == T.node[m]
SymOf(m) == T.node[m].sym

User == {".config", "other"}
Old(name) == name \o ".old"
Names == User \cup {Old(n) : n \in User} \cup {"auto.conf", "autoconf.h"}

(* The symbols before conf_parse and after the end, and conf's settings.   *)
Nothing == [gone |-> TRUE]
NoOpt == [mode |-> "", root |-> ROOT, cnt |-> FALSE, sync |-> FALSE, name |-> ".config"]

Frame(at, m) == [at |-> at, menu |-> m]
Frames(at, ms) == [i \in DOMAIN ms |-> Frame(at, ms[i])]
Top == Head(stack)
At(p, place) == prog = p /\ stack # << >> /\ Top.at = place

(* Go on with these frames in place of the one on top. *)
Goto(frames) == stack' = frames \o Tail(stack)

End == /\ s' = Nothing /\ prog' = "off" /\ stack' = << >> /\ opt' = NoOpt
       /\ tmp' = << >> /\ todo' = << >>

(* conf_parse and conf_read: of .config, when it is there. *)
Read(name) ==
    IF file[name] = NoFile THEN ReadMissing(Fresh(T), name # ".config")
    ELSE ReadConfig(T, Fresh(T), file[name])

-----------------------------------------------------------------------------
(* conf_write(name), name on top of the stack: the lines are written to a  *)
(* temporary file ...                                                      *)
Write(p) ==
    /\ At(p, "write")
    /\ \E w \in {WriteConfig(T, s)} : s' = w.s /\ tmp' = w.lines
    /\ Goto(<<Frame("backup", Top.menu)>>)
    /\ UNCHANGED <<menus, prog, opt, todo, disk, runs, edits>>

(* Mutant: the old file is removed first. *)
RemoveOld(p) ==
    /\ At(p, "backup")
    /\ file' = [file EXCEPT ![Top.menu] = NoFile]
    /\ Goto(<<Frame("commit", Top.menu)>>)
    /\ UNCHANGED <<menus, s, prog, opt, tmp, todo, touched, writer, runs, edits>>

(* ... the file there is becomes .old ... *)
Backup(p) ==
    /\ At(p, "backup")
    /\ LET n == Top.menu
       IN IF file[n] = NoFile THEN UNCHANGED <<file, writer>>
          ELSE /\ file' = [file EXCEPT ![Old(n)] = file[n], ![n] = NoFile]
               /\ writer' = [writer EXCEPT ![Old(n)] = writer[n]]
    /\ Goto(<<Frame("commit", Top.menu)>>)
    /\ UNCHANGED <<menus, s, prog, opt, tmp, todo, touched, runs, edits>>

(* ... and the temporary file takes its place.  mconf takes the name over. *)
Commit(p) ==
    /\ At(p, "commit")
    /\ file' = [file EXCEPT ![Top.menu] = tmp]
    /\ writer' = [writer EXCEPT ![Top.menu] = IF s.dropped THEN 0 ELSE ver]
    /\ s' = [s EXCEPT !.changed = FALSE]
    /\ tmp' = << >>
    /\ opt' = IF p = "mconf" THEN [opt EXCEPT !.name = Top.menu] ELSE opt
    /\ Goto(<< >>)
    /\ UNCHANGED <<menus, prog, todo, touched, runs, edits>>

(* conf_write_autoconf: read auto.conf, and find what has changed ...      *)
Split(p) ==
    /\ At(p, "split")
    /\ s' = BeginAutoconf(T, s, file["auto.conf"])
    /\ todo' = SelectSeq(All(s'), LAMBDA x : Touches(T, s', x))
    /\ Goto(<<Frame("touch", 0)>>)
    /\ UNCHANGED <<menus, prog, opt, tmp, disk, runs, edits>>

(* ... touch a header for each such symbol ... *)
Touch(p) ==
    /\ At(p, "touch") /\ todo # << >>
    /\ touched' = touched \cup {Head(todo)}
    /\ todo' = Tail(todo)
    /\ UNCHANGED <<menus, s, prog, stack, opt, tmp, file, writer, runs, edits>>

(* ... replace autoconf.h ... *)
RenameHeader(p) ==
    /\ At(p, "touch") /\ todo = << >>
    /\ tmp' = AutoconfLines(T, CalcAll(T, s))
    /\ file' = [file EXCEPT !["autoconf.h"] = tmp']
    /\ Goto(<<Frame("rename", 0)>>)
    /\ UNCHANGED <<menus, s, prog, opt, todo, touched, writer, runs, edits>>

(* ... and auto.conf: this must be the last step.  The program ends.       *)
RenameAuto(p) ==
    /\ At(p, "rename")
    /\ file' = [file EXCEPT !["auto.conf"] = tmp]
    /\ touched' = {}
    /\ writer' = [writer EXCEPT !["auto.conf"] = ver]
    /\ End
    /\ UNCHANGED <<menus, runs, edits>>

SaveStep(p) ==
    Write(p) \/ Backup(p) \/ Commit(p) \/ Split(p) \/ Touch(p) \/ RenameHeader(p) \/ RenameAuto(p)

(* conf_write cannot create its file, and the program gives up. *)
CannotWrite(p) ==
    /\ At(p, "write") /\ Len(stack) > 1 /\ stack[2].at = "split"
    /\ End
    /\ UNCHANGED <<menus, disk, runs, edits>>

-----------------------------------------------------------------------------
Kill ==
    /\ prog # "off"
    /\ End
    /\ UNCHANGED <<menus, disk, runs, edits>>

(* Other sources, with other menu files, are put in place. *)
UpgradeMenus ==
    /\ prog = "off" /\ ver \in DOMAIN Successor
    /\ ver' = Successor[ver] /\ T' = Parsed(MenuFiles[ver'])
    /\ UNCHANGED <<session, disk, runs, edits>>

SessionInit ==
    /\ ver \in DOMAIN MenuFiles \ {Successor[v] : v \in DOMAIN Successor}
    /\ T = Parsed(MenuFiles[ver])
    /\ s = Nothing /\ prog = "off" /\ stack = << >> /\ opt = NoOpt
    /\ tmp = << >> /\ todo = << >>
    /\ file \in {[n \in Names |-> IF n \in User THEN c[n] ELSE NoFile] : c \in Configs[ver]}
    /\ writer = [n \in Names |-> 0] /\ touched = {}
    /\ runs = 0 /\ edits = 0
=============================================================================
