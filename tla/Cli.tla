-------------------------------- MODULE Cli ---------------------------------
(***************************************************************************)
(* The front-end of src/zephyr/build.py: main (lines 620-780) with        *)
(* read_choice, read_choice_file and to_int (55-129), over repeated       *)
(* invocations with flags.  The selection of board, application, sub app, *)
(* app_conf and configuration file is kept in .build_config between runs; *)
(* the chosen app_conf/<ac>/<conf> is copied over the application's       *)
(* prj.conf; toolchain and build_firmware are external steps that succeed *)
(* or fail.  Between runs the developer may edit a configuration file.    *)
(*                                                                         *)
(* The application tree is abstracted to the shapes main tells apart:     *)
(* "confs" (CMakeLists.txt and an app_conf directory), "subs" (no         *)
(* CMakeLists.txt; sub apps that have one and a prj.conf), "flat"         *)
(* (CMakeLists.txt and prj.conf), "nocmake" and "noprj".  A configuration *)
(* file name is the sequence of its "."-separated parts.                  *)
(***************************************************************************)
EXTENDS Integers, Sequences

CONSTANTS
  Boards,     \* the boards/arm subdirectories, in os.walk order
  Apps,       \* the application subdirectories, in os.walk order
  Shape,      \* application -> its shape
  Subs,       \* the sub apps of a "subs" application
  AppConfs,   \* the app_conf subdirectories of a "confs" application
  Confs,      \* the *.conf files of a configuration directory
  Inputs,     \* what the developer may type at a prompt
  Flags,      \* the sets of command-line flags of an invocation
  Versions,   \* contents a configuration file may be edited to
  MaxRuns,    \* invocations of build.py
  NoFile,     \* .build_config, or an sdk_build's zephyr/.config, is absent
  Crash,      \* what read_choice gives for an IndexError
  IsWindows   \* is_windows()

VARIABLES
  buildcfg,  \* .build_config: NoFile or [board, app, sub, appconf, conf]
  soln,      \* <<ac, conf>> -> content of app_conf/<ac>/<conf>
  prj,       \* application -> content of its prj.conf
  outdirs,   \* sdk_build <<app path, outdir stem, board>> -> NoFile before
             \* its first build, else the build's [want, used] configuration
  pc,        \* where the current invocation is, or how it ended
  sel,       \* the selection of the current invocation
  answer,    \* what was typed at its board prompt, or NoFile
  run        \* invocations so far

vars == <<buildcfg, soln, prj, outdirs, pc, sel, answer, run>>

Ended == {"idle", "exit0", "exit1", "crash", "built"}

Elems(list) == {list[k] : k \in DOMAIN list}

\* The applications with an app_conf directory, and their configuration files.
ConfApps == {a \in Elems(Apps) : Shape[a] = "confs"}

SolnKeys == Elems(AppConfs) \X Elems(Confs)

(***************************************************************************)
(* to_int, lines 55-64: int(s), else int(float(s)), else False.  An input *)
(* is [kind, num]: an integer, a decimal in tenths, or other text.         *)
(***************************************************************************)
ToInt(s) ==
  CASE s.kind = "int"   -> [ok |-> TRUE, v |-> s.num]
    [] s.kind = "float" -> [ok |-> TRUE,
                            v |-> IF s.num >= 0 THEN s.num \div 10
                                  ELSE -((-s.num) \div 10)]
    [] OTHER            -> [ok |-> FALSE, v |-> 0]

\* Python's list[j], negative j counting from the end; Crash for IndexError.
PyIndex(list, j) ==
  CASE 0 <= j /\ j < Len(list)  -> list[j + 1]
    [] -Len(list) <= j /\ j < 0 -> list[Len(list) + j + 1]
    [] OTHER                    -> Crash

\* read_choice with the j -= 1 of line 93 forgotten.
ReadChoiceNoDecrement(list, s) ==
  IF list = <<>> THEN Crash
  ELSE LET t  == ToInt(s)
           j0 == IF t.ok /\ t.v # 0 THEN t.v ELSE 1
           j1 == IF j0 > Len(list) THEN Len(list) ELSE j0
       IN PyIndex(list, j1)

(***************************************************************************)
(* read_choice, lines 66-94 (and read_choice_file, 97-129, on the files   *)
(* with the suffix): the prompt shows list[0]; to_int(s) != False is      *)
(* false for 0 as for False, which picks 1; a number above the count is   *)
(* the last; the index is j - 1.                                          *)
(***************************************************************************)
ReadChoice(list, s) ==
  IF list = <<>> THEN Crash
  ELSE LET t  == ToInt(s)
           j0 == IF t.ok /\ t.v # 0 THEN t.v ELSE 1
           j1 == IF j0 > Len(list) THEN Len(list) ELSE j0
       IN PyIndex(list, j1 - 1)

\* "outdir_" + config_conf.split('.')[0], line 741.
Stem(conf) == conf[1]

(***************************************************************************)
(* Lines 672-702: the interactive selection, in[1..5] typed at the board, *)
(* application, sub app, app_conf and configuration prompts.  end is      *)
(* "exit0" for lines 682 and 689, "crash" for an IndexError, else "none" *)
(* with the selection.                                                    *)
(***************************************************************************)
Select(in) ==
  LET board == ReadChoice(Boards, in[1])
      app   == ReadChoice(Apps, in[2])
      sub   == IF app # Crash /\ Shape[app] \in {"subs", "nocmake"}
               THEN ReadChoice(Subs, in[3]) ELSE ""
      ac    == IF app # Crash /\ Shape[app] = "confs"
               THEN ReadChoice(AppConfs, in[4]) ELSE ""
      conf  == ReadChoice(Confs, in[5])
      s     == [board |-> board, app |-> app, sub |-> sub,
                appconf |-> ac, conf |-> conf]
  IN CASE Crash \in {board, app, sub}        -> [end |-> "crash", sel |-> NoFile]
       [] Shape[app] \in {"nocmake", "noprj"} -> [end |-> "exit0", sel |-> NoFile]
       [] Crash \in {ac, conf}                -> [end |-> "crash", sel |-> NoFile]
       [] OTHER                               -> [end |-> "none", sel |-> s]

\* The outcomes of every answer the developer may give, with the board answer.
Selections ==
  {[a |-> in[1], end |-> Select(in).end, sel |-> Select(in).sel] : in \in [1..5 -> Inputs]}

\* Lines 709-712: the application directory, or its sub app.
AppPath(s) == IF Shape[s.app] = "subs" THEN <<s.app, s.sub>> ELSE <<s.app>>

\* Lines 726-737: app_conf/<ac>/<conf> over prj.conf when it differs.
CopyPrj(s, sol) ==
  IF Shape[s.app] = "confs" /\ prj[s.app] # sol[<<s.appconf, s.conf>>]
  THEN [prj EXCEPT ![s.app] = sol[<<s.appconf, s.conf>>]]
  ELSE prj

\* Lines 741-746: the sdk_build directories under outdir_<stem>.
OutDir(s) == {d \in DOMAIN outdirs : d[1] = AppPath(s) /\ d[2] = Stem(s.conf)}

\* Lines 741-742: sdk_build, outdir_<stem>/<board> of the application.
BuildDir(s) == <<AppPath(s), Stem(s.conf), s.board>>

\* Lines 759-760: os.makedirs(sdk_build) unless it exists.
MakeDir(d) ==
  IF d \in DOMAIN outdirs THEN outdirs
  ELSE [e \in DOMAIN outdirs \cup {d} |-> IF e = d THEN NoFile ELSE outdirs[e]]

\* The configuration main selects: app_conf/<ac>/<conf>, copied over prj.conf
\* at lines 726-737, or the application's own prj.conf.
ConfWanted(s) ==
  IF Shape[s.app] = "confs" THEN soln[<<s.appconf, s.conf>>] ELSE "own"

PrjConfName == <<"prj", "conf">>

(***************************************************************************)
(* Lines 595-599 of build_zephyr_app_by_gcc: -DCONF_FILE=<reldir>/prj.conf *)
(* when that file exists, else west's default, the application's          *)
(* prj.conf.  The reldir is app_conf/<ac> for a "confs" application        *)
(* (line 717) and "." for the others (721).                                *)
(***************************************************************************)
ConfUsed(s) ==
  CASE Shape[s.app] = "confs" /\ PrjConfName \in Elems(Confs) ->
         soln[<<s.appconf, PrjConfName>>]
    [] Shape[s.app] = "confs" -> prj[s.app]
    [] OTHER                  -> "own"

(***************************************************************************)
(* One invocation, lines 620-765, up to its first external step: -n       *)
(* removes .build_config; without one the developer is asked and the      *)
(* answer saved; then prj.conf is refreshed; -c removes sdk_out and exits *)
(* 0; -m exits 1 whether or not menuconfig ran; otherwise sdk_build is    *)
(* created and the toolchain, or with -p build_firmware, comes next.  The *)
(* developer may first have edited one configuration file.                *)
(***************************************************************************)
Invoke ==
  /\ pc \in Ended
  /\ run < MaxRuns
  /\ run' = run + 1
  /\ \E f \in Flags, key \in DOMAIN soln, v \in Versions :
     LET sol  == [soln EXCEPT ![key] = v]
         kept == IF "n" \in f THEN NoFile ELSE buildcfg
     IN
     \E pick \in IF kept = NoFile THEN Selections
                 ELSE {[a |-> NoFile, end |-> "none", sel |-> kept]} :
       LET s == pick.sel
       IN /\ soln' = sol
          /\ sel' = s
          /\ answer' = pick.a
          /\ buildcfg' = IF kept = NoFile /\ pick.end = "none" THEN s ELSE kept
          /\ IF pick.end # "none"
             THEN /\ pc' = pick.end
                  /\ UNCHANGED <<prj, outdirs>>
             ELSE /\ prj' = CopyPrj(s, sol)
                  /\ CASE "c" \in f ->
                            /\ outdirs' = [d \in DOMAIN outdirs \ OutDir(s) |-> outdirs[d]]
                            /\ pc' = "exit0"
                       [] "m" \in f ->
                            /\ UNCHANGED outdirs
                            /\ pc' = "exit1"
                       [] OTHER ->
                            /\ outdirs' = MakeDir(BuildDir(s))
                            /\ pc' = CASE "p" \in f  -> "firmware"
                                       [] ~("k" \in f) -> "gcc"
                                       [] IsWindows   -> "keil"
                                       [] OTHER       -> "exit1"

(***************************************************************************)
(* Lines 593-608: west build of sdk_build with ConfUsed; a good build      *)
(* leaves its .config there and build_firmware comes next; a failed one   *)
(* is sys.exit(1), and may or may not have regenerated the .config.       *)
(***************************************************************************)
BuildByGcc ==
  /\ pc = "gcc"
  /\ LET d   == BuildDir(sel)
         new == [outdirs EXCEPT ![d] = [want |-> ConfWanted(sel), used |-> ConfUsed(sel)]]
     IN \E ok \in BOOLEAN :
          /\ pc' = IF ok THEN "firmware" ELSE "exit1"
          /\ outdirs' \in IF ok THEN {new} ELSE {outdirs, new}
  /\ UNCHANGED <<buildcfg, soln, prj, sel, answer, run>>

\* Lines 571-589: ninja2mdk on Windows, exit 0 after a good run, no packing.
BuildByKeil ==
  /\ pc = "keil"
  /\ \E ok \in BOOLEAN : pc' = IF ok THEN "exit0" ELSE "exit1"
  /\ UNCHANGED <<buildcfg, soln, prj, outdirs, sel, answer, run>>

(***************************************************************************)
(* Line 779: build_firmware, modelled by Firmware; a failure is            *)
(* sys.exit(1).  Its first read, is_config_KALLSYMS at line 414, opens     *)
(* sdk_build/zephyr/.config: FileNotFoundError when -p packs a directory   *)
(* nothing was ever built in.                                              *)
(***************************************************************************)
BuildFirmware ==
  /\ pc = "firmware"
  /\ IF outdirs[BuildDir(sel)] = NoFile
     THEN pc' = "crash"
     ELSE \E ok \in BOOLEAN : pc' = IF ok THEN "built" ELSE "exit1"
  /\ UNCHANGED <<buildcfg, soln, prj, outdirs, sel, answer, run>>

Init ==
  /\ buildcfg = NoFile
  /\ soln \in [SolnKeys -> Versions]
  /\ prj = [a \in ConfApps |-> "orig"]
  /\ outdirs = <<>>
  /\ pc = "idle"
  /\ sel = NoFile
  /\ answer = NoFile
  /\ run = 0

Next == Invoke \/ BuildByGcc \/ BuildByKeil \/ BuildFirmware

\* A started invocation runs to its end; nobody has to start another.
Spec == Init /\ [][Next]_vars /\ WF_vars(BuildByGcc \/ BuildByKeil \/ BuildFirmware)

-----------------------------------------------------------------------------
(***************************************************************************)
(* The menus of read_choice number their entries from 1 and show the      *)
(* first as the default: the board of a selection is the entry whose      *)
(* number was typed; an empty, non-numeric or 0 answer is the default, a  *)
(* number past the end the last entry, a decimal its whole part.  This is *)
(* the index arithmetic of lines 86-94: its to_int != False test (false   *)
(* for 0 as for False), the clamp j > i and the j - 1.  A negative answer *)
(* names no entry of the menu and is left to PyIndex.                     *)
(***************************************************************************)
TypedNumber(a) ==
  CASE a.kind = "int"   -> a.num
    [] a.kind = "float" -> a.num \div 10
    [] OTHER            -> 0

MenuEntry(list, n) ==
  IF n = 0 THEN list[1] ELSE IF n > Len(list) THEN list[Len(list)] ELSE list[n]

ChoiceAsNumbered ==
  (sel # NoFile /\ answer # NoFile /\ answer.num >= 0) =>
    sel.board = MenuEntry(Boards, TypedNumber(answer))

(***************************************************************************)
(* The prompt of line 691 and the copy of lines 726-737 make the selected *)
(* app_conf/<ac>/<conf> the application's configuration: every build in   *)
(* an sdk_build directory was made from the configuration selected for    *)
(* it.  Lines 595-599 point CONF_FILE at app_conf/<ac>/prj.conf whenever  *)
(* that file exists, whichever configuration was selected.               *)
(***************************************************************************)
BuiltAsSelected ==
  \A d \in DOMAIN outdirs :
    outdirs[d] # NoFile => outdirs[d].used = outdirs[d].want
=============================================================================
