----------------------------- MODULE Firmware ------------------------------
(***************************************************************************)
(* build_firmware of src/zephyr/build.py (lines 404-569) over repeated    *)
(* runs of build.py -p.  The filesystem-image stage is the SdfsBuild      *)
(* module; this one adds the other stages around it.  FW_DIR outlives a   *)
(* run; between runs the developer may change the sources, the .config   *)
(* and the active configuration file.                                     *)
(*                                                                         *)
(* A file is identified by where it came from: <<"nvram", r>> is the      *)
(* nvram.bin built by run r, <<"prebuilt">> a file of the SDK prebuilt        *)
(* directories, <<"ov", s>> a file of override source s, and so on.       *)
(***************************************************************************)
EXTENDS Naturals, Sequences, FiniteSets, TLC

CONSTANTS
  Names, SubDirs, NoDir, FixedKinds, DynKinds, SrcSpace, CfgSpace,
  EncoderResults, MaxRuns, NoImage, NoFile,   \* see SdfsBuild
  Confs,          \* names of configuration files (config_conf)
  OverrideNames,  \* names the single-file overrides and prebuild trees hold
  PrebuiltBin,    \* files of the SDK's prebuilt common/bin, bin, prebuild
  PrebuiltImages, \* kinds whose <kind>.bin the SDK prebuilt dirs hold
  EnvSpace,       \* the source trees of a run, other than the sdfs ones
  IsWindows       \* is_windows() of the build host

VARIABLES
  src, cfg, stage, image, loose, pc, todo, run, calls,  \* see SdfsBuild
  env,     \* this run's sources: nvram.prop, usr_config, manifests, ...
  bin,     \* the single files of FW_DIR_BIN: name -> content or NoFile
  cfgdir,  \* which source trees have been copied into FW_DIR_BIN/config
  fwxml,   \* FW_DIR/firmware.xml: [from, run, valid] or NoFile
  packed   \* the arguments of the last successful packer call, or NoFile

S == INSTANCE SdfsBuild

vars == <<src, cfg, stage, image, loose, pc, todo, run, calls,
          env, bin, cfgdir, fwxml, packed>>

fwvars == <<env, bin, cfgdir, fwxml, packed>>

\* The directories that may hold a firmware.xml, in the order of the
\* check_cp calls of lines 441-443.
XmlLocs == {"board", "app", "appcfg"}

\* Sources of single-file overrides and prebuild trees, lines 449-466.
OvSrcs == {"board", "app_prebuild", "appcfg"}

BinNames == {"nvram.bin", "usr_config.bin", "udisk.img", "app.bin"}
              \cup PrebuiltBin \cup OverrideNames

ASSUME /\ EnvSpace \subseteq
            [nvprop : SUBSET {"board", "app", "appcfg"},
             conf   : Confs,
             usrcfg : SUBSET Confs,
             xml    : SUBSET XmlLocs,
             xmlok  : BOOLEAN,
             ov     : [OvSrcs -> SUBSET OverrideNames],
             cfgsrc : SUBSET {"config", "tr_config"},
             udisk  : {"none", "empty", "fits", "large"},
             zbin   : BOOLEAN]
       /\ PrebuiltImages \subseteq S!AllKinds
       /\ IsWindows \in BOOLEAN

Tools == <<"nvram", "sdfs", "boot", "recovery", "datafs", "packer">>

\* A run of an external tool, appended to calls; a non-zero exit is
\* sys.exit(1).
CallTool(t, res, next) ==
  /\ calls' = Append(calls, <<t, res>>)
  /\ pc' = IF res = "ok" THEN next ELSE "failed"

(***************************************************************************)
(* A run of build.py -p reaching build_firmware, lines 404-416: the       *)
(* developer may have edited every source; ksym.bin is copied from the    *)
(* toolchain output when CONFIG_KALLSYMS is set.  FW_DIR is kept.         *)
(***************************************************************************)
Invoke ==
  /\ pc \in {"idle", "fw_done", "returned", "failed"}
  /\ run < MaxRuns
  /\ src' \in SrcSpace
  /\ cfg' \in CfgSpace
  /\ env' \in EnvSpace
  /\ run' = run + 1
  /\ loose' = IF cfg'.kallsyms THEN S!KsymOf(run + 1) ELSE loose
  /\ pc' = "nvram"
  /\ todo' = <<>>
  /\ calls' = <<>>
  /\ UNCHANGED <<stage, image, bin, cfgdir, fwxml, packed>>

(***************************************************************************)
(* build_nvram_bin, lines 147-171, then build_sdfs_bin is entered (line   *)
(* 428).  app_cfg_dir/nvram.prop wins over app_dir/nvram.prop; without a *)
(* board one or an app one the stage is skipped.                          *)
(***************************************************************************)
BuildNvram ==
  /\ pc = "nvram"
  /\ todo' = FixedKinds
  /\ IF "board" \in env.nvprop /\ env.nvprop \cap {"app", "appcfg"} # {}
     THEN \E res \in EncoderResults :
            /\ CallTool("nvram", res, "fixed")
            /\ bin' = IF res = "ok"
                      THEN [bin EXCEPT !["nvram.bin"] = <<"nvram", run>>]
                      ELSE bin
     ELSE /\ pc' = "fixed"
          /\ UNCHANGED <<calls, bin>>
  /\ UNCHANGED <<src, cfg, stage, image, loose, run, env, cfgdir, fwxml, packed>>

\* The filesystem images, lines 282-288, as SdfsBuild steps.
BuildFixed == S!BuildFixed /\ UNCHANGED fwvars
Discover   == S!Discover /\ UNCHANGED fwvars
BuildDyn   == S!BuildDyn /\ UNCHANGED fwvars

(***************************************************************************)
(* Lines 429-431: dir_cp of the SDK's common/bin and bin and dir_tree_cp  *)
(* of its prebuild directory into FW_DIR_BIN.  Every file they hold       *)
(* overwrites the one already there, built or not.                        *)
(***************************************************************************)
CopyPrebuilt ==
  /\ pc = "sdfs_done"
  /\ bin' = [n \in BinNames |-> IF n \in PrebuiltBin THEN <<"prebuilt">> ELSE bin[n]]
  /\ image' = [k \in S!AllKinds |->
                 IF k \in PrebuiltImages THEN [run |-> run, files |-> <<"prebuilt">>]
                 ELSE image[k]]
  /\ pc' = "usr_config"
  /\ UNCHANGED <<src, cfg, stage, loose, todo, run, calls, env, cfgdir, fwxml, packed>>

(***************************************************************************)
(* Lines 433-436: usr_config.bin is removed, then                         *)
(* app_cfg_dir/<conf>_usr_config.bin is copied to it when it exists.      *)
(***************************************************************************)
UsrConfigOf(e, old) ==
  IF e.conf \in e.usrcfg THEN <<"usr", e.conf>> ELSE NoFile

UsrConfig ==
  /\ pc = "usr_config"
  /\ bin' = [bin EXCEPT !["usr_config.bin"] = UsrConfigOf(env, @)]
  /\ pc' = "fwxml"
  /\ UNCHANGED <<src, cfg, stage, image, loose, todo, run, calls, env, cfgdir, fwxml, packed>>

\* Mutation: the three check_cp calls in the reverse order.
XmlOrderReversed == <<"appcfg", "app", "board">>

\* Lines 441-443: later copies overwrite earlier ones.
XmlOrder == <<"board", "app", "appcfg">>

\* Mutation: the existence check of line 444 is dropped.
XmlFoundAlways(x) == TRUE

\* Line 444: os.path.exists(fw_cfgfile).
XmlFound(x) == x # NoFile

(***************************************************************************)
(* Lines 438-446: firmware.xml is copied from board_dir, app_dir and      *)
(* app_cfg_dir in turn, then must exist in FW_DIR.  A firmware.xml left   *)
(* by an earlier run passes the check.                                    *)
(***************************************************************************)
FwXml ==
  /\ pc = "fwxml"
  /\ LET has  == {i \in 1..3 : XmlOrder[i] \in env.xml}
         last == CHOOSE i \in has : \A j \in has : j <= i
         xml2 == IF has = {} THEN fwxml
                 ELSE [from |-> XmlOrder[last], run |-> run, valid |-> env.xmlok]
     IN  /\ fwxml' = xml2
         /\ pc' = IF XmlFound(xml2) THEN "overrides" ELSE "failed"
  /\ UNCHANGED <<src, cfg, stage, image, loose, todo, run, calls, env, bin, cfgdir, packed>>

(***************************************************************************)
(* Lines 448-468: the board's single files, the app's prebuild/<soc>      *)
(* single files, its config tree, app_cfg_dir's prebuild tree and single  *)
(* files, in that order, each overwriting; tr_config is added to config   *)
(* when CONFIG_APP_TRANSMITTER=y.  Nothing is removed first.  The att     *)
(* tree gets the same treatment and is left out: nothing reads it.        *)
(***************************************************************************)
OvOrder == <<"board", "app_prebuild", "appcfg">>

OverrideOf(n) ==
  LET has == {i \in 1..3 : n \in env.ov[OvOrder[i]]}
  IN  IF has = {} THEN bin[n]
      ELSE <<"ov", OvOrder[CHOOSE i \in has : \A j \in has : j <= i]>>

Overrides ==
  /\ pc = "overrides"
  /\ bin' = [n \in BinNames |-> OverrideOf(n)]
  /\ cfgdir' = cfgdir \cup (env.cfgsrc \cap {"config"})
                      \cup (IF cfg.transmitter THEN env.cfgsrc \cap {"tr_config"} ELSE {})
  /\ pc' = "boot"
  /\ UNCHANGED <<src, cfg, stage, image, loose, todo, run, calls, env, fwxml, packed>>

\* Mutation: a failing build_boot_image.py does not end the program.
BootNoExit(res) ==
  /\ calls' = Append(calls, <<"boot", res>>)
  /\ pc' = "recovery"

\* Lines 470-486: build_boot_image.py on mbrec.bin; failure is fatal.
BootStep(res) == CallTool("boot", res, "recovery")

Boot ==
  /\ pc = "boot"
  /\ \E res \in EncoderResults : BootStep(res)
  /\ UNCHANGED <<src, cfg, stage, image, loose, todo, run, env, bin, cfgdir, fwxml, packed>>

\* Lines 489-501: pack_app_image.py on recovery.bin; failure is fatal.
Recovery ==
  /\ pc = "recovery"
  /\ \E res \in EncoderResults : CallTool("recovery", res, "datafs")
  /\ UNCHANGED <<src, cfg, stage, image, loose, todo, run, env, bin, cfgdir, fwxml, packed>>

(***************************************************************************)
(* build_datafs_bin, lines 322-374 (called at line 504), for the udisk    *)
(* partition of the manifest in FW_DIR.  A manifest whose root is not     *)
(* <firmware> is fatal.  An absent or empty content directory, or one     *)
(* that does not fit the partition, is skipped and the file_name image in *)
(* FW_DIR_BIN is left as it was.  The capacity arithmetic is abstracted   *)
(* to fits / large.                                                        *)
(***************************************************************************)
\* Mutation: the root-tag check of lines 325-327 is dropped.
ManifestUsableAlways(x) == TRUE

\* Lines 323-327: the manifest's root element must be <firmware>.
ManifestUsable(x) == x.valid

Datafs ==
  /\ pc = "datafs"
  /\ IF ~ManifestUsable(fwxml)
     THEN /\ pc' = "failed"
          /\ UNCHANGED <<calls, bin>>
     ELSE IF env.udisk = "fits"
     THEN \E res \in EncoderResults :
            /\ CallTool("datafs", res, "appbin")
            /\ bin' = IF res = "ok"
                      THEN [bin EXCEPT !["udisk.img"] = <<"udisk", run>>]
                      ELSE bin
     ELSE /\ pc' = "appbin"
          /\ UNCHANGED <<calls, bin>>
  /\ UNCHANGED <<src, cfg, stage, image, loose, todo, run, env, cfgdir, fwxml, packed>>

\* Lines 506-513: without zephyr/zephyr.bin build_firmware returns.
AppBin ==
  /\ pc = "appbin"
  /\ IF env.zbin
     THEN /\ bin' = [bin EXCEPT !["app.bin"] = <<"app", run>>]
          /\ pc' = "pack"
     ELSE /\ pc' = "returned"
          /\ UNCHANGED bin
  /\ UNCHANGED <<src, cfg, stage, image, loose, todo, run, calls, env, cfgdir, fwxml, packed>>

(***************************************************************************)
(* Lines 541-569: build_firmware.py with the manifest, soc, the board     *)
(* name (tr_-prefixed when CONFIG_APP_TRANSMITTER=y) and -d; -v fw_ver is *)
(* passed only on Windows (line 561 against line 569).                    *)
(***************************************************************************)
Pack ==
  /\ pc = "pack"
  /\ \E res \in EncoderResults :
       /\ CallTool("packer", res, "fw_done")
       /\ packed' = IF res = "ok"
                    THEN [run |-> run, tr |-> cfg.transmitter, version |-> IsWindows]
                    ELSE packed
  /\ UNCHANGED <<src, cfg, stage, image, loose, todo, run, env, bin, cfgdir, fwxml>>

Init ==
  /\ S!Init
  /\ env = CHOOSE e \in EnvSpace : TRUE
  /\ bin = [n \in BinNames |-> NoFile]
  /\ cfgdir = {}
  /\ fwxml = NoFile
  /\ packed = NoFile

Stages == BuildNvram \/ BuildFixed \/ Discover \/ BuildDyn \/ CopyPrebuilt
            \/ UsrConfig \/ FwXml \/ Overrides \/ Boot \/ Recovery \/ Datafs
            \/ AppBin \/ Pack

Next == Invoke \/ Stages

\* build.py runs on until it returns or exits: the next stage is taken.
Spec == Init /\ [][Next]_vars /\ WF_vars(Stages)

-----------------------------------------------------------------------------
Status ==
  CASE pc = "idle"     -> "idle"
    [] pc = "fw_done"  -> "done"
    [] pc = "returned" -> "returned"
    [] pc = "failed"   -> "failed"
    [] OTHER           -> "running"

P == INSTANCE Pipeline WITH Repeatable <- {"sdfs", "datafs"}, status <- Status

Stopped == {"idle", "fw_done", "returned", "failed"}

\* The stages a run has passed, by the pc they leave behind.
AfterUsrConfig == {"fwxml", "overrides", "boot", "recovery", "datafs", "appbin",
                   "pack", "fw_done", "returned"}
AfterXml == AfterUsrConfig \ {"fwxml"}

Content == {<<"prebuilt">>} \cup ({"nvram", "udisk", "app"} \X (1..MaxRuns))
             \cup ({"usr"} \X Confs) \cup ({"ov"} \X OvSrcs)

(***************************************************************************)
(* Types.  Past line 444 a manifest is always on disk: build_firmware     *)
(* never reaches the later stages without one.                            *)
(***************************************************************************)
TypeOK ==
  /\ env \in EnvSpace
  /\ bin \in [BinNames -> Content \cup {NoFile}]
  /\ cfgdir \subseteq {"config", "tr_config"}
  /\ fwxml \in {NoFile} \cup [from : XmlLocs, run : 1..MaxRuns, valid : BOOLEAN]
  /\ packed \in {NoFile} \cup [run : 1..MaxRuns, tr : BOOLEAN, version : BOOLEAN]
  /\ calls \in Seq({Tools[i] : i \in 1..Len(Tools)} \X EncoderResults)
  /\ pc \in {"idle", "nvram", "fixed", "discover", "dyn", "sdfs_done", "usr_config",
            "fwxml", "overrides", "boot", "recovery", "datafs", "appbin", "pack",
            "fw_done", "returned", "failed"}
  /\ pc \in AfterXml => fwxml # NoFile

(***************************************************************************)
(* build_firmware implements the Pipeline specification (spec 4.6, 7 and  *)
(* scenario D): its tools run in stage order, nothing runs after a fatal  *)
(* exit (sys.exit(1) after every failing tool, the manifest checks of     *)
(* lines 444 and 328), the packer ends a run and a run does not stall.    *)
(***************************************************************************)
PipelineRefined == P!Spec

(***************************************************************************)
(* Spec 4.6 and 7 (scenario D): a run whose packer succeeded packed a     *)
(* consistent directory: every tool of the run, from build_nvram_bin on,  *)
(* exited 0, the manifest was a <firmware> one, and FW_DIR_BIN holds this *)
(* run's app.bin and, when the udisk content fits, this run's udisk       *)
(* image.  A fatal check or exit that lets the run go on (the sys.exit of *)
(* line 327 or 486, say) packs a half-built directory.                    *)
(***************************************************************************)
PackedConsistent ==
  pc = "fw_done" =>
    /\ fwxml.valid
    /\ \A i \in 1..Len(calls) : calls[i][2] = "ok"
    /\ bin["app.bin"] = <<"app", run>>
    /\ env.udisk = "fits" => bin["udisk.img"] = <<"udisk", run>>

(***************************************************************************)
(* Spec 3 and 4.6 step 8: when any of board_dir, app_dir, app_cfg_dir     *)
(* holds a firmware.xml, the manifest packed is this run's copy of the    *)
(* most specific one (app_cfg_dir over app_dir over board_dir).  It is    *)
(* about the order of the check_cp calls of lines 441-443.                *)
(***************************************************************************)
MostSpecificXml ==
  IF "appcfg" \in env.xml THEN "appcfg"
  ELSE IF "app" \in env.xml THEN "app" ELSE "board"

ManifestPrecedence ==
  (pc \in AfterXml /\ env.xml # {}) =>
    fwxml = [from |-> MostSpecificXml, run |-> run, valid |-> env.xmlok]

(***************************************************************************)
(* Spec 4.6 step 8 and 7 (ManifestNotFound): with no firmware.xml in any *)
(* source the run is fatal.  Line 444 only checks FW_DIR, where an        *)
(* earlier run's copy is never removed.                                   *)
(***************************************************************************)
ManifestFresh == pc \in AfterXml => fwxml.run = run

(***************************************************************************)
(* Spec 4.6 step 6: the SDK prebuilt directories only fill in files the   *)
(* earlier stages did not produce.  The dir_cp calls of lines 429-431     *)
(* overwrite the nvram.bin that build_nvram_bin has just built.           *)
(***************************************************************************)
BuiltNvramKept ==
  (pc = "usr_config" /\ \E i \in 1..Len(calls) : calls[i] = <<"nvram", "ok">>) =>
    bin["nvram.bin"] = <<"nvram", run>>
=============================================================================
