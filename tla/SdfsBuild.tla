----------------------------- MODULE SdfsBuild -----------------------------
(***************************************************************************)
(* The filesystem-image stage of src/zephyr/build.py, over repeated runs: *)
(* build_sdfs_bin (the fixed kinds, then build_sdfs_bin_bydir for the     *)
(* kinds found under fs_sdfs), each kind built by build_sdfs_bin_name.    *)
(*                                                                         *)
(* The output directory FW_DIR_BIN outlives a run: the staging directory  *)
(* out_dir/<kind>, the image out_dir/<kind>.bin and the loose ksym.bin    *)
(* stay on disk until a later run replaces them.  Between two runs the    *)
(* developer may edit the source directories and the Kconfig (.config).   *)
(*                                                                         *)
(* A source directory is a location <<family, kind>>:                     *)
(*   board       board_dir/<kind>                                         *)
(*   appcfg      app_cfg_dir/<kind>                                       *)
(*   prebuild    app_dir/prebuild/<soc>/<kind>                            *)
(*   appcfg_tr   app_cfg_dir/tr_<kind>                                    *)
(*   prebuild_tr app_dir/prebuild/<soc>/tr_<kind>                         *)
(*   board_fs    board_dir/fs_sdfs/<kind>                                 *)
(*   app_fs      apath/<kind>, apath = app_cfg_dir/fs_sdfs or its         *)
(*               app_dir/prebuild/<soc>/fs_sdfs fallback (lines 260-262)  *)
(*   app_fs_prebuild, app_fs_prebuild_tr                                  *)
(*               apath/prebuild/<soc>/<kind> and .../tr_<kind>            *)
(* src[l] is the set of file paths of l, or NoDir.  Every file of l has   *)
(* the content l: an image then tells which source each file came from.   *)
(***************************************************************************)
EXTENDS Naturals, Sequences, FiniteSets, TLC

CONSTANTS
  Names, SubDirs, NoDir,  \* see DirCopy
  FixedKinds,     \* the kinds build_sdfs_bin names, in its order
  DynKinds,       \* subdirectory names that may appear under fs_sdfs
  SrcSpace,       \* the source trees a developer may leave between runs
  CfgSpace,       \* the .config settings that matter here
  EncoderResults, \* what build_sdfs.py may return: "ok", "fail"
  MaxRuns,        \* bound on the number of runs
  NoImage,        \* model value: <kind>.bin does not exist
  NoFile          \* model value: out_dir/ksym.bin does not exist

D == INSTANCE DirCopy
LOCAL F == INSTANCE Functions
LOCAL SX == INSTANCE SequencesExt

LocFamilies == {"board", "appcfg", "prebuild", "appcfg_tr", "prebuild_tr",
                "board_fs", "app_fs", "app_fs_prebuild", "app_fs_prebuild_tr"}

AllKinds == F!Range(FixedKinds) \cup DynKinds

Loc == LocFamilies \X AllKinds

\* A fs_sdfs subdirectory named like a fixed kind would share its staging
\* directory and image; the model keeps the two sets apart.
ASSUME /\ FixedKinds \in Seq(STRING) /\ Len(FixedKinds) > 0
       /\ DynKinds \cap F!Range(FixedKinds) = {}
       /\ SrcSpace \subseteq [Loc -> SUBSET D!Paths \cup {NoDir}]
       /\ CfgSpace \subseteq [transmitter : BOOLEAN, kallsyms : BOOLEAN]
       /\ EncoderResults \subseteq {"ok", "fail"} /\ "ok" \in EncoderResults
       /\ MaxRuns \in Nat \ {0}

KsymPath == <<"ksym.bin">>

\* The symbol table copied from zephyr/ksym.bin by run r.
KsymOf(r) == <<"ksym", r>>

VARIABLES
  src,    \* source directories: Loc -> set of paths, or NoDir
  cfg,    \* zephyr/.config: CONFIG_APP_TRANSMITTER, CONFIG_KALLSYMS
  stage,  \* out_dir/<kind>: the staging tree handed to build_sdfs.py
  image,  \* out_dir/<kind>.bin: [run, files] of the run that encoded it
  loose,  \* out_dir/ksym.bin: KsymOf(r) or NoFile
  pc,     \* "idle", "fixed", "discover", "dyn", "sdfs_done", "failed"
  todo,   \* kinds still to build in the current loop
  run,    \* number of the current run
  calls   \* external tools run so far in this run: <<tool, result>>

vars == <<src, cfg, stage, image, loose, pc, todo, run, calls>>

\* The tree of location l: every file holds l as its content.
Tree(l) == IF src[l] = NoDir THEN NoDir ELSE [p \in src[l] |-> l]

(***************************************************************************)
(* The layers build_sdfs_bin_name resolves, lines 210-213 and 234-236.    *)
(* For the fixed kinds it is called with (board_dir, app_dir,             *)
(* app_cfg_dir); build_sdfs_bin_bydir (line 279) calls it with (bpath,    *)
(* apath, app_cfg_dir), so the app layer of a discovered kind is          *)
(* app_cfg_dir/<kind> with apath/prebuild/<soc>/<kind> as fallback.       *)
(***************************************************************************)
Fallback(l1, l2) == IF src[l1] # NoDir THEN l1 ELSE l2

FixedLayers(k) ==
  [board |-> <<"board", k>>,
   app   |-> Fallback(<<"appcfg", k>>, <<"prebuild", k>>),
   tr    |-> Fallback(<<"appcfg_tr", k>>, <<"prebuild_tr", k>>)]

DynLayers(k) ==
  [board |-> <<"board_fs", k>>,
   app   |-> Fallback(<<"appcfg", k>>, <<"app_fs_prebuild", k>>),
   tr    |-> Fallback(<<"appcfg_tr", k>>, <<"app_fs_prebuild_tr", k>>)]

LayersOf(k) == IF k \in DynKinds THEN DynLayers(k) ELSE FixedLayers(k)

\* The layers in the order they are copied, lowest priority first.
LayerSeq(k) ==
  <<LayersOf(k).board, LayersOf(k).app>>
    \o (IF cfg.transmitter THEN <<LayersOf(k).tr>> ELSE <<>>)

(***************************************************************************)
(* shutil.rmtree(sdfs_dir), lines 220-223: the staging tree of the kind   *)
(* is removed before the layers are copied in.                             *)
(***************************************************************************)
\* Mutation: the rmtree is dropped and the layers land on the old tree.
ClearStagingKept(k) == stage[k]

ClearStaging(k) == NoDir

(***************************************************************************)
(* Lines 225-237: board layer, app layer, then the transmitter layer when *)
(* CONFIG_APP_TRANSMITTER=y, each with dir_cp.  The set of trees the      *)
(* staging directory can hold, one per os.walk order.                     *)
(***************************************************************************)
\* Mutation: the app layer is copied before the board layer.
CopyLayersAppFirst(k, s0) ==
  LET L  == LayersOf(k)
      S2 == UNION {D!DirCp(s1, Tree(L.board)) : s1 \in D!DirCp(s0, Tree(L.app))}
  IN  IF cfg.transmitter
      THEN UNION {D!DirCp(s2, Tree(L.tr)) : s2 \in S2}
      ELSE S2

CopyLayers(k, s0) ==
  LET L  == LayersOf(k)
      S2 == UNION {D!DirCp(s1, Tree(L.app)) : s1 \in D!DirCp(s0, Tree(L.board))}
  IN  IF cfg.transmitter
      THEN UNION {D!DirCp(s2, Tree(L.tr)) : s2 \in S2}
      ELSE S2

\* The kinds that receive the symbol table, line 239.
KsymStores == {"ksdfs", "sdfs"}

(***************************************************************************)
(* Lines 239-242: shutil.move of out_dir/ksym.bin into the staging tree.  *)
(* Returns the staging tree and what is left at out_dir/ksym.bin.         *)
(***************************************************************************)
\* Mutation: the guard of line 239 names sdfs only.
MoveKsymSdfsOnly(k, s) ==
  IF k = "sdfs" /\ loose # NoFile
  THEN [tree |-> (KsymPath :> loose) @@ s, rest |-> NoFile]
  ELSE [tree |-> s, rest |-> loose]

MoveKsym(k, s) ==
  IF k \in KsymStores /\ loose # NoFile
  THEN [tree |-> (KsymPath :> loose) @@ s, rest |-> NoFile]
  ELSE [tree |-> s, rest |-> loose]

(***************************************************************************)
(* Lines 216-218: the kind is built only when its board or its app       *)
(* directory exists; the transmitter layer alone does not count.         *)
(***************************************************************************)
\* Mutation: the early return is dropped.
HasSourceAlways(k) == TRUE

HasSource(k) == src[LayersOf(k).board] # NoDir \/ src[LayersOf(k).app] # NoDir

(***************************************************************************)
(* build_sdfs_bin_name(k), lines 209-256, as one step of the loop that    *)
(* calls it.  With neither a board nor an app directory it returns at     *)
(* line 218 and touches nothing.  Otherwise it rebuilds the staging tree, *)
(* moves ksym.bin in and runs build_sdfs.py; a failing encoder ends the   *)
(* whole program with sys.exit(1) (lines 251-255).  next is where the     *)
(* loop goes when k was its last kind.                                    *)
(***************************************************************************)
BuildSdfsBinName(k, next) ==
  LET rest == Tail(todo)
      after == IF rest = <<>> THEN next ELSE pc
  IN  IF ~HasSource(k)
      THEN /\ todo' = rest
           /\ pc' = after
           /\ UNCHANGED <<stage, image, loose, calls>>
      ELSE \E s \in CopyLayers(k, ClearStaging(k)), res \in EncoderResults :
             LET m == MoveKsym(k, s) IN
             /\ stage' = [stage EXCEPT ![k] = m.tree]
             /\ loose' = m.rest
             /\ calls' = Append(calls, <<"sdfs", res>>)
             /\ IF res = "ok"
                THEN /\ image' = [image EXCEPT ![k] = [run |-> run, files |-> m.tree]]
                     /\ todo' = rest
                     /\ pc' = after
                ELSE /\ pc' = "failed"
                     /\ UNCHANGED <<image, todo>>

(***************************************************************************)
(* A new run of build.py -p: the developer may have edited the sources    *)
(* and .config.  build_firmware then copies zephyr/ksym.bin into          *)
(* FW_DIR_BIN when CONFIG_KALLSYMS is set (lines 414-416) and calls       *)
(* build_sdfs_bin (line 428), which starts with the fixed kinds.          *)
(***************************************************************************)
StartRun ==
  /\ pc \in {"idle", "sdfs_done", "failed"}
  /\ run < MaxRuns
  /\ src' \in SrcSpace
  /\ cfg' \in CfgSpace
  /\ run' = run + 1
  /\ loose' = IF cfg'.kallsyms THEN KsymOf(run + 1) ELSE loose
  /\ pc' = "fixed"
  /\ todo' = FixedKinds
  /\ calls' = <<>>
  /\ UNCHANGED <<stage, image>>

\* Lines 283-287: the fixed kinds, in order.
BuildFixed ==
  /\ pc = "fixed"
  /\ BuildSdfsBinName(Head(todo), "discover")
  /\ UNCHANGED <<src, cfg, run>>

(***************************************************************************)
(* build_sdfs_bin_bydir, lines 258-278: the subdirectories of bpath and   *)
(* apath, each name once (the dict all_dirs).  When neither exists it     *)
(* returns at line 265, which is the same as finding no subdirectory.     *)
(***************************************************************************)
Discovered ==
  {k \in DynKinds : src[<<"board_fs", k>>] # NoDir}
    \cup {k \in DynKinds : src[<<"app_fs", k>>] # NoDir}

Discover ==
  /\ pc = "discover"
  /\ todo' = SX!SetToSeq(Discovered)
  /\ pc' = IF Discovered = {} THEN "sdfs_done" ELSE "dyn"
  /\ UNCHANGED <<src, cfg, stage, image, loose, run, calls>>

\* Line 279: build_sdfs_bin_name for each discovered kind.
BuildDyn ==
  /\ pc = "dyn"
  /\ BuildSdfsBinName(Head(todo), "sdfs_done")
  /\ UNCHANGED <<src, cfg, run>>

Init ==
  /\ src = CHOOSE s \in SrcSpace : TRUE
  /\ cfg = CHOOSE c \in CfgSpace : TRUE
  /\ stage = [k \in AllKinds |-> NoDir]
  /\ image = [k \in AllKinds |-> NoImage]
  /\ loose = NoFile
  /\ pc = "idle"
  /\ todo = <<>>
  /\ run = 0
  /\ calls = <<>>

Next == StartRun \/ BuildFixed \/ Discover \/ BuildDyn

\* build.py runs to completion once started: each step is taken.
Spec == Init /\ [][Next]_vars /\ WF_vars(BuildFixed \/ Discover \/ BuildDyn)

-----------------------------------------------------------------------------
StagePaths == D!Paths \cup {KsymPath}
Contents == Loc \cup {KsymOf(r) : r \in 1..MaxRuns}

IsStaged(t) ==
  t = NoDir \/ (DOMAIN t \subseteq StagePaths /\ \A p \in DOMAIN t : t[p] \in Contents)

\* Types; an image is always the encoding of an existing staging tree.
TypeOK ==
  /\ src \in SrcSpace
  /\ cfg \in CfgSpace
  /\ \A k \in AllKinds : IsStaged(stage[k])
  /\ \A k \in AllKinds : image[k] = NoImage
        \/ (image[k].run \in 1..run /\ image[k].files # NoDir /\ IsStaged(image[k].files))
  /\ loose \in {NoFile} \cup {KsymOf(r) : r \in 1..MaxRuns}
  /\ pc \in {"idle", "fixed", "discover", "dyn", "sdfs_done", "failed"}
  /\ todo \in Seq(AllKinds)
  /\ run \in 0..MaxRuns
  /\ calls \in Seq({"sdfs"} \X EncoderResults)

BuiltThisRun(k) == image[k] # NoImage /\ image[k].run = run

IsKsym(c) == c \in {KsymOf(r) : r \in 1..MaxRuns}

(***************************************************************************)
(* Staging is rebuilt, not patched (spec 3, StagingDirectory): every file *)
(* of an image encoded in this run, other than the symbol table, comes    *)
(* from a layer build_sdfs_bin_name resolves for the kind in this run and *)
(* that layer still holds a file of that name.  A leftover of an earlier  *)
(* run's staging tree (the rmtree at lines 221-223) would break it.       *)
(***************************************************************************)
FreshSources ==
  \A k \in AllKinds : BuiltThisRun(k) =>
    \A p \in DOMAIN image[k].files :
      LET c == image[k].files[p] IN
      IsKsym(c) \/
        /\ c \in F!Range(LayerSeq(k))
        /\ \E q \in D!FilesOf(Tree(c)) : D!Base(q) = D!Base(p)

(***************************************************************************)
(* Last writer wins (spec 3, 8 and scenario C) for the files a layer puts *)
(* at the top of its tree: when the image holds a top-level file n from   *)
(* layer c, no layer copied after c has a top-level n of its own.  It is  *)
(* about the order of the dir_cp calls in build_sdfs_bin_name and the     *)
(* fallback each layer resolves to.                                        *)
(***************************************************************************)
TopLevelOverride ==
  \A k \in AllKinds : BuiltThisRun(k) =>
    LET ls == LayerSeq(k) IN
    \A p \in DOMAIN image[k].files :
      LET c == image[k].files[p] IN
      (Len(p) = 1 /\ ~IsKsym(c)) =>
        \A i, j \in 1..Len(ls) :
          (ls[i] = c /\ j > i) => p \notin D!FilesOf(Tree(ls[j]))

(***************************************************************************)
(* Spec 4.3: a merge copies every file to the corresponding relative path *)
(* under the destination, later layers winning.  dir_cp into an existing  *)
(* directory (lines 176-180) flattens instead.                            *)
(***************************************************************************)
PathsPreserved ==
  \A k \in AllKinds : BuiltThisRun(k) =>
    LET files == [p \in DOMAIN image[k].files \ {KsymPath} |-> image[k].files[p]]
    IN  files = D!MergeLayers([i \in 1..Len(LayerSeq(k)) |-> Tree(LayerSeq(k)[i])])

(***************************************************************************)
(* The symbol table copied in by this run ends in exactly one place: the  *)
(* image of the first of ksdfs, sdfs (in build_sdfs_bin's order) built in *)
(* this run, or else still loose in FW_DIR_BIN.  It is never lost, never  *)
(* packed twice and never left behind when a store was built.  A move     *)
(* under the wrong kind or no move at all (lines 239-242) breaks it.      *)
(***************************************************************************)
KsymHolders ==
  {k \in KsymStores \cap AllKinds :
      BuiltThisRun(k) /\ KsymOf(run) \in F!Range(image[k].files)}
    \cup (IF loose = KsymOf(run) THEN {"loose"} ELSE {})

KsymHome ==
  LET built == {i \in 1..Len(FixedKinds) :
                  FixedKinds[i] \in KsymStores /\ BuiltThisRun(FixedKinds[i])}
  IN  IF built = {} THEN "loose"
      ELSE FixedKinds[CHOOSE i \in built : \A j \in built : i <= j]

KsymExactlyOnce ==
  (pc = "sdfs_done" /\ cfg.kallsyms) => KsymHolders = {KsymHome}

(***************************************************************************)
(* Spec 4.6 step 2: the symbol table is packed only when this build's     *)
(* configuration retains it.  Lines 239-242 move any ksym.bin lying in    *)
(* FW_DIR_BIN, whichever run left it there and whatever .config says now. *)
(***************************************************************************)
FreshKsym ==
  \A k \in AllKinds : BuiltThisRun(k) =>
    \A p \in DOMAIN image[k].files :
      IsKsym(image[k].files[p]) => (image[k].files[p] = KsymOf(run) /\ cfg.kallsyms)

(***************************************************************************)
(* Spec 5: every stage clears its own output, so a rerun is deterministic *)
(* and not additive.  When a kind has no source any more,                 *)
(* build_sdfs_bin_name returns at line 218 and leaves the previous run's  *)
(* <kind>.bin in FW_DIR_BIN.                                              *)
(***************************************************************************)
NoStaleImage ==
  pc = "sdfs_done" => \A k \in AllKinds : image[k] # NoImage => image[k].run = run

(***************************************************************************)
(* Spec 4.5: a kind found under the application's fs_sdfs is assembled    *)
(* from that directory.  build_sdfs_bin_bydir lists apath but passes      *)
(* app_cfg_dir as the app root, so apath/<kind> is never read.            *)
(***************************************************************************)
AppFsKindsBuilt ==
  pc = "sdfs_done" =>
    \A k \in DynKinds :
      (src[<<"app_fs", k>>] \notin {NoDir, {}}) =>
        BuiltThisRun(k) /\ <<"app_fs", k>> \in F!Range(image[k].files)
=============================================================================
