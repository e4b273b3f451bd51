# TLA+ models of `src/zephyr/build.py`

`build.py` builds and packs the firmware of a Zephyr application for an
Actions SoC. It is one sequential Python program: it lets the developer pick
a board, an application and a configuration, runs the toolchain, and then
`build_firmware` assembles `FW_DIR = <out>/_firmware` out of layered source
directories and external encoders. Nothing in it runs concurrently. What is
hard about it is state that outlives a run: `FW_DIR` is never cleared, so
each run starts from whatever an earlier run, maybe an aborted one, left
there. The developer may also edit the sources and `.config` between runs.
The models therefore check **sequences of runs** with edits in between. An
external tool that fails, and so calls `sys.exit(1)` partway through, is one
of the steps.

## Inventory

| Component | Code | State it keeps | Operations |
|---|---|---|---|
| ConfigStore | `read_val_by_config` 377-388, `read_soc_by_config` 391-402, `is_config_KALLSYMS` 305-319 | none (reads `zephyr/.config`) | first-match key lookup, default `"0"` / `"lark"` |
| OverrideResolver | `dir_cp` 173-182, `dir_tree_cp` 184-197, `check_cp` 199-207 | the destination directory | flattening copy, structure-keeping copy, single file or tree copy |
| FilesystemAssembler | `build_sdfs_bin_name` 209-256, `build_sdfs_bin_bydir` 258-279, `build_sdfs_bin` 282-288 | `FW_DIR_BIN/<kind>` staging trees, `<kind>.bin`, loose `ksym.bin` | resolve layers, rmtree, merge, move `ksym.bin`, run `build_sdfs.py` |
| PartitionManifest + data filesystem | `build_datafs_bin` 322-374 | `FW_DIR_BIN/<file_name>` | parse `firmware.xml`, select `udisk` partitions, capacity, run `build_datafs.py` |
| CapacityValidator | lines 343-359 | none | sum sizes, add 0x80000, round up to 512, compare |
| NVRAM | `build_nvram_bin` 147-171 | `nvram.bin` | app/board `nvram.prop` resolution, run `build_nvram_bin.py` |
| PipelineOrchestrator | `build_firmware` 404-569 | the whole `FW_DIR` | 15 stages in a fixed order, stop at the first fatal tool exit |
| CLI front-end | `main` 620-780, `read_choice` 66-94, `read_choice_file` 97-129, `to_int` 55-64 | `.build_config`, `prj.conf` | choose board/app/config, clean, menuconfig, pack |
| Toolchain | `build_zephyr_app_by_gcc/keil`, `build_zephyr_menuconfig`, `run_cmd` 133-145, 571-618 | `sdk_build/zephyr/.config` | choose `CONF_FILE`, shell out and check the exit code |

How they interact:
- `build_firmware` calls each component in order and reads `.config`
  through ConfigStore. The global `zephyr_out` is set at line 426, before
  `build_sdfs_bin` needs it.
- All components share one mutable resource, the directory tree `FW_DIR`.
  An external tool is a blocking call; a non-zero exit ends the program.

What is hard to test (each item is a hazard in `PROJECT.json`, with its line):
- state left by earlier runs: staging trees, `<kind>.bin`, a loose
  `ksym.bin`, `firmware.xml`, and the `config/` and `att/` subtrees;
- the order of copies that decides which layer wins, and the `dir_cp`
  flattening that depends on whether the destination already existed;
- the argument mix-up in `build_sdfs_bin_bydir`;
- a tool failing partway through a run;
- capacity arithmetic at its boundary;
- the platform-dependent packer command.

What makes each component correct:
- **Assembler**: an image holds exactly this run's layers, with a later
  layer winning; a kind with no source produces nothing; the symbol table
  ends up in exactly one store.
- **Pipeline**: no stage runs after a fatal failure; the manifest must
  exist; prebuilt files only fill gaps; reruns are deterministic.
- **Datafs**: a partition is built exactly when its content fits.
- **ConfigStore**: it returns the first match and the default otherwise.

## Modules

### `DirCopy` (OverrideResolver, operators only)
A directory is `NoDir` or a function from relative paths (`<<n>>` or
`<<d, n>>`) to contents.
- `DirCp(out, in)` is `dir_cp`. It returns the set of possible results, one
  per `os.walk` order of the subdirectories. When `out` is missing it is
  `shutil.copytree`; otherwise every file goes to `<<basename>>`.
- `DirTreeCp` is `dir_tree_cp`.
- `MergeLayers` is the spec's merge (relative paths, later layer wins). It is
  the reference that `PathsPreserved` compares against.

### `SdfsBuild` (FilesystemAssembler over repeated runs)
Variables:
- `src`: each source location `<<family, kind>>` maps to its set of file
  paths or to `NoDir`. Every file's content is its own location, so an
  image shows where each file came from.
- `cfg`: `CONFIG_APP_TRANSMITTER` and `CONFIG_KALLSYMS`.
- `stage`: the `FW_DIR_BIN/<kind>` staging trees.
- `image`: `<kind>.bin`, holding the run that wrote it and the tree it
  encoded.
- `loose`: `FW_DIR_BIN/ksym.bin`.
- `pc`, `todo`, `run`: where the current run is.

Actions:
- `StartRun`: a new invocation. The developer may edit `src` and `cfg`.
  Lines 414-428 then copy `ksym.bin` and enter `build_sdfs_bin`.
- `BuildFixed` and `BuildDyn` each run one whole `build_sdfs_bin_name`
  call. The call checks that a source exists, does the rmtree, then the
  board, app and transmitter `dir_cp` with their fallbacks, then the
  `ksym.bin` move, then the encoder. An encoder failure sets
  `pc = "failed"` (`sys.exit(1)`).
- `Discover`: the `all_dirs` listing of `build_sdfs_bin_bydir`.

The layers of a discovered kind are resolved exactly as the code passes
them. Lines 279 and 211-213 give `app_cfg_dir/<kind>` as its app layer,
with fallback `apath/prebuild/<soc>/<kind>`.

`MC_SdfsBuild` defines small source spaces. Files are `a` and `b`, at the
top or in subdirectory `d`, so a top-level file and a nested one can share
a basename.
- `MergeSpace`: one fixed kind with board, app, prebuild, transmitter and
  prebuild-transmitter layers, 72 source states.
- `KsymSpace`: `ksdfs` and `sdfs`, plus a kind `k1` that can sit under the
  board's fs_sdfs, the app's fs_sdfs, or `app_cfg_dir/k1`.

In both spaces the encoder may fail. There are two runs, and `.config` may
change between them. The passing run takes `MergeSpace \cup KsymSpace`
with all three fixed kinds, so every source state is one of the two.

### `Pipeline` (abstract specification of `build_firmware`)
What the orchestrator promises, with no files in it:
- `status` is `idle`, `running`, `done`, `returned` or `failed`;
- `calls` is the sequence of `<<tool, result>>` of the current run.

Actions:
- `Begin` starts a run.
- `Call(t, r)` calls a tool no earlier in stage order than the last one.
  Only `sdfs` and `datafs` may repeat. A failing tool ends the run, and the
  packer's success ends it `done`.
- `Abort` is a fatal check that is not a tool.
- `Return` ends the run before the packer.

`Spec` has weak fairness on the progress steps: a started run never stalls.

### `Firmware` (PipelineOrchestrator, NVRAM, the non-sdfs stages)
Firmware takes every variable of `SdfsBuild` through
`S == INSTANCE SdfsBuild` and adds:
- `env`: this run's other sources, namely the `nvram.prop` files,
  `config_conf` and the `<conf>_usr_config.bin` files, the `firmware.xml`
  files and whether they are valid, the single-file override sources, the
  config trees, the udisk content (none, empty, fits, large) and whether
  `zephyr.bin` exists;
- `bin`: the single files of `FW_DIR_BIN`, each tagged with where it came
  from (`<<"nvram", r>>`, `<<"prebuilt">>`, `<<"ov", source>>`, ...);
- `cfgdir`: which trees were merged into `FW_DIR_BIN/config`;
- `fwxml`: `FW_DIR/firmware.xml`, as `[from, run, valid]`;
- `packed`: the arguments of the last successful packer call.

There is one action per stage of `build_firmware`, in the code's order:
- `Invoke` (404-416);
- `BuildNvram` (147-171);
- the three `SdfsBuild` steps;
- `CopyPrebuilt` (429-431);
- `UsrConfig` (433-436);
- `FwXml` (438-446);
- `Overrides` (448-468);
- `Boot` (470-486);
- `Recovery` (489-501);
- `Datafs` (322-374, called at 504);
- `AppBin` (506-513);
- `Pack` (541-569).

Each tool call is `CallTool`: it appends to `calls`, and a non-zero exit
sets `pc = "failed"`. `Status` maps `pc` to the abstract status, and
`PipelineRefined == P!Spec` checks the refinement.

`MC_Firmware` keeps the sdfs stage small: `ksdfs` may or may not exist,
and `sdfs` and a discovered `k1` always exist. It defines one environment
space per question:
- `PipelineEnvs` has every exit of a run;
- `CopyEnvs` has two configurations and several manifest placements;
- `PipelineCopyEnvs` is both, for `fw_pipeline`.

### `Datafs` (PartitionManifest, CapacityValidator)
`build_datafs_bin` on its own, one loop iteration per step.
- `manifest` is the parsed `firmware.xml`: its root tag and its partitions
  (or `Absent` when there is no `<partitions>`). A partition records whether
  it has a `storage_id`, its `name`, `size` and `file_name` (each maybe
  `Absent`) and whether some child element has no text.
- A size is its text's form and value: `int(text, 0)` reads hex and plain
  decimals and raises `ValueError` on a decimal with a leading zero.
- `cfgdir` and `appdir` are `<app_cfg_dir>/udisk` and `<app_dir>/udisk`:
  `NoDir` or the sizes of their files.
- `calls` holds `<<partition, -s capacity, directory, exit>>` per encoder
  call.

Actions: `ParseManifest` (325-331: bad root is `sys.exit(1)`, no
`<partitions>` an `AttributeError`), `Partition` (333-372, with every
`continue` and every exception in the code's order) and `Finish` (374).
`DirSize` and `Capacity` translate 343-355; `TooLarge` is the `>` of 357.

The reference definitions are the spec's: `RoundUpRef` is the least
multiple of 512 at least x (a `CHOOSE`), `ContentDir` the precedence of spec
4.7, `Fits` the selection rule of spec 3 with the size check of 4.4.

`MC_Datafs` puts the sizes at the block boundaries: one byte and 512 bytes
of content both need exactly `0x80200`, 513 bytes need `0x80400`, and the
partitions declare `0x80200` (hex or decimal), `0x80400`, or a
leading-zero decimal. Manifests have one or two partitions, skipped ones
before fitting ones, and each malformed kind once.

`EncoderLoop` is the stage's abstract specification: `status` (`idle`,
`running`, `done`, `failed`) and `calls` as `<<partition, result>>`.
`Start` reads the manifest; `Encode(k, r)` only takes a partition after
the last one encoded, and a failing result ends the stage; `Stop` ends it
either way. Weak fairness on its progress says the stage always ends.
`Datafs` maps onto it through `L == INSTANCE EncoderLoop WITH ...`:
`start` is `idle`, `crashed` is `failed` (an exception ends the program
as `sys.exit(1)` does), and each call keeps its partition and exit.
`EncoderExit` is the exit test of lines 368-372.

`Firmware!Datafs` is the same stage seen from the pipeline: its outcome
(fits or skipped) is what `env.udisk` chooses there.

### `ConfigStore`
The three `.config` readers as actions over one file. A line is a sequence
of tokens (`#`, `=`, the quote, whitespace, key names, value words).
- `StripSet` is `str.strip(chars)`, `Split` is `str.split("=")` (a
  `FoldLeft`), `Fields` their composition on a line, `FirstMatch` the loop
  with its `elem[0] != '#'` test.
- `ReadLine` is the body of `read_val_by_config` and
  `read_soc_by_config`: the second field, quotes stripped, or the default,
  or `Crash` for a matching line without `=`.
- `IsKallsyms` matches the key only.

`SpecGet` is the spec 4.1 reading: split on the *first* `=`.
`MC_ConfigStore` builds one- and two-line files from key parts (plain,
commented, indented) and value parts (plain, quoted, empty, holding `=`).

### `Cli` (the front-end `main`)
`main` over repeated invocations:
- `buildcfg` is `.build_config` (`NoFile` or the five saved names);
- `soln` holds the contents of the `app_conf/<ac>/<conf>` files, which the
  developer may edit between runs;
- `prj` is each application's `prj.conf`;
- `outdirs` maps each `sdk_build` directory, `<<app path, stem, board>>`,
  to `NoFile` before its first build, and afterwards to the build in it:
  `want`, the content of the configuration selected for it, and `used`,
  the content the toolchain built with;
- `pc`, `sel`, `answer` and `run` track the current invocation.

`ToInt`, `PyIndex` and `ReadChoice` translate `to_int` and
`read_choice`/`read_choice_file`, including `0 == False` and Python's
negative indexing. `Select` is the interactive selection (672-702) with
its two `exit(0)`s. `Invoke` is lines 620-765 up to the first external
step: `-n`, the `.build_config` read or the selection and its save, the
`prj.conf` refresh (`CopyPrj`), then `-c`, `-m` or `makedirs`.
The external steps come next:
- `BuildByGcc` is `build_zephyr_app_by_gcc` (593-608). `ConfUsed` is the
  configuration `west build` reads: `app_conf/<ac>/prj.conf` when that
  file exists (the `-DCONF_FILE` of 597-601), else the application's
  `prj.conf`. A good build records it in `outdirs`. A failed one exits 1
  and may or may not have regenerated the `.config`.
- `BuildByKeil` is `build_zephyr_app_by_keil` (571-591): on Windows a
  good `ninja2mdk` run exits 0 without packing, and off Windows `-k` has
  already exited 1 in `Invoke`. `ninja2mdk.cmd` is not in the repository, so
  whether it leaves a `.config` in `sdk_build` is unknown; the model
  assumes it does not.
- `BuildFirmware` is line 779, with `Firmware` as its model. Its first
  read opens `sdk_build/zephyr/.config` (line 414), so `-p` on a directory
  that was never built ends in a crash.

The tree is abstracted to the shapes `main` tells apart: an application
with `app_conf`, one with sub apps, one with neither `CMakeLists.txt`, one
without `prj.conf`. `MC_Cli` has two boards, one of each of three shapes,
two `app_conf` variants, and `x.conf` and `x.rel.conf`, which share the
outdir stem `x`.

## Runs

| Run | Checks | Result |
|---|---|---|
| `sdfs_merge` (`SdfsMerge.cfg`) | `TypeOK`, `FreshSources`, `TopLevelOverride`, `KsymExactlyOnce` | pass |
| `sdfs_paths` (`SdfsPaths.cfg`) | `PathsPreserved` | violation: `dir_cp` flattens nested files of later layers (spec 4.3) |
| `sdfs_fresh_ksym` (`SdfsFreshKsym.cfg`) | `FreshKsym` | violation: a stale `ksym.bin` is packed after `CONFIG_KALLSYMS` is turned off |
| `sdfs_stale_image` (`SdfsNoStaleImage.cfg`) | `NoStaleImage` | violation: `<kind>.bin` of a removed kind survives the rerun (spec 5) |
| `sdfs_app_fs_kinds` (`SdfsAppFsKindsBuilt.cfg`) | `AppFsKindsBuilt` | violation: the app's `fs_sdfs/<kind>` is never read (line 279) |
| `fw_pipeline` (`FwPipeline.cfg`) | `TypeOK`, `PackedConsistent`, `ManifestPrecedence`, `PipelineRefined` | pass |
| `fw_manifest_fresh` (`FwManifestFresh.cfg`) | `ManifestFresh` | violation: a stale `firmware.xml` passes the check of line 444 |
| `fw_prebuilt` (`FwPrebuilt.cfg`) | `BuiltNvramKept` | violation: the SDK prebuilt copies (429-431) overwrite the built `nvram.bin` |
| `datafs_capacity` (`DatafsCapacity.cfg`) | `CapacitySound`, `EncodeIffFits`, `LoopRefined` | pass |
| `config_value` (`ConfigValue.cfg`) | `ValueAsSpecified` | violation: `T=y=n` reads as `y`; spec 4.1 says `y=n` |
| `cli_menus` (`CliMenus.cfg`) | `ChoiceAsNumbered` | pass |
| `cli_conf_file` (`CliConfFile.cfg`) | `BuiltAsSelected` | violation: selecting `x.conf` in a variant that also holds `prj.conf` builds with `prj.conf` |

What the passing runs show:
- **FreshSources**: every file of an image made in this run comes from a
  layer this run resolves, and that layer still holds a file of that name.
  The rmtree at line 222 is what keeps this true. Without it, the mutant
  `ClearStagingKept` packs a file the developer deleted.
- **TopLevelOverride**: when a layer has a top-level file `n`, no earlier
  layer's `n` survives in the image. The mutant `CopyLayersAppFirst`
  breaks it. It is about the order of the copies; which directory each
  layer falls back to is modelled (`Fallback`) but not stated apart from
  the code.
- **KsymExactlyOnce**: when `CONFIG_KALLSYMS` is set, this run's symbol
  table is in exactly one place at the end of the stage, and that place is
  `KsymHome`: the image of the first of ksdfs and sdfs (in
  `build_sdfs_bin`'s order) built in this run, or `FW_DIR_BIN` if neither
  was. The mutant `MoveKsymSdfsOnly` (the guard of line 239 naming sdfs
  only) breaks it, and so do a copy instead of the move and no move.
- **PipelineRefined**: over two runs, with every tool able to fail,
  `build_firmware` implements `Pipeline`. Its tools run in stage order,
  nothing runs after a fatal exit, and a run never stalls. This holds
  whether the manifest is missing or invalid (the invalid case is found
  only at line 328, after the boot and recovery tools have run), whether
  nvram is skipped, and whether `zephyr.bin` is missing. The mutant
  `BootNoExit` lets the recovery packer run after a failed
  `build_boot_image.py` (spec scenario D), and the check catches it.
- **TypeOK** also states that no stage after line 444 runs without a
  manifest on disk. The mutant `XmlFoundAlways` drops that check.
- **PackedConsistent**: a run whose packer succeeded packed a directory
  made wholly by this run: every tool call of the run exited 0, the
  manifest's root was `<firmware>`, and `FW_DIR_BIN` holds this run's
  `app.bin` and, when the udisk content fits, this run's udisk image. The
  mutant `ManifestUsableAlways` drops the root-tag check of lines 325-327.
  Then a run with an invalid manifest goes on to the packer, and the check
  catches it. `PipelineRefined` does not: to `Pipeline` the missing exit
  is just a fatal check that did not fire.
- **ManifestPrecedence**: when any source holds a `firmware.xml`, the
  manifest is this run's copy of the most specific one. The mutant
  `XmlOrderReversed` reverses the check_cp order.
- **CapacitySound**: every `build_datafs.py -s` is the least multiple of
  512 no smaller than the files plus `0x80000`, and no more than the
  partition declares. The mutant `CapacityTruncated` (the `+ 511`
  forgotten) breaks it with one byte of content.
- **EncodeIffFits**: when `build_datafs_bin` ends normally, the encoder
  was called exactly for the selected partitions whose content fits, once
  each, in manifest order, also after a skipped one. The mutant
  `TooLargeAtLimit` (`>=` for `>`) skips the content that needs exactly
  `0x80200` in a `0x80200` partition.
- **LoopRefined**: `build_datafs_bin` implements `EncoderLoop`. It
  encodes each partition at most once and in manifest order, nothing is
  encoded after a failing `build_datafs.py`, and the loop ends on every
  manifest, malformed ones included. `EncodeIffFits` only looks at runs
  that end normally, so it cannot tell whether a failure stops the loop.
  The mutant `EncoderExitIgnored` forgets the `sys.exit(1)` of line 372:
  the next partition is then encoded after a failure, and the check
  catches it.
- **ChoiceAsNumbered**: the board saved is the menu entry the answer
  names (`MenuEntry`). That is the entry whose number was typed; the first
  one (the default the prompt shows) for an empty, non-numeric or 0
  answer; the last one for a number past the end; and the whole part of a
  decimal. A negative answer names no entry and is not constrained. The
  mutant `ReadChoiceNoDecrement` drops the `j -= 1`.

What the violation runs add:
- `config_value` finds that a value holding `=` is cut at it (spec 4.1
  splits on the first `=`).
- `cli_conf_file` finds that the configuration the developer selects is
  not always the one built. `main` copies the selected
  `app_conf/<ac>/x.conf` over the application's `prj.conf`. But
  `build_zephyr_app_by_gcc` passes `-DCONF_FILE=app_conf/<ac>/prj.conf`
  whenever that file exists, so the copy is never read. TLC needs one
  invocation to show it.

Bounds:
- Two runs are enough for every stale-state case: one run leaves state
  behind and the next one trips over it.
- One subdirectory and two basenames cover every kind of collision:
  top/top, top/nested across layers, and nested/top within one layer.

More bounds:
- In `Firmware`, each environment space varies only the sources its
  question needs. `PipelineEnvs` has 32 environments per run, and two
  transmitter settings and two sdfs source states; `fw_pipeline` adds the
  20 of `CopyEnvs` and reaches 190,323 states.
- `Datafs` needs one loop per partition, and two partitions are enough
  for a skip before a build; the sizes sit exactly on the block
  boundaries, where both mutants bite.
- `Cli` has three invocations, so a build, an edit and a rebuild can
  have `-n` or `-c` between them. Every menu is answered with the default,
  0, 2, 3, -1, -3 and 2.5. These reach the `to_int` test, the clamping,
  the negative index and its `IndexError`. `cli_menus`
  runs on a Windows host, so that `-k` reaches `BuildByKeil`. There,
  `-p` on a directory that was never built reaches the crash of line 414.
  `cli_conf_file` runs on Linux, with `x.conf` and `prj.conf` in each
  variant, for one invocation.
- The tool results are `ok` and `fail` wherever a failure matters, and
  only `ok` elsewhere.

Fairness: `build.py` runs to completion once started. It has no threads
and no waits other than blocking tool calls, and the tools are assumed to
return (spec 5: a hung tool hangs the build). So `Spec` has weak fairness
on the stage steps, but not on `StartRun`/`Invoke`: nobody has to run
`build.py` again. The liveness part of `PipelineRefined`, the weak
fairness of `Pipeline`'s progress, is checked under this assumption. The
runs set `CHECK_DEADLOCK FALSE` because the program really stops after
its last run.

## Plan

Done:
1. `DirCopy`, `SdfsBuild` and `MC_SdfsBuild` (filesystem assembly over
   reruns).
2. `Firmware` (every stage of `build_firmware`) and `Pipeline`, with the
   refinement checked as a property.
3. `Datafs`, `ConfigStore` and `Cli`.
4. The toolchain steps in `Cli`: the `CONF_FILE` choice and the
   `.config` each `sdk_build` holds. The two passing `SdfsBuild` runs were
   merged into one.
5. `EncoderLoop`, the abstract specification of the data-filesystem
   stage, with `Datafs` checked to implement it.

Next, within the limit of 12 runs (all used):
- compose `Datafs` into `Firmware`, replacing the fits/skipped choice of
  `env.udisk` by the loop, if the state space allows. Every outcome of one
  loop iteration is already one of `env.udisk`'s values, and `LoopRefined`
  checks the loop against what `Pipeline` assumes of the stage (repeated
  calls, fail-stop). So the composition would add states but no behaviour
  of `build_firmware` that the model misses;
- the `att` subtree and the `tr_config` tree of `FW_DIR_BIN/config`, which
  are merged and never cleared (hazard at line 459).

Stale-state findings without a run of their own are hazards with notes:
the udisk image kept after a skip (line 359, the same pattern as
`sdfs_stale_image`), `tr_config` left in `FW_DIR_BIN/config`, and the
missing `-v fw_ver` on non-Windows hosts.

## Not modelled

- The external encoders and packers, and what the toolchain compiles.
  Their output format is opaque. Only their exit status is modelled, as a
  nondeterministic ok/fail, together with which configuration file
  `west build` is given.
- `file_link`, which nothing calls.
- Console output, path joining and Windows/Unix command spelling. The
  exception is where the spelling changes what is passed: `Pack` records
  whether `-v fw_ver` is passed.
- The `att` subtree of `FW_DIR_BIN`. It is merged like `config` and read
  by no property.
- The capacity arithmetic inside `Firmware!Datafs`, which is abstracted to
  fits/skipped; `Datafs` checks it on its own.
- In `Cli`: `-t`, `-l`, `-s` and `-d`, which only choose a root or pass an
  argument on. The `boards/<board>` configuration directory (line 720),
  whose `prj.conf`, when present, is the `CONF_FILE` of a board-specific
  build; no selection is involved there. The edits the developer makes in
  menuconfig, which change `sdk_build/zephyr/.config` on purpose; the
  `-m` exit is 1 either way. Deleting boards or applications between
  runs. Applications without `app_conf` (shape `flat`): `MC_Cli` has none,
  and for them the selected `.conf` only names the out directory (hazard
  at line 691).
- Names containing `=` in `.build_config`: `config_value` already shows
  what the same `split("=")` does to them.
- Empty subdirectories, and a name used both as a file and as a directory:
  `DirCopy` keeps `Names` and `SubDirs` apart.
