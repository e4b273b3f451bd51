---------------------------- MODULE MC_Firmware -----------------------------
(***************************************************************************)
(* Instances of Firmware for TLC.  The sdfs stage is kept small: ksdfs    *)
(* from the board, maybe, and sdfs and a kind k1 under the board's        *)
(* fs_sdfs always, so that one run calls build_sdfs.py two or three       *)
(* times.  Each environment space varies the sources one question needs   *)
(* and fixes the others.                                                  *)
(***************************************************************************)
EXTENDS Firmware

A == <<"a">>

FwKinds == <<"ksdfs", "sdfs">>

\* SdfsBuild's Loc for these kinds, spelled out: a constant's value in the
\* configuration may not go back through the instance that declares it.
FwLoc == {"board", "appcfg", "prebuild", "appcfg_tr", "prebuild_tr", "board_fs",
          "app_fs", "app_fs_prebuild", "app_fs_prebuild_tr"} \X {"ksdfs", "sdfs", "k1"}

FwSrcSpace ==
  {[l \in FwLoc |-> CASE l = <<"board", "sdfs">>  -> {A}
                      [] l = <<"board_fs", "k1">> -> {A}
                      [] l = <<"board", "ksdfs">> -> x
                      [] OTHER                   -> NoDir] : x \in {NoDir, {A}}}

TransmitterCfgs == {[transmitter |-> t, kallsyms |-> FALSE] : t \in BOOLEAN}
PlainCfgs == {[transmitter |-> FALSE, kallsyms |-> FALSE]}

NoOv == [s \in OvSrcs |-> {}]

\* Environments built from a choice per field.
Envs(NV, CO, UC, XM, OK, OV, CS, UD, ZB) ==
  [nvprop : NV, conf : CO, usrcfg : UC, xml : XM, xmlok : OK, ov : OV,
   cfgsrc : CS, udisk : UD, zbin : ZB]

\* Every stage reached and every way out of a run: the manifest missing or
\* invalid, nvram skipped or built, udisk built or not, app.bin missing.
PipelineEnvs ==
  Envs({{}, {"board", "app"}}, {"c1"}, {{}}, {{}, {"board"}}, BOOLEAN, {NoOv},
       {{}}, {"none", "fits"}, BOOLEAN)

\* Configuration files and manifests: two configurations, one with a
\* usr_config; manifests in one, two or no source directories.
CopyEnvs ==
  Envs({{}}, {"c1", "c2"}, {{}, {"c1"}},
       {{}, {"board"}, {"app"}, {"board", "app"}, {"board", "appcfg"}},
       {TRUE}, {NoOv}, {{}}, {"none"}, {TRUE})

\* Both, for the one run that checks the pipeline and the copies together.
PipelineCopyEnvs == PipelineEnvs \cup CopyEnvs
=============================================================================
