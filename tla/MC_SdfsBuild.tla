---------------------------- MODULE MC_SdfsBuild ----------------------------
(***************************************************************************)
(* Instances of SdfsBuild for TLC.  Files are a and b, at the top or in   *)
(* the subdirectory d, so that a board file, an app file and a nested    *)
(* file can share a basename.  Each location may hold a few trees; the   *)
(* locations left out do not exist.                                      *)
(***************************************************************************)
EXTENDS SdfsBuild

A  == <<"a">>
B  == <<"b">>
DA == <<"d", "a">>
DB == <<"d", "b">>

MergeKinds == <<"fatfs">>
KsymKinds  == <<"ksdfs", "sdfs">>

\* CONFIG_KALLSYMS off; CONFIG_APP_TRANSMITTER either way.
TransmitterCfgs == {[transmitter |-> t, kallsyms |-> FALSE] : t \in BOOLEAN}
AllCfgs == [transmitter : BOOLEAN, kallsyms : BOOLEAN]

\* All source states whose location l holds one of shapes[l].
SpaceOf(shapes) ==
  LET ls == DOMAIN shapes
      choices == {g \in [ls -> UNION {shapes[l] : l \in ls}] : \A l \in ls : g[l] \in shapes[l]}
  IN  {[l \in Loc |-> IF l \in ls THEN g[l] ELSE NoDir] : g \in choices}

(***************************************************************************)
(* Layering of one fixed kind: board, app with its prebuild fallback, and *)
(* the transmitter layer with its fallback, with nested and colliding    *)
(* files.                                                                *)
(***************************************************************************)
MergeSpace ==
  SpaceOf(   (<<"board", "fatfs">>       :> {NoDir, {A}, {A, DA}})
          @@ (<<"appcfg", "fatfs">>      :> {NoDir, {A}, {DA, B}})
          @@ (<<"prebuild", "fatfs">>    :> {NoDir, {B}})
          @@ (<<"appcfg_tr", "fatfs">>   :> {NoDir, {A}})
          @@ (<<"prebuild_tr", "fatfs">> :> {NoDir, {DB}}))

(***************************************************************************)
(* The symbol-table stores ksdfs and sdfs, each present or not, and one  *)
(* kind k1 that the board's or the app's fs_sdfs may hold, or that       *)
(* app_cfg_dir/k1 may hold.                                              *)
(***************************************************************************)
KsymSpace ==
  SpaceOf(   (<<"board", "ksdfs">>  :> {NoDir, {A}})
          @@ (<<"appcfg", "sdfs">>  :> {NoDir, {B}})
          @@ (<<"board_fs", "k1">>  :> {NoDir, {A}})
          @@ (<<"app_fs", "k1">>    :> {NoDir, {B}})
          @@ (<<"appcfg", "k1">>    :> {NoDir, {B}}))
\* Both spaces in one run: each source state is one of the two above.
BothKinds == <<"fatfs", "ksdfs", "sdfs">>
BothSpace == MergeSpace \cup KsymSpace
=============================================================================
