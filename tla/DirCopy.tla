------------------------------ MODULE DirCopy ------------------------------
(***************************************************************************)
(* The directory-copy helpers of src/zephyr/build.py: dir_cp, dir_tree_cp *)
(* and the shutil.copytree they fall back to.                              *)
(*                                                                         *)
(* A directory is either NoDir (os.path.exists is false) or a function    *)
(* from the relative paths of its regular files to their contents.  Paths *)
(* are one or two levels deep: <<n>> is a file at the top of the tree and *)
(* <<d, n>> a file inside the subdirectory d.  Contents are opaque: the    *)
(* modules that use this one tag a file with the directory it came from.  *)
(* Empty subdirectories are not represented; no caller looks at them.     *)
(***************************************************************************)
EXTENDS Naturals, Sequences, FiniteSets, TLC

LOCAL F == INSTANCE Functions

CONSTANTS
  Names,     \* basenames of regular files
  SubDirs,   \* names of subdirectories
  NoDir      \* model value: the directory does not exist

\* A file and a subdirectory never share a name: copyfile onto a directory
\* and mkdir over a file raise, which build.py never provokes on purpose.
ASSUME Names \cap SubDirs = {}

Paths == {<<n>> : n \in Names} \cup (SubDirs \X Names)

Base(p) == p[Len(p)]

IsTree(t) == t = NoDir \/ (DOMAIN t \subseteq Paths)

Exists(t) == t # NoDir

FilesOf(t) == IF t = NoDir THEN {} ELSE DOMAIN t

(***************************************************************************)
(* os.walk visits the top of the tree first and then the subdirectories   *)
(* in os.listdir order, which the platform does not specify.  A walk      *)
(* order ranks the subdirectories.                                         *)
(***************************************************************************)
WalkOrders == F!Bijection(SubDirs, 1..Cardinality(SubDirs))

\* The path of in whose basename is n and that os.walk visits last.
LastVisited(in, n, ord) ==
  LET cands == {p \in DOMAIN in : Base(p) = n}
      deep  == {p \in cands : Len(p) = 2}
  IN  IF deep = {} THEN <<n>>
      ELSE CHOOSE p \in deep : \A q \in deep : ord[q[1]] <= ord[p[1]]

\* dir_cp, lines 177-180 (out_dir exists): every file of in_dir, whatever
\* its depth, is copied to the TOP of out_dir under its basename; a later
\* visit overwrites an earlier one.
Flatten(in, ord) ==
  [p \in {<<Base(q)>> : q \in DOMAIN in} |-> in[LastVisited(in, Base(p), ord)]]

(***************************************************************************)
(* dir_cp(out_dir, in_dir): the set of trees out_dir can hold afterwards, *)
(* one per walk order.  A missing in_dir leaves out_dir alone; a missing  *)
(* out_dir is created by shutil.copytree, which keeps the structure.      *)
(***************************************************************************)
DirCp(out, in) ==
  IF in = NoDir THEN {out}
  ELSE IF out = NoDir THEN {in}
  ELSE {Flatten(in, ord) @@ out : ord \in WalkOrders}

(***************************************************************************)
(* dir_tree_cp(out_dir, in_dir): like dir_cp but every file keeps its     *)
(* relative path (the missing subdirectory is created by os.mkdir).       *)
(***************************************************************************)
DirTreeCp(out, in) ==
  IF in = NoDir THEN out
  ELSE IF out = NoDir THEN in
  ELSE in @@ out

(***************************************************************************)
(* What the spec (section 4.3) asks of a merge: every file lands at its   *)
(* relative path and a later layer wins.  layers is lowest priority first.*)
(***************************************************************************)
RECURSIVE MergeLayers(_)
MergeLayers(layers) ==
  IF layers = <<>> THEN NoDir
  ELSE LET lower == MergeLayers(SubSeq(layers, 1, Len(layers) - 1))
           top   == layers[Len(layers)]
       IN  IF top = NoDir THEN lower
           ELSE IF lower = NoDir THEN top
           ELSE top @@ lower
=============================================================================
