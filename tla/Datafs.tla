------------------------------ MODULE Datafs -------------------------------
(***************************************************************************)
(* build_datafs_bin of src/zephyr/build.py (lines 322-374): the loop over *)
(* the <partition> elements of FW_DIR/firmware.xml.  A partition with a   *)
(* storage_id named udisk takes its content from the app configuration's  *)
(* udisk directory, or else the app's; an absent or empty directory, or   *)
(* one whose capacity exceeds the declared size, is skipped; otherwise    *)
(* build_datafs.py is called with the capacity, and a non-zero exit is    *)
(* sys.exit(1).  Python exceptions the loop can raise on a malformed      *)
(* manifest end the program as well ("crashed").                          *)
(*                                                                         *)
(* One step is one iteration of the loop.  A directory is the sequence of *)
(* the sizes of its files in os.walk order; a size property is its text's *)
(* form and value: int(text, 0) reads "0x..." and plain decimals, and     *)
(* raises ValueError on a decimal with a leading zero.                    *)
(***************************************************************************)
EXTENDS Naturals, Sequences

CONSTANTS
  Manifests,      \* candidate parsed manifests [root, parts or Absent]
  Dirs,           \* candidate udisk directories: NoDir or a size sequence
  NoDir,          \* the directory does not exist
  Absent,         \* a <partition> without that child element
  EncoderResults  \* exit statuses of build_datafs.py: "ok", "fail"

VARIABLES
  manifest,  \* the parsed FW_DIR/firmware.xml
  cfgdir,    \* <app_cfg_dir>/udisk
  appdir,    \* <app_dir>/udisk
  i,         \* the index of the next partition of the loop
  calls,     \* <<partition index, -s capacity, directory, exit>> of each
             \* encoder call
  status     \* "start", "running", "done", "failed" (sys.exit(1)), "crashed"

vars == <<manifest, cfgdir, appdir, i, calls, status>>

\* The reserved FAT region of line 353 and the block size of line 355.
Reserved == 524288  \* 0x80000
Block == 512

Parts == manifest.parts

(***************************************************************************)
(* Lines 343-346: the sum of os.path.getsize over the walk.               *)
(***************************************************************************)
RECURSIVE DirSize(_)
DirSize(d) == IF d = <<>> THEN 0 ELSE Head(d) + DirSize(Tail(d))

\* The rounding of line 355 with the + 511 forgotten.
CapacityTruncated(d) == ((DirSize(d) + Reserved) \div Block) * Block

(***************************************************************************)
(* Lines 353-355: add the reserved region and round up to a block with    *)
(* int((cap + 511) / 512) * 512.  Python 3's / is true division and int() *)
(* truncates; for non-negative sizes this is the quotient of \div.        *)
(***************************************************************************)
Capacity(d) == ((DirSize(d) + Reserved + (Block - 1)) \div Block) * Block

\* int(part_prop['size'], 0) at line 357 on a readable size text.
SizeValue(s) == s.val

\* int(text, 0) raises ValueError on a decimal with a leading zero.
SizeReadable(s) == s.form \in {"hex", "dec"}

\* The comparison of line 357 with >= for >.
TooLargeAtLimit(cap, s) == cap >= SizeValue(s)

\* Line 357: the partition cannot hold the content.
TooLarge(cap, s) == cap > SizeValue(s)

\* The exit test of lines 368-372 with the sys.exit(1) forgotten.
EncoderExitIgnored(res) == "running"

\* Lines 368-372: a non-zero exit of build_datafs.py is sys.exit(1).
EncoderExit(res) == IF res = "ok" THEN "running" ELSE "failed"

\* Lines 337-342: the app configuration's directory, else the app's.
Resolve == IF cfgdir # NoDir THEN cfgdir ELSE appdir

Init ==
  /\ manifest \in Manifests
  /\ cfgdir \in Dirs
  /\ appdir \in Dirs
  /\ i = 1
  /\ calls = <<>>
  /\ status = "start"

(***************************************************************************)
(* Lines 325-331: a manifest whose root is not <firmware> is fatal, and   *)
(* one without <partitions> raises AttributeError on None.findall.        *)
(***************************************************************************)
ParseManifest ==
  /\ status = "start"
  /\ status' = CASE manifest.root # "firmware" -> "failed"
                 [] manifest.parts = Absent    -> "crashed"
                 [] OTHER                      -> "running"
  /\ UNCHANGED <<manifest, cfgdir, appdir, i, calls>>

\* Going on to the next partition: every "continue" of the loop body.
Skip ==
  /\ i' = i + 1
  /\ UNCHANGED <<calls, status>>

(***************************************************************************)
(* One iteration of lines 333-372 for partition i, the body's early       *)
(* continues and exceptions in the order the code meets them.             *)
(***************************************************************************)
Partition ==
  /\ status = "running"
  /\ i <= Len(Parts)
  /\ LET p == Parts[i] IN
     CASE p.blank ->                                  \* None.strip(), line 335
            status' = "crashed" /\ UNCHANGED <<i, calls>>
       [] ~p.storage_id ->                            \* line 336
            Skip
       [] p.name = Absent ->                          \* KeyError, line 336
            status' = "crashed" /\ UNCHANGED <<i, calls>>
       [] p.name # "udisk" \/ Resolve = NoDir ->      \* lines 336-342
            Skip
       [] DirSize(Resolve) = 0 ->                     \* lines 343-350
            Skip
       [] p.size = Absent \/ ~SizeReadable(p.size) ->  \* line 357
            status' = "crashed" /\ UNCHANGED <<i, calls>>
       [] TooLarge(Capacity(Resolve), p.size) ->      \* lines 353-359
            Skip
       [] p.file_name = Absent ->                     \* KeyError, line 361
            status' = "crashed" /\ UNCHANGED <<i, calls>>
       [] OTHER ->                                    \* lines 361-372
            \E res \in EncoderResults :
              /\ calls' = Append(calls, <<i, Capacity(Resolve), Resolve, res>>)
              /\ i' = i + 1
              /\ status' = EncoderExit(res)
  /\ UNCHANGED <<manifest, cfgdir, appdir>>

\* Line 374: the loop is over.
Finish ==
  /\ status = "running"
  /\ i > Len(Parts)
  /\ status' = "done"
  /\ UNCHANGED <<manifest, cfgdir, appdir, i, calls>>

Next == ParseManifest \/ Partition \/ Finish

\* The function runs to its end: no waits other than the blocking encoder.
Spec == Init /\ [][Next]_vars /\ WF_vars(Next)

-----------------------------------------------------------------------------
(***************************************************************************)
(* Reference definitions, from spec 4.4 and 4.7 rather than the code.     *)
(***************************************************************************)

\* The least multiple of the block size that is at least x.
RoundUpRef(x) ==
  CHOOSE m \in {k * Block : k \in 0..(x \div Block + 1)} : m >= x /\ m < x + Block

\* The size a directory needs: its files, the reserved overhead, rounded up.
RequiredSize(d) == RoundUpRef(DirSize(d) + Reserved)

\* The partitions spec 3 selects: a storage_id and the name udisk.
Selected(k) == Parts[k].storage_id /\ Parts[k].name = "udisk"

\* Spec 4.7: the content directory by the precedence of 4.5, the app
\* configuration's over the app's.
ContentDir == IF cfgdir = NoDir THEN appdir ELSE cfgdir

\* A selected partition to be encoded: content that fits the declared size.
Fits(k) ==
  /\ Selected(k)
  /\ ContentDir # NoDir /\ DirSize(ContentDir) > 0
  /\ RequiredSize(ContentDir) <= SizeValue(Parts[k].size)

(***************************************************************************)
(* Spec 4.4: build_datafs.py is only ever called with -s the required     *)
(* size of its content directory, a multiple of 512 no smaller than the   *)
(* files plus 0x80000 and less than a block above it, and never with more *)
(* than the partition declares.  This is the rounding of line 355 and the *)
(* comparison of line 357 together.                                        *)
(***************************************************************************)
CapacitySound ==
  \A j \in 1..Len(calls) :
    LET c == calls[j] IN
      /\ c[2] = RequiredSize(c[3])
      /\ c[2] <= SizeValue(Parts[c[1]].size)

(***************************************************************************)
(* Spec 4.7 and 7: a partition that is skipped (absent, empty or too      *)
(* large) does not stop the loop, so when build_datafs_bin ends normally  *)
(* build_datafs.py has been called exactly for the selected partitions    *)
(* whose content fits, each once and in manifest order, including one of  *)
(* exactly the declared size.                                             *)
(***************************************************************************)
EncodeIffFits ==
  status = "done" =>
    /\ {calls[j][1] : j \in 1..Len(calls)} = {k \in 1..Len(Parts) : Fits(k)}
    /\ \A j \in 1..Len(calls) - 1 : calls[j][1] < calls[j + 1][1]

-----------------------------------------------------------------------------
(***************************************************************************)
(* The refinement mapping onto EncoderLoop: "start" is before the stage,  *)
(* an exception ends the program as sys.exit(1) does, and a call is its   *)
(* partition and exit status.                                             *)
(***************************************************************************)
PartIndices == UNION {1..Len(m.parts) : m \in {mm \in Manifests : mm.parts # Absent}}

LoopStatus ==
  CASE status = "start"                -> "idle"
    [] status \in {"failed", "crashed"} -> "failed"
    [] OTHER                           -> status

LoopCalls == [j \in 1..Len(calls) |-> <<calls[j][1], calls[j][4]>>]

L == INSTANCE EncoderLoop
       WITH Indices <- PartIndices, Results <- EncoderResults,
            status <- LoopStatus, calls <- LoopCalls

(***************************************************************************)
(* Spec 4.7 and 7 (ExternalToolFailure): build_datafs_bin implements      *)
(* EncoderLoop.  It encodes each partition at most once, in manifest      *)
(* order; a failing build_datafs.py ends the program, so nothing is       *)
(* encoded after it (the sys.exit(1) of line 372); and the loop always    *)
(* ends, whatever the manifest holds.                                     *)
(***************************************************************************)
LoopRefined == L!Spec
=============================================================================
