----------------------------- MODULE MC_Datafs ------------------------------
(***************************************************************************)
(* Manifests and udisk directories for Datafs.  Sizes sit at the block    *)
(* boundaries around 0x80000: one byte of content needs 0x80200, as does  *)
(* exactly 512 bytes, and 513 bytes need 0x80400.                          *)
(***************************************************************************)
EXTENDS Datafs

\* A <partition> with every child element and non-empty texts.
Part(sid, nm, sz) ==
  [blank |-> FALSE, storage_id |-> sid, name |-> nm, size |-> sz,
   file_name |-> "udisk.img"]

\* Size texts: "0x80200", "524800", "0x80400" and "0524800".
Hex80200 == [form |-> "hex", val |-> 524800]
Dec80200 == [form |-> "dec", val |-> 524800]
Hex80400 == [form |-> "hex", val |-> 525312]
Lead0 == [form |-> "zero_lead", val |-> 524800]

Small == Part(TRUE, "udisk", Hex80200)
Large == Part(TRUE, "udisk", Hex80400)

\* Malformed partitions: an empty element, a storage_id without a name,
\* no file_name, a size int(_, 0) rejects.
Blank == [Small EXCEPT !.blank = TRUE]
NoName == [Small EXCEPT !.name = Absent]
NoFileName == [Small EXCEPT !.file_name = Absent]
BadSize == Part(TRUE, "udisk", Lead0)

\* Other partitions the selection rule passes over.
Boot == Part(TRUE, "boot", Dec80200)
NoSid == Part(FALSE, "udisk", Dec80200)

DatafsManifests ==
  {[root |-> "config", parts |-> <<Small>>],
   [root |-> "firmware", parts |-> Absent]} \cup
  {[root |-> "firmware", parts |-> ps] :
     ps \in {<<>>, <<Small>>, <<Large>>, <<Small, Large>>, <<Boot, NoSid>>,
             <<Large, Small>>, <<Boot, Blank>>, <<NoSid, NoName>>,
             <<NoFileName>>, <<BadSize>>, <<Part(TRUE, "udisk", Dec80200)>>}}

\* Directories: 1 byte, 512 bytes, 513 bytes in two files, only an empty
\* file, no file.
DatafsDirs == {NoDir, <<>>, <<0>>, <<1>>, <<512>>, <<511, 2>>}
=============================================================================
