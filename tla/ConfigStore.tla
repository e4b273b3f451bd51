---------------------------- MODULE ConfigStore ----------------------------
(***************************************************************************)
(* The .config readers of src/zephyr/build.py: read_val_by_config (lines  *)
(* 377-388), read_soc_by_config (391-402) and is_config_KALLSYMS          *)
(* (305-319).  build_firmware asks them for CONFIG_APP_TRANSMITTER,       *)
(* CONFIG_FW_VERSION_NUMBER, CONFIG_SOC_SERIES and CONFIG_KALLSYMS of one *)
(* .config, in any order.                                                  *)
(*                                                                         *)
(* A line is a sequence of tokens, without its newline: "#", "=", the     *)
(* quote character, " " for whitespace, key names and value words.  A     *)
(* value is returned as the token sequence the code returns.              *)
(***************************************************************************)
EXTENDS Naturals, Sequences, SequencesExt

CONSTANTS
  Files,    \* candidate .config files: sequences of lines
  ValKeys,  \* the keys build_firmware passes to read_val_by_config
  SocKey,   \* CONFIG_SOC_SERIES
  KsymKey,  \* CONFIG_KALLSYMS
  Quote,    \* the character "
  Space,    \* whitespace
  Unread,   \* a query not made yet
  Crash     \* the reader raised an exception

VARIABLES
  file,   \* the .config being read
  result  \* query -> the value returned, Crash, or Unread

vars == <<file, result>>

Queries == {<<"val", k>> : k \in ValKeys} \cup {<<"soc">>, <<"ksym">>}

\* elem[0] != '#': a comment line is skipped.
Comment(l) == l # <<>> /\ l[1] = "#"

\* str.strip(chars): drop the tokens of C at both ends.
StripSet(s, C) ==
  LET f == SelectInSeq(s, LAMBDA c : c \notin C)
      l == SelectLastInSeq(s, LAMBDA c : c \notin C)
  IN IF f = 0 THEN <<>> ELSE SubSeq(s, f, l)

\* str.split("="): the segments between every "=".
Split(s) ==
  LET op(acc, c) == IF c = "="
                    THEN Append(acc, <<>>)
                    ELSE [acc EXCEPT ![Len(acc)] = Append(@, c)]
  IN FoldLeft(op, <<<<>>>>, s)

\* _c = elem.strip().split("=") of a line.
Fields(l) == Split(StripSet(l, {Space}))

\* The first non-comment line whose first field is the key token, or 0.
FirstMatch(key) ==
  SelectInSeq(file, LAMBDA l : ~Comment(l) /\ Fields(l)[1] = <<key>>)

(***************************************************************************)
(* read_val_by_config and read_soc_by_config: the second field of the     *)
(* first matching line, quotes stripped, or the default.  A matching line *)
(* without "=" has no _c[1]: IndexError.                                  *)
(***************************************************************************)
ReadLine(key, default) ==
  LET j == FirstMatch(key) IN
    CASE j = 0                    -> default
      [] Len(Fields(file[j])) < 2 -> Crash
      [] OTHER                    -> StripSet(Fields(file[j])[2], {Quote})

\* Lines 377-388: a value of build_firmware's, default "0".
ReadVal(k) ==
  /\ result[<<"val", k>>] = Unread
  /\ result' = [result EXCEPT ![<<"val", k>>] = ReadLine(k, <<"0">>)]
  /\ UNCHANGED file

\* Lines 391-402: the SoC series, default "lark".
ReadSoc ==
  /\ result[<<"soc">>] = Unread
  /\ result' = [result EXCEPT ![<<"soc">>] = ReadLine(SocKey, <<"lark">>)]
  /\ UNCHANGED file

\* Lines 305-319: a non-comment line with the key, whatever its value.
IsKallsyms ==
  /\ result[<<"ksym">>] = Unread
  /\ result' = [result EXCEPT ![<<"ksym">>] = FirstMatch(KsymKey) # 0]
  /\ UNCHANGED file

Init ==
  /\ file \in Files
  /\ result = [q \in Queries |-> Unread]

Next == (\E k \in ValKeys : ReadVal(k)) \/ ReadSoc \/ IsKallsyms

Spec == Init /\ [][Next]_vars

-----------------------------------------------------------------------------
(***************************************************************************)
(* Spec 4.1, the reference: split a non-comment line on its first "=",    *)
(* trim the quotes around the value; the first line with the key wins,    *)
(* and "0" when there is none.                                            *)
(***************************************************************************)
Entry(l) == StripSet(l, {Space})

Eq(l) == SelectInSeq(Entry(l), LAMBDA c : c = "=")

KeyOf(l) == SubSeq(Entry(l), 1, Eq(l) - 1)

ValueOf(l) == StripSet(SubSeq(Entry(l), Eq(l) + 1, Len(Entry(l))), {Quote})

SpecGet(k) ==
  LET j == SelectInSeq(file, LAMBDA l : ~Comment(l) /\ Eq(l) > 0 /\ KeyOf(l) = <<k>>)
  IN IF j = 0 THEN <<"0">> ELSE ValueOf(file[j])

(***************************************************************************)
(* Spec 4.1: whenever read_val_by_config returns, it returns the value    *)
(* the configuration store defines: everything after the first "=" of the *)
(* first line with the key.  Line 383 splits on every "=" and line 385    *)
(* keeps only the text up to the second one.                              *)
(***************************************************************************)
ValueAsSpecified ==
  \A k \in ValKeys :
    result[<<"val", k>>] \notin {Unread, Crash} =>
      result[<<"val", k>>] = SpecGet(k)
=============================================================================
