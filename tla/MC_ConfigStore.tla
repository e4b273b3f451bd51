--------------------------- MODULE MC_ConfigStore ---------------------------
(***************************************************************************)
(* .config files of one or two lines for ConfigStore.  A line is a key    *)
(* part, maybe an "=", and a value part; the keys T (a read_val key), S   *)
(* (CONFIG_SOC_SERIES) and L (CONFIG_KALLSYMS), maybe commented out or    *)
(* indented; values plain, quoted, empty, or holding an "=".              *)
(***************************************************************************)
EXTENDS ConfigStore

KeyParts == {<<"T">>, <<"#", "T">>, <<Space, "T">>, <<"S">>, <<"L">>}

ValueParts ==
  {<<>>, <<"y">>, <<Quote, "y", Quote>>, <<"y", "=", "n">>}

ConfigLines ==
  {k \o e \o v : k \in KeyParts, e \in {<<>>, <<"=">>}, v \in ValueParts}

ConfigFiles == {<<l>> : l \in ConfigLines} \cup
               {<<l1, l2>> : l1, l2 \in ConfigLines}
=============================================================================
