------------------------------- MODULE MC_Cli --------------------------------
(***************************************************************************)
(* A tree for Cli: two boards; an application with app_conf, one with sub *)
(* apps and one without prj.conf; two app_conf variants and two           *)
(* configuration files, x.conf and x.rel.conf, that share an outdir stem. *)
(***************************************************************************)
EXTENDS Cli

CliBoards == <<"b1", "b2">>

CliSubs == <<"s1">>

CliAppConfs == <<"ac1", "ac2">>

CliApps == <<"a_conf", "a_subs", "a_noprj">>

CliShape == [a \in {"a_conf", "a_subs", "a_noprj"} |->
               CASE a = "a_conf" -> "confs"
                 [] a = "a_subs" -> "subs"
                 [] OTHER        -> "noprj"]

CliConfs == <<<<"x", "conf">>, <<"x", "rel", "conf">>>>

\* Answers at a prompt: an empty one, 0 (the default, as to_int gives 0),
\* 2, 3 (past the end of the short menus), -1 (the last entry, counted from the end), -3 (an IndexError on
\* them) and 2.5 (int(float) is 2).
CliInputs ==
  {[kind |-> "text", num |-> 0], [kind |-> "float", num |-> 25]} \cup
  {[kind |-> "int", num |-> n] : n \in {0, 2, 3, -1, -3}}

\* An app_conf variant holding prj.conf next to x.conf.
CliConfsPrj == <<<<"x", "conf">>, <<"prj", "conf">>>>

CliFlags == {{}, {"n"}, {"c"}, {"m"}, {"p"}, {"k"}}
=============================================================================
