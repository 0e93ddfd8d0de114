------------------------------- MODULE MCApps -------------------------------
(* Instances of Apps for TLC.                                              *)
EXTENDS Apps

FieldNames ==
  Options \cup {"", "salir", "in", "out", "key", "0", "2", "-3"}
AtoiFields(f) == CASE f = "2" -> 2 [] f = "-3" -> -3 [] OTHER -> 0

Complete == <<"-p", "in", "-o", "out", "-t", "2", "-k", "key">>

(* Complete commands in two orders, with an option twice, with a word too  *)
(* many, with more than ten tokens; commands in which one option or its    *)
(* value is missing; the word salir alone, with a blank, with more words;  *)
(* blank lines.                                                            *)
LineSet ==
  {Complete,
   <<"-k", "key", "", "-t", "2", "-o", "out", "-p", "in", "">>,
   Complete \o <<"-o", "in">>,
   Complete \o <<"-t">>,
   <<"in">> \o Complete,
   Complete \o <<"-t", "2", "-t", "0">>,
   <<"-t", "2">> \o Complete \o <<"in">>,
   <<"-p", "-o", "-o", "out", "-t", "2", "-k", "key">>,
   <<"-o", "out", "-t", "2", "-k", "key">>,
   <<"-p", "in", "-t", "2", "-k", "key">>,
   <<"-p", "in", "-o", "out", "-k", "key">>,
   <<"-p", "in", "-o", "out", "-t", "2">>,
   <<"-p", "in", "-o", "out", "-t", "0", "-k", "key">>,
   <<"-p", "in", "-o", "out", "-t", "-3", "-k", "key">>,
   <<"-p", "-t", "-o", "out", "-k", "key">>,
   <<"salir">>, <<"salir", "">>, <<"", "salir">>, <<"salir", "-p">>,
   <<"">>}

(* Up to two lines, and three of which the last is salir.                  *)
InputSet ==
  {<<>>} \cup {<<k>> : k \in LineSet} \cup {<<k, l>> : k, l \in LineSet}
  \cup {<<k, l, <<"salir">>>> : k, l \in LineSet}

(* One program gets such an input while the other is left at once.         *)
OneInit == AppsInit /\ \E a \in Apps : input[a] = <<<<"salir">>>>
OneSpec == OneInit /\ [][AppsNext]_appVars /\ AppsFairness

GarbageSet == {<<"">>, <<"key">>}
=============================================================================
