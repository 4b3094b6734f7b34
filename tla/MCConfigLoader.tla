--------------------------- MODULE MCConfigLoader ---------------------------
(* ConfigLoader for TLC: files of up to two lines, of every kind the parser  *)
(* tells apart, parsed twice with one loader.                                *)
EXTENDS ConfigLoader

MCServerUrlKey == <<"u">>
MCDefaultUrl == <<"d">>
MCLines == {
  <<>>, <<" ", "\t">>, <<" ", "#", "=">>,                           \* skipped
  <<"k", "=", "v">>, <<" ", "k", "\t", "=", " ", "w", " ">>,        \* entries
  <<"=", "v">>, <<"k", "=", "#">>, <<"u", "=", "w">>,
  <<"k">>, <<"k", "=", "v", "=">>, <<"k", "=">>, <<"k", " ", "=", " ">>}  \* refused
=============================================================================
