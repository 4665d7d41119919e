------------------------------- MODULE MCFsDisk -------------------------------
(* Small instances of FsDisk for TLC.                                      *)
EXTENDS FsDisk

Nested == {<<"d">>, <<"d", "e">>}
Deeper == {<<"d">>, <<"d", "e">>, <<"d", "e", "f">>}
=============================================================================
