----------------------------- MODULE MCFileSystem -----------------------------
(* Small instances of FileSystem for TLC.                                  *)
EXTENDS FileSystem

\* A directory, a name beside it and one below.
SmallPaths == {<<"d">>, <<"e">>, <<"d", "e">>}
=============================================================================
