------------------------------ MODULE MCProcMem ------------------------------
(* Small instances of ProcMem for TLC.                                     *)
EXTENDS ProcMem

\* A one-page program whose two segments share the page; one with a segment whose
\* end has wrapped round, then two pages, then a segment that begins too low.
SmallImages == { << <<0, 1>>, <<0, 1>> >>, << <<3, -1>>, <<0, 2>>, <<-1, 1>> >> }
=============================================================================
