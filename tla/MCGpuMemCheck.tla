--------------------------- MODULE MCGpuMemCheck ---------------------------
(***************************************************************************)
(* Small instances of GpuMemCheck for TLC.                                 *)
(***************************************************************************)
EXTENDS GpuMemCheck

TwoNodes == {"n1", "n2"}
TwoAddrs == {"a1", "a2"}

\* Exactly at 70% of the limit of 10, though over that of another container;
\* above it; and more inactive file memory than is in use.
SomeSamples ==
    {[usage |-> 9, inactive |-> 2], [usage |-> 8, inactive |-> 0],
     [usage |-> 1, inactive |-> 2]}
SomeLimits == {0, 10}
=============================================================================
