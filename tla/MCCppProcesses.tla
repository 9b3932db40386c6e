--------------------------- MODULE MCCppProcesses ---------------------------
(***************************************************************************)
(* Instances of CppProcesses for TLC.                                      *)
(***************************************************************************)
EXTENDS CppProcesses

\* The second line ties with the first and the third preempts it, or the
\* second preempts the first and the third ties with it.
Files == {<<1, 1, 2>>, <<1, 2, 1>>}

TiedPair == {<<1, 1>>}
=============================================================================
