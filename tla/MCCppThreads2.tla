--------------------------- MODULE MCCppThreads2 ---------------------------
(***************************************************************************)
(* Instances of CppThreads2 for TLC.                                       *)
(***************************************************************************)
EXTENDS CppThreads2

\* One of three priorities and two numbers: two preemptions in a row, ties,
\* and room for a write too many.
TwoNumbers ==
  [i \in Call |-> [priority : 1 .. 3, count : {2}]]
=============================================================================
