--------------------------- MODULE MCCppThreads1 ---------------------------
(***************************************************************************)
(* Instances of CppThreads1 for TLC.                                       *)
(***************************************************************************)
EXTENDS CppThreads1

\* Two numbers: room for a write too many.
File(levels) ==
  [i \in DOMAIN levels |-> [priority |-> levels[i], count |-> 2]]

\* Three lines, no time-out, every stream allowed and every push in one piece.
\* The threads subscribe in any order, so that of the lines matters little.
Untimed ==
  [scheduler : {TRUE}, timeout : {FALSE}, line : {File(<<1, 1, 2>>), File(<<1, 2, 2>>)},
   torn : {FALSE}, limit : {3}]

\* Two lines in every environment, but with one difficulty at a time: torn pops
\* or a single stream.
Pairs ==
  {i \in [scheduler : BOOLEAN, timeout : BOOLEAN, line : {File(<<1, 1>>), File(<<1, 2>>)},
          torn : BOOLEAN, limit : 1 .. 2] : i.torn => i.limit = 2}

UntimedAndPairs == Untimed \cup Pairs

\* One of the pairs, untimed and undisturbed.
TiedPair ==
  {i \in Pairs : /\ i.scheduler /\ ~i.timeout /\ ~i.torn /\ i.limit = 2
                 /\ i.line = File(<<1, 1>>)}
=============================================================================
