----------------------------- MODULE MCGoClient -----------------------------
(***************************************************************************)
(* Instances of GoClient for TLC.                                          *)
(***************************************************************************)
EXTENDS GoClient

Lines(priorities, counts) == [priority : priorities, count : counts]

\* Any of three priorities and one or three numbers: two preemptions in a row,
\* ties, and a call that overtakes its pause.
AnyLines == [i \in Call |-> Lines(1 .. 3, {1, 3})]

\* One or two priorities and one number; the list of the last line may not parse.
ShortLines ==
  [i \in Call |-> Lines(1 .. 2, IF i = NumCalls THEN 0 .. 1 ELSE {1})]

\* A call that has sent its only number is preempted twice before its reply
\* arrives; a fourth line is still to be read.
Preempted == [i \in Call |-> Lines({IF i \in {2, 3} THEN 2 ELSE 1}, {1})]
=============================================================================
