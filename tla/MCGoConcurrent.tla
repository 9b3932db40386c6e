--------------------------- MODULE MCGoConcurrent ---------------------------
(***************************************************************************)
(* Instances of GoConcurrent for TLC.                                      *)
(***************************************************************************)
EXTENDS GoConcurrent

\* One of three priorities, and in the last place perhaps a list that does
\* not parse.  The second call has numbers enough to overtake its pause.
AnyLines ==
  [i \in Call |-> [priority : 1 .. 3, count : {IF i = 2 THEN 3 ELSE 1}]
                    \cup IF i = NumCalls THEN [priority : {1}, count : {0}] ELSE {}]
=============================================================================
