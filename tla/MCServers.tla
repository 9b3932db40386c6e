----------------------------- MODULE MCServers -----------------------------
(***************************************************************************)
(* Instances of Servers for TLC.                                           *)
(***************************************************************************)
EXTENDS Servers

\* A partial sum of three of these may overflow -3 .. 2 when the sum does
\* not, the count of three does overflow, and two may add up to 0.
SmallNumbers == {-2, 2}

\* Every pair of calls; the Go server allows one stream on each connection, and
\* the calls may be on one or on two.
Pairs ==
  {i \in [server : {"go", "node"}, limit : {1, 2},
          method : [Stream -> {"mean", "stream", "numbers", "string"}],
          connection : {<<1, 1>>, <<1, 2>>}] :
    IF i.server = "go" THEN i.limit = 1 ELSE i.limit = 2 /\ i.connection = <<1, 1>>}

\* Two calls of computeMeanStream.
TwoStreams ==
  {i \in Pairs : i.server = "node" /\ \A s \in Stream : i.method[s] = "stream"}
=============================================================================
