---------------------------- MODULE PriorityLevel ----------------------------
(***************************************************************************)
(* What the scheduler promises that runs calls of one priority together:   *)
(* there is one level at a time, and the calls of that priority may send.  *)
(* The level rises when a call above it registers, and when its last call  *)
(* leaves it falls to the highest priority that is left.                   *)
(***************************************************************************)
EXTENDS Integers

CONSTANTS Id, None   \* None: the level when no call is registered

VARIABLES registered, priority, level

vars == <<registered, priority, level>>

Highest(p, S) == p \in {priority[c] : c \in S} /\ \A c \in S : priority[c] <= p

Init ==
  /\ registered = {}
  /\ priority \in [Id -> Int \ {None}]
  /\ level = None

Register(c) ==
  /\ c \notin registered
  /\ registered' = registered \cup {c}
  /\ level' = IF level = None \/ priority[c] > level THEN priority[c] ELSE level
  /\ UNCHANGED priority

Leave(c) ==
  /\ c \in registered
  /\ registered' = registered \ {c}
  /\ \/ level' = level /\ \E d \in registered' : priority[d] = level
     \/ registered' # {} /\ Highest(level', registered')
     \/ registered' = {} /\ level' = None
  /\ UNCHANGED priority

Next == \E c \in Id : Register(c) \/ Leave(c)

Spec == Init /\ [][Next]_vars

\* The promise itself: the level is the highest priority there is.
LevelIsHighest ==
  IF registered = {} THEN level = None ELSE Highest(level, registered)

=============================================================================
