--------------------------- MODULE PriorityProofs ---------------------------
(***************************************************************************)
(* The promises of PriorityGrant and PriorityLevel, for every set of ids   *)
(* and all priorities.  A scheduler that implements one of them inherits   *)
(* its promise.                                                            *)
(***************************************************************************)
EXTENDS Integers, TLAPS

CONSTANTS Id, None

VARIABLES registered, priority, granted, level

Grant == INSTANCE PriorityGrant
Level == INSTANCE PriorityLevel

-----------------------------------------------------------------------------
(* One call holds the grant *)

\* Priorities are integers, and the grant is with a call of the highest
\* priority: the two together are inductive.
Granted ==
  /\ priority \in [Id -> Int]
  /\ registered \subseteq Id
  /\ Grant!GrantIsHighest

\* The scheduling rule of the clients (preempt on a strictly higher newcomer,
\* choose again when the holder leaves) always leaves the right to send with
\* a call of the highest priority.
THEOREM HighestHoldsTheGrant ==
  ASSUME None \notin Id
  PROVE  Grant!Spec => []Grant!GrantIsHighest
<1>1. Grant!Init => Granted
  BY DEF Grant!Init, Granted, Grant!GrantIsHighest
<1>2. Granted /\ [Grant!Next]_(Grant!vars) => Granted'
  <2> SUFFICES ASSUME Granted, [Grant!Next]_(Grant!vars) PROVE Granted'
    OBVIOUS
  <2> USE DEF Granted
  <2>1. CASE UNCHANGED Grant!vars
    BY <2>1 DEF Grant!vars, Grant!GrantIsHighest, Grant!Highest
  <2>2. ASSUME NEW c \in Id, Grant!Register(c) PROVE Granted'
    <3>1. /\ priority' \in [Id -> Int] /\ registered' \subseteq Id
          /\ \A d \in Id \ {c} : priority'[d] = priority[d]
      BY <2>2 DEF Grant!Register
    <3>2. \A d \in Id : priority[d] \in Int /\ priority'[d] \in Int
      BY <3>1
    <3>3. registered' # {} /\ granted' \in registered'
      BY <2>2 DEF Grant!Register, Grant!GrantIsHighest, Grant!Highest
    <3>4. \A d \in registered' : priority'[d] <= priority'[granted']
      <4>1. CASE registered = {}
        BY <2>2, <3>2, <4>1 DEF Grant!Register, Grant!GrantIsHighest
      <4>2. CASE registered # {}
        <5>1. /\ granted \in registered /\ granted # None /\ granted # c
              /\ \A d \in registered : priority[d] <= priority[granted]
          BY <2>2, <4>2 DEF Grant!Register, Grant!GrantIsHighest, Grant!Highest
        <5> QED
          BY <2>2, <3>1, <3>2, <5>1 DEF Grant!Register
      <4> QED
        BY <4>1, <4>2
    <3> QED
      BY <3>1, <3>3, <3>4 DEF Grant!GrantIsHighest, Grant!Highest
  <2>3. ASSUME NEW c \in Id, Grant!Leave(c) PROVE Granted'
    BY <2>3 DEF Grant!Leave, Grant!GrantIsHighest, Grant!Highest
  <2> QED
    BY <2>1, <2>2, <2>3 DEF Grant!Next
<1> QED
  BY <1>1, <1>2, PTL DEF Grant!Spec, Granted

-----------------------------------------------------------------------------
(* The calls of one priority have the level *)

\* Priorities are integers other than None, and the level is the highest: the
\* two together are inductive.
Levelled ==
  /\ priority \in [Id -> Int \ {None}]
  /\ registered \subseteq Id
  /\ Level!LevelIsHighest

\* The rule of the concurrent client (rise to a higher newcomer, fall to the
\* highest that is left when a group is empty) keeps the level with the
\* highest priority registered, for every set of ids and all priorities.
THEOREM LevelStaysHighest == Level!Spec => []Level!LevelIsHighest
<1>1. Level!Init => Levelled
  BY DEF Level!Init, Levelled, Level!LevelIsHighest
<1>2. Levelled /\ [Level!Next]_(Level!vars) => Levelled'
  <2> SUFFICES ASSUME Levelled, [Level!Next]_(Level!vars) PROVE Levelled'
    OBVIOUS
  <2>0. /\ priority \in [Id -> Int \ {None}] /\ registered \subseteq Id
        /\ \A d \in Id : priority[d] \in Int /\ priority[d] # None
        /\ IF registered = {} THEN level = None
           ELSE /\ \E c \in registered : level = priority[c]
                /\ \A c \in registered : priority[c] <= level
    BY DEF Levelled, Level!LevelIsHighest, Level!Highest
  <2>1. CASE UNCHANGED Level!vars
    BY <2>1 DEF Level!vars, Levelled, Level!LevelIsHighest, Level!Highest
  <2>2. ASSUME NEW c \in Id, Level!Register(c) PROVE Levelled'
    <3>1. priority' = priority /\ registered' = registered \cup {c}
      BY <2>2 DEF Level!Register
    <3>2. level' \in {priority[d] : d \in registered'} /\ level' \in Int
      BY <2>0, <2>2, <3>1 DEF Level!Register
    <3>3. \A d \in registered' : priority[d] <= level'
      BY <2>0, <2>2, <3>1 DEF Level!Register
    <3> QED
      BY <2>0, <3>1, <3>2, <3>3 DEF Levelled, Level!LevelIsHighest, Level!Highest
  <2>3. ASSUME NEW c \in Id, Level!Leave(c) PROVE Levelled'
    <3>1. priority' = priority /\ registered' = registered \ {c}
      BY <2>3 DEF Level!Leave
    <3>2. CASE level' = level /\ \E d \in registered' : priority[d] = level
      BY <2>0, <3>1, <3>2 DEF Levelled, Level!LevelIsHighest, Level!Highest
    <3>3. CASE registered' # {} /\ Level!Highest(level', registered')
      BY <2>0, <3>1, <3>3 DEF Levelled, Level!LevelIsHighest, Level!Highest
    <3>4. CASE registered' = {} /\ level' = None
      BY <2>0, <3>1, <3>4 DEF Levelled, Level!LevelIsHighest
    <3> QED
      BY <2>3, <3>2, <3>3, <3>4 DEF Level!Leave
  <2> QED
    BY <2>1, <2>2, <2>3 DEF Level!Next
<1> QED
  BY <1>1, <1>2, PTL DEF Level!Spec, Levelled

=============================================================================
