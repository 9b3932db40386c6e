---------------------------- MODULE PriorityGrant ----------------------------
(***************************************************************************)
(* What the preemptive schedulers of the clients promise, without queues,  *)
(* flags or signals: calls register with a priority and leave, and one     *)
(* registered call at a time is granted the right to send.  The grant      *)
(* moves only when a call of strictly higher priority registers or when    *)
(* the holder leaves, and then it goes to a call of the highest priority.  *)
(* The concrete schedulers are shown to implement this specification.      *)
(***************************************************************************)
EXTENDS Integers

CONSTANTS Id, None

VARIABLES registered, priority, granted

vars == <<registered, priority, granted>>

Highest(c, S) == c \in S /\ \A d \in S : priority[d] <= priority[c]

Init ==
  /\ registered = {}
  /\ priority \in [Id -> Int]
  /\ granted = None

\* Whatever its priority, only that of the newcomer is set.
Register(c) ==
  /\ c \notin registered
  /\ registered' = registered \cup {c}
  /\ priority' = [priority EXCEPT ![c] = priority'[c]]
  /\ priority'[c] \in Int
  /\ granted' = IF granted = None \/ priority'[c] > priority[granted]
                THEN c ELSE granted

Leave(c) ==
  /\ c \in registered
  /\ registered' = registered \ {c}
  /\ UNCHANGED priority
  /\ \/ c # granted /\ UNCHANGED granted
     \/ c = granted /\ registered' = {} /\ granted' = None
     \/ c = granted /\ granted' \in registered' /\ Highest(granted', registered')

Next == \E c \in Id : Register(c) \/ Leave(c)

Spec == Init /\ [][Next]_vars

\* The promise itself: a call of the highest priority holds the grant
\* whenever there is one to hold it.
GrantIsHighest ==
  IF registered = {} THEN granted = None ELSE Highest(granted, registered)

=============================================================================
