-------------------------- MODULE CppProcessesProofs --------------------------
(***************************************************************************)
(* Proofs about CppProcesses, for every input file, with and without a     *)
(* scheduler, whatever the compiler made of its loop, and whenever it dies *)
(* or the user interrupts.                                                 *)
(***************************************************************************)
EXTENDS CppProcesses, SchedulerLemmas

-----------------------------------------------------------------------------
(* The inductive invariant *)

\* Without a scheduler there is nobody to write to.
Unscheduled == ~scheduler => sched = "start" /\ pids = <<>>

\* The messages a child is the subject of.
Arriving(c) == [kind |-> "subscribe", pid |-> c]
Departing(c) == [kind |-> "remove", pid |-> c]

\* The parent has not subscribed c yet.
Unsubscribed(c) == c > forked \/ (c = forked /\ main \in {"waitpid", "subscribe"})

\* The children are forked in the order of the lines.  Each is subscribed once,
\* by a message that is on the socket before the child is in the vector, and
\* each announces its end once.
Tabled ==
  /\ main \in {"waitpid", "subscribe"} => scheduler /\ forked \in Call
  /\ Distinct(socket) /\ Distinct(pids)
  /\ \A c \in Call :
       /\ pc[c] = "none" <=> c > forked
       /\ In(Arriving(c), socket) => ~Unsubscribed(c) /\ ~In(c, pids)
       /\ In(c, pids) => ~Unsubscribed(c)
       /\ In(Departing(c), socket) => pc[c] \in {"kill", "term", "dead"}

\* The cached values are those of the first child of the highest priority.
Chosen ==
  IF pids = <<>>
  THEN max_pid = none /\ max_priority = -1
  ELSE First(max_pid, pids, priority) /\ max_priority = priority[max_pid]

\* A child that has not stopped itself yet is unknown to the scheduler, and
\* nobody else has stopped it.
Ready ==
  \A c \in Call :
    pc[c] \in {"none", "start"} =>
      /\ ~stopped[c] /\ c # running_pid
      /\ ~In(c, pids) /\ ~In(Arriving(c), socket) /\ ~(c = forked /\ main = "subscribe")

\* A child that the scheduler does not know yet stands still from when it has
\* stopped itself, and the parent subscribes none that has not.
Waiting ==
  scheduler /\ ~broadcast /\ main # "exited" =>
    \A c \in Call :
      /\ Unsubscribed(c) => pc[c] \in {"none", "start"} \/ (pc[c] = "rpc" /\ stopped[c])
      /\ In(Arriving(c), socket) \/ (c = forked /\ main = "subscribe") =>
           pc[c] = "rpc" /\ stopped[c]

\* So does one with an earlier child of its priority in the vector.
Serial ==
  ~broadcast /\ main # "exited" =>
    \A c, d \in Call :
      Before(c, d, pids) /\ priority[c] = priority[d] => stopped[d] /\ pc[d] = "rpc"

\* A child that has ended in the vector has its message on the socket.
Leaving ==
  ~broadcast /\ main # "exited" /\ sched # "dead" =>
    \A c \in Call :
      In(c, pids) /\ pc[c] \in {"kill", "term", "dead"} => In(Departing(c), socket)

\* Between SIGSTOP and SIGCONT the handler does not run, so the child that is to
\* be continued is still the one the scheduler takes to be running.
Switching == sched = "wake" => ~handler /\ running_pid = max_pid

Inv ==
  /\ TypeOK /\ Unscheduled /\ Tabled /\ Chosen /\ Ready /\ AtMostOneRuns
  /\ Waiting /\ Serial /\ Leaving /\ Switching

-----------------------------------------------------------------------------
(* Steps *)

\* Where a child may be.
Places == {"none", "start", "rpc", "remove", "kill", "term", "dead"}

Message == [kind : {"subscribe", "remove"}, pid : Call]

\* The types the proofs need most.
LEMMA Types ==
  ASSUME TypeOK
  PROVE  /\ scheduler \in BOOLEAN /\ NumCalls \in Nat /\ none \notin Call
         /\ priority \in [Call -> Nat \ {0}] /\ forked \in Nat /\ forked <= NumCalls
         /\ \A c \in Call : c \in Int /\ c >= 1 /\ c <= NumCalls
         /\ \A c \in Call : priority[c] \in Nat
         /\ pc \in [Call -> Places] /\ stopped \in [Call -> BOOLEAN]
         /\ socket \in Seq(Message) /\ pids \in Seq(Call)
         /\ max_pid \in Call \cup {none} /\ running_pid \in Call \cup {none}
         /\ broadcast \in BOOLEAN
<1>1. NumCalls \in Nat /\ forked \in Nat /\ forked <= NumCalls
  BY CppProcessesAssumption DEF TypeOK
<1>2. none \notin Call /\ \A c \in Call : c \in Int /\ c >= 1 /\ c <= NumCalls
  BY <1>1 DEF Call, none
<1>3. priority \in [Call -> Nat \ {0}]
  BY DEF TypeOK
<1>4. \A c \in Call : priority[c] \in Nat
  BY <1>3
<1>5. /\ scheduler \in BOOLEAN /\ broadcast \in BOOLEAN
      /\ pc \in [Call -> Places] /\ stopped \in [Call -> BOOLEAN]
      /\ socket \in Seq(Message) /\ pids \in Seq(Call)
      /\ max_pid \in Call \cup {none} /\ running_pid \in Call \cup {none}
  BY DEF TypeOK, Places, Message
<1> QED
  BY <1>1, <1>2, <1>3, <1>4, <1>5

\* A message is about one child and says one thing of it.
LEMMA Messages ==
  /\ \A c \in Call : Arriving(c) \in Message /\ Departing(c) \in Message
  /\ \A m \in Message : \/ m.kind = "subscribe" /\ m = Arriving(m.pid)
                        \/ m.kind = "remove" /\ m = Departing(m.pid)
  /\ \A m \in Message : m.pid \in Call
  /\ \A c, d : Arriving(c) # Departing(d)
  /\ \A c, d : Arriving(c) = Arriving(d) => c = d
  /\ \A c, d : Departing(c) = Departing(d) => c = d
<1> USE DEF Arriving, Departing, Message
<1>1. \A c \in Call : Arriving(c) \in Message /\ Departing(c) \in Message
  OBVIOUS
<1>2. \A m \in Message : \/ m.kind = "subscribe" /\ m = Arriving(m.pid)
                         \/ m.kind = "remove" /\ m = Departing(m.pid)
  OBVIOUS
<1>3. \A c, d : Arriving(c) # Departing(d)
  <2> SUFFICES ASSUME NEW c, NEW d, Arriving(c) = Departing(d) PROVE FALSE
    OBVIOUS
  <2>1. Arriving(c).kind = "subscribe" /\ Departing(d).kind = "remove"
    OBVIOUS
  <2> QED
    BY <2>1
<1>4. \A c, d : Arriving(c) = Arriving(d) => c = d
  <2> SUFFICES ASSUME NEW c, NEW d, Arriving(c) = Arriving(d) PROVE c = d
    OBVIOUS
  <2>1. Arriving(c).pid = c /\ Arriving(d).pid = d
    OBVIOUS
  <2> QED
    BY <2>1
<1>5. \A c, d : Departing(c) = Departing(d) => c = d
  <2> SUFFICES ASSUME NEW c, NEW d, Departing(c) = Departing(d) PROVE c = d
    OBVIOUS
  <2>1. Departing(c).pid = c /\ Departing(d).pid = d
    OBVIOUS
  <2> QED
    BY <2>1
<1> QED
  BY <1>1, <1>2, <1>3, <1>4, <1>5

\* What the children and the scheduler know stays as it is.
Quiet ==
  /\ UNCHANGED <<forked, pc, stopped, socket, pids, max_pid, max_priority, running_pid,
                 broadcast>>
  /\ main' = main \/ {main, main'} \cap {"waitpid", "subscribe"} = {}

\* The scheduler reads a message, in its handler or in its loop.
Received ==
  /\ Read
  /\ UNCHANGED <<parentVars, childVars, running_pid, broadcast>>

\* The two signals of a switch.
Switch == Sleep \/ Wake

\* Every step is one of these; the input file is given once, and nobody comes
\* back once it is gone.
LEMMA Steps ==
  ASSUME [Next]_vars
  PROVE  /\ UNCHANGED <<scheduler, optimised, priority>>
         /\ main = "exited" => main' = "exited"
         /\ scheduler /\ sched = "dead" => sched' = "dead"
         /\ ~scheduler => sched' = sched
         /\ \/ Quiet \/ Fork \/ Waitpid \/ Subscribe \/ Sigint
            \/ \E c \in Call : Child(c)
            \/ scheduler /\ (Die \/ Received \/ Switch)
<1> USE DEF config, parentVars, childVars, choiceVars, loopVars, Quiet
<1>1. CASE Connect \/ Kill \/ Return
  BY <1>1 DEF Connect, Kill, Return
<1>2. CASE Fork \/ Waitpid \/ Subscribe \/ Sigint
  BY <1>2 DEF Fork, Waitpid, Subscribe, AfterWrite, Sigint
<1>3. ASSUME NEW c \in Call, Child(c)
      PROVE  UNCHANGED <<scheduler, optimised, priority, main, sched>>
  BY <1>3 DEF Child
<1>4. CASE Scheduler
  <2>1. CASE Listen \/ Accept \/ Install \/ Loop \/ Block \/ Look \/ Compare
    BY <1>4, <2>1 DEF Scheduler, Listen, Accept, Install, Loop, Block, Look, Compare, Step
  <2>2. CASE Handle
    BY <1>4, <2>2 DEF Scheduler, Handle, Received
  <2>3. CASE ReadAnyway
    BY <1>4, <2>3 DEF Scheduler, ReadAnyway, Received
  <2>4. CASE Switch
    BY <1>4, <2>4 DEF Scheduler, Switch, Sleep, Wake
  <2> QED
    BY <1>4, <2>1, <2>2, <2>3, <2>4 DEF Scheduler, Switch
<1>5. CASE Deliver
  BY <1>5 DEF Deliver, Interrupt, Die
<1>6. CASE Idle
  BY <1>6 DEF Idle, Count
<1>7. CASE Ended \/ UNCHANGED vars
  BY <1>7 DEF Ended, vars
<1> QED
  BY <1>1, <1>2, <1>3, <1>4, <1>5, <1>6, <1>7 DEF Next, Parent

\* A child that is stopped does nothing, and no child touches another.  It stops
\* itself at the start, and announces its end once.
LEMMA ChildFrame ==
  ASSUME TypeOK, NEW c \in Call, Child(c)
  PROVE  /\ ~stopped[c] /\ pc[c] \notin {"none", "dead"} /\ pc'[c] \notin {"none", "start"}
         /\ pc' \in [Call -> Places] /\ stopped' \in [Call -> BOOLEAN]
         /\ \A d \in Call \ {c} : pc'[d] = pc[d] /\ stopped'[d] = stopped[d]
         /\ pc[c] = "start" => pc'[c] = "rpc" /\ stopped'[c] = scheduler
         /\ pc[c] # "start" => pc'[c] # "rpc" /\ ~stopped'[c]
         /\ pc'[c] = "remove" => pc[c] = "rpc"
         /\ pc[c] \in {"kill", "term", "dead"} => pc'[c] \in {"kill", "term", "dead"}
         /\ UNCHANGED <<scheduler, priority, main, forked, sched, pids, max_pid, max_priority,
                        running_pid, broadcast>>
<1>0. pc \in [Call -> Places] /\ stopped \in [Call -> BOOLEAN] /\ scheduler \in BOOLEAN
  BY Types
<1> USE DEF Child, Stop, Rpc, WriteRemove, AfterWrite, KillScheduler, Term, Goto
<1>1. /\ UNCHANGED <<scheduler, priority, main, forked, sched, pids, max_pid, max_priority,
                     running_pid, broadcast>>
  BY DEF config, parentVars, choiceVars, loopVars
<1>2. CASE Stop(c)
  BY <1>0, <1>1, <1>2 DEF Places
<1>3. CASE Rpc(c) \/ WriteRemove(c) \/ KillScheduler(c) \/ Term(c)
  <2>1. stopped' = stopped /\ ~stopped[c]
    BY <1>3
  <2>2. /\ pc[c] \notin {"none", "start", "dead"} /\ pc'[c] \notin {"none", "start", "rpc"}
        /\ pc' \in [Call -> Places] /\ \A d \in Call \ {c} : pc'[d] = pc[d]
        /\ pc'[c] = "remove" => pc[c] = "rpc"
        /\ pc[c] \in {"kill", "term", "dead"} => pc'[c] \in {"kill", "term", "dead"}
    BY <1>0, <1>3 DEF Places
  <2> QED
    BY <1>0, <1>1, <2>1, <2>2
<1> QED
  BY <1>2, <1>3

\* Its message is on the socket before its end, if somebody listens.
LEMMA ChildWrites ==
  ASSUME TypeOK, NEW c \in Call, Child(c)
  PROVE  \/ /\ socket' = socket
            /\ pc'[c] \in {"kill", "term", "dead"} =>
                 pc[c] \in {"kill", "term", "dead"} \/ ~scheduler \/ sched = "dead"
         \/ /\ socket' = Append(socket, Departing(c))
            /\ pc[c] = "remove" /\ pc'[c] \in {"kill", "term", "dead"}
<1>0. pc \in [Call -> Places]
  BY Types
<1> USE DEF Child, Goto
<1>1. CASE WriteRemove(c)
  <2>1. pc[c] = "remove" /\ pc'[c] \in {"kill", "term", "dead"}
    BY <1>0, <1>1 DEF WriteRemove, AfterWrite
  <2>2. socket' = IF sched = "dead" THEN socket ELSE Append(socket, Departing(c))
    BY <1>1 DEF WriteRemove, WriteToSocket, Departing
  <2> QED
    BY <2>1, <2>2
<1>2. CASE Stop(c) \/ Rpc(c) \/ KillScheduler(c) \/ Term(c)
  BY <1>0, <1>2 DEF Stop, Rpc, KillScheduler, Term
<1> QED
  BY <1>1, <1>2

\* get_maximum_priority() returns the first of the highest priority.
LEMMA MaximumIsFirst ==
  ASSUME TypeOK, NEW table \in Seq(Call)
  PROVE  /\ table = <<>> => Maximum(table) = none
         /\ table # <<>> => First(Maximum(table), table, priority)
<1>1. CASE table = <<>>
  BY <1>1 DEF Maximum
<1>2. CASE table # <<>>
  <2>1. Maximum(table) = table[CHOOSE i \in 1 .. Len(table) :
                                 \A j \in 1 .. Len(table) :
                                   \/ priority[table[j]] < priority[table[i]]
                                   \/ priority[table[j]] = priority[table[i]] /\ i <= j]
    BY <1>2, LenProperties DEF Maximum
  <2>2. \A c : In(c, table) => priority[c] \in Int
    BY Types, ElementOfSeq DEF In
  <2> QED
    BY <1>2, <2>1, <2>2, FirstFound
<1> QED
  BY <1>1, <1>2

\* A child in the vector is a child.
LEMMA Member ==
  ASSUME TypeOK, NEW c, In(c, pids)
  PROVE  c \in Call /\ c # none /\ priority[c] \in Nat
<1>1. c \in Call
  BY Types, ElementOfSeq DEF In
<1> QED
  BY <1>1, Types

\* What reading does: nothing, when nobody is left to write; or a child joins
\* the vector, and is the best when it outranks the others ...
Arrival(id) ==
  /\ pids' = Append(pids, id)
  /\ pids' \in Seq(Call) /\ Distinct(pids') /\ ~In(id, pids)
  /\ \A x : In(x, pids') <=> In(x, pids) \/ x = id
  /\ \A x, y : Before(x, y, pids') <=> Before(x, y, pids) \/ (In(x, pids) /\ y = id)
  /\ In(Arriving(id), socket) /\ ~In(Arriving(id), socket')
  /\ \A m : In(m, socket) <=> In(m, socket') \/ m = Arriving(id)
  /\ IF Outranks(id) THEN max_pid' = id /\ max_priority' = priority[id]
                     ELSE UNCHANGED <<max_pid, max_priority>>

\* ... or one leaves it, and the best of the others is found.
Departure(id) ==
  /\ pids' \in Seq(Call) /\ Distinct(pids')
  /\ \A x : In(x, pids') <=> In(x, pids) /\ x # id
  /\ \A x, y : Before(x, y, pids') => Before(x, y, pids)
  /\ ~In(id, pids) => pids' = pids
  /\ \A m : In(m, socket) <=> In(m, socket') \/ m = Departing(id)
  /\ pids' = <<>> => max_pid' = none /\ max_priority' = -1
  /\ pids' # <<>> => First(max_pid', pids', priority) /\ max_priority' = priority[max_pid']

\* read_from_socket(): the message read is the oldest one on the socket; the
\* vector and the cached choice are updated together.
LEMMA Reading ==
  ASSUME TypeOK, Tabled, Received
  PROVE  /\ UNCHANGED <<forked, main, pc, stopped, running_pid, broadcast>>
         /\ socket' \in Seq(Message) /\ Distinct(socket')
         /\ \/ UNCHANGED <<socket, pids, max_pid, max_priority>>
            \/ \E id \in Call : Arrival(id) \/ Departure(id)
<1>t. /\ socket \in Seq(Message) /\ pids \in Seq(Call) /\ none \notin Call
      /\ Distinct(socket) /\ Distinct(pids)
  BY Types DEF Tabled
<1>1. UNCHANGED <<forked, main, pc, stopped, running_pid, broadcast>>
  BY DEF Received, parentVars, childVars
<1>2. CASE UNCHANGED <<socket, choiceVars>>
  BY <1>1, <1>2, <1>t DEF choiceVars
<1>3. CASE socket # <<>> /\ socket' = Tail(socket)
  <2> DEFINE m == Head(socket)  id == m.pid
  <2>1. /\ m \in Message /\ In(m, socket) /\ socket' \in Seq(Message)
        /\ Distinct(socket') /\ ~In(m, socket')
        /\ \A x : In(x, socket) <=> In(x, socket') \/ x = m
    BY <1>3, <1>t, Popped
  <2>2. CASE m.kind = "subscribe"
    <3>1. m = Arriving(id) /\ id \in Call
      BY <2>1, <2>2, Messages
    <3>2. /\ pids' = Append(pids, id)
          /\ IF Outranks(id) THEN max_pid' = id /\ max_priority' = priority[id]
                             ELSE UNCHANGED <<max_pid, max_priority>>
      BY <1>3, <2>2 DEF Received, Read, SubscribeProcess
    <3>3. ~In(id, pids)
      BY <2>1, <3>1 DEF Tabled
    <3>4. /\ pids' \in Seq(Call) /\ Distinct(pids')
          /\ \A x : In(x, pids') <=> In(x, pids) \/ x = id
          /\ \A x, y : Before(x, y, pids') <=> Before(x, y, pids) \/ (In(x, pids) /\ y = id)
      BY <1>t, <3>1, <3>2, <3>3, JoinedBehind
    <3> HIDE DEF m, id
    <3>5. Arrival(id)
      BY <2>1, <3>1, <3>2, <3>3, <3>4 DEF Arrival
    <3> QED
      BY <1>1, <2>1, <3>1, <3>5
  <2>3. CASE m.kind # "subscribe"
    <3>1. m = Departing(id) /\ id \in Call
      BY <2>1, <2>3, Messages
    <3>2. /\ pids' = RemoveFirst(pids, id) /\ max_pid' = Maximum(pids')
          /\ max_priority' = IF max_pid' = none THEN -1 ELSE priority[max_pid']
      BY <1>3, <2>3 DEF Received, Read, RemovePriority
    <3>3. /\ pids' \in Seq(Call) /\ Distinct(pids')
          /\ \A x : In(x, pids') <=> In(x, pids) /\ x # id
          /\ \A x, y : Before(x, y, pids') => Before(x, y, pids)
          /\ ~In(id, pids) => pids' = pids
      BY <1>t, <3>2, Erased
    <3> HIDE DEF m, id
    <3>4. /\ pids' = <<>> => max_pid' = none
          /\ pids' # <<>> => First(max_pid', pids', priority)
      BY <3>2, <3>3, MaximumIsFirst
    <3>5. pids' # <<>> => max_pid' # none
      BY <3>3, <3>4, Member DEF First
    <3>6. Departure(id)
      BY <2>1, <3>1, <3>2, <3>3, <3>4, <3>5 DEF Departure
    <3> QED
      BY <1>1, <2>1, <3>1, <3>6
  <2> QED
    BY <2>2, <2>3
<1> QED
  BY <1>2, <1>3 DEF Received, Read

-----------------------------------------------------------------------------
(* The parts of the invariant, each preserved by every step *)

\* The parent has written the message, or nobody listens.
LEMMA Subscribes ==
  ASSUME TypeOK, Tabled, Subscribe
  PROVE  /\ main = "subscribe" /\ main' \in {"kill", "exited"} /\ forked \in Call
         /\ UNCHANGED <<scheduler, priority, forked, pc, stopped, sched, pids, max_pid,
                        max_priority, running_pid, broadcast>>
         /\ socket' \in Seq(Message) /\ Distinct(socket')
         /\ \A m : In(m, socket) => In(m, socket')
         /\ \A m : In(m, socket') => In(m, socket) \/ m = Arriving(forked)
<1>1. /\ main = "subscribe" /\ main' \in {"kill", "exited"}
      /\ UNCHANGED <<scheduler, priority, forked, pc, stopped, sched, pids, max_pid,
                     max_priority, running_pid, broadcast>>
  BY DEF Subscribe, AfterWrite, config, childVars, choiceVars, loopVars
<1>2. forked \in Call /\ ~In(Arriving(forked), socket)
  BY <1>1 DEF Tabled, Unsubscribed
<1>3. socket \in Seq(Message) /\ Distinct(socket) /\ Arriving(forked) \in Message
  BY <1>2, Types, Messages DEF Tabled
<1>4. CASE socket' = socket
  BY <1>1, <1>2, <1>3, <1>4
<1>5. CASE socket' = Append(socket, Arriving(forked))
  <2>1. /\ socket' \in Seq(Message) /\ Distinct(socket')
        /\ \A m : In(m, socket') <=> In(m, socket) \/ m = Arriving(forked)
    BY <1>2, <1>3, <1>5, JoinedBehind
  <2> QED
    BY <1>1, <1>2, <2>1
<1> QED
  BY <1>4, <1>5 DEF Subscribe, WriteToSocket, SubscribeMessage, Arriving

\* A child's message, likewise.
LEMMA Announces ==
  ASSUME TypeOK, Tabled, NEW c \in Call, Child(c)
  PROVE  /\ socket' \in Seq(Message) /\ Distinct(socket')
         /\ \A m : In(m, socket) => In(m, socket')
         /\ \A m : In(m, socket') =>
              In(m, socket) \/ (m = Departing(c) /\ pc'[c] \in {"kill", "term", "dead"})
<1>1. /\ socket \in Seq(Message) /\ Distinct(socket) /\ Departing(c) \in Message
  BY Types, Messages DEF Tabled
<1>2. CASE socket' = socket
  BY <1>1, <1>2
<1>3. CASE socket' # socket
  <2>1. /\ socket' = Append(socket, Departing(c)) /\ pc[c] = "remove"
        /\ pc'[c] \in {"kill", "term", "dead"}
    BY <1>3, ChildWrites
  <2>2. ~In(Departing(c), socket)
    BY <2>1 DEF Tabled
  <2>3. /\ socket' \in Seq(Message) /\ Distinct(socket')
        /\ \A m : In(m, socket') <=> In(m, socket) \/ m = Departing(c)
    BY <1>1, <2>1, <2>2, JoinedBehind
  <2> QED
    BY <2>1, <2>3
<1> QED
  BY <1>2, <1>3

\* The vector and the choice change when a message is read only.
LEMMA ChoiceFrame ==
  ASSUME TypeOK, Tabled, [Next]_vars
  PROVE  \/ UNCHANGED <<pids, max_pid, max_priority>>
         \/ scheduler /\ Received /\ \E id \in Call : Arrival(id) \/ Departure(id)
<1>1. CASE Quiet \/ Fork \/ Waitpid \/ Sigint \/ Die \/ Switch
  BY <1>1 DEF Quiet, Fork, Waitpid, Sigint, Die, Switch, Sleep, Wake, choiceVars
<1>2. CASE Subscribe
  BY <1>2, Subscribes
<1>3. ASSUME NEW c \in Call, Child(c) PROVE UNCHANGED <<pids, max_pid, max_priority>>
  BY <1>3, ChildFrame
<1>4. CASE scheduler /\ Received
  BY <1>4, Reading
<1> QED
  BY <1>1, <1>2, <1>3, <1>4, Steps

\* The child that is chosen is one of the vector.
LEMMA ChosenIsMember ==
  ASSUME TypeOK, Chosen
  PROVE  /\ max_pid = none <=> pids = <<>>
         /\ max_pid # none => In(max_pid, pids) /\ max_pid \in Call
BY Member DEF Chosen, First

\* SIGSTOP and SIGCONT: only the child that is chosen is continued, unless all
\* are, and the one that was taken to be running is stopped before.
LEMMA Switches ==
  ASSUME TypeOK, Chosen, Switch
  PROVE  /\ UNCHANGED <<forked, main, pc, socket, pids>>
         /\ running_pid' \in {max_pid, running_pid} /\ stopped' \in [Call -> BOOLEAN]
         /\ \A c \in Call : stopped'[c] => stopped[c] \/ c = running_pid
         /\ ~broadcast' => /\ ~broadcast
                           /\ \A c \in Call : stopped[c] /\ ~stopped'[c] =>
                                c = max_pid /\ In(c, pids) /\ Wake
                           /\ \A c \in Call :
                                c = running_pid /\ c # running_pid' /\ pc[c] # "dead"
                                => stopped'[c]
<1>0. stopped \in [Call -> BOOLEAN] /\ broadcast \in BOOLEAN
  BY Types
<1>1. CASE Sleep
  <2>1. /\ UNCHANGED <<forked, main, pc, socket, pids, broadcast>> /\ running_pid' = max_pid
        /\ stopped' = [c \in Call |-> stopped[c] \/ Sleeps(c)]
    BY <1>1 DEF Sleep, parentVars, choiceVars
  <2>2. stopped' \in [Call -> BOOLEAN]
    BY <1>0, <2>1 DEF Sleeps
  <2>3. \A c \in Call : stopped'[c] <=> stopped[c] \/ Sleeps(c)
    BY <2>1
  <2> QED
    BY <2>1, <2>2, <2>3 DEF Sleeps
<1>2. CASE Wake
  <2>1. /\ UNCHANGED <<forked, main, pc, socket, pids, running_pid>>
        /\ stopped' = [c \in Call |-> max_pid \notin {c, none} /\ stopped[c]]
        /\ broadcast' = (broadcast \/ max_pid = none)
    BY <1>2 DEF Wake, parentVars, choiceVars
  <2>2. stopped' \in [Call -> BOOLEAN]
    BY <1>0, <2>1
  <2>3. \A c \in Call : stopped'[c] <=> max_pid \notin {c, none} /\ stopped[c]
    BY <2>1
  <2>4. ~broadcast' => ~broadcast /\ max_pid # none
    BY <2>1
  <2>5. ~broadcast' => In(max_pid, pids)
    BY <2>4, ChosenIsMember
  <2> QED
    BY <1>2, <2>1, <2>2, <2>3, <2>4, <2>5
<1> QED
  BY <1>1, <1>2 DEF Switch

\* Without a scheduler there is never one.
LEMMA UnscheduledStep ==
  ASSUME Inv, [Next]_vars
  PROVE  Unscheduled'
<1>1. TypeOK /\ Tabled /\ Unscheduled
  BY DEF Inv
<1> QED
  BY <1>1, Steps, ChoiceFrame DEF Unscheduled

\* Every child is subscribed once and announces its end once.
LEMMA TabledStep ==
  ASSUME Inv, [Next]_vars
  PROVE  Tabled'
<1>0. TypeOK /\ Tabled /\ Chosen /\ Ready
  BY DEF Inv
<1>t. /\ pc \in [Call -> Places] /\ forked \in Nat /\ NumCalls \in Nat
      /\ \A c \in Call : c \in Int /\ c >= 1 /\ c <= NumCalls
      /\ scheduler' = scheduler
  BY <1>0, Types, Steps
<1>1. CASE Quiet
  <2>1. \A c \in Call : Unsubscribed(c)' <=> Unsubscribed(c)
    BY <1>1 DEF Quiet, Unsubscribed
  <2> QED
    BY <1>0, <1>1, <1>t, <2>1 DEF Tabled, Quiet
<1>2. CASE Fork
  <2>1. /\ forked' = forked + 1 /\ forked + 1 \in Call /\ UNCHANGED <<socket, pids>>
        /\ \A d \in Call : d # forked + 1 => pc'[d] = pc[d]
        /\ pc'[forked + 1] = "start" /\ pc[forked + 1] = "none"
        /\ main' \in {"waitpid", "subscribe"} => scheduler
    <3>1. forked' = forked + 1 /\ forked + 1 \in Call /\ UNCHANGED <<socket, pids>>
      BY <1>2, <1>t DEF Fork, Call, choiceVars
    <3>2. pc' = [pc EXCEPT ![forked + 1] = "start"] /\ (main' \in {"waitpid", "subscribe"} => scheduler)
      BY <1>2 DEF Fork
    <3>3. pc[forked + 1] = "none"
      BY <1>0, <1>t, <3>1 DEF Tabled
    <3> QED
      BY <1>t, <3>1, <3>2, <3>3
  <2>2. \A d \in Call : Unsubscribed(d)' => Unsubscribed(d)
    BY <1>t, <2>1 DEF Unsubscribed
  <2>3. \A d \in Call : pc'[d] = "none" <=> d > forked'
    BY <1>0, <1>t, <2>1 DEF Tabled
  <2> QED
    BY <1>0, <1>t, <2>1, <2>2, <2>3 DEF Tabled
<1>3. CASE Waitpid
  <2>1. /\ UNCHANGED <<forked, pc, socket, pids>> /\ main = "waitpid" /\ main' = "subscribe"
    BY <1>3 DEF Waitpid, childVars, choiceVars
  <2>2. \A c \in Call : Unsubscribed(c)' <=> Unsubscribed(c)
    BY <2>1 DEF Unsubscribed
  <2> QED
    BY <1>0, <1>t, <2>1, <2>2 DEF Tabled
<1>4. CASE Subscribe
  <2>1. /\ main = "subscribe" /\ main' \in {"kill", "exited"} /\ UNCHANGED <<forked, pc, pids>>
        /\ Distinct(socket') /\ forked \in Call
        /\ \A m : In(m, socket') => In(m, socket) \/ m = Arriving(forked)
    BY <1>0, <1>4, Subscribes
  <2>2. \A c \in Call : Unsubscribed(c)' <=> c > forked
    BY <2>1 DEF Unsubscribed
  <2>3. \A c \in Call : In(Arriving(c), socket') => In(Arriving(c), socket) \/ c = forked
    BY <2>1, Messages
  <2>4. \A c \in Call : In(Departing(c), socket') => In(Departing(c), socket)
    BY <2>1, Messages
  <2>5. ~In(forked, pids) /\ ~(forked > forked)
    BY <1>0, <1>t, <2>1 DEF Tabled, Unsubscribed
  <2>6. \A c \in Call : In(Arriving(c), socket) \/ In(c, pids) => ~(c > forked)
    BY <1>0 DEF Tabled, Unsubscribed
  <2> QED
    BY <1>0, <1>t, <2>1, <2>2, <2>3, <2>4, <2>5, <2>6 DEF Tabled
<1>5. CASE Sigint
  <2>1. /\ UNCHANGED <<forked, socket, pids>> /\ main' = "exited"
        /\ \A c \in Call : pc'[c] = IF pc[c] = "none" THEN "none" ELSE "dead"
    BY <1>5 DEF Sigint, choiceVars
  <2>2. \A c \in Call : Unsubscribed(c)' => Unsubscribed(c)
    BY <2>1 DEF Unsubscribed
  <2> QED
    BY <1>0, <2>1, <2>2 DEF Tabled
<1>6. ASSUME NEW c \in Call, Child(c) PROVE Tabled'
  <2>1. /\ UNCHANGED <<main, forked, pids>>
        /\ pc[c] # "none" /\ pc'[c] # "none"
        /\ \A d \in Call \ {c} : pc'[d] = pc[d]
        /\ pc[c] \in {"kill", "term", "dead"} => pc'[c] \in {"kill", "term", "dead"}
    BY <1>0, <1>6, ChildFrame
  <2>2. /\ Distinct(socket')
        /\ \A m : In(m, socket') =>
              In(m, socket) \/ (m = Departing(c) /\ pc'[c] \in {"kill", "term", "dead"})
    BY <1>0, <1>6, Announces
  <2>3. \A d \in Call : In(Arriving(d), socket') => In(Arriving(d), socket)
    BY <2>2, Messages
  <2>4. \A d \in Call : In(Departing(d), socket') =>
          In(Departing(d), socket) \/ (d = c /\ pc'[c] \in {"kill", "term", "dead"})
    BY <2>2, Messages
  <2>5. \A d \in Call : Unsubscribed(d)' <=> Unsubscribed(d)
    BY <2>1 DEF Unsubscribed
  <2> QED
    BY <1>0, <1>t, <2>1, <2>2, <2>3, <2>4, <2>5 DEF Tabled
<1>7. CASE Die
  <2>1. /\ UNCHANGED <<main, forked, pc, pids>> /\ socket' = <<>>
    BY <1>7 DEF Die, parentVars, childVars, choiceVars
  <2>2. Distinct(<<>>) /\ \A m : ~In(m, <<>>)
    BY EmptySeq DEF Distinct, In
  <2>3. \A d \in Call : Unsubscribed(d)' <=> Unsubscribed(d)
    BY <2>1 DEF Unsubscribed
  <2> QED
    BY <1>0, <1>t, <2>1, <2>2, <2>3 DEF Tabled
<1>8. CASE Received
  <2>1. /\ UNCHANGED <<forked, main, pc>> /\ Distinct(socket')
        /\ \/ UNCHANGED <<socket, pids>>
           \/ \E id \in Call : Arrival(id) \/ Departure(id)
    BY <1>0, <1>8, Reading
  <2>2. \A d \in Call : Unsubscribed(d)' <=> Unsubscribed(d)
    BY <2>1 DEF Unsubscribed
  <2>3. CASE UNCHANGED <<socket, pids>>
    BY <1>0, <1>t, <2>1, <2>2, <2>3 DEF Tabled
  <2>4. ASSUME NEW id \in Call, Arrival(id) PROVE Tabled'
    <3>1. /\ Distinct(pids') /\ \A x : In(x, pids') <=> In(x, pids) \/ x = id
          /\ In(Arriving(id), socket) /\ ~In(Arriving(id), socket')
          /\ \A m : In(m, socket') => In(m, socket)
      BY <2>4 DEF Arrival
    <3> QED
      BY <1>0, <1>t, <2>1, <2>2, <3>1 DEF Tabled
  <2>5. ASSUME NEW id \in Call, Departure(id) PROVE Tabled'
    <3>1. /\ Distinct(pids') /\ \A x : In(x, pids') => In(x, pids)
          /\ \A m : In(m, socket') => In(m, socket)
      BY <2>5 DEF Departure
    <3> QED
      BY <1>0, <1>t, <2>1, <2>2, <3>1 DEF Tabled
  <2> QED
    BY <2>1, <2>3, <2>4, <2>5
<1>9. CASE Switch
  <2>1. UNCHANGED <<forked, main, pc, socket, pids>>
    BY <1>0, <1>9, Switches
  <2>2. \A d \in Call : Unsubscribed(d)' <=> Unsubscribed(d)
    BY <2>1 DEF Unsubscribed
  <2> QED
    BY <1>0, <1>t, <2>1, <2>2 DEF Tabled
<1> QED
  BY <1>1, <1>2, <1>3, <1>4, <1>5, <1>6, <1>7, <1>8, <1>9, Steps

\* The choice is kept through arrivals and departures.
LEMMA ChosenStep ==
  ASSUME Inv, [Next]_vars
  PROVE  Chosen'
<1>0. TypeOK /\ Tabled /\ Chosen /\ priority' = priority
  BY Steps DEF Inv
<1>1. CASE UNCHANGED <<pids, max_pid, max_priority>>
  BY <1>0, <1>1 DEF Chosen
<1>2. ASSUME NEW id \in Call, Departure(id) PROVE Chosen'
  BY <1>0, <1>2 DEF Chosen, Departure
<1>3. ASSUME NEW id \in Call, Arrival(id) PROVE Chosen'
  <2>1. /\ pids' = Append(pids, id) /\ ~In(id, pids)
        /\ IF Outranks(id) THEN max_pid' = id /\ max_priority' = priority[id]
                           ELSE UNCHANGED <<max_pid, max_priority>>
    BY <1>3 DEF Arrival
  <2>2. /\ pids \in Seq(Call) /\ Distinct(pids) /\ priority[id] \in Int
        /\ \A c : In(c, pids) => priority[c] \in Int
    BY <1>0, Types, Member DEF Tabled
  <2>3. /\ pids = <<>> => First(id, pids', priority)
        /\ \A m : First(m, pids, priority) =>
              IF priority[id] > priority[m] THEN First(id, pids', priority)
                                            ELSE First(m, pids', priority)
    BY <2>1, <2>2, FirstJoined
  <2>4. pids' # <<>>
    BY <2>1, <2>2, AppendProperties
  <2>5. CASE pids = <<>>
    <3>1. max_pid = none
      BY <1>0, <2>5 DEF Chosen
    <3> QED
      BY <1>0, <2>1, <2>3, <2>4, <2>5, <3>1 DEF Chosen, Outranks
  <2>6. CASE pids # <<>>
    <3>1. First(max_pid, pids, priority) /\ max_priority = priority[max_pid] /\ max_pid # none
      BY <1>0, <2>6, ChosenIsMember DEF Chosen
    <3>2. CASE priority[id] > priority[max_pid]
      BY <1>0, <2>1, <2>3, <2>4, <3>1, <3>2 DEF Chosen, Outranks
    <3>3. CASE ~(priority[id] > priority[max_pid])
      BY <1>0, <2>1, <2>3, <2>4, <3>1, <3>3 DEF Chosen, Outranks
    <3> QED
      BY <3>2, <3>3
  <2> QED
    BY <2>5, <2>6
<1> QED
  BY <1>0, <1>1, <1>2, <1>3, ChoiceFrame

\* Nobody stops a child, or tells the scheduler of it, that has not stopped itself.
LEMMA ReadyStep ==
  ASSUME Inv, [Next]_vars
  PROVE  Ready'
<1>0. TypeOK /\ Tabled /\ Chosen /\ Ready
  BY DEF Inv
<1>t. /\ pc \in [Call -> Places] /\ forked \in Nat /\ NumCalls \in Nat
      /\ stopped \in [Call -> BOOLEAN] /\ none \notin Call
      /\ \A c \in Call : c \in Int /\ c >= 1 /\ c <= NumCalls
  BY <1>0, Types
<1>1. CASE Quiet
  BY <1>0, <1>1 DEF Ready, Quiet
<1>2. CASE Fork
  <2>1. /\ forked' = forked + 1 /\ UNCHANGED <<stopped, socket, pids, running_pid>>
        /\ main' # "subscribe" /\ pc' = [pc EXCEPT ![forked + 1] = "start"]
    BY <1>2 DEF Fork, choiceVars, loopVars
  <2>2. \A d \in Call : pc'[d] \in {"none", "start"} => pc[d] \in {"none", "start"}
    <3>1. \A d \in Call : d > forked => pc[d] = "none"
      BY <1>0 DEF Tabled
    <3>2. \A d \in Call : d # forked + 1 => pc'[d] = pc[d]
      BY <1>t, <2>1
    <3>3. \A d \in Call : d = forked + 1 => d > forked
      BY <1>t
    <3> QED
      BY <3>1, <3>2, <3>3
  <2> QED
    BY <1>0, <2>1, <2>2 DEF Ready
<1>3. CASE Waitpid
  <2>1. /\ UNCHANGED <<forked, pc, stopped, socket, pids, running_pid>>
        /\ stopped[forked] \/ pc[forked] = "dead"
    BY <1>3 DEF Waitpid, childVars, choiceVars, loopVars
  <2> QED
    BY <1>0, <2>1 DEF Ready
<1>4. CASE Subscribe
  <2>1. /\ main = "subscribe" /\ main' # "subscribe"
        /\ UNCHANGED <<forked, pc, stopped, pids, running_pid>>
        /\ \A m : In(m, socket') => In(m, socket) \/ m = Arriving(forked)
    BY <1>0, <1>4, Subscribes
  <2>2. \A d \in Call : In(Arriving(d), socket') => In(Arriving(d), socket) \/ d = forked
    BY <2>1, Messages
  <2> QED
    BY <1>0, <2>1, <2>2 DEF Ready
<1>5. CASE Sigint
  <2>1. /\ UNCHANGED <<forked, stopped, socket, pids, running_pid>> /\ main' = "exited"
        /\ \A c \in Call : pc'[c] = IF pc[c] = "none" THEN "none" ELSE "dead"
    BY <1>5 DEF Sigint, choiceVars, loopVars
  <2> QED
    BY <1>0, <2>1 DEF Ready
<1>6. ASSUME NEW c \in Call, Child(c) PROVE Ready'
  <2>1. /\ UNCHANGED <<main, forked, pids, running_pid>>
        /\ pc'[c] \notin {"none", "start"}
        /\ \A d \in Call \ {c} : pc'[d] = pc[d] /\ stopped'[d] = stopped[d]
    BY <1>0, <1>6, ChildFrame
  <2>2. \A d \in Call : In(Arriving(d), socket') => In(Arriving(d), socket)
    BY <1>0, <1>6, Announces, Messages
  <2> QED
    BY <1>0, <2>1, <2>2 DEF Ready
<1>7. CASE Die
  <2>1. UNCHANGED <<main, forked, pc, stopped, pids, running_pid>> /\ socket' = <<>>
    BY <1>7 DEF Die, parentVars, childVars, choiceVars
  <2>2. \A m : ~In(m, <<>>)
    BY EmptySeq DEF In
  <2> QED
    BY <1>0, <2>1, <2>2 DEF Ready
<1>8. CASE Received
  <2>1. /\ UNCHANGED <<forked, main, pc, stopped, running_pid>>
        /\ \/ UNCHANGED <<socket, pids>>
           \/ \E id \in Call : Arrival(id) \/ Departure(id)
    BY <1>0, <1>8, Reading
  <2>2. \A d \in Call : /\ In(Arriving(d), socket') => In(Arriving(d), socket)
                        /\ In(d, pids') => In(d, pids) \/ In(Arriving(d), socket)
    BY <2>1 DEF Arrival, Departure
  <2> QED
    BY <1>0, <2>1, <2>2 DEF Ready
<1>9. CASE Switch
  <2>1. /\ UNCHANGED <<forked, main, pc, socket, pids>>
        /\ running_pid' \in {max_pid, running_pid}
        /\ \A c \in Call : stopped'[c] => stopped[c] \/ c = running_pid
    BY <1>0, <1>9, Switches
  <2>2. \A c \in Call : c = max_pid => In(c, pids)
    BY <1>0, <1>t, ChosenIsMember
  <2> QED
    BY <1>0, <2>1, <2>2 DEF Ready
<1> QED
  BY <1>1, <1>2, <1>3, <1>4, <1>5, <1>6, <1>7, <1>8, <1>9, Steps

\* A broadcast is never forgotten.
LEMMA BroadcastStays ==
  ASSUME TypeOK, Chosen, Tabled, [Next]_vars
  PROVE  broadcast => broadcast'
<1>1. CASE Quiet \/ Fork \/ Waitpid \/ Sigint \/ Die \/ Received
  BY <1>1 DEF Quiet, Fork, Waitpid, Sigint, Die, Received, loopVars
<1>2. CASE Subscribe
  BY <1>2, Subscribes
<1>3. ASSUME NEW c \in Call, Child(c) PROVE broadcast' = broadcast
  BY <1>3, ChildFrame
<1>4. CASE Switch
  BY <1>4, Switches
<1> QED
  BY <1>1, <1>2, <1>3, <1>4, Steps

\* The child that runs is put to sleep when another is woken.
LEMMA OneRunsStep ==
  ASSUME Inv, [Next]_vars
  PROVE  AtMostOneRuns'
<1>0. TypeOK /\ Tabled /\ Chosen /\ AtMostOneRuns /\ Switching /\ scheduler' = scheduler
  BY Steps DEF Inv
<1>t. pc \in [Call -> Places] /\ stopped \in [Call -> BOOLEAN]
  BY <1>0, Types
<1>b. broadcast => broadcast'
  BY <1>0, BroadcastStays
<1>1. CASE Quiet \/ Waitpid \/ Subscribe \/ Die \/ Received
  <2>1. UNCHANGED <<pc, stopped, running_pid>>
    BY <1>0, <1>1, Subscribes DEF Quiet, Waitpid, Die, Received, childVars, loopVars
  <2> QED
    BY <1>0, <1>b, <2>1 DEF AtMostOneRuns
<1>2. CASE Fork
  <2>1. /\ UNCHANGED <<stopped, running_pid>>
        /\ pc' = [pc EXCEPT ![forked + 1] = "start"]
    BY <1>2 DEF Fork, loopVars
  <2>2. \A d \in Call : pc'[d] # "start" => pc'[d] = pc[d]
    BY <1>t, <2>1
  <2> QED
    BY <1>0, <1>b, <2>1, <2>2 DEF AtMostOneRuns
<1>3. CASE Sigint
  <2>1. \A c \in Call : pc'[c] \in {"none", "dead"}
    BY <1>3 DEF Sigint
  <2> QED
    BY <2>1 DEF AtMostOneRuns
<1>4. ASSUME NEW c \in Call, Child(c) PROVE AtMostOneRuns'
  <2>1. /\ UNCHANGED running_pid
        /\ \A d \in Call \ {c} : pc'[d] = pc[d] /\ stopped'[d] = stopped[d]
        /\ ~stopped[c] /\ (pc[c] = "start" => stopped'[c] = scheduler)
        /\ pc[c] # "start" => pc'[c] # "rpc"
        /\ pc'[c] = "remove" => pc[c] = "rpc"
    BY <1>0, <1>4, ChildFrame
  <2> QED
    BY <1>0, <1>b, <2>1 DEF AtMostOneRuns
<1>5. CASE Switch
  <2>1. /\ pc' = pc
        /\ ~broadcast' =>
             /\ ~broadcast
             /\ \A c \in Call : stopped[c] /\ ~stopped'[c] => c = max_pid /\ Wake
             /\ \A c \in Call : c = running_pid /\ c # running_pid' /\ pc[c] # "dead"
                                => stopped'[c]
    BY <1>0, <1>5, Switches
  <2>2. Wake => running_pid' = max_pid
    BY <1>0 DEF Wake, Switching
  <2> QED
    BY <1>0, <2>1, <2>2 DEF AtMostOneRuns
<1> QED
  BY <1>1, <1>2, <1>3, <1>4, <1>5, Steps

\* What the scheduler does not know it does not continue.
LEMMA WaitingStep ==
  ASSUME Inv, [Next]_vars
  PROVE  Waiting'
<1>0. TypeOK /\ Tabled /\ Chosen /\ Ready /\ Waiting
  BY DEF Inv
<1>t. /\ pc \in [Call -> Places] /\ stopped \in [Call -> BOOLEAN] /\ forked \in Nat
      /\ \A c \in Call : c \in Int
  BY <1>0, Types
<1> SUFFICES ASSUME scheduler, ~broadcast', main' # "exited"
             PROVE  \A c \in Call :
      /\ Unsubscribed(c)' => pc'[c] \in {"none", "start"} \/ (pc'[c] = "rpc" /\ stopped'[c])
      /\ In(Arriving(c), socket') \/ (c = forked' /\ main' = "subscribe") =>
           pc'[c] = "rpc" /\ stopped'[c]
  BY Steps DEF Waiting
<1>w. \A c \in Call :
        /\ Unsubscribed(c) => pc[c] \in {"none", "start"} \/ (pc[c] = "rpc" /\ stopped[c])
        /\ In(Arriving(c), socket) \/ (c = forked /\ main = "subscribe") =>
             pc[c] = "rpc" /\ stopped[c]
  BY <1>0, Steps, BroadcastStays DEF Waiting
<1>1. CASE Quiet
  <2>1. \A c \in Call : Unsubscribed(c)' <=> Unsubscribed(c)
    BY <1>1 DEF Quiet, Unsubscribed
  <2> QED
    BY <1>w, <1>1, <2>1 DEF Quiet
<1>2. CASE Fork
  <2>1. /\ forked' = forked + 1 /\ UNCHANGED <<stopped, socket>>
        /\ main' # "subscribe" /\ pc' = [pc EXCEPT ![forked + 1] = "start"]
    BY <1>2 DEF Fork
  <2>2. \A d \in Call : Unsubscribed(d)' => Unsubscribed(d)
    BY <1>t, <2>1 DEF Unsubscribed
  <2>3. \A d \in Call : d = forked + 1 => pc'[d] = "start" /\ pc[d] = "none"
    <3>1. \A d \in Call : d = forked + 1 => d > forked
      BY <1>t
    <3> QED
      BY <1>0, <1>t, <2>1, <3>1 DEF Tabled
  <2>4. \A d \in Call : d # forked + 1 => pc'[d] = pc[d]
    BY <1>t, <2>1
  <2> QED
    BY <1>w, <2>1, <2>2, <2>3, <2>4
<1>3. CASE Waitpid
  <2>1. /\ UNCHANGED <<forked, pc, stopped, socket>> /\ main = "waitpid"
        /\ stopped[forked] \/ pc[forked] = "dead"
    BY <1>3 DEF Waitpid, childVars
  <2>2. \A c \in Call : Unsubscribed(c)' => Unsubscribed(c)
    BY <2>1 DEF Unsubscribed
  <2>3. \A c \in Call : c = forked => pc[c] = "rpc" /\ stopped[c]
    BY <1>0, <1>w, <2>1 DEF Unsubscribed, Ready
  <2> QED
    BY <1>w, <2>1, <2>2, <2>3
<1>4. CASE Subscribe
  <2>1. /\ main = "subscribe" /\ main' # "subscribe" /\ main' # "waitpid"
        /\ UNCHANGED <<forked, pc, stopped>>
        /\ \A m : In(m, socket') => In(m, socket) \/ m = Arriving(forked)
    BY <1>0, <1>4, Subscribes
  <2>2. \A d \in Call : In(Arriving(d), socket') => In(Arriving(d), socket) \/ d = forked
    BY <2>1, Messages
  <2>3. \A c \in Call : Unsubscribed(c)' => Unsubscribed(c)
    BY <2>1 DEF Unsubscribed
  <2> QED
    BY <1>w, <2>1, <2>2, <2>3
<1>5. ASSUME NEW c \in Call, Child(c), NEW d \in Call
      PROVE  /\ Unsubscribed(d)' => pc'[d] \in {"none", "start"} \/ (pc'[d] = "rpc" /\ stopped'[d])
             /\ In(Arriving(d), socket') \/ (d = forked' /\ main' = "subscribe") =>
                  pc'[d] = "rpc" /\ stopped'[d]
  <2>1. /\ UNCHANGED <<main, forked>> /\ ~stopped[c] /\ pc[c] # "none"
        /\ pc[c] = "start" => pc'[c] = "rpc" /\ stopped'[c] = scheduler
        /\ d # c => pc'[d] = pc[d] /\ stopped'[d] = stopped[d]
    BY <1>0, <1>5, ChildFrame
  <2>2. In(Arriving(d), socket') => In(Arriving(d), socket)
    BY <1>0, <1>5, Announces, Messages
  <2>3. Unsubscribed(d)' <=> Unsubscribed(d)
    BY <2>1 DEF Unsubscribed
  <2>4. CASE d = c
    BY <1>w, <2>1, <2>2, <2>3, <2>4
  <2>5. CASE d # c
    BY <1>w, <2>1, <2>2, <2>3, <2>5
  <2> QED
    BY <2>4, <2>5
<1>6. CASE Die
  <2>1. UNCHANGED <<main, forked, pc, stopped>> /\ socket' = <<>>
    BY <1>6 DEF Die, parentVars, childVars
  <2>2. \A m : ~In(m, <<>>)
    BY EmptySeq DEF In
  <2>3. \A c \in Call : Unsubscribed(c)' <=> Unsubscribed(c)
    BY <2>1 DEF Unsubscribed
  <2> QED
    BY <1>w, <2>1, <2>2, <2>3
<1>7. CASE Received
  <2>1. /\ UNCHANGED <<forked, main, pc, stopped>>
        /\ \/ UNCHANGED <<socket, pids>>
           \/ \E id \in Call : Arrival(id) \/ Departure(id)
    BY <1>0, <1>7, Reading
  <2>2. \A d \in Call : In(Arriving(d), socket') => In(Arriving(d), socket)
    BY <2>1 DEF Arrival, Departure
  <2>3. \A c \in Call : Unsubscribed(c)' <=> Unsubscribed(c)
    BY <2>1 DEF Unsubscribed
  <2> QED
    BY <1>w, <2>1, <2>2, <2>3
<1>8. CASE Switch
  <2>1. /\ UNCHANGED <<forked, main, pc, socket>>
        /\ \A c \in Call : stopped[c] /\ ~stopped'[c] => In(c, pids)
    BY <1>0, <1>8, Switches
  <2>2. \A c \in Call : Unsubscribed(c)' <=> Unsubscribed(c)
    BY <2>1 DEF Unsubscribed
  <2>3. \A c \in Call :
          Unsubscribed(c) \/ In(Arriving(c), socket) \/ (c = forked /\ main = "subscribe")
          => ~In(c, pids)
    BY <1>0, <2>1 DEF Tabled, Unsubscribed
  <2> QED
    BY <1>w, <2>1, <2>2, <2>3
<1>9. ~Sigint
  BY DEF Sigint
<1> QED
  BY <1>1, <1>2, <1>3, <1>4, <1>5, <1>6, <1>7, <1>8, <1>9, Steps

\* A newcomer is behind the others of its priority and stands still; the
\* scheduler continues the first of the highest priority.
LEMMA SerialStep ==
  ASSUME Inv, [Next]_vars
  PROVE  Serial'
<1>0. /\ TypeOK /\ Tabled /\ Chosen /\ Waiting /\ Serial
      /\ priority' = priority
  BY Steps DEF Inv
<1>t. /\ pc \in [Call -> Places] /\ pids \in Seq(Call) /\ Distinct(pids) /\ forked \in Nat
      /\ \A c \in Call : c \in Int
  BY <1>0, Types DEF Tabled
<1> SUFFICES ASSUME ~broadcast', main' # "exited", NEW c \in Call, NEW d \in Call,
                    Before(c, d, pids'), priority[c] = priority[d]
             PROVE  stopped'[d] /\ pc'[d] = "rpc"
  BY <1>0 DEF Serial
<1>b. ~broadcast /\ main # "exited"
  BY <1>0, Steps, BroadcastStays
<1>s. Before(c, d, pids) => stopped[d] /\ pc[d] = "rpc"
  BY <1>0, <1>b DEF Serial
<1>1. CASE Quiet \/ Waitpid \/ Subscribe \/ Die
  <2>1. UNCHANGED <<pc, stopped, pids>>
    BY <1>0, <1>1, Subscribes DEF Quiet, Waitpid, Die, childVars, choiceVars
  <2> QED
    BY <1>s, <2>1
<1>2. CASE Fork
  <2>1. /\ UNCHANGED <<stopped, pids>> /\ pc' = [pc EXCEPT ![forked + 1] = "start"]
    BY <1>2 DEF Fork, choiceVars
  <2>2. pc[d] = "rpc" /\ stopped'[d]
    BY <1>s, <2>1
  <2>3. d # forked + 1
    <3>1. ~(d > forked)
      BY <1>0, <2>2 DEF Tabled
    <3> QED
      BY <1>t, <3>1
  <2> QED
    BY <1>t, <2>1, <2>2, <2>3
<1>3. ~Sigint
  BY DEF Sigint
<1>4. ASSUME NEW e \in Call, Child(e) PROVE stopped'[d] /\ pc'[d] = "rpc"
  <2>1. /\ pids' = pids /\ ~stopped[e]
        /\ d # e => pc'[d] = pc[d] /\ stopped'[d] = stopped[d]
    BY <1>0, <1>4, ChildFrame
  <2> QED
    BY <1>s, <2>1
<1>5. CASE scheduler /\ Received
  <2>1. /\ UNCHANGED <<pc, stopped>>
        /\ \/ pids' = pids
           \/ \E id \in Call : Arrival(id) \/ Departure(id)
    BY <1>0, <1>5, Reading
  <2>2. ASSUME NEW id \in Call, Arrival(id) PROVE stopped[d] /\ pc[d] = "rpc"
    <3>1. /\ Before(c, d, pids) \/ d = id
          /\ In(Arriving(id), socket)
      BY <2>2 DEF Arrival
    <3>2. stopped[id] /\ pc[id] = "rpc"
      BY <1>0, <1>b, <1>5, <3>1 DEF Waiting
    <3> QED
      BY <1>s, <3>1, <3>2
  <2>3. ASSUME NEW id \in Call, Departure(id) PROVE stopped[d] /\ pc[d] = "rpc"
    BY <1>s, <2>3 DEF Departure
  <2> QED
    BY <1>s, <2>1, <2>2, <2>3
<1>6. CASE Switch
  <2>1. /\ UNCHANGED <<pc, pids>>
        /\ stopped[d] /\ d # max_pid => stopped'[d]
    BY <1>0, <1>6, Switches
  <2>2. In(c, pids) /\ c # d /\ ~Before(d, c, pids)
    BY <1>t, <2>1, BeforeIsStrict
  <2>3. d # max_pid
    <3>1. First(max_pid, pids, priority)
      BY <1>0, <2>2, EmptySeq DEF Chosen, In
    <3>2. priority[c] \in Int
      BY <1>0, Types
    <3> QED
      BY <2>2, <3>1, <3>2 DEF First
  <2> QED
    BY <1>s, <2>1, <2>3
<1> QED
  BY <1>1, <1>2, <1>3, <1>4, <1>5, <1>6, Steps

\* A message is on the socket before its child is gone, and takes it out of the
\* vector when it is read.
LEMMA LeavingStep ==
  ASSUME Inv, [Next]_vars
  PROVE  Leaving'
<1>0. TypeOK /\ Unscheduled /\ Tabled /\ Chosen /\ Waiting /\ Leaving
  BY DEF Inv
<1>t. pc \in [Call -> Places] /\ forked \in Nat /\ \A c \in Call : c \in Int
  BY <1>0, Types
<1> SUFFICES ASSUME ~broadcast', main' # "exited", sched' # "dead", NEW c \in Call,
                    In(c, pids'), pc'[c] \in {"kill", "term", "dead"}
             PROVE  In(Departing(c), socket')
  BY DEF Leaving
<1>b. ~broadcast /\ main # "exited" /\ sched # "dead"
  BY <1>0, Steps, BroadcastStays
<1>s. In(c, pids) /\ pc[c] \in {"kill", "term", "dead"} => In(Departing(c), socket)
  BY <1>0, <1>b DEF Leaving
<1>1. CASE Quiet \/ Waitpid \/ Subscribe
  <2>1. UNCHANGED <<pc, pids>> /\ \A m : In(m, socket) => In(m, socket')
    BY <1>0, <1>1, Subscribes DEF Quiet, Waitpid, childVars, choiceVars
  <2> QED
    BY <1>s, <2>1
<1>2. CASE Fork
  <2>1. UNCHANGED <<socket, pids>> /\ pc' = [pc EXCEPT ![forked + 1] = "start"]
    BY <1>2 DEF Fork, choiceVars
  <2>2. pc'[c] = pc[c]
    BY <1>t, <2>1
  <2> QED
    BY <1>s, <2>1, <2>2
<1>3. ~Sigint /\ ~Die
  BY DEF Sigint, Die
<1>4. ASSUME NEW d \in Call, Child(d) PROVE In(Departing(c), socket')
  <2>1. pids' = pids /\ (c # d => pc'[c] = pc[c]) /\ \A m : In(m, socket) => In(m, socket')
    BY <1>0, <1>4, ChildFrame, Announces
  <2>2. CASE c # d
    BY <1>s, <2>1, <2>2
  <2>3. CASE c = d /\ pc[c] \in {"kill", "term", "dead"}
    BY <1>s, <2>1, <2>3
  <2>4. CASE c = d /\ pc[c] \notin {"kill", "term", "dead"}
    <3>1. scheduler
      BY <1>0, <2>1, EmptySeq DEF Unscheduled, In
    <3>2. socket' = Append(socket, Departing(c))
      BY <1>0, <1>b, <1>4, <2>4, <3>1, ChildWrites
    <3>3. socket \in Seq(Message) /\ Departing(c) \in Message
      BY <1>0, Types, Messages
    <3> QED
      BY <3>2, <3>3, Pushed
  <2> QED
    BY <2>2, <2>3, <2>4
<1>5. CASE scheduler /\ Received
  <2>1. /\ UNCHANGED <<pc, stopped>>
        /\ \/ UNCHANGED <<socket, pids>>
           \/ \E id \in Call : Arrival(id) \/ Departure(id)
    BY <1>0, <1>5, Reading
  <2>2. ASSUME NEW id \in Call, Arrival(id) PROVE In(Departing(c), socket')
    <3>1. /\ In(c, pids) \/ c = id
          /\ In(Arriving(id), socket)
          /\ \A m : In(m, socket) <=> In(m, socket') \/ m = Arriving(id)
      BY <2>2 DEF Arrival
    <3>2. pc[id] = "rpc"
      BY <1>0, <1>b, <1>5, <3>1 DEF Waiting
    <3>3. In(Departing(c), socket) /\ Departing(c) # Arriving(id)
      BY <1>s, <2>1, <3>1, <3>2, Messages
    <3> QED
      BY <3>1, <3>3
  <2>3. ASSUME NEW id \in Call, Departure(id) PROVE In(Departing(c), socket')
    <3>1. /\ In(c, pids) /\ c # id
          /\ \A m : In(m, socket) <=> In(m, socket') \/ m = Departing(id)
      BY <2>3 DEF Departure
    <3>2. In(Departing(c), socket) /\ Departing(c) # Departing(id)
      BY <1>s, <2>1, <3>1, Messages
    <3> QED
      BY <3>1, <3>2
  <2>4. CASE UNCHANGED <<socket, pids>>
    BY <1>s, <2>1, <2>4
  <2> QED
    BY <2>1, <2>2, <2>3, <2>4
<1>6. CASE Switch
  <2>1. UNCHANGED <<pc, socket, pids>>
    BY <1>0, <1>6, Switches
  <2> QED
    BY <1>s, <2>1
<1> QED
  BY <1>1, <1>2, <1>3, <1>4, <1>5, <1>6, Steps

\* SIGUSR1 is blocked from before SIGSTOP to after SIGCONT.
LEMMA SwitchingStep ==
  ASSUME Inv, [Next]_vars
  PROVE  Switching'
<1>0. Switching
  BY DEF Inv
<1> USE DEF Switching, choiceVars, loopVars
<1>1. CASE Parent \/ Sigint
  BY <1>0, <1>1 DEF Parent, Connect, Fork, Waitpid, Subscribe, Kill, Return, Sigint
<1>2. ASSUME NEW c \in Call, Child(c) PROVE Switching'
  BY <1>0, <1>2 DEF Child
<1>3. CASE Listen \/ Accept \/ Install \/ Loop \/ Block \/ Look \/ Compare
  BY <1>3 DEF Listen, Accept, Install, Loop, Block, Look, Compare, Step
<1>4. CASE Handle \/ ReadAnyway \/ Wake
  BY <1>0, <1>4 DEF Handle, ReadAnyway, Wake
<1>5. CASE Sleep
  BY <1>5 DEF Sleep
<1>6. CASE Deliver \/ Idle
  BY <1>0, <1>6 DEF Deliver, Interrupt, Die, Idle, Count
<1>7. CASE Ended \/ UNCHANGED vars
  BY <1>0, <1>7 DEF Ended, vars
<1> QED
  BY <1>1, <1>2, <1>3, <1>4, <1>5, <1>6, <1>7 DEF Next, Scheduler

\* No step leaves the types: what is read off the socket is a message about a
\* child, and what is sent a signal is a child or -1.
LEMMA TypeStep ==
  ASSUME Inv, [Next]_vars
  PROVE  TypeOK'
<1>0. /\ TypeOK /\ Tabled /\ Chosen /\ UNCHANGED <<scheduler, optimised, priority>>
  BY Steps DEF Inv
<1>t. /\ {scheduler, optimised, usr1, handler, sigusr1, broadcast} \subseteq BOOLEAN
      /\ forked \in 0 .. NumCalls /\ pc \in [Call -> Places] /\ stopped \in [Call -> BOOLEAN]
      /\ socket \in Seq(Message) /\ pids \in Seq(Call) /\ NumCalls \in Nat
      /\ max_pid \in Call \cup {none} /\ running_pid \in Call \cup {none}
      /\ max_priority \in Nat \cup {-1} /\ \A c \in Call : priority[c] \in Nat
  BY <1>0, Types DEF TypeOK
<1> DEFINE Mains == {"start", "fork", "waitpid", "subscribe", "kill", "wait", "returned",
                     "exited"}
           Scheds == {"start", "accept", "install", "loop", "block", "read", "look",
                      "compare", "switch", "wake", "dead"}
<1>u. main \in Mains /\ sched \in Scheds
  BY <1>0 DEF TypeOK
<1> HIDE DEF Mains, Scheds
<1>1. usr1' \in BOOLEAN /\ handler' \in BOOLEAN /\ sigusr1' \in BOOLEAN
  <2>1. CASE Parent \/ Sigint
    BY <1>t, <2>1 DEF Parent, Connect, Fork, Waitpid, Subscribe, Kill, KillUsr1, Return, Sigint,
          loopVars
  <2>2. ASSUME NEW c \in Call, Child(c)
        PROVE  usr1' \in BOOLEAN /\ handler' \in BOOLEAN /\ sigusr1' \in BOOLEAN
    BY <1>t, <2>2 DEF Child, Stop, Rpc, WriteRemove, KillScheduler, KillUsr1, Term, loopVars
  <2>3. CASE Scheduler
    <3>1. CASE Handle \/ ReadAnyway \/ Wake
      <4>1. usr1' = FALSE /\ handler' = usr1
        BY <3>1 DEF Handle, ReadAnyway, Wake, Unblock
      <4>2. sigusr1' \in BOOLEAN
        BY <1>t, <3>1 DEF Handle, ReadAnyway, Wake
      <4> QED
        BY <1>t, <4>1, <4>2
    <3>2. CASE ~(Handle \/ ReadAnyway \/ Wake)
      BY <1>t, <2>3, <3>2 DEF Scheduler, Listen, Accept, Install, Loop, Block, Look, Compare,
            Sleep, Step
    <3> QED
      BY <3>1, <3>2
  <2>4. CASE Deliver \/ Idle
    BY <1>t, <2>4 DEF Deliver, Interrupt, Unblock, Die, Idle, Count
  <2>5. CASE Ended \/ UNCHANGED vars
    BY <1>t, <2>5 DEF Ended, vars, loopVars
  <2> QED
    BY <2>1, <2>2, <2>3, <2>4, <2>5 DEF Next
<1>2. main' \in Mains
  <2>1. CASE Parent \/ Sigint
    BY <1>u, <2>1 DEF Parent, Connect, Fork, Waitpid, Subscribe, AfterWrite, Kill, Return, Sigint,
          Mains
  <2>2. ASSUME NEW c \in Call, Child(c) PROVE main' = main
    BY <2>2 DEF Child, parentVars
  <2>3. CASE Scheduler \/ Deliver \/ Idle
    BY <1>u, <2>3 DEF Scheduler, Listen, Accept, Install, Loop, Block, Look, Compare, Step,
          Handle, ReadAnyway, Sleep, Wake, Deliver, Interrupt, Die, Idle, Count, parentVars
  <2>4. CASE Ended \/ UNCHANGED vars
    BY <1>u, <2>4 DEF Ended, vars, parentVars
  <2> QED
    BY <1>u, <2>1, <2>2, <2>3, <2>4 DEF Next
<1>3. sched' \in Scheds
  <2>1. CASE Parent \/ Sigint
    BY <1>u, <2>1 DEF Parent, Connect, Fork, Waitpid, Subscribe, Kill, Return, Sigint, loopVars
  <2>2. ASSUME NEW c \in Call, Child(c) PROVE sched' = sched
    BY <2>2 DEF Child, loopVars
  <2>3. CASE Scheduler \/ Deliver \/ Idle
    BY <1>u, <2>3 DEF Scheduler, Listen, Accept, Install, Loop, Block, Look, Compare, Step,
          Handle, ReadAnyway, Sleep, Wake, Deliver, Interrupt, Die, Idle, Count, Scheds
  <2>4. CASE Ended \/ UNCHANGED vars
    BY <1>u, <2>4 DEF Ended, vars, loopVars
  <2> QED
    BY <1>u, <2>1, <2>2, <2>3, <2>4 DEF Next
<1>4. forked' \in 0 .. NumCalls /\ broadcast' \in BOOLEAN /\ running_pid' \in Call \cup {none}
  <2>1. CASE Quiet \/ Waitpid \/ Sigint \/ Die \/ Received
    BY <1>t, <2>1 DEF Quiet, Waitpid, Sigint, Die, Received, parentVars, loopVars
  <2>2. CASE Fork
    BY <1>t, <2>2 DEF Fork, loopVars
  <2>3. CASE Subscribe
    BY <1>0, <1>t, <2>3, Subscribes
  <2>4. ASSUME NEW c \in Call, Child(c) PROVE UNCHANGED <<forked, broadcast, running_pid>>
    BY <1>0, <2>4, ChildFrame
  <2>5. CASE Switch
    BY <1>t, <2>5 DEF Switch, Sleep, Wake, parentVars
  <2> QED
    BY <1>t, <2>1, <2>2, <2>3, <2>4, <2>5, Steps
<1>5. pc' \in [Call -> Places] /\ stopped' \in [Call -> BOOLEAN]
  <2>1. CASE Quiet \/ Waitpid \/ Die \/ Received
    BY <1>t, <2>1 DEF Quiet, Waitpid, Die, Received, childVars
  <2>2. CASE Fork
    BY <1>t, <2>2 DEF Fork, Places
  <2>3. CASE Subscribe
    BY <1>0, <1>t, <2>3, Subscribes
  <2>4. CASE Sigint
    BY <1>t, <2>4 DEF Sigint, Places
  <2>5. ASSUME NEW c \in Call, Child(c)
        PROVE  pc' \in [Call -> Places] /\ stopped' \in [Call -> BOOLEAN]
    BY <1>0, <2>5, ChildFrame
  <2>6. CASE Switch
    BY <1>0, <1>t, <2>6, Switches
  <2> QED
    BY <2>1, <2>2, <2>3, <2>4, <2>5, <2>6, Steps
<1>6. socket' \in Seq(Message)
  <2>1. CASE Quiet \/ Fork \/ Waitpid \/ Sigint \/ Switch
    BY <1>t, <2>1 DEF Quiet, Fork, Waitpid, Sigint, Switch, Sleep, Wake
  <2>2. CASE Subscribe
    BY <1>0, <2>2, Subscribes
  <2>3. ASSUME NEW c \in Call, Child(c) PROVE socket' \in Seq(Message)
    BY <1>0, <2>3, Announces
  <2>4. CASE Die
    BY <2>4, EmptySeq DEF Die
  <2>5. CASE Received
    BY <1>0, <2>5, Reading
  <2> QED
    BY <2>1, <2>2, <2>3, <2>4, <2>5, Steps
<1>7. /\ pids' \in Seq(Call) /\ max_pid' \in Call \cup {none}
      /\ max_priority' \in Nat \cup {-1}
  <2>1. ASSUME NEW id \in Call, Arrival(id)
        PROVE  /\ pids' \in Seq(Call) /\ max_pid' \in Call \cup {none}
               /\ max_priority' \in Nat \cup {-1}
    BY <1>t, <2>1 DEF Arrival
  <2>2. ASSUME NEW id \in Call, Departure(id)
        PROVE  /\ pids' \in Seq(Call) /\ max_pid' \in Call \cup {none}
               /\ max_priority' \in Nat \cup {-1}
    <3>1. /\ pids' \in Seq(Call) /\ \A x : In(x, pids') => In(x, pids)
          /\ pids' = <<>> => max_pid' = none /\ max_priority' = -1
          /\ pids' # <<>> => In(max_pid', pids') /\ max_priority' = priority[max_pid']
      BY <2>2 DEF Departure, First
    <3>2. CASE pids' = <<>>
      BY <3>1, <3>2
    <3>3. CASE pids' # <<>>
      <4>1. max_pid' \in Call /\ priority[max_pid'] \in Nat
        BY <1>0, <3>1, <3>3, Member
      <4> QED
        BY <3>1, <3>3, <4>1
    <3> QED
      BY <3>2, <3>3
  <2> QED
    BY <1>0, <1>t, <2>1, <2>2, ChoiceFrame
<1>8. /\ {scheduler', optimised', usr1', handler', sigusr1', broadcast'} \subseteq BOOLEAN
      /\ priority' \in [Call -> Nat \ {0}]
  <2>1. scheduler' \in BOOLEAN /\ optimised' \in BOOLEAN /\ priority' \in [Call -> Nat \ {0}]
    BY <1>0, <1>t, Types
  <2> QED
    BY <1>1, <1>4, <2>1
<1> QED
  BY <1>2, <1>3, <1>4, <1>5, <1>6, <1>7, <1>8 DEF TypeOK, Places, Message, Mains, Scheds

\* The invariant holds before anything is forked.
LEMMA Initially ==
  ASSUME Init
  PROVE  Inv
<1>0. /\ NumCalls \in Nat /\ priority \in [Call -> Nat \ {0}]
      /\ scheduler \in BOOLEAN /\ optimised \in BOOLEAN
  BY CppProcessesAssumption DEF Init
<1>1. Distinct(<<>>) /\ \A x, y : ~In(x, <<>>) /\ ~Before(x, y, <<>>)
  BY EmptySeq DEF Distinct, In, Before
<1>2. TypeOK
  <2>1. <<>> \in Seq([kind : {"subscribe", "remove"}, pid : Call]) /\ <<>> \in Seq(Call)
    BY EmptySeq
  <2>2. {scheduler, optimised, usr1, handler, sigusr1, broadcast} \subseteq BOOLEAN
    BY <1>0 DEF Init
  <2>3. forked \in 0 .. NumCalls
    BY <1>0 DEF Init
  <2>4. /\ pc \in [Call -> {"none", "start", "rpc", "remove", "kill", "term", "dead"}]
        /\ stopped \in [Call -> BOOLEAN]
    BY DEF Init
  <2>5. /\ socket \in Seq([kind : {"subscribe", "remove"}, pid : Call]) /\ pids \in Seq(Call)
        /\ {max_pid, running_pid} \subseteq Call \cup {none}
        /\ max_priority \in Nat \cup {-1}
    BY <2>1 DEF Init
  <2>6. /\ main \in {"start", "fork", "waitpid", "subscribe", "kill", "wait", "returned",
                     "exited"}
        /\ sched \in {"start", "accept", "install", "loop", "block", "read", "look",
                      "compare", "switch", "wake", "dead"}
    BY DEF Init
  <2> QED
    BY <1>0, <2>2, <2>3, <2>4, <2>5, <2>6 DEF TypeOK
<1>3. Unscheduled /\ Chosen /\ AtMostOneRuns /\ Switching
  BY DEF Init, Unscheduled, Chosen, AtMostOneRuns, Switching
<1>4. Tabled
  <2>1. \A c \in Call : pc[c] = "none" /\ c > forked
    BY <1>0 DEF Init, Call
  <2> QED
    BY <1>1, <2>1 DEF Init, Tabled
<1>5. Waiting /\ Serial /\ Leaving
  BY <1>1 DEF Init, Waiting, Serial, Leaving
<1>6. Ready
  <2>1. none \notin Call /\ \A c \in Call : c # none
    BY <1>2, Types
  <2> QED
    BY <1>1, <2>1 DEF Init, Ready
<1> QED
  BY <1>2, <1>3, <1>4, <1>5, <1>6 DEF Inv

-----------------------------------------------------------------------------
(* Theorems *)

\* The inductive invariant holds for every input file, and however the processes
\* end.
THEOREM Invariance == Spec => []Inv
<1>1. Init => Inv
  BY Initially
<1>2. Inv /\ [Next]_vars => Inv'
  <2> SUFFICES ASSUME Inv, [Next]_vars PROVE Inv'
    OBVIOUS
  <2>1. TypeOK' /\ Unscheduled' /\ Tabled' /\ Chosen' /\ Ready'
    BY TypeStep, UnscheduledStep, TabledStep, ChosenStep, ReadyStep
  <2>2. AtMostOneRuns' /\ Waiting' /\ Serial' /\ Leaving' /\ Switching'
    BY OneRunsStep, WaitingStep, SerialStep, LeavingStep, SwitchingStep
  <2> QED
    BY <2>1, <2>2 DEF Inv
<1> QED
  BY <1>1, <1>2, PTL DEF Spec

\* Every variable keeps its type, wherever the handler interrupts the loop and
\* whichever process dies.
THEOREM TypeCorrect == Spec => []TypeOK
<1>1. Inv => TypeOK
  BY DEF Inv
<1> QED
  BY <1>1, Invariance, PTL

\* At most one of the children that wait for the scheduler runs, unless SIGCONT
\* has been sent to every process.
THEOREM OneRuns == Spec => []AtMostOneRuns
<1>1. Inv => AtMostOneRuns
  BY DEF Inv
<1> QED
  BY <1>1, Invariance, PTL

\* Children of one priority run one after the other, in the order of the vector,
\* even when the scheduler has died.
THEOREM Serialised == Spec => []SerialWithinPriority
<1>1. Inv => SerialWithinPriority
  <2> SUFFICES ASSUME Inv, ~broadcast, main # "exited",
                      NEW i \in DOMAIN pids, NEW j \in DOMAIN pids,
                      i < j, priority[pids[i]] = priority[pids[j]]
               PROVE  stopped[pids[j]] /\ pc[pids[j]] = "rpc"
    BY DEF SerialWithinPriority
  <2>0. TypeOK /\ Serial
    BY DEF Inv
  <2>1. pids \in Seq(Call) /\ DOMAIN pids = 1 .. Len(pids)
    BY <2>0, Types, LenProperties
  <2>2. In(pids[i], pids) /\ In(pids[j], pids) /\ Before(pids[i], pids[j], pids)
    BY <2>1 DEF In, Before
  <2>3. pids[i] \in Call /\ pids[j] \in Call
    BY <2>0, <2>2, Member
  <2> QED
    BY <2>0, <2>2, <2>3 DEF Serial
<1> QED
  BY <1>1, Invariance, PTL

\* A child that has announced its end leaves the vector: its message is there.
THEOREM EndedLeave == Spec => []NoGhost
<1>1. Inv => NoGhost
  <2> SUFFICES ASSUME Inv, ~broadcast, main # "exited", sched # "dead",
                      NEW i \in DOMAIN pids, pc[pids[i]] \in {"kill", "term", "dead"}
               PROVE  \E j \in DOMAIN socket :
                        socket[j] = [kind |-> "remove", pid |-> pids[i]]
    BY DEF NoGhost
  <2>0. TypeOK /\ Leaving
    BY DEF Inv
  <2>1. DOMAIN pids = 1 .. Len(pids) /\ DOMAIN socket = 1 .. Len(socket)
    BY <2>0, Types, LenProperties
  <2>2. In(pids[i], pids)
    BY <2>1 DEF In
  <2>3. In(Departing(pids[i]), socket)
    BY <2>0, <2>2, Member DEF Leaving
  <2> QED
    BY <2>1, <2>3 DEF In, Departing
<1> QED
  BY <1>1, Invariance, PTL

\* SIGCONT goes to every process only when the vector has become empty between
\* the scheduler's looks at max_pid.
THEOREM BroadcastsAreHarmless == Spec => BroadcastOnlyWhenEmpty
<1>1. Inv /\ [Next]_vars => [broadcast' # broadcast => pids = <<>>]_vars
  <2> SUFFICES ASSUME Inv, [Next]_vars, broadcast' # broadcast PROVE pids = <<>>
    OBVIOUS
  <2>0. TypeOK /\ Tabled /\ Chosen /\ broadcast \in BOOLEAN
    BY Types DEF Inv
  <2>1. ~(Quiet \/ Fork \/ Waitpid \/ Sigint \/ Die \/ Received)
    BY DEF Quiet, Fork, Waitpid, Sigint, Die, Received, loopVars
  <2>2. ~Subscribe
    BY <2>0, Subscribes
  <2>3. ASSUME NEW c \in Call, Child(c) PROVE FALSE
    BY <2>0, <2>3, ChildFrame
  <2>4. Sleep \/ Wake
    BY <2>1, <2>2, <2>3, Steps DEF Switch
  <2>5. max_pid = none
    BY <2>0, <2>4 DEF Sleep, Wake
  <2> QED
    BY <2>0, <2>5, ChosenIsMember
<1> QED
  BY <1>1, Invariance, PTL DEF Spec, BroadcastOnlyWhenEmpty

-----------------------------------------------------------------------------
(* Refinement *)

\* Message by message, the vector and max_pid change as PriorityGrant promises.
THEOREM Refinement == Spec => Implements
<1> DEFINE registered == {pids[i] : i \in DOMAIN pids}
<1> USE DEF Abstract!vars
<1>1. Init => Abstract!Init
  <2> SUFFICES ASSUME Init PROVE Abstract!Init
    OBVIOUS
  <2>1. TypeOK
    BY Initially DEF Inv
  <2>2. priority \in [Call -> Int]
    BY <2>1, Types
  <2>3. registered = {}
    BY EmptySeq DEF Init
  <2> QED
    BY <2>2, <2>3 DEF Init, Abstract!Init
<1>2. Inv /\ [Next]_vars => [Abstract!Next]_Abstract!vars
  <2> SUFFICES ASSUME Inv, [Next]_vars PROVE [Abstract!Next]_Abstract!vars
    OBVIOUS
  <2>0. /\ TypeOK /\ Tabled /\ Chosen /\ TypeOK' /\ priority' = priority
    BY TypeStep, Steps DEF Inv
  <2>t. /\ pids \in Seq(Call) /\ DOMAIN pids = 1 .. Len(pids)
        /\ pids' \in Seq(Call) /\ DOMAIN pids' = 1 .. Len(pids')
        /\ max_pid \in Call \cup {none} /\ none \notin Call /\ priority \in [Call -> Int]
    <3>1. pids' \in Seq(Call)
      BY <2>0 DEF TypeOK
    <3> QED
      BY <2>0, <3>1, Types, LenProperties
  <2>r. /\ \A c : c \in registered <=> In(c, pids)
        /\ \A c : c \in registered' <=> In(c, pids')
    BY <2>t DEF In
  <2>e. /\ pids = <<>> <=> registered = {}
        /\ pids' = <<>> <=> registered' = {}
    <3>1. \A s \in Seq(Call) : s = <<>> <=> \A x : ~In(x, s)
      <4> SUFFICES ASSUME NEW s \in Seq(Call) PROVE s = <<>> <=> \A x : ~In(x, s)
        OBVIOUS
      <4>1. ASSUME s # <<>> PROVE In(Head(s), s)
        BY <4>1, Popped
      <4>2. s = <<>> => \A x : ~In(x, s)
        BY EmptySeq DEF In
      <4> QED
        BY <4>1, <4>2
    <3> HIDE DEF registered
    <3> QED
      BY <2>t, <2>r, <3>1
  <2> HIDE DEF registered
  <2>m. \A c : In(c, pids) => c \in Call /\ c # none /\ priority[c] \in Int
    BY <2>0, Member
  <2>1. CASE UNCHANGED <<pids, max_pid>>
    BY <2>0, <2>1
  <2>2. ASSUME NEW id \in Call, Arrival(id) PROVE Abstract!Next
    <3>1. /\ ~In(id, pids) /\ \A x : In(x, pids') <=> In(x, pids) \/ x = id
          /\ IF Outranks(id) THEN max_pid' = id /\ max_priority' = priority[id]
                             ELSE UNCHANGED <<max_pid, max_priority>>
      BY <2>2 DEF Arrival
    <3>2. id \notin registered /\ registered' = registered \cup {id}
      BY <2>r, <3>1
    <3>3. max_pid' = IF max_pid = none \/ priority[id] > priority[max_pid] THEN id ELSE max_pid
      <4>1. max_pid # none => max_priority = priority[max_pid]
        BY <2>0 DEF Chosen
      <4> QED
        BY <3>1, <4>1 DEF Outranks
    <3>4. priority = [priority EXCEPT ![id] = priority[id]] /\ priority[id] \in Int
      BY <2>t
    <3>5. Abstract!Register(id)
      BY <2>0, <3>2, <3>3, <3>4 DEF Abstract!Register, registered
    <3> QED
      BY <3>5 DEF Abstract!Next
  <2>3. ASSUME NEW id \in Call, Departure(id), ~In(id, pids) PROVE UNCHANGED <<pids, max_pid>>
    <3>1. /\ pids' = pids /\ (pids' = <<>> => max_pid' = none)
          /\ pids' # <<>> => First(max_pid', pids', priority)
      BY <2>3 DEF Departure
    <3>2. CASE pids = <<>>
      BY <2>0, <3>1, <3>2 DEF Chosen
    <3>3. CASE pids # <<>>
      <4>1. First(max_pid, pids, priority) /\ Distinct(pids)
        BY <2>0, <3>3 DEF Chosen, Tabled
      <4>2. First(max_pid', pids', priority)
        BY <3>1, <3>3
      <4>3. In(max_pid, pids')
        BY <3>1, <4>1 DEF First
      <4>4. /\ \A x : In(x, pids') => In(x, pids)
            /\ \A x, y : Before(x, y, pids') => Before(x, y, pids)
        BY <3>1
      <4> QED
        BY <2>t, <2>m, <3>1, <4>1, <4>2, <4>3, <4>4, FirstStays
    <3> QED
      BY <3>2, <3>3
  <2>4. ASSUME NEW id \in Call, Departure(id), In(id, pids) PROVE Abstract!Next
    <3>1. /\ \A x : In(x, pids') <=> In(x, pids) /\ x # id
          /\ \A x, y : Before(x, y, pids') => Before(x, y, pids)
          /\ pids' = <<>> => max_pid' = none
          /\ pids' # <<>> => First(max_pid', pids', priority)
      BY <2>4 DEF Departure
    <3>2. registered' = registered \ {id} /\ id \in registered
      BY <2>r, <2>4, <3>1
    <3>3. max_pid # none /\ First(max_pid, pids, priority) /\ Distinct(pids)
      <4>1. pids # <<>>
        BY <2>r, <2>e, <3>2
      <4> QED
        BY <2>0, <4>1, ChosenIsMember DEF Chosen, Tabled
    <3>4. id # max_pid => max_pid' = max_pid
      <4> SUFFICES ASSUME id # max_pid PROVE max_pid' = max_pid
        OBVIOUS
      <4>1. In(max_pid, pids')
        BY <3>1, <3>3 DEF First
      <4>2. pids' # <<>>
        BY <4>1, EmptySeq DEF In
      <4>3. First(max_pid', pids', priority)
        BY <3>1, <4>2
      <4> QED
        BY <2>t, <2>m, <3>1, <3>3, <4>1, <4>3, FirstStays
    <3>5. \/ registered' = {} /\ max_pid' = none
          \/ /\ max_pid' \in registered'
             /\ \A d \in registered' : priority[d] <= priority[max_pid']
      <4>1. CASE pids' = <<>>
        BY <2>e, <3>1, <4>1
      <4>2. CASE pids' # <<>>
        <5>1. First(max_pid', pids', priority)
          BY <3>1, <4>2
        <5>2. In(max_pid', pids') /\ priority[max_pid'] \in Int
          BY <2>m, <3>1, <5>1 DEF First
        <5>3. \A d : In(d, pids') => priority[d] <= priority[max_pid']
          BY <2>m, <3>1, <5>1, <5>2 DEF First
        <5> QED
          BY <2>r, <5>2, <5>3
      <4> QED
        BY <4>1, <4>2
    <3>6. Abstract!Leave(id)
      BY <2>0, <3>2, <3>4, <3>5 DEF Abstract!Leave, Abstract!Highest, registered
    <3> QED
      BY <3>6 DEF Abstract!Next
  <2> QED
    BY <2>0, <2>1, <2>2, <2>3, <2>4, ChoiceFrame
<1> QED
  BY <1>1, <1>2, Invariance, PTL DEF Spec, Implements, Abstract!Spec

=============================================================================
