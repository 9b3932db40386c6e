-------------------------- MODULE CppThreads1Proofs --------------------------
(***************************************************************************)
(* Proofs about CppThreads1, for every input file and every environment:   *)
(* with and without --timeout, with any limit of streams, and with ids     *)
(* popped before they are there.                                           *)
(***************************************************************************)
EXTENDS CppThreads1, SchedulerLemmas

-----------------------------------------------------------------------------
(* The inductive invariant *)

\* main starts the threads in the order of the lines.
Numbered ==
  /\ started <= Len(line)
  /\ \A c \in Call : pc[c] = "none" <=> c > started

\* Without --scheduler nobody takes anything off the queues.
Unscheduled ==
  ~use_scheduler => sched = "none" /\ priorities = <<>>

\* A call subscribes once and is in the queue, then in the vector; its thread
\* has ended when its id comes off the other queue; and the call that runs is
\* one of the vector.
Tabled ==
  /\ Distinct(subscribe) /\ Distinct(priorities)
  /\ \A c \in Call :
       /\ In(c, subscribe) => ~In(c, priorities)
       /\ In(c, subscribe) \/ In(c, priorities) => pc[c] \notin {"none", "subscribe"}
       /\ In(c, unsubscribe) => pc[c] = "exited"
  /\ running_id # none => In(running_id, priorities)

\* The priority of a call is that of its line.
Ranking == [c \in Call |-> IF c \in DOMAIN line THEN line[c].priority ELSE 0]

\* The cached values are those of the first call of the highest priority.
Chosen ==
  IF priorities = <<>>
  THEN max_id = none /\ max_priority = -1
  ELSE First(max_id, priorities, Ranking) /\ max_priority = Ranking[max_id]

\* Between Decide and WakeUp nobody is awake.
Awakened ==
  /\ \A c \in Call : sleep_map[c] => c = running_id
  /\ sched = "wake" => \A c \in Call : ~sleep_map[c]

\* A call that has never been awake has written nothing, unless it has timed
\* out.
Untouched(c) == expired[c] \/ (sent[c] = 0 /\ pc[c] \in {"none", "subscribe", "clear", "sleep"})

\* A call that is not in the vector yet has never been awake ...
Fresh ==
  use_scheduler =>
    \A c \in Call : pc[c] \in {"none", "subscribe"} \/ In(c, subscribe) => Untouched(c)

\* ... nor has one with an earlier call of its priority in there.
Serial ==
  \A c, d \in Call :
    Before(c, d, priorities) /\ Ranking[c] = Ranking[d]
    => d # running_id /\ Untouched(d)

\* A call that was put to sleep with a look at sleep_map behind it has not
\* used it yet.
Draining ==
  use_scheduler =>
    \A c \in Call :
      \/ expired[c]
      \/ /\ overrun[c] <= 1
         /\ pc[c] = "write" /\ ~sleep_map[c] => overrun[c] = 0

\* What keeps ghosts away: no call times out, and every id is pushed.
Leaving ==
  /\ ~timeout => \A c \in Call : ~expired[c]
  /\ ~timeout /\ ~input.torn =>
       \A c \in Call : In(c, priorities) /\ pc[c] = "exited" => In(c, unsubscribe)

Inv ==
  /\ TypeOK /\ Numbered /\ Unscheduled /\ Tabled /\ Chosen /\ Awakened
  /\ Fresh /\ Serial /\ Draining /\ Leaving

-----------------------------------------------------------------------------
(* Steps *)

Thread(c) == Step(c) \/ Timer(c) \/ Failure(c)

\* What the inductive invariant speaks of.
core == <<input, started, sched, choiceVars, running_id, queueVars, sleep_map, pc,
          callVars>>

\* The other steps change how main stands only.
LEMMA Steps ==
  ASSUME [Next]_vars
  PROVE  \/ UNCHANGED core
         \/ \E c \in Call : Start(c) /\ Main
         \/ Scheduler
         \/ \E c \in Call : Thread(c)
<1> USE DEF core, vars, mainVars
<1>1. CASE Main
  BY <1>1 DEF Main, EndOfFile, Joined, Return
<1> QED
  BY <1>1 DEF Next, Returned, Thread

\* The flags, the input file and the environment are given once.
LEMMA InputIsFixed ==
  ASSUME [Next]_vars
  PROVE  UNCHANGED input
<1>1. CASE Main
  BY <1>1 DEF Main, Start, EndOfFile, Joined, Return
<1>2. CASE Scheduler
  BY <1>2 DEF Scheduler, mainVars
<1>3. ASSUME NEW c \in Call, Thread(c) PROVE UNCHANGED input
  BY <1>3 DEF Thread, Step, Timer, Failure, mainVars
<1> QED
  BY <1>1, <1>2, <1>3 DEF Next, Returned, vars, mainVars, Thread

\* Where a thread may be.
Places == {"none", "subscribe", "clear", "sleep", "stub", "open",
           "check", "write", "finish", "unsubscribe", "exited"}

\* The types the proofs need most.
LEMMA Types ==
  ASSUME TypeOK
  PROVE  /\ input \in Input /\ line \in Seq(Line) /\ Len(line) \in Nat
         /\ DOMAIN line = 1 .. Len(line) /\ use_scheduler \in BOOLEAN /\ timeout \in BOOLEAN
         /\ \A i \in DOMAIN line : line[i].priority \in Nat /\ line[i].count \in Nat
         /\ started \in Int /\ NumCalls \in Nat /\ none \notin Call
         /\ \A c \in Call : c \in Int /\ c >= 1 /\ c <= NumCalls /\ c # none
         /\ priorities \in Seq(Call) /\ subscribe \in Seq(Call)
         /\ unsubscribe \in Seq(Call \cup {none})
         /\ max_id \in Call \cup {none} /\ running_id \in Call \cup {none}
         /\ pc \in [Call -> Places] /\ sleep_map \in [Call -> BOOLEAN]
         /\ sent \in [Call -> Nat] /\ expired \in [Call -> BOOLEAN] /\ overrun \in [Call -> Nat]
<1>1. input \in Input /\ line \in Seq(Line) /\ use_scheduler \in BOOLEAN /\ timeout \in BOOLEAN
  BY DEF TypeOK, Input, line, use_scheduler, timeout
<1>2. /\ Len(line) \in Nat /\ DOMAIN line = 1 .. Len(line)
      /\ \A i \in DOMAIN line : line[i] \in Line
  BY <1>1, LenProperties, ElementOfSeq
<1>3. \A i \in DOMAIN line : line[i].priority \in Nat /\ line[i].count \in Nat
  BY <1>2 DEF Line
<1>4. NumCalls \in Nat /\ started \in Int
  BY CppThreads1Assumption DEF TypeOK
<1>5. none \notin Call /\ \A c \in Call : c \in Int /\ c >= 1 /\ c <= NumCalls /\ c # none
  BY <1>4 DEF Call, none
<1>6. /\ priorities \in Seq(Call) /\ subscribe \in Seq(Call)
      /\ unsubscribe \in Seq(Call \cup {none})
      /\ max_id \in Call \cup {none} /\ running_id \in Call \cup {none}
      /\ pc \in [Call -> Places] /\ sleep_map \in [Call -> BOOLEAN]
      /\ sent \in [Call -> Nat] /\ expired \in [Call -> BOOLEAN] /\ overrun \in [Call -> Nat]
  BY DEF TypeOK, Places
<1> QED
  BY <1>1, <1>2, <1>3, <1>4, <1>5, <1>6

\* A call that has been started has a line.
LEMMA HasLine ==
  ASSUME TypeOK, Numbered, NEW c \in Call, pc[c] # "none"
  PROVE  c \in DOMAIN line /\ Ranking[c] = line[c].priority /\ Priority(c) = Ranking[c]
<1>1. c \in DOMAIN line
  BY Types DEF Numbered
<1> QED
  BY <1>1, Types DEF Ranking, Priority

\* A call in the vector is a call.
LEMMA Member ==
  ASSUME TypeOK, NEW c, In(c, priorities) \/ In(c, subscribe)
  PROVE  c \in Call
<1>1. priorities \in Seq(Call) /\ subscribe \in Seq(Call)
  BY Types
<1>2. ASSUME In(c, priorities) PROVE c \in Call
  BY <1>1, <1>2, ElementOfSeq DEF In
<1>3. ASSUME In(c, subscribe) PROVE c \in Call
  BY <1>1, <1>3, ElementOfSeq DEF In
<1> QED
  BY <1>2, <1>3

\* A thread changes nobody's place but its own, and wakes nobody.
LEMMA ThreadFrame ==
  ASSUME TypeOK, NEW c \in Call, Thread(c)
  PROVE  /\ UNCHANGED <<input, started, sched, choiceVars, running_id>>
         /\ \A d \in Call \ {c} :
              /\ pc'[d] = pc[d] /\ sent'[d] = sent[d] /\ expired'[d] = expired[d]
              /\ overrun'[d] = overrun[d] /\ sleep_map'[d] = sleep_map[d]
         /\ pc[c] \notin {"none", "exited"} /\ pc'[c] \notin {"none", "subscribe"}
         /\ sleep_map'[c] => sleep_map[c]
         /\ expired[c] => expired'[c]
         /\ expired'[c] => expired[c] \/ timeout
         /\ pc' \in [Call -> Places] /\ sleep_map' \in [Call -> BOOLEAN]
         /\ sent' \in [Call -> Nat] /\ expired' \in [Call -> BOOLEAN]
         /\ overrun' \in [Call -> Nat]
<1>0. /\ pc \in [Call -> Places] /\ sleep_map \in [Call -> BOOLEAN]
      /\ sent \in [Call -> Nat] /\ expired \in [Call -> BOOLEAN] /\ overrun \in [Call -> Nat]
  BY Types
<1> USE DEF Thread, Step, Timer, Failure, RunRpc, Expire, Broken, Subscribe, Clear, Channel,
            Stub, OpenStream, Check, Write, Finish, Unsubscribe, Move, Goto
<1>1. UNCHANGED <<input, started, sched, choiceVars, running_id>>
  BY DEF mainVars
<1>2. /\ pc[c] \notin {"none", "exited"} /\ pc'[c] \notin {"none", "subscribe"}
      /\ pc' \in [Call -> Places] /\ \A d \in Call \ {c} : pc'[d] = pc[d]
  BY <1>0 DEF AfterWrite, Places
<1>3. /\ sleep_map' \in [Call -> BOOLEAN] /\ (sleep_map'[c] => sleep_map[c])
      /\ \A d \in Call \ {c} : sleep_map'[d] = sleep_map[d]
  BY <1>0
<1>4. /\ expired' \in [Call -> BOOLEAN] /\ (expired[c] => expired'[c])
      /\ expired'[c] => expired[c] \/ timeout
      /\ \A d \in Call \ {c} : expired'[d] = expired[d]
  BY <1>0 DEF callVars
<1>5. /\ sent' \in [Call -> Nat] /\ overrun' \in [Call -> Nat]
      /\ \A d \in Call \ {c} : sent'[d] = sent[d] /\ overrun'[d] = overrun[d]
  <2>1. CASE UNCHANGED <<sent, overrun>>
    BY <1>0, <2>1
  <2>2. CASE Write(c)
    BY <1>0, <2>2
  <2> QED
    BY <2>1, <2>2 DEF callVars
<1> QED
  BY <1>1, <1>2, <1>3, <1>4, <1>5

\* It puts itself on the one queue when it starts and on the other when it
\* ends; an id that is popped too early is nobody's.
LEMMA QueueFrame ==
  ASSUME TypeOK, NEW c \in Call, Thread(c)
  PROVE  /\ subscribe' = IF pc[c] = "subscribe" THEN Append(subscribe, c) ELSE subscribe
         /\ \/ unsubscribe' = unsubscribe /\ (pc'[c] = "exited" => ~use_scheduler)
            \/ /\ pc'[c] = "exited"
               /\ \E x \in {c, none} : /\ unsubscribe' = Append(unsubscribe, x)
                                       /\ x = none => input.torn
<1>0. pc \in [Call -> Places]
  BY Types
<1> USE DEF Goto, Move, queueVars
<1>1. CASE Subscribe(c)
  <2>1. pc[c] = "subscribe" /\ subscribe' = Append(subscribe, c)
    BY <1>1 DEF Subscribe
  <2>2. unsubscribe' = unsubscribe /\ pc'[c] = "clear"
    BY <1>0, <1>1 DEF Subscribe
  <2> QED
    BY <2>1, <2>2
<1>2. CASE Unsubscribe(c)
  <2>1. pc[c] = "unsubscribe" /\ pc'[c] = "exited" /\ subscribe' = subscribe
    BY <1>0, <1>2 DEF Unsubscribe
  <2>2. \E x \in {c, none} : unsubscribe' = Append(unsubscribe, x) /\ (x = none => input.torn)
    BY <1>2, Types DEF Unsubscribe
  <2> QED
    BY <2>1, <2>2
<1>3. CASE ~Subscribe(c) /\ ~Unsubscribe(c)
  <2>1. pc[c] # "subscribe" /\ subscribe' = subscribe /\ unsubscribe' = unsubscribe
    BY <1>3 DEF Thread, Step, Timer, Failure, RunRpc, Expire, Broken, Clear, Channel, Stub,
                OpenStream, Check, Write, Finish
  <2>2. pc[c] # "exited"
    BY ThreadFrame
  <2>3. pc'[c] = "exited" => ~use_scheduler
    BY <1>0, <1>3, <2>2 DEF Thread, Step, Timer, Failure, RunRpc, Expire, Broken, Clear, Channel,
                Stub, OpenStream, Check, Write, AfterWrite, Finish
  <2> QED
    BY <2>1, <2>3
<1> QED
  BY <1>1, <1>2, <1>3

\* A call that has never been awake stays so until the scheduler wakes it or
\* it times out.
LEMMA UntouchedStep ==
  ASSUME TypeOK, use_scheduler, NEW c \in Call, NEW d \in Call, Thread(c) \/ (Start(c) /\ Main),
         Untouched(d), ~sleep_map[d]
  PROVE  Untouched(d)'
<1>0. /\ pc \in [Call -> Places] /\ sent \in [Call -> Nat] /\ expired \in [Call -> BOOLEAN]
  BY Types
<1>1. CASE Start(c) /\ Main
  BY <1>0, <1>1 DEF Start, Main, callVars, Untouched
<1>2. CASE Thread(c) /\ c # d
  BY <1>2, ThreadFrame DEF Untouched
<1>3. CASE Thread(c) /\ c = d
  <2>1. CASE expired[d]
    BY <1>3, <2>1, ThreadFrame DEF Untouched
  <2>2. CASE ~expired[d]
    <3>1. sent[d] = 0 /\ pc[d] \in {"none", "subscribe", "clear", "sleep"}
      BY <2>2 DEF Untouched
    <3>2. Subscribe(d) \/ Clear(d) \/ Expire(d)
      BY <1>3, <2>2, <3>1 DEF Thread, Step, Timer, Failure, RunRpc, Broken, Channel, Awake,
            Stub, OpenStream, Check, Write, Finish, Unsubscribe, Move
    <3> QED
      BY <1>0, <3>1, <3>2 DEF Subscribe, Clear, Expire, Goto, callVars, Untouched
  <2> QED
    BY <2>1, <2>2
<1> QED
  BY <1>1, <1>2, <1>3

\* get_maximum_priority() returns the first of the highest priority.
LEMMA MaximumIsFirst ==
  ASSUME TypeOK, NEW table \in Seq(Call), \A c : In(c, table) => c \in DOMAIN line
  PROVE  /\ table = <<>> => Maximum(table) = none
         /\ table # <<>> => First(Maximum(table), table, Ranking)
<1>1. CASE table = <<>>
  BY <1>1 DEF Maximum
<1>2. CASE table # <<>>
  <2>1. DOMAIN table = 1 .. Len(table)
    BY LenProperties
  <2>2. \A i \in 1 .. Len(table) :
          /\ table[i] \in Call /\ Priority(table[i]) = Ranking[table[i]]
    <3> TAKE i \in 1 .. Len(table)
    <3>1. table[i] \in Call /\ table[i] \in DOMAIN line
      BY ElementOfSeq DEF In
    <3> QED
      BY <3>1, Types DEF Priority, Ranking
  <2>3. Maximum(table) = table[CHOOSE i \in 1 .. Len(table) :
                                 \A j \in 1 .. Len(table) :
                                   \/ Ranking[table[j]] < Ranking[table[i]]
                                   \/ Ranking[table[j]] = Ranking[table[i]] /\ i <= j]
    BY <1>2, <2>1, <2>2 DEF Maximum
  <2>4. \A c : In(c, table) => Ranking[c] \in Int
    <3> SUFFICES ASSUME NEW c, In(c, table) PROVE Ranking[c] \in Int
      OBVIOUS
    <3>1. c \in Call /\ c \in DOMAIN line
      BY ElementOfSeq DEF In
    <3> QED
      BY <3>1, Types DEF Ranking
  <2> QED
    BY <1>2, <2>3, <2>4, FirstFound
<1> QED
  BY <1>1, <1>2

\* Priorities do not change.
LEMMA RankingIsFixed ==
  ASSUME [Next]_vars
  PROVE  Ranking' = Ranking /\ line' = line
BY InputIsFixed DEF Ranking, line

\* A turn of the loop that finds nothing to do.
Idle ==
  /\ sched # "wake" /\ sched' \in {"unsubscribe", "subscribe", "decide", "exited"}
  /\ UNCHANGED <<choiceVars, running_id, queueVars, sleep_map, overrun>>

\* The scheduler leaves the threads where they are.
LEMMA Turns ==
  ASSUME Scheduler
  PROVE  /\ UNCHANGED <<input, started, pc, sent, expired>>
         /\ sched # "none" /\ sched' # "none"
         /\ Idle \/ UnsubscribeThread \/ SubscribeThread \/ Decide \/ WakeUp
<1>1. UNCHANGED <<input, started, pc, sent, expired>>
  BY DEF Scheduler, mainVars
<1>2. CASE Stop \/ NoUnsubscribe \/ NoSubscribe \/ NothingToDecide
  BY <1>1, <1>2 DEF Stop, NoUnsubscribe, NoSubscribe, NothingToDecide, Pass, Idle
<1>3. CASE UnsubscribeThread \/ SubscribeThread \/ Decide \/ WakeUp
  BY <1>1, <1>3 DEF UnsubscribeThread, SubscribeThread, Decide, WakeUp
<1> QED
  BY <1>2, <1>3 DEF Scheduler

\* A departure: whoever leaves has ended, and the best of the others is found.
LEMMA Departure ==
  ASSUME Inv, UnsubscribeThread, Scheduler
  PROVE  \E id \in Call \cup {none} :
           /\ priorities' \in Seq(Call) /\ Distinct(priorities')
           /\ \A x : In(x, priorities') <=> In(x, priorities) /\ x # id
           /\ \A x, y : Before(x, y, priorities') => Before(x, y, priorities)
           /\ ~In(id, priorities) => priorities' = priorities
           /\ unsubscribe' \in Seq(Call \cup {none})
           /\ \A x : In(x, unsubscribe) <=> In(x, unsubscribe') \/ x = id
           /\ id # none => pc[id] = "exited"
           /\ sleep_map' = [c \in Call |-> c # id /\ sleep_map[c]]
           /\ running_id' = IF running_id = id THEN none ELSE running_id
           /\ priorities' = <<>> => max_id' = none /\ max_priority' = -1
           /\ priorities' # <<>> =>
                First(max_id', priorities', Ranking) /\ max_priority' = Ranking[max_id']
           /\ sched' = "subscribe" /\ UNCHANGED <<subscribe, overrun>>
<1>1. TypeOK /\ Numbered /\ Tabled
  BY DEF Inv
<1>2. /\ priorities \in Seq(Call) /\ unsubscribe \in Seq(Call \cup {none})
      /\ none \notin Call
  BY <1>1, Types
<1> DEFINE id == Head(unsubscribe)
<1>3. /\ unsubscribe # <<>> /\ priorities' = RemoveFirst(priorities, id)
      /\ sleep_map' = [c \in Call |-> c # id /\ sleep_map[c]]
      /\ running_id' = IF running_id = id THEN none ELSE running_id
      /\ unsubscribe' = Tail(unsubscribe) /\ sched' = "subscribe"
      /\ UNCHANGED <<subscribe, overrun>>
  BY DEF UnsubscribeThread
<1>4. /\ id \in Call \cup {none} /\ In(id, unsubscribe)
      /\ unsubscribe' \in Seq(Call \cup {none})
      /\ \A x : In(x, unsubscribe) <=> In(x, unsubscribe') \/ x = id
  BY <1>2, <1>3, Popped
<1>5. /\ priorities' \in Seq(Call) /\ Distinct(priorities')
      /\ \A x : In(x, priorities') <=> In(x, priorities) /\ x # id
      /\ \A x, y : Before(x, y, priorities') => Before(x, y, priorities)
      /\ ~In(id, priorities) => priorities' = priorities
  BY <1>1, <1>2, <1>3, Erased DEF Tabled
<1>6. id # none => pc[id] = "exited"
  BY <1>1, <1>2, <1>4 DEF Tabled
<1>7. /\ priorities' = <<>> => max_id' = none /\ max_priority' = -1
      /\ priorities' # <<>> =>
           First(max_id', priorities', Ranking) /\ max_priority' = Ranking[max_id']
  <2>1. input' = input
    BY Turns
  <2>2. max_id' = Maximum(priorities') /\ max_priority' = Priority(max_id')
    BY <2>1 DEF UnsubscribeThread, Maximum, Priority, line
  <2>3. \A c : In(c, priorities') => c \in Call /\ c \in DOMAIN line /\ Priority(c) = Ranking[c]
    BY <1>1, <1>5, Member, HasLine DEF Tabled
  <2>4. /\ priorities' = <<>> => Maximum(priorities') = none
        /\ priorities' # <<>> => First(Maximum(priorities'), priorities', Ranking)
    BY <1>1, <1>5, <2>3, MaximumIsFirst
  <2>5. priorities' # <<>> => max_priority' = Ranking[max_id']
    BY <2>2, <2>3, <2>4 DEF First
  <2>6. Priority(none) = -1
    BY DEF Priority
  <2> QED
    BY <2>2, <2>4, <2>5, <2>6
<1> HIDE DEF id
<1> QED
  BY <1>3, <1>4, <1>5, <1>6, <1>7

\* An arrival: a newcomer joins behind the others, and is the best when it
\* outranks them.
LEMMA Arrival ==
  ASSUME Inv, SubscribeThread, Scheduler
  PROVE  \E id \in Call :
           /\ priorities' = Append(priorities, id)
           /\ priorities' \in Seq(Call) /\ Distinct(priorities') /\ ~In(id, priorities)
           /\ \A x : In(x, priorities') <=> In(x, priorities) \/ x = id
           /\ \A x, y : Before(x, y, priorities')
                        <=> Before(x, y, priorities) \/ (In(x, priorities) /\ y = id)
           /\ subscribe' \in Seq(Call) /\ Distinct(subscribe') /\ In(id, subscribe)
           /\ \A x : In(x, subscribe) <=> In(x, subscribe') \/ x = id
           /\ ~In(id, subscribe')
           /\ pc[id] \notin {"none", "subscribe"}
           /\ Ranking[id] = Priority(id)
           /\ sleep_map' = [sleep_map EXCEPT ![id] = FALSE]
           /\ IF Outranks(id) THEN max_id' = id /\ max_priority' = Ranking[id]
                              ELSE UNCHANGED <<max_id, max_priority>>
           /\ sched' = "decide" /\ UNCHANGED <<running_id, unsubscribe, overrun>>
<1>1. TypeOK /\ Numbered /\ Tabled
  BY DEF Inv
<1>2. priorities \in Seq(Call) /\ subscribe \in Seq(Call) /\ Distinct(subscribe)
  BY <1>1, Types DEF Tabled
<1> DEFINE id == Head(subscribe)
<1>3. /\ subscribe # <<>> /\ priorities' = Append(priorities, id)
      /\ sleep_map' = [sleep_map EXCEPT ![id] = FALSE]
      /\ IF Outranks(id) THEN max_id' = id /\ max_priority' = Priority(id)
                         ELSE UNCHANGED <<max_id, max_priority>>
      /\ subscribe' = Tail(subscribe) /\ sched' = "decide"
      /\ UNCHANGED <<running_id, unsubscribe, overrun>>
  BY DEF SubscribeThread
<1>4. /\ id \in Call /\ In(id, subscribe) /\ subscribe' \in Seq(Call) /\ Distinct(subscribe')
      /\ \A x : In(x, subscribe) <=> In(x, subscribe') \/ x = id
      /\ ~In(id, subscribe')
  BY <1>2, <1>3, Popped
<1>5. ~In(id, priorities) /\ pc[id] \notin {"none", "subscribe"} /\ Distinct(priorities)
  BY <1>1, <1>4 DEF Tabled
<1>6. /\ priorities' \in Seq(Call) /\ Distinct(priorities')
      /\ \A x : In(x, priorities') <=> In(x, priorities) \/ x = id
      /\ \A x, y : Before(x, y, priorities')
                   <=> Before(x, y, priorities) \/ (In(x, priorities) /\ y = id)
  BY <1>2, <1>3, <1>4, <1>5, JoinedBehind
<1>7. Ranking[id] = Priority(id)
  BY <1>1, <1>4, <1>5, HasLine
<1> HIDE DEF id
<1> QED
  BY <1>3, <1>4, <1>5, <1>6, <1>7

-----------------------------------------------------------------------------
(* The parts of the invariant, each preserved by every step *)

\* Only main starts threads.
LEMMA NumberedStep ==
  ASSUME Inv, [Next]_vars
  PROVE  Numbered'
<1>0. TypeOK /\ Numbered
  BY DEF Inv
<1>t. /\ line' = line /\ Len(line) \in Nat /\ pc \in [Call -> Places] /\ started \in Int
      /\ \A c \in Call : c \in Int
  BY <1>0, Types, RankingIsFixed
<1>1. CASE UNCHANGED core \/ Scheduler
  BY <1>0, <1>1, <1>t, Turns DEF Numbered, core
<1>2. ASSUME NEW c \in Call, Start(c) /\ Main PROVE Numbered'
  BY <1>0, <1>2, <1>t DEF Numbered, Start
<1>3. ASSUME NEW c \in Call, Thread(c) PROVE Numbered'
  <2>1. started' = started /\ \A d \in Call : pc'[d] = "none" <=> pc[d] = "none"
    BY <1>0, <1>3, ThreadFrame
  <2> QED
    BY <1>0, <1>t, <2>1 DEF Numbered
<1> QED
  BY <1>1, <1>2, <1>3, Steps

\* Without --scheduler the queues are only pushed to.
LEMMA UnscheduledStep ==
  ASSUME Inv, [Next]_vars
  PROVE  Unscheduled'
<1>0. TypeOK /\ Unscheduled /\ use_scheduler' = use_scheduler
  BY InputIsFixed DEF Inv, use_scheduler
<1>1. CASE UNCHANGED core
  BY <1>0, <1>1 DEF Unscheduled, core, choiceVars
<1>2. ASSUME NEW c \in Call, Start(c) /\ Main PROVE Unscheduled'
  BY <1>0, <1>2 DEF Unscheduled, Main, choiceVars
<1>3. CASE Scheduler
  BY <1>0, <1>3, Turns DEF Unscheduled
<1>4. ASSUME NEW c \in Call, Thread(c) PROVE Unscheduled'
  BY <1>0, <1>4, ThreadFrame DEF Unscheduled, choiceVars
<1> QED
  BY <1>1, <1>2, <1>3, <1>4, Steps

\* An id goes through the one queue into the vector and through the other out
\* of it.
LEMMA TabledStep ==
  ASSUME Inv, [Next]_vars
  PROVE  Tabled'
<1>0. TypeOK /\ Numbered /\ Tabled /\ Chosen /\ Awakened
  BY DEF Inv
<1>t. /\ priorities \in Seq(Call) /\ subscribe \in Seq(Call)
      /\ unsubscribe \in Seq(Call \cup {none}) /\ pc \in [Call -> Places] /\ none \notin Call
  BY <1>0, Types
<1>1. CASE UNCHANGED core
  BY <1>0, <1>1 DEF Tabled, core, choiceVars, queueVars
<1>2. ASSUME NEW c \in Call, Start(c) /\ Main PROVE Tabled'
  <2>1. /\ UNCHANGED <<priorities, running_id, subscribe, unsubscribe>>
        /\ c > started /\ \A d \in Call : d # c => pc'[d] = pc[d]
    BY <1>0, <1>2, <1>t, Types DEF Start, Main, choiceVars, queueVars
  <2>2. pc[c] = "none"
    BY <1>0, <2>1 DEF Numbered
  <2> QED
    BY <1>0, <2>1, <2>2 DEF Tabled
<1>3. CASE Scheduler /\ Idle
  BY <1>0, <1>3, Turns DEF Tabled, Idle, choiceVars, queueVars
<1>4. CASE Scheduler /\ UnsubscribeThread
  <2>1. PICK id \in Call \cup {none} :
          /\ Distinct(priorities')
          /\ \A x : In(x, priorities') <=> In(x, priorities) /\ x # id
          /\ \A x : In(x, unsubscribe) <=> In(x, unsubscribe') \/ x = id
          /\ running_id' = IF running_id = id THEN none ELSE running_id
          /\ subscribe' = subscribe
    BY <1>4, Departure
  <2>2. pc' = pc
    BY <1>4, Turns
  <2> QED
    BY <1>0, <2>1, <2>2 DEF Tabled
<1>5. CASE Scheduler /\ SubscribeThread
  <2>1. PICK id \in Call :
          /\ Distinct(priorities') /\ ~In(id, priorities)
          /\ \A x : In(x, priorities') <=> In(x, priorities) \/ x = id
          /\ Distinct(subscribe') /\ In(id, subscribe)
          /\ \A x : In(x, subscribe) <=> In(x, subscribe') \/ x = id
          /\ ~In(id, subscribe')
          /\ pc[id] \notin {"none", "subscribe"}
          /\ UNCHANGED <<running_id, unsubscribe>>
    BY <1>5, Arrival
  <2>2. pc' = pc
    BY <1>5, Turns
  <2> QED
    BY <1>0, <2>1, <2>2 DEF Tabled
<1>6. CASE Scheduler /\ Decide
  BY <1>0, <1>6, Turns DEF Tabled, Decide, choiceVars, queueVars
<1>7. CASE Scheduler /\ WakeUp
  <2>1. /\ running_id' = max_id /\ UNCHANGED <<priorities, max_id, subscribe, unsubscribe, pc>>
    BY <1>7, Turns DEF WakeUp, choiceVars, queueVars
  <2>2. max_id # none => In(max_id, priorities)
    BY <1>0 DEF Chosen, First
  <2> QED
    BY <1>0, <2>1, <2>2 DEF Tabled
<1>8. ASSUME NEW c \in Call, Thread(c) PROVE Tabled'
  <2>1. /\ UNCHANGED <<priorities, running_id>>
        /\ \A d \in Call \ {c} : pc'[d] = pc[d]
        /\ pc[c] \notin {"none", "exited"} /\ pc'[c] \notin {"none", "subscribe"}
    BY <1>0, <1>8, ThreadFrame DEF choiceVars
  <2>2. /\ Distinct(subscribe')
        /\ \A d \in Call : In(d, subscribe') =>
             In(d, subscribe) \/ (d = c /\ pc[c] = "subscribe")
    <3>1. CASE pc[c] = "subscribe"
      <4>1. subscribe' = Append(subscribe, c) /\ ~In(c, subscribe) /\ Distinct(subscribe)
        BY <1>0, <1>8, <3>1, QueueFrame DEF Tabled
      <4> QED
        BY <1>t, <3>1, <4>1, JoinedBehind
    <3>2. CASE pc[c] # "subscribe"
      BY <1>0, <1>8, <3>2, QueueFrame DEF Tabled
    <3> QED
      BY <3>1, <3>2
  <2>3. \A d \in Call : In(d, unsubscribe') =>
          In(d, unsubscribe) \/ (d = c /\ pc'[c] = "exited")
    <3>1. CASE unsubscribe' = unsubscribe
      BY <3>1
    <3>2. CASE ~(unsubscribe' = unsubscribe)
      <4>1. PICK x \in {c, none} : unsubscribe' = Append(unsubscribe, x) /\ pc'[c] = "exited"
        BY <1>0, <1>8, <3>2, QueueFrame
      <4> QED
        BY <1>t, <4>1, Pushed
    <3> QED
      BY <3>1, <3>2
  <2> QED
    BY <1>0, <2>1, <2>2, <2>3 DEF Tabled
<1> QED
  BY <1>1, <1>2, <1>3, <1>4, <1>5, <1>6, <1>7, <1>8, Steps, Turns

\* The cached values are kept through arrivals and departures.
LEMMA ChosenStep ==
  ASSUME Inv, [Next]_vars
  PROVE  Chosen'
<1>0. TypeOK /\ Numbered /\ Tabled /\ Chosen /\ Ranking' = Ranking
  BY RankingIsFixed DEF Inv
<1>1. CASE UNCHANGED choiceVars
  BY <1>0, <1>1 DEF Chosen, choiceVars
<1>2. CASE Scheduler /\ UnsubscribeThread
  BY <1>0, <1>2, Departure DEF Chosen
<1>3. CASE Scheduler /\ SubscribeThread
  <2>1. PICK id \in Call :
          /\ priorities' = Append(priorities, id)
          /\ ~In(id, priorities) /\ Ranking[id] = Priority(id)
          /\ \A x : In(x, priorities') <=> In(x, priorities) \/ x = id
          /\ pc[id] \notin {"none", "subscribe"}
          /\ IF Outranks(id) THEN max_id' = id /\ max_priority' = Ranking[id]
                             ELSE UNCHANGED <<max_id, max_priority>>
    BY <1>3, Arrival
  <2>2. /\ priorities \in Seq(Call) /\ Distinct(priorities)
        /\ \A c : In(c, priorities) => Ranking[c] \in Int /\ c \in Call /\ c # none
        /\ Ranking[id] \in Int
    <3>1. \A c : In(c, priorities) \/ c = id => c \in Call /\ pc[c] # "none"
      BY <1>0, <2>1, Member DEF Tabled
    <3>2. ASSUME NEW c \in Call, pc[c] # "none" PROVE Ranking[c] \in Int /\ c # none
      <4>1. c \in DOMAIN line /\ Ranking[c] = line[c].priority
        BY <1>0, <3>2, HasLine
      <4> QED
        BY <1>0, <4>1, Types
    <3> QED
      BY <1>0, <3>1, <3>2, Types DEF Tabled
  <2>3. /\ priorities = <<>> => First(id, priorities', Ranking)
        /\ \A m : First(m, priorities, Ranking) =>
              IF Ranking[id] > Ranking[m] THEN First(id, priorities', Ranking)
                                          ELSE First(m, priorities', Ranking)
    BY <2>1, <2>2, FirstJoined
  <2>4. priorities' # <<>>
    BY <2>1, <2>2, AppendProperties
  <2>5. CASE priorities = <<>>
    <3>1. max_id = none
      BY <1>0, <2>5 DEF Chosen
    <3> QED
      BY <1>0, <2>1, <2>3, <2>4, <2>5, <3>1 DEF Chosen, Outranks
  <2>6. CASE priorities # <<>>
    <3>1. First(max_id, priorities, Ranking) /\ max_priority = Ranking[max_id] /\ max_id # none
      BY <1>0, <2>2, <2>6 DEF Chosen, First
    <3>2. CASE Ranking[id] > Ranking[max_id]
      BY <1>0, <2>1, <2>3, <2>4, <3>1, <3>2 DEF Chosen, Outranks
    <3>3. CASE ~(Ranking[id] > Ranking[max_id])
      BY <1>0, <2>1, <2>3, <2>4, <3>1, <3>3 DEF Chosen, Outranks
    <3> QED
      BY <3>2, <3>3
  <2> QED
    BY <2>5, <2>6
<1>4. CASE Scheduler /\ (Idle \/ Decide \/ WakeUp)
  BY <1>1, <1>4 DEF Idle, Decide, WakeUp
<1>5. ASSUME NEW c \in Call, (Start(c) /\ Main) \/ Thread(c) PROVE UNCHANGED choiceVars
  BY <1>0, <1>5, ThreadFrame DEF Main
<1> QED
  BY <1>1, <1>2, <1>3, <1>4, <1>5, Steps, Turns DEF core

\* A wake-up comes when nobody is awake; nobody else wakes anyone.
LEMMA AwakenedStep ==
  ASSUME Inv, [Next]_vars
  PROVE  Awakened'
<1>0. TypeOK /\ Awakened
  BY DEF Inv
<1>t. sleep_map \in [Call -> BOOLEAN]
  BY <1>0, Types
<1>1. CASE UNCHANGED core
  BY <1>0, <1>1 DEF Awakened, core
<1>2. ASSUME NEW c \in Call, Start(c) /\ Main PROVE Awakened'
  BY <1>0, <1>2 DEF Awakened, Main
<1>3. CASE Scheduler /\ Idle
  BY <1>0, <1>3 DEF Awakened, Idle
<1>4. CASE Scheduler /\ UnsubscribeThread
  <2>1. PICK id \in Call \cup {none} :
          /\ sleep_map' = [c \in Call |-> c # id /\ sleep_map[c]]
          /\ running_id' = IF running_id = id THEN none ELSE running_id
          /\ sched' = "subscribe"
    BY <1>4, Departure
  <2>2. \A c \in Call : sleep_map'[c] => c # id /\ sleep_map[c]
    BY <2>1
  <2> QED
    BY <1>0, <2>1, <2>2 DEF Awakened
<1>5. CASE Scheduler /\ SubscribeThread
  BY <1>0, <1>5, <1>t DEF Awakened, SubscribeThread
<1>6. CASE Scheduler /\ Decide
  BY <1>0, <1>6, <1>t DEF Awakened, Decide, SendToSleep
<1>7. CASE Scheduler /\ WakeUp
  BY <1>0, <1>7, <1>t DEF Awakened, WakeUp
<1>8. ASSUME NEW c \in Call, Thread(c) PROVE Awakened'
  <2>1. /\ UNCHANGED <<sched, running_id>>
        /\ \A d \in Call : sleep_map'[d] => sleep_map[d]
    BY <1>0, <1>8, ThreadFrame
  <2> QED
    BY <1>0, <2>1 DEF Awakened
<1> QED
  BY <1>1, <1>2, <1>3, <1>4, <1>5, <1>6, <1>7, <1>8, Steps, Turns

\* A call that is not in the vector, or not the first of its priority there, is
\* not awake.
LEMMA Asleep ==
  ASSUME Inv, NEW d \in Call,
         \/ pc[d] \in {"none", "subscribe"} \/ In(d, subscribe)
         \/ \E c \in Call : Before(c, d, priorities) /\ Ranking[c] = Ranking[d]
  PROVE  d # running_id /\ ~sleep_map[d]
<1>1. Tabled /\ Awakened /\ Serial /\ none \notin Call
  BY Types DEF Inv
<1> QED
  BY <1>1 DEF Tabled, Awakened, Serial

\* A call that is not in the vector stays asleep: only the best of the vector is
\* woken.
LEMMA FreshStep ==
  ASSUME Inv, [Next]_vars
  PROVE  Fresh'
<1>0. TypeOK /\ Fresh /\ Tabled /\ use_scheduler' = use_scheduler
  BY InputIsFixed DEF Inv, use_scheduler
<1>t. subscribe \in Seq(Call) /\ pc \in [Call -> Places]
  BY <1>0, Types
<1>1. CASE UNCHANGED core
  BY <1>0, <1>1 DEF Fresh, Untouched, core, queueVars, callVars
<1>2. CASE Scheduler
  <2>1. UNCHANGED <<pc, sent, expired>>
    BY <1>2, Turns
  <2>2. \A d \in Call : In(d, subscribe') => In(d, subscribe)
    <3>1. CASE SubscribeThread
      BY <1>2, <3>1, Arrival
    <3>2. CASE Idle \/ UnsubscribeThread \/ Decide \/ WakeUp
      BY <3>2 DEF Idle, UnsubscribeThread, Decide, WakeUp, queueVars
    <3> QED
      BY <1>2, <3>1, <3>2, Turns
  <2> QED
    BY <1>0, <2>1, <2>2 DEF Fresh, Untouched
<1>3. ASSUME NEW c \in Call, (Start(c) /\ Main) \/ Thread(c) PROVE Fresh'
  <2> SUFFICES ASSUME use_scheduler, NEW d \in Call,
                      pc'[d] \in {"none", "subscribe"} \/ In(d, subscribe')
               PROVE  Untouched(d)'
    BY <1>0 DEF Fresh
  <2>1. pc[d] \in {"none", "subscribe"} \/ In(d, subscribe)
    <3>1. CASE Start(c) /\ Main
      <4>1. subscribe' = subscribe /\ \A e \in Call : e # c => pc'[e] = pc[e]
        BY <1>t, <3>1 DEF Start, Main, queueVars
      <4>2. pc[c] = "none"
        BY <1>0, <3>1, Types DEF Start, Inv, Numbered
      <4> QED
        BY <4>1, <4>2
    <3>2. CASE Thread(c)
      <4>1. /\ \A e \in Call \ {c} : pc'[e] = pc[e]
            /\ pc'[c] \notin {"none", "subscribe"}
        BY <1>0, <3>2, ThreadFrame
      <4>2. In(d, subscribe') => In(d, subscribe) \/ (d = c /\ pc[c] = "subscribe")
        <5>1. CASE pc[c] = "subscribe"
          <6>1. subscribe' = Append(subscribe, c)
            BY <1>0, <3>2, <5>1, QueueFrame
          <6> QED
            BY <1>t, <5>1, <6>1, Pushed
        <5>2. CASE pc[c] # "subscribe"
          BY <1>0, <3>2, <5>2, QueueFrame
        <5> QED
          BY <5>1, <5>2
      <4> QED
        BY <4>1, <4>2
    <3> QED
      BY <1>3, <3>1, <3>2
  <2>2. Untouched(d) /\ ~sleep_map[d]
    BY <1>0, <2>1, Asleep DEF Fresh
  <2> QED
    BY <1>0, <1>3, <2>2, UntouchedStep
<1> QED
  BY <1>1, <1>2, <1>3, Steps

\* A newcomer is behind the others of its priority and has not been awake;
\* the scheduler wakes the first of the highest priority.
LEMMA SerialStep ==
  ASSUME Inv, [Next]_vars
  PROVE  Serial'
<1>0. /\ TypeOK /\ Unscheduled /\ Tabled /\ Chosen /\ Fresh /\ Serial /\ Ranking' = Ranking
      /\ none \notin Call
  BY Types, RankingIsFixed DEF Inv
<1>t. priorities \in Seq(Call) /\ Distinct(priorities)
  BY <1>0, Types DEF Tabled
<1>1. CASE UNCHANGED core \/ (Scheduler /\ (Idle \/ Decide))
  <2>1. UNCHANGED <<priorities, running_id, pc, sent, expired>>
    BY <1>1, Turns DEF core, Idle, Decide, choiceVars, callVars
  <2> QED
    BY <1>0, <2>1 DEF Serial, Untouched
<1>2. CASE Scheduler /\ UnsubscribeThread
  <2>1. /\ \A x, y : Before(x, y, priorities') => Before(x, y, priorities)
        /\ running_id' \in {none, running_id}
    BY <1>2, Departure
  <2>2. UNCHANGED <<pc, sent, expired>>
    BY <1>2, Turns
  <2> QED
    BY <1>0, <2>1, <2>2 DEF Serial, Untouched
<1>3. CASE Scheduler /\ SubscribeThread
  <2>1. PICK id \in Call :
          /\ ~In(id, priorities) /\ In(id, subscribe)
          /\ \A x, y : Before(x, y, priorities')
                       <=> Before(x, y, priorities) \/ (In(x, priorities) /\ y = id)
          /\ running_id' = running_id
    BY <1>3, Arrival
  <2>2. UNCHANGED <<pc, sent, expired>> /\ use_scheduler
    BY <1>0, <1>3, Turns DEF Unscheduled
  <2>3. Untouched(id) /\ id # running_id
    BY <1>0, <2>1, <2>2, Asleep DEF Fresh
  <2> QED
    BY <1>0, <2>1, <2>2, <2>3 DEF Serial, Untouched
<1>4. CASE Scheduler /\ WakeUp
  <2>1. UNCHANGED <<priorities, pc, sent, expired>> /\ running_id' = max_id
    BY <1>4, Turns DEF WakeUp, choiceVars
  <2>2. ASSUME NEW c \in Call, NEW d \in Call, Before(c, d, priorities), Ranking[c] = Ranking[d]
        PROVE  d # max_id
    <3>1. In(c, priorities) /\ c # d /\ ~Before(d, c, priorities)
      BY <1>t, <2>2, BeforeIsStrict
    <3>2. First(max_id, priorities, Ranking)
      BY <1>0, <3>1, EmptySeq DEF Chosen, In
    <3>3. Ranking[c] \in Int
      <4>1. c \in DOMAIN line /\ Ranking[c] = line[c].priority
        BY <1>0, <3>1, HasLine DEF Inv, Tabled
      <4> QED
        BY <1>0, <4>1, Types
    <3> QED
      BY <2>2, <3>1, <3>2, <3>3 DEF First
  <2> QED
    BY <1>0, <2>1, <2>2 DEF Serial, Untouched
<1>5. ASSUME NEW e \in Call, (Start(e) /\ Main) \/ Thread(e) PROVE Serial'
  <2>1. UNCHANGED <<priorities, running_id>>
    BY <1>0, <1>5, ThreadFrame DEF Main, choiceVars
  <2> SUFFICES ASSUME NEW c \in Call, NEW d \in Call, Before(c, d, priorities),
                      Ranking[c] = Ranking[d]
               PROVE  d # running_id /\ Untouched(d)'
    BY <1>0, <2>1 DEF Serial
  <2>2. d # running_id /\ ~sleep_map[d] /\ Untouched(d)
    BY <1>0, Asleep DEF Serial
  <2>3. use_scheduler
    BY <1>0, EmptySeq DEF Unscheduled, Before
  <2> QED
    BY <1>0, <1>5, <2>2, <2>3, UntouchedStep
<1> QED
  BY <1>1, <1>2, <1>3, <1>4, <1>5, Steps, Turns

\* A look at sleep_map is good for one number.
LEMMA DrainingStep ==
  ASSUME Inv, [Next]_vars
  PROVE  Draining'
<1>0. TypeOK /\ Tabled /\ Awakened /\ Draining /\ use_scheduler' = use_scheduler
  BY InputIsFixed DEF Inv, use_scheduler
<1>t. /\ pc \in [Call -> Places] /\ sleep_map \in [Call -> BOOLEAN] /\ none \notin Call
      /\ sent \in [Call -> Nat] /\ expired \in [Call -> BOOLEAN] /\ overrun \in [Call -> Nat]
  BY <1>0, Types
<1>1. CASE UNCHANGED core
  BY <1>0, <1>1 DEF Draining, core, callVars
<1>2. ASSUME NEW c \in Call, Start(c) /\ Main PROVE Draining'
  <2>1. /\ UNCHANGED <<sleep_map, expired, overrun>>
        /\ use_scheduler => \A d \in Call : pc'[d] = "write" => pc[d] = "write"
    BY <1>2, <1>t DEF Start, Main, callVars
  <2> QED
    BY <1>0, <2>1 DEF Draining
<1>3. CASE Scheduler
  <2>1. UNCHANGED <<pc, sent, expired>>
    BY <1>3, Turns
  <2>2. CASE Decide
    <3>1. ASSUME NEW c \in Call
          PROVE  /\ c = running_id => overrun'[c] = 0
                 /\ c # running_id => overrun'[c] = overrun[c] /\ sleep_map'[c] = sleep_map[c]
      BY <1>0, <1>t, <2>2 DEF Decide, SendToSleep, Awakened
    <3> QED
      BY <1>0, <2>1, <3>1 DEF Draining
  <2>3. ASSUME ~Decide
        PROVE  overrun' = overrun /\ \A c \in Call : pc[c] = "write" /\ sleep_map[c] => sleep_map'[c]
    <3>1. CASE Idle \/ WakeUp
      BY <1>t, <3>1 DEF Idle, WakeUp
    <3>2. CASE UnsubscribeThread
      <4>1. PICK id \in Call \cup {none} :
              /\ sleep_map' = [c \in Call |-> c # id /\ sleep_map[c]] /\ overrun' = overrun
              /\ id # none => pc[id] = "exited"
        BY <1>3, <3>2, Departure
      <4> QED
        BY <1>t, <4>1
    <3>3. CASE SubscribeThread
      <4>1. PICK id \in Call :
              /\ sleep_map' = [sleep_map EXCEPT ![id] = FALSE] /\ overrun' = overrun
              /\ In(id, subscribe)
        BY <1>3, <3>3, Arrival
      <4>2. ~sleep_map[id]
        BY <4>1, Asleep
      <4> QED
        BY <1>t, <4>1, <4>2
    <3> QED
      BY <1>3, <2>3, <3>1, <3>2, <3>3, Turns
  <2>4. CASE ~Decide
    BY <1>0, <2>1, <2>3, <2>4 DEF Draining
  <2> QED
    BY <2>2, <2>4
<1>4. ASSUME NEW c \in Call, Thread(c), use_scheduler PROVE Draining'
  <2>1. \A d \in Call \ {c} :
          /\ pc'[d] = pc[d] /\ expired'[d] = expired[d]
          /\ overrun'[d] = overrun[d] /\ sleep_map'[d] = sleep_map[d]
    BY <1>0, <1>4, ThreadFrame
  <2>2. expired[c] => expired'[c]
    BY <1>0, <1>4, ThreadFrame
  <2>3. expired[c] \/ (overrun[c] <= 1 /\ (pc[c] = "write" /\ ~sleep_map[c] => overrun[c] = 0))
    BY <1>0, <1>4 DEF Draining
  <2>4. \/ expired'[c]
        \/ overrun'[c] <= 1 /\ (pc'[c] = "write" /\ ~sleep_map'[c] => overrun'[c] = 0)
    <3>1. CASE expired[c]
      BY <2>2, <3>1
    <3>2. CASE ~expired[c] /\ Write(c)
      <4>1. pc[c] = "write" /\ pc'[c] # "write" /\ overrun[c] \in Nat
        BY <1>4, <1>t, <3>2 DEF Write, Goto, AfterWrite
      <4>2. overrun'[c] = IF sleep_map[c] THEN 0 ELSE overrun[c] + 1
        BY <1>t, <3>2 DEF Write
      <4>3. overrun'[c] <= 1
        <5>1. CASE sleep_map[c]
          BY <4>2, <5>1
        <5>2. CASE ~sleep_map[c]
          BY <2>3, <3>2, <4>1, <4>2, <5>2
        <5> QED
          BY <5>1, <5>2
      <4> QED
        BY <4>1, <4>3
    <3>3. CASE ~expired[c] /\ Check(c)
      <4>1. overrun' = overrun /\ sleep_map' = sleep_map /\ sleep_map[c]
        BY <3>3 DEF Check, Move, Awake, callVars
      <4> QED
        BY <2>3, <3>3, <4>1
    <3>4. CASE ~expired[c] /\ ~Write(c) /\ ~Check(c)
      <4>1. overrun' = overrun /\ pc'[c] # "write"
        BY <1>4, <1>t, <3>4 DEF Thread, Step, Timer, Failure, RunRpc, Expire, Broken, Subscribe,
              Clear, Channel, Stub, OpenStream, Finish, Unsubscribe, Move, Goto, callVars
      <4> QED
        BY <2>3, <3>4, <4>1
    <3> QED
      BY <3>1, <3>2, <3>3, <3>4
  <2> QED
    BY <1>0, <2>1, <2>4 DEF Draining
<1>5. CASE ~use_scheduler
  BY <1>0, <1>5 DEF Draining
<1> QED
  BY <1>1, <1>2, <1>3, <1>4, <1>5, Steps

\* An id is on the queue before its thread has ended, and the scheduler takes
\* it off that queue and out of the vector in one turn.
LEMMA LeavingStep ==
  ASSUME Inv, [Next]_vars
  PROVE  Leaving'
<1>0. /\ TypeOK /\ Unscheduled /\ Tabled /\ Fresh /\ Leaving /\ input' = input
      /\ timeout' = timeout
  BY InputIsFixed DEF Inv, timeout
<1>t. /\ unsubscribe \in Seq(Call \cup {none}) /\ pc \in [Call -> Places] /\ none \notin Call
      /\ priorities \in Seq(Call)
  BY <1>0, Types
<1>1. CASE UNCHANGED core \/ (Scheduler /\ (Idle \/ Decide \/ WakeUp))
  <2>1. UNCHANGED <<priorities, unsubscribe, pc, expired>>
    BY <1>1, Turns DEF core, Idle, Decide, WakeUp, choiceVars, queueVars, callVars
  <2> QED
    BY <1>0, <2>1 DEF Leaving
<1>2. ASSUME NEW c \in Call, Start(c) /\ Main PROVE Leaving'
  <2>1. /\ UNCHANGED <<priorities, unsubscribe, expired>>
        /\ \A d \in Call : pc'[d] = "exited" => pc[d] = "exited"
    BY <1>2, <1>t DEF Start, Main, choiceVars, queueVars, callVars
  <2> QED
    BY <1>0, <2>1 DEF Leaving
<1>3. CASE Scheduler /\ UnsubscribeThread
  <2>1. PICK id \in Call \cup {none} :
          /\ \A x : In(x, priorities') <=> In(x, priorities) /\ x # id
          /\ \A x : In(x, unsubscribe) <=> In(x, unsubscribe') \/ x = id
    BY <1>3, Departure
  <2>2. UNCHANGED <<pc, expired>>
    BY <1>3, Turns
  <2> QED
    BY <1>0, <2>1, <2>2 DEF Leaving
<1>4. CASE Scheduler /\ SubscribeThread
  <2>1. PICK id \in Call :
          /\ \A x : In(x, priorities') <=> In(x, priorities) \/ x = id
          /\ In(id, subscribe) /\ unsubscribe' = unsubscribe
    BY <1>4, Arrival
  <2>2. UNCHANGED <<pc, expired>> /\ use_scheduler
    BY <1>0, <1>4, Turns DEF Unscheduled
  <2>3. expired[id] \/ pc[id] # "exited"
    BY <1>0, <2>1, <2>2 DEF Fresh, Untouched
  <2> QED
    BY <1>0, <2>1, <2>2, <2>3 DEF Leaving
<1>5. ASSUME NEW c \in Call, Thread(c) PROVE Leaving'
  <2>1. /\ priorities' = priorities
        /\ \A d \in Call \ {c} : pc'[d] = pc[d] /\ expired'[d] = expired[d]
        /\ pc[c] # "exited" /\ (expired'[c] => expired[c] \/ timeout)
    BY <1>0, <1>5, ThreadFrame DEF choiceVars
  <2>2. \A d \in Call : In(d, unsubscribe) => In(d, unsubscribe')
    <3>1. CASE unsubscribe' = unsubscribe
      BY <3>1
    <3>2. CASE ~(unsubscribe' = unsubscribe)
      <4>1. PICK x \in {c, none} : unsubscribe' = Append(unsubscribe, x)
        BY <1>0, <1>5, <3>2, QueueFrame
      <4> QED
        BY <1>t, <4>1, Pushed
    <3> QED
      BY <3>1, <3>2
  <2>3. ~input.torn /\ In(c, priorities) /\ pc'[c] = "exited" => In(c, unsubscribe')
    <3> SUFFICES ASSUME ~input.torn, In(c, priorities), pc'[c] = "exited"
                 PROVE  In(c, unsubscribe')
      OBVIOUS
    <3>1. use_scheduler
      BY <1>0, EmptySeq DEF Unscheduled, In
    <3>2. unsubscribe' = Append(unsubscribe, c)
      BY <1>0, <1>5, <3>1, QueueFrame
    <3> QED
      BY <1>t, <3>2, Pushed
  <2> QED
    BY <1>0, <2>1, <2>2, <2>3 DEF Leaving
<1> QED
  BY <1>1, <1>2, <1>3, <1>4, <1>5, Steps, Turns

\* No step leaves the types, whatever is popped off the unsubscribe queue.
LEMMA TypeStep ==
  ASSUME Inv, [Next]_vars
  PROVE  TypeOK'
<1>0. TypeOK /\ Numbered /\ Tabled /\ Chosen /\ input' = input
  BY InputIsFixed DEF Inv
<1>t. /\ input \in Input /\ priorities \in Seq(Call) /\ subscribe \in Seq(Call)
      /\ unsubscribe \in Seq(Call \cup {none}) /\ none \notin Call
      /\ max_id \in Call \cup {none} /\ running_id \in Call \cup {none}
      /\ pc \in [Call -> Places] /\ sleep_map \in [Call -> BOOLEAN]
      /\ sent \in [Call -> Nat] /\ expired \in [Call -> BOOLEAN] /\ overrun \in [Call -> Nat]
      /\ use_scheduler \in BOOLEAN /\ NumCalls \in Nat
  BY <1>0, Types
<1>u. /\ main \in {"start", "join", "stop", "returned"} /\ started \in 0 .. NumCalls
      /\ stop_scheduler \in BOOLEAN /\ max_priority \in Nat \cup {-1}
      /\ sched \in {"none", "unsubscribe", "subscribe", "decide", "wake", "exited"}
  BY <1>0 DEF TypeOK
<1> DEFINE Kept == UNCHANGED <<sched, choiceVars, running_id, queueVars, sleep_map, callVars>>
<1>1. CASE Main
  <2>1. /\ main' \in {"start", "join", "stop", "returned"} /\ stop_scheduler' \in BOOLEAN
        /\ Kept
    BY <1>1, <1>t, <1>u DEF Main, Start, EndOfFile, Joined, Return
  <2>2. started' \in 0 .. NumCalls /\ pc' \in [Call -> Places]
    <3>1. ASSUME NEW c \in Call, Start(c)
          PROVE  started' \in 0 .. NumCalls /\ pc' \in [Call -> Places]
      BY <1>t, <3>1 DEF Start, Call, Places
    <3> QED
      BY <1>1, <1>t, <1>u, <3>1 DEF Main, EndOfFile, Joined, Return
  <2> QED
    BY <1>0, <1>t, <1>u, <2>1, <2>2
       DEF TypeOK, Places, choiceVars, queueVars, callVars
<1>2. CASE Scheduler
  <2>1. UNCHANGED <<main, started, stop_scheduler, pc, sent, expired>>
    BY <1>2 DEF Scheduler, mainVars
  <2>2. /\ sched' \in {"none", "unsubscribe", "subscribe", "decide", "wake", "exited"}
        /\ overrun' \in [Call -> Nat]
    BY <1>2, <1>t, Turns DEF Idle, UnsubscribeThread, SubscribeThread, Decide, WakeUp
  <2>3. /\ priorities' \in Seq(Call) /\ subscribe' \in Seq(Call)
        /\ unsubscribe' \in Seq(Call \cup {none}) /\ sleep_map' \in [Call -> BOOLEAN]
        /\ max_id' \in Call \cup {none} /\ running_id' \in Call \cup {none}
        /\ max_priority' \in Nat \cup {-1}
    <3>1. CASE UnsubscribeThread
      <4>1. PICK id \in Call \cup {none} :
              /\ priorities' \in Seq(Call)
              /\ \A x : In(x, priorities') <=> In(x, priorities) /\ x # id
              /\ unsubscribe' \in Seq(Call \cup {none})
              /\ sleep_map' = [c \in Call |-> c # id /\ sleep_map[c]]
              /\ running_id' = IF running_id = id THEN none ELSE running_id
              /\ priorities' = <<>> => max_id' = none /\ max_priority' = -1
              /\ priorities' # <<>> =>
                   First(max_id', priorities', Ranking) /\ max_priority' = Ranking[max_id']
              /\ UNCHANGED <<subscribe, overrun>>
        BY <1>2, <3>1, Departure
      <4>2. max_id' \in Call \cup {none} /\ max_priority' \in Nat \cup {-1}
        <5>1. CASE priorities' = <<>>
          BY <4>1, <5>1
        <5>2. CASE priorities' # <<>>
          <6>1. In(max_id', priorities) /\ max_priority' = Ranking[max_id']
            BY <4>1, <5>2 DEF First
          <6>2. max_id' \in Call /\ max_id' \in DOMAIN line /\ Ranking[max_id'] = line[max_id'].priority
            BY <1>0, <6>1, Member, HasLine DEF Tabled
          <6> QED
            BY <1>0, <6>1, <6>2, Types
        <5> QED
          BY <5>1, <5>2
      <4>3. sleep_map' \in [Call -> BOOLEAN]
        BY <1>t, <4>1
      <4> QED
        BY <1>t, <4>1, <4>2, <4>3
    <3>2. CASE SubscribeThread
      <4>1. PICK id \in Call :
              /\ priorities' \in Seq(Call) /\ subscribe' \in Seq(Call)
              /\ pc[id] \notin {"none", "subscribe"}
              /\ sleep_map' = [sleep_map EXCEPT ![id] = FALSE]
              /\ IF Outranks(id) THEN max_id' = id /\ max_priority' = Ranking[id]
                                 ELSE UNCHANGED <<max_id, max_priority>>
              /\ UNCHANGED <<running_id, unsubscribe, overrun>>
        BY <1>2, <3>2, Arrival
      <4>2. id \in DOMAIN line /\ Ranking[id] = line[id].priority
        BY <1>0, <4>1, HasLine
      <4>3. Ranking[id] \in Nat
        BY <1>0, <4>2, Types
      <4>4. max_id' \in Call \cup {none} /\ max_priority' \in Nat \cup {-1}
        BY <1>t, <1>u, <4>1, <4>3
      <4> QED
        BY <1>t, <4>1, <4>4
    <3>3. CASE Idle \/ Decide \/ WakeUp
      BY <1>t, <1>u, <3>3 DEF Idle, Decide, SendToSleep, WakeUp, choiceVars, queueVars
    <3> QED
      BY <1>2, <3>1, <3>2, <3>3, Turns
  <2> QED
    BY <1>0, <1>t, <1>u, <2>1, <2>2, <2>3 DEF TypeOK, Places
<1>3. ASSUME NEW c \in Call, Thread(c) PROVE TypeOK'
  <2>1. /\ UNCHANGED <<main, started, stop_scheduler, sched, priorities, max_id, max_priority,
                       running_id>>
    BY <1>3 DEF Thread, Step, Timer, Failure, mainVars, choiceVars
  <2>2. /\ pc' \in [Call -> Places] /\ sleep_map' \in [Call -> BOOLEAN]
        /\ sent' \in [Call -> Nat] /\ expired' \in [Call -> BOOLEAN]
        /\ overrun' \in [Call -> Nat]
    BY <1>0, <1>3, ThreadFrame
  <2>3. subscribe' \in Seq(Call)
    <3>1. CASE pc[c] = "subscribe"
      <4>1. subscribe' = Append(subscribe, c)
        BY <1>0, <1>3, <3>1, QueueFrame
      <4> QED
        BY <1>t, <4>1, Pushed
    <3>2. CASE pc[c] # "subscribe"
      BY <1>0, <1>t, <1>3, <3>2, QueueFrame
    <3> QED
      BY <3>1, <3>2
  <2>4. unsubscribe' \in Seq(Call \cup {none})
    <3>1. CASE unsubscribe' = unsubscribe
      BY <1>t, <3>1
    <3>2. CASE ~(unsubscribe' = unsubscribe)
      <4>1. PICK x \in {c, none} : unsubscribe' = Append(unsubscribe, x)
        BY <1>0, <1>3, <3>2, QueueFrame
      <4> QED
        BY <1>t, <4>1, Pushed
    <3> QED
      BY <3>1, <3>2
  <2> QED
    BY <1>0, <1>t, <1>u, <2>1, <2>2, <2>3, <2>4 DEF TypeOK, Places
<1>4. CASE Returned \/ UNCHANGED vars
  BY <1>0, <1>4 DEF Returned, vars, mainVars, choiceVars, queueVars, callVars, TypeOK
<1> QED
  BY <1>1, <1>2, <1>3, <1>4 DEF Next, Thread

\* The invariant holds before the first thread is started.
LEMMA Initially ==
  ASSUME Init
  PROVE  Inv
<1>0. /\ input \in Input /\ Len(line) <= NumCalls /\ NumCalls \in Nat
      /\ use_scheduler \in BOOLEAN /\ line \in Seq(Line) /\ Len(line) \in Nat
  <2>1. input \in Input /\ Len(line) <= NumCalls /\ NumCalls \in Nat
    BY CppThreads1Assumption DEF Init, line
  <2> QED
    BY <2>1, LenProperties DEF Input, line, use_scheduler
<1>1. TypeOK
  <2>1. <<>> \in Seq(Call) /\ <<>> \in Seq(Call \cup {none})
    BY EmptySeq
  <2>2. /\ input \in Input /\ main \in {"start", "join", "stop", "returned"}
        /\ started \in 0 .. NumCalls /\ stop_scheduler \in BOOLEAN
        /\ sched \in {"none", "unsubscribe", "subscribe", "decide", "wake", "exited"}
    <3>1. main = "start" /\ started = 0 /\ stop_scheduler = FALSE
      BY DEF Init
    <3>2. sched \in {"none", "unsubscribe", "subscribe", "decide", "wake", "exited"}
      BY DEF Init
    <3>3. started \in 0 .. NumCalls
      BY <1>0, <3>1
    <3>4. main \in {"start", "join", "stop", "returned"} /\ stop_scheduler \in BOOLEAN
      BY <3>1
    <3>5. input \in Input
      BY <1>0
    <3> QED
      BY <3>2, <3>3, <3>4, <3>5
  <2>3. /\ priorities \in Seq(Call) /\ {max_id, running_id} \subseteq Call \cup {none}
        /\ max_priority \in Nat \cup {-1}
        /\ subscribe \in Seq(Call) /\ unsubscribe \in Seq(Call \cup {none})
    BY <2>1 DEF Init
  <2>4. /\ sleep_map \in [Call -> BOOLEAN] /\ pc \in [Call -> Places]
        /\ sent \in [Call -> Nat] /\ expired \in [Call -> BOOLEAN]
        /\ overrun \in [Call -> Nat]
    BY DEF Init, Places
  <2> QED
    BY <2>2, <2>3, <2>4 DEF TypeOK, Places
<1>2. Numbered
  BY <1>0 DEF Init, Numbered, Call
<1>3. Unscheduled /\ Chosen
  BY DEF Init, Unscheduled, Chosen
<1>4. \A x, y : ~In(x, <<>>) /\ ~Before(x, y, <<>>)
  BY EmptySeq DEF In, Before
<1>5. Distinct(<<>>)
  BY EmptySeq DEF Distinct
<1>6. Tabled /\ Serial /\ Leaving
  BY <1>4, <1>5 DEF Init, Tabled, Serial, Leaving
<1>7. Awakened /\ Fresh /\ Draining
  BY DEF Init, Awakened, Fresh, Untouched, Draining
<1> QED
  BY <1>1, <1>2, <1>3, <1>6, <1>7 DEF Inv

\* The inductive invariant holds for every input file and every environment.
THEOREM Invariance == Spec => []Inv
<1>1. Init => Inv
  BY Initially
<1>2. Inv /\ [Next]_vars => Inv'
  <2> SUFFICES ASSUME Inv, [Next]_vars PROVE Inv'
    OBVIOUS
  <2>1. TypeOK' /\ Numbered' /\ Unscheduled' /\ Tabled' /\ Chosen'
    BY TypeStep, NumberedStep, UnscheduledStep, TabledStep, ChosenStep
  <2>2. Awakened' /\ Fresh' /\ Serial' /\ Draining' /\ Leaving'
    BY AwakenedStep, FreshStep, SerialStep, DrainingStep, LeavingStep
  <2> QED
    BY <2>1, <2>2 DEF Inv
<1> QED
  BY <1>1, <1>2, PTL DEF Spec

-----------------------------------------------------------------------------
(* Theorems *)

\* Every variable keeps its type, whatever the data race on the unsubscribe queue
\* makes the scheduler pop.
THEOREM TypeCorrect == Spec => []TypeOK
<1>1. Inv => TypeOK
  BY DEF Inv
<1> QED
  BY <1>1, Invariance, PTL

\* max_id and max_priority are those of the first of the best in the vector,
\* after every subscription and every departure.
THEOREM BestIsFirst == Spec => []MaxIsFirstOfHighest
<1>1. Inv => MaxIsFirstOfHighest
  <2> SUFFICES ASSUME Inv PROVE MaxIsFirstOfHighest
    OBVIOUS
  <2>0. TypeOK /\ Numbered /\ Tabled /\ Chosen
    BY DEF Inv
  <2>1. CASE priorities = <<>>
    BY <2>0, <2>1 DEF Chosen, MaxIsFirstOfHighest
  <2>2. CASE priorities # <<>>
    <3>1. /\ priorities \in Seq(Call) /\ DOMAIN priorities = 1 .. Len(priorities)
          /\ Distinct(priorities) /\ Len(priorities) \in Nat
      BY <2>0, Types, LenProperties DEF Tabled
    <3>2. First(max_id, priorities, Ranking) /\ max_priority = Ranking[max_id]
      BY <2>0, <2>2 DEF Chosen
    <3>3. ASSUME NEW c, In(c, priorities)
          PROVE  Ranking[c] = line[c].priority /\ Ranking[c] \in Int
      <4>1. c \in DOMAIN line /\ Ranking[c] = line[c].priority
        BY <2>0, <3>3, Member, HasLine DEF Tabled
      <4> QED
        BY <2>0, <4>1, Types
    <3>4. PICK i \in 1 .. Len(priorities) : priorities[i] = max_id
      BY <3>2 DEF First, In
    <3>5. max_priority = line[max_id].priority /\ max_priority \in Int
      BY <3>2, <3>3 DEF First
    <3>6. ASSUME NEW j \in 1 .. Len(priorities)
          PROVE  /\ line[priorities[j]].priority <= max_priority
                 /\ j < i => line[priorities[j]].priority < max_priority
      <4> DEFINE d == priorities[j]
      <4>1. In(d, priorities) /\ Ranking[d] = line[d].priority /\ Ranking[d] \in Int
        BY <3>3 DEF In
      <4>2. CASE Ranking[d] < max_priority
        BY <3>5, <4>1, <4>2
      <4>3. CASE ~(Ranking[d] < max_priority)
        <5>1. Ranking[d] = max_priority /\ (d = max_id \/ Before(max_id, d, priorities))
          BY <3>2, <3>5, <4>1, <4>3 DEF First
        <5>2. ~(j < i)
          <6> SUFFICES ASSUME j < i PROVE FALSE
            OBVIOUS
          <6>1. d # max_id
            BY <3>1, <3>4 DEF Distinct
          <6>2. Before(d, max_id, priorities)
            BY <3>4 DEF Before
          <6> QED
            BY <3>1, <5>1, <6>1, <6>2, BeforeIsStrict
        <5> QED
          BY <3>5, <4>1, <5>1, <5>2
      <4> QED
        BY <4>2, <4>3
    <3> QED
      BY <2>2, <3>1, <3>4, <3>5, <3>6 DEF MaxIsFirstOfHighest
  <2> QED
    BY <2>1, <2>2
<1> QED
  BY <1>1, Invariance, PTL

\* Whatever the order in which the calls and the scheduler write sleep_map, no
\* two calls are awake in it.
THEOREM OneIsAwake == Spec => []AtMostOneAwake
<1>1. Inv => AtMostOneAwake
  BY DEF Inv, Awakened, AtMostOneAwake
<1> QED
  BY <1>1, Invariance, PTL

\* A call that was put to sleep writes one more number at most.
THEOREM OverrunIsOne == Spec => []OneMoreWrite
<1>1. Inv => OneMoreWrite
  BY DEF Inv, Draining, OneMoreWrite
<1> QED
  BY <1>1, Invariance, PTL

\* Calls of one priority write one after the other, in the order of the vector.
THEOREM Serialised == Spec => []SerialWithinPriority
<1>1. Inv => SerialWithinPriority
  <2> SUFFICES ASSUME Inv, NEW i \in DOMAIN priorities, NEW j \in DOMAIN priorities,
                      i < j, line[priorities[i]].priority = line[priorities[j]].priority,
                      ~expired[priorities[j]]
               PROVE  sent[priorities[j]] = 0 /\ pc[priorities[j]] # "write"
    BY DEF SerialWithinPriority
  <2>0. TypeOK /\ Numbered /\ Tabled /\ Serial
    BY DEF Inv
  <2>1. priorities \in Seq(Call) /\ DOMAIN priorities = 1 .. Len(priorities)
    BY <2>0, Types, LenProperties
  <2> DEFINE c == priorities[i]  d == priorities[j]
  <2>2. In(c, priorities) /\ In(d, priorities) /\ Before(c, d, priorities)
    BY <2>1 DEF In, Before
  <2>3. c \in Call /\ d \in Call /\ Ranking[c] = Ranking[d]
    BY <2>0, <2>2, Member, HasLine DEF Tabled
  <2>4. Untouched(d)
    BY <2>0, <2>2, <2>3 DEF Serial
  <2> QED
    BY <2>4 DEF Untouched
<1> QED
  BY <1>1, Invariance, PTL

\* Without time-outs and lost ids a thread that has ended leaves the vector.
THEOREM EndedLeave == Spec => []NoGhost
<1>1. Inv => NoGhost
  <2> SUFFICES ASSUME Inv, ~timeout, ~input.torn, NEW i \in DOMAIN priorities,
                      pc[priorities[i]] = "exited"
               PROVE  \E j \in DOMAIN unsubscribe : unsubscribe[j] = priorities[i]
    BY DEF NoGhost
  <2>1. /\ TypeOK /\ Leaving
        /\ DOMAIN priorities = 1 .. Len(priorities) /\ DOMAIN unsubscribe = 1 .. Len(unsubscribe)
    BY Types, LenProperties DEF Inv
  <2>2. In(priorities[i], priorities)
    BY <2>1 DEF In
  <2>3. In(priorities[i], unsubscribe)
    BY <2>1, <2>2, Member DEF Leaving
  <2> QED
    BY <2>1, <2>3 DEF In
<1> QED
  BY <1>1, Invariance, PTL

-----------------------------------------------------------------------------
(* Refinement *)

\* The vector, and max_id, which is found again at every departure, change as
\* PriorityGrant promises: a departure of another call leaves max_id as it was.
\* Everything else is a stutter, that of an id that is not in the vector too.
THEOREM Refinement == Spec => Implements
<1> DEFINE registered == {priorities[i] : i \in DOMAIN priorities}
<1> USE DEF Abstract!vars
<1>1. Init => Abstract!Init
  <2> SUFFICES ASSUME Init PROVE Abstract!Init
    OBVIOUS
  <2>1. TypeOK
    BY Initially DEF Inv
  <2>2. Ranking \in [Call -> Int]
    BY <2>1, Types DEF Ranking
  <2>3. registered = {}
    BY EmptySeq DEF Init
  <2> QED
    BY <2>2, <2>3 DEF Init, Abstract!Init, Ranking
<1>2. Inv /\ [Next]_vars => [Abstract!Next]_Abstract!vars
  <2> SUFFICES ASSUME Inv, [Next]_vars PROVE [Abstract!Next]_Abstract!vars
    OBVIOUS
  <2>0. /\ TypeOK /\ Numbered /\ Tabled /\ Chosen /\ Chosen' /\ Ranking' = Ranking
        /\ Tabled' /\ TypeOK' /\ Numbered'
    BY ChosenStep, TabledStep, TypeStep, NumberedStep, RankingIsFixed DEF Inv
  <2>t. /\ priorities \in Seq(Call) /\ DOMAIN priorities = 1 .. Len(priorities)
        /\ priorities' \in Seq(Call) /\ DOMAIN priorities' = 1 .. Len(priorities')
        /\ max_id \in Call \cup {none} /\ none \notin Call /\ Ranking \in [Call -> Int]
    <3>1. Ranking \in [Call -> Int]
      BY <2>0, Types DEF Ranking
    <3> QED
      BY <2>0, <3>1, Types, LenProperties DEF TypeOK
  <2>r. /\ \A c : c \in registered <=> In(c, priorities)
        /\ \A c : c \in registered' <=> In(c, priorities')
    BY <2>t DEF In
  <2>e. /\ priorities = <<>> <=> registered = {}
        /\ priorities' = <<>> <=> registered' = {}
    <3>1. \A s \in Seq(Call) : s = <<>> <=> \A x : ~In(x, s)
      <4> SUFFICES ASSUME NEW s \in Seq(Call) PROVE s = <<>> <=> \A x : ~In(x, s)
        OBVIOUS
      <4>1. ASSUME s # <<>> PROVE In(Head(s), s)
        BY <4>1, Popped
      <4>2. s = <<>> => \A x : ~In(x, s)
        BY EmptySeq DEF In
      <4> QED
        BY <4>1, <4>2
    <3> HIDE DEF registered
    <3> QED
      BY <2>t, <2>r, <3>1
  <2>p. /\ [c \in Call |-> IF c \in DOMAIN line THEN line[c].priority ELSE 0] = Ranking
        /\ [c \in Call |-> IF c \in DOMAIN line' THEN line'[c].priority ELSE 0] = Ranking
    BY RankingIsFixed DEF Ranking
  <2> HIDE DEF registered
  <2>1. ASSUME UNCHANGED <<priorities, max_id>> PROVE UNCHANGED Abstract!vars
    BY <2>1, <2>p
  <2>2. CASE UNCHANGED core \/ (Scheduler /\ (Idle \/ Decide \/ WakeUp))
    BY <2>1, <2>2 DEF core, Idle, Decide, WakeUp, choiceVars
  <2>3. ASSUME NEW c \in Call, (Start(c) /\ Main) \/ Thread(c) PROVE UNCHANGED Abstract!vars
    BY <2>0, <2>1, <2>3, ThreadFrame DEF Main, choiceVars
  <2>4. CASE Scheduler /\ SubscribeThread
    <3>1. PICK id \in Call :
            /\ ~In(id, priorities)
            /\ \A x : In(x, priorities') <=> In(x, priorities) \/ x = id
            /\ Ranking[id] = Priority(id) /\ pc[id] \notin {"none", "subscribe"}
            /\ IF Outranks(id) THEN max_id' = id /\ max_priority' = Ranking[id]
                               ELSE UNCHANGED <<max_id, max_priority>>
      BY <2>4, Arrival
    <3>2. id \notin registered /\ registered' = registered \cup {id}
      BY <2>r, <3>1
    <3>3. max_id' = IF max_id = none \/ Ranking[id] > Ranking[max_id] THEN id ELSE max_id
      <4>1. max_id # none => max_priority = Ranking[max_id]
        BY <2>0 DEF Chosen
      <4> QED
        BY <3>1, <4>1 DEF Outranks
    <3>4. Ranking = [Ranking EXCEPT ![id] = Ranking[id]] /\ Ranking[id] \in Int
      BY <2>t
    <3>5. Abstract!Register(id)
      BY <2>p, <3>2, <3>3, <3>4 DEF Abstract!Register, registered
    <3> QED
      BY <3>5 DEF Abstract!Next
  <2>5. CASE Scheduler /\ UnsubscribeThread
    <3>1. PICK id \in Call \cup {none} :
            /\ \A x : In(x, priorities') <=> In(x, priorities) /\ x # id
            /\ \A x, y : Before(x, y, priorities') => Before(x, y, priorities)
            /\ ~In(id, priorities) => priorities' = priorities
      BY <2>5, Departure
    <3>2. registered' = registered \ {id}
      BY <2>r, <3>1
    <3>3. \A c : In(c, priorities) => c \in Call /\ Ranking[c] \in Int
      BY <2>0, <2>t, Member
    <3>4. \A m : In(m, priorities') => m # none /\ In(m, priorities)
      BY <2>t, <3>1, <3>3
    <3>5. max_id # none => First(max_id, priorities, Ranking)
      BY <2>0 DEF Chosen
    <3>6. priorities' # <<>> => First(max_id', priorities', Ranking)
      BY <2>0 DEF Chosen
    <3>7. priorities' = <<>> => max_id' = none
      BY <2>0 DEF Chosen
    <3>8. id # max_id => max_id' = max_id
      <4> SUFFICES ASSUME id # max_id PROVE max_id' = max_id
        OBVIOUS
      <4>1. CASE max_id = none
        <5>1. priorities = <<>>
          BY <2>0, <2>t, <3>3, <4>1 DEF Chosen, First
        <5>2. priorities' = <<>>
          BY <2>e, <3>2, <5>1
        <5> QED
          BY <3>7, <4>1, <5>2
      <4>2. CASE max_id # none
        <5>1. First(max_id, priorities, Ranking) /\ In(max_id, priorities')
          BY <3>1, <3>5, <4>2 DEF First
        <5>2. priorities' # <<>>
          BY <5>1, EmptySeq DEF In
        <5> QED
          BY <2>0, <2>t, <3>1, <3>3, <3>6, <5>1, <5>2, FirstStays DEF Tabled
      <4> QED
        BY <4>1, <4>2
    <3>9. CASE ~In(id, priorities)
      <4>1. id # max_id \/ max_id = none
        BY <3>5, <3>9 DEF First
      <4>2. priorities' = priorities
        BY <3>1, <3>9
      <4>3. max_id' = max_id
        <5>1. CASE max_id = none
          BY <2>0, <2>t, <3>3, <3>7, <4>2, <5>1 DEF Chosen, First
        <5> QED
          BY <3>8, <4>1, <5>1
      <4> QED
        BY <2>1, <4>2, <4>3
    <3>10. CASE In(id, priorities)
      <4>1. id \in registered /\ id \in Call
        BY <2>r, <3>3, <3>10
      <4>2. id = max_id =>
              \/ registered' = {} /\ max_id' = none
              \/ /\ max_id' \in registered'
                 /\ \A d \in registered' : Ranking[d] <= Ranking[max_id']
        <5>1. CASE priorities' = <<>>
          BY <2>e, <3>7, <5>1
        <5>2. CASE priorities' # <<>>
          <6>1. In(max_id', priorities') /\ Ranking[max_id'] \in Int
            BY <3>3, <3>4, <3>6, <5>2 DEF First
          <6>2. \A d : In(d, priorities') => Ranking[d] <= Ranking[max_id']
            BY <3>3, <3>4, <3>6, <5>2, <6>1 DEF First
          <6> QED
            BY <2>r, <6>1, <6>2
        <5> QED
          BY <5>1, <5>2
      <4>3. Abstract!Leave(id)
        BY <2>p, <2>0, <3>2, <3>8, <4>1, <4>2 DEF Abstract!Leave, Abstract!Highest, registered
      <4> QED
        BY <4>1, <4>3 DEF Abstract!Next
    <3> QED
      BY <3>9, <3>10
  <2> QED
    BY <2>2, <2>3, <2>4, <2>5, Steps, Turns
<1> QED
  BY <1>1, <1>2, Invariance, PTL DEF Spec, Implements, Abstract!Spec

=============================================================================
