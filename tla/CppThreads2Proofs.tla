-------------------------- MODULE CppThreads2Proofs --------------------------
(***************************************************************************)
(* Proofs about CppThreads2, for every input file and every number of      *)
(* streams the server may allow.                                           *)
(***************************************************************************)
EXTENDS CppThreads2, SequenceTheorems, FiniteSetTheorems, TLAPS

-----------------------------------------------------------------------------
(* Types *)

\* The scheduler is at a line of the file for as long as it reads or polls
\* after a line.
AtLine == sched \in {"read", "wake", "poll"} => next <= NumCalls

\* Every reachable state has the types of TypeOK: the scheduler starts no
\* thread beyond the last line, and what it takes off the queue is a call.
THEOREM TypeCorrect == Spec => []TypeOK
<1> USE CppThreads2Assumption DEF AtLine
<1>1. Init => TypeOK /\ AtLine
  <2> SUFFICES ASSUME Init PROVE TypeOK /\ AtLine
    OBVIOUS
  <2>1. line \in [Call -> Line]
    BY DEF Init
  <2> QED
    BY <2>1 DEF Init, TypeOK, Call, none
<1>2. TypeOK /\ AtLine /\ [Next]_vars => TypeOK' /\ AtLine'
  <2> SUFFICES ASSUME TypeOK, AtLine, [Next]_vars PROVE TypeOK' /\ AtLine'
    OBVIOUS
  <2> USE DEF TypeOK
  <2>1. ASSUME NEW c \in Call, Subscribe(c) PROVE TypeOK' /\ AtLine'
    <3>1. /\ priorities' \in SUBSET Call /\ max_id' \in Call \cup {none}
          /\ sched' \in {"wake", "poll"} /\ next' = next /\ sched = "read"
      BY <2>1 DEF Subscribe
    <3>2. max_priority' \in Nat \cup {-1}
      BY <2>1 DEF Subscribe, Line
    <3>3. sleep_map' \in [Call -> BOOLEAN] /\ overrun' \in [Call -> Nat]
      <4>1. sleep_map \in [Call -> BOOLEAN] /\ overrun \in [Call -> Nat]
        OBVIOUS
      <4>2. CASE UNCHANGED <<sleep_map, overrun>>
        BY <4>1, <4>2
      <4>3. CASE /\ sleep_map' = [sleep_map EXCEPT ![max_id] = FALSE]
                 /\ overrun' = [overrun EXCEPT ![max_id] = 0]
        <5> HIDE DEF TypeOK
        <5> QED
          BY <4>1, <4>3
      <4> QED
        BY <2>1, <4>2, <4>3 DEF Subscribe
    <3>4. pc' \in [Call -> {"none", "asleep", "connect", "open", "write", "wait",
                            "finish", "report", "exited"}]
      BY <2>1 DEF Subscribe
    <3> QED
      BY <2>1, <3>1, <3>2, <3>3, <3>4 DEF Subscribe, config
  <2>2. CASE Wake
    BY <2>2 DEF Wake, config, callVars
  <2>3. CASE PollEmpty
    BY <2>3 DEF PollEmpty, AfterPoll, NextLine, config, callVars
  <2>4. CASE Pop
    <3>1. leaving' \in Call /\ unsubscribe' \in Seq(Call)
      BY <2>4, HeadTailProperties DEF Pop
    <3> QED
      BY <2>4, <3>1 DEF Pop, config, callVars
  <2>5. CASE Join
    <3>1. /\ max_id' \in Call \cup {none} /\ max_priority' \in Nat \cup {-1}
          /\ sleep_map' \in [Call -> BOOLEAN]
      <4>1. CASE ~use_scheduler
        BY <2>5, <4>1 DEF Join
      <4>2. CASE use_scheduler
        <5>1. PICK m \in Call \cup {none} : Choose(m)
          BY <2>5, <4>2 DEF Join
        <5>2. m # none => m \in Call /\ line[m].priority \in Nat
          BY <5>1 DEF Line
        <5> QED
          BY <5>1, <5>2 DEF Choose
      <4> QED
        BY <4>1, <4>2
    <3>2. next' \in 1 .. NumCalls + 1 /\ AtLine' /\ sched' \in {"read", "drain"}
      BY <2>5 DEF Join, AfterPoll, NextLine
    <3> QED
      BY <2>5, <3>1, <3>2 DEF Join, config, callVars
  <2>6. CASE Finish
    BY <2>6 DEF Finish, config
  <2>7. ASSUME NEW c \in Call, RunRpc(c) \/ Failure(c) PROVE TypeOK' /\ AtLine'
    <3> USE DEF Goto
    <3>0. /\ pc \in [Call -> {"none", "asleep", "connect", "open", "write", "wait",
                             "finish", "report", "exited"}]
          /\ sent \in [Call -> Nat] /\ overrun \in [Call -> Nat]
          /\ output \in Seq(Call \cup {Total_time}) /\ unsubscribe \in Seq(Call)
      OBVIOUS
    <3> HIDE DEF TypeOK
    <3>1. UNCHANGED <<schedVars, sleep_map>>
      BY <2>7 DEF RunRpc, Failure, Awaken, Connect, Stub, Wait, Broken, Write,
                  Unsubscribe, Report
    <3>2. pc' \in [Call -> {"none", "asleep", "connect", "open", "write", "wait",
                           "finish", "report", "exited"}]
      BY <2>7, <3>0 DEF RunRpc, Failure, Awaken, Connect, Stub, Wait, Broken, Write,
                  AfterWrite, Unsubscribe, Report
    <3>3. sent' \in [Call -> Nat] /\ overrun' \in [Call -> Nat]
      <4>1. CASE UNCHANGED <<sent, overrun>>
        BY <3>0, <4>1
      <4>2. CASE Write(c)
        BY <3>0, <4>2 DEF Write
      <4> QED
        BY <2>7, <4>1, <4>2 DEF RunRpc, Failure, Awaken, Connect, Stub, Wait, Broken,
                    Unsubscribe, Report, callVars
    <3>4. unsubscribe' \in Seq(Call)
      <4>1. CASE UNCHANGED unsubscribe
        BY <3>0, <4>1
      <4>2. CASE Unsubscribe(c)
        BY <3>0, <4>2, AppendProperties DEF Unsubscribe
      <4> QED
        BY <2>7, <4>1, <4>2 DEF RunRpc, Failure, Awaken, Connect, Stub, Wait, Broken,
                    Write, Report
    <3>5. output' \in Seq(Call \cup {Total_time})
      <4>1. CASE UNCHANGED output
        BY <3>0, <4>1
      <4>2. CASE Report(c)
        BY <3>0, <4>2, AppendProperties DEF Report
      <4> QED
        BY <2>7, <4>1, <4>2 DEF RunRpc, Failure, Awaken, Connect, Stub, Wait, Broken,
                    Write, Unsubscribe, callVars
    <3> QED
      BY <3>1, <3>2, <3>3, <3>4, <3>5 DEF TypeOK, schedVars, config
  <2>8. CASE Returned \/ UNCHANGED vars
    BY <2>8 DEF Returned, vars, schedVars, config, callVars
  <2> QED
    BY <2>1, <2>2, <2>3, <2>4, <2>5, <2>6, <2>7, <2>8 DEF Next, Scheduler
<1> QED
  BY <1>1, <1>2, PTL DEF Spec

-----------------------------------------------------------------------------
(* The inductive invariant *)

\* The scheduler has started the lines before the one it is at; a call that
\* is not started yet has not been woken and has written nothing.
Numbered ==
  /\ sched \in {"read", "wake", "poll"} => next <= NumCalls
  /\ sched \in {"drain", "returned"} => next = NumCalls + 1
  /\ \A c \in Call :
       /\ pc[c] = "none" <=> (IF sched = "poll" THEN c > next ELSE c >= next)
       /\ pc[c] = "none" => ~sleep_map[c] /\ sent[c] = 0

\* A call is in the table from when its line is read until its thread is
\* joined, and it leaves once, after it has put its id on the queue.
Tabled ==
  /\ \A c \in priorities : pc[c] # "none" \/ (sched = "wake" /\ c = next)
  /\ \A c \in Call : pc[c] \notin {"none", "exited"} => c \in priorities
  /\ leaving # none =>
       /\ leaving \in priorities /\ pc[leaving] \in {"report", "exited"}
       /\ sched \in {"poll", "drain"}
  /\ \A i \in 1 .. Len(unsubscribe) :
       /\ unsubscribe[i] \in priorities /\ unsubscribe[i] # leaving
       /\ pc[unsubscribe[i]] \in {"report", "exited"}
       /\ \A j \in 1 .. Len(unsubscribe) : unsubscribe[i] = unsubscribe[j] => i = j

\* The cached values are those of the table, at every step of the scheduler.
Chosen ==
  IF use_scheduler
  THEN /\ IsMaximum(max_id, priorities)
       /\ max_priority = IF max_id = none THEN -1 ELSE line[max_id].priority
       /\ sched = "wake" => max_id = next
  ELSE max_id = none /\ sched # "wake"

\* Of the table, only the best is awake, and it is unless the scheduler is
\* about to wake it.
Awake ==
  use_scheduler =>
    /\ \A c \in priorities : sleep_map[c] => c = max_id
    /\ sched # "wake" /\ max_id # none => sleep_map[max_id]

\* A call with an earlier one of its priority in the table has never been
\* woken.
Serial ==
  use_scheduler =>
    \A c, d \in Call :
      /\ c < d /\ line[c].priority = line[d].priority
      /\ c \in priorities /\ pc[d] # "none"
      => pc[d] = "asleep" /\ ~sleep_map[d] /\ sent[d] = 0

\* A call that was put to sleep with a look at sleep_map behind it has not
\* used it yet.
Draining ==
  use_scheduler =>
    \A c \in Call :
      /\ overrun[c] <= 1
      /\ pc[c] \in {"open", "write"} /\ ~sleep_map[c] => overrun[c] = 0

\* One result in the output file per thread that has ended.
Ended == {c \in Call : pc[c] = "exited"}
Results == IF sched = "returned" THEN Len(output) - 1 ELSE Len(output)
Reported ==
  /\ Results = Cardinality(Ended)
  /\ \A c \in Ended : \E i \in 1 .. Results : output[i] = c
  /\ sched = "returned" => output[Len(output)] = Total_time /\ Ended = Call /\ priorities = {}

Inv ==
  /\ TypeOK /\ Numbered /\ Tabled /\ Chosen /\ Awake /\ Serial /\ Draining
  /\ Reported

-----------------------------------------------------------------------------
(* Steps *)

Thread(c) == RunRpc(c) \/ Failure(c)

\* Every step is the scheduler's or a thread's.
LEMMA Steps ==
  ASSUME [Next]_vars
  PROVE  \/ UNCHANGED vars
         \/ \E c \in Call : Subscribe(c) \/ Thread(c)
         \/ Wake \/ PollEmpty \/ Pop \/ Join \/ Finish
BY DEF Next, Scheduler, Thread, Returned

\* The flag, the input file and the server's limit are given once.
LEMMA ConfigIsFixed ==
  ASSUME [Next]_vars
  PROVE  UNCHANGED <<use_scheduler, line, limit>>
<1> USE DEF config
<1>1. ASSUME NEW c \in Call, Subscribe(c) \/ Thread(c) PROVE UNCHANGED config
  BY <1>1 DEF Subscribe, Thread, RunRpc, Failure, schedVars
<1>2. CASE Wake \/ PollEmpty \/ Pop \/ Join \/ Finish
  BY <1>2 DEF Wake, PollEmpty, Pop, Join, Finish
<1> QED
  BY <1>1, <1>2, Steps DEF vars, schedVars

\* A thread reads sleep_map and what the scheduler holds, and writes neither;
\* one that starts asleep goes on only once it has been woken.
LEMMA ThreadFrame ==
  ASSUME TypeOK, NEW c \in Call, Thread(c)
  PROVE  /\ UNCHANGED <<schedVars, sleep_map>>
         /\ \A d \in Call \ {c} :
              pc'[d] = pc[d] /\ sent'[d] = sent[d] /\ overrun'[d] = overrun[d]
         /\ pc[c] \notin {"none", "exited"} /\ pc'[c] \notin {"none", "asleep"}
         /\ pc[c] = "report" <=> pc'[c] = "exited"
         /\ pc[c] = "asleep" => MayRun(c)
<1>0. /\ pc \in [Call -> {"none", "asleep", "connect", "open", "write", "wait",
                         "finish", "report", "exited"}]
      /\ sent \in [Call -> Nat] /\ overrun \in [Call -> Nat]
  BY DEF TypeOK
<1>1. UNCHANGED <<schedVars, sleep_map>>
  BY DEF Thread, RunRpc, Failure, Awaken, Connect, Stub, Wait, Broken, Write,
         Unsubscribe, Report
<1>2. /\ \A d \in Call \ {c} : pc'[d] = pc[d]
      /\ pc[c] \notin {"none", "exited"} /\ pc'[c] \notin {"none", "asleep"}
      /\ pc[c] = "report" <=> pc'[c] = "exited"
      /\ pc[c] = "asleep" => MayRun(c)
  BY <1>0 DEF Goto, Thread, RunRpc, Failure, Awaken, Connect, Stub, Wait, Broken,
              Write, AfterWrite, Unsubscribe, Report
<1>3. \A d \in Call \ {c} : sent'[d] = sent[d] /\ overrun'[d] = overrun[d]
  BY <1>0 DEF Thread, RunRpc, Failure, Awaken, Connect, Stub, Wait, Broken, Write,
              Unsubscribe, Report, callVars
<1> QED
  BY <1>1, <1>2, <1>3

\* Only a call of the table is chosen, the best of it.
LEMMA Maximum ==
  ASSUME TypeOK, NEW m, NEW table, table \subseteq Call, IsMaximum(m, table)
  PROVE  /\ m = none <=> table = {}
         /\ m # none => m \in table /\ m \in Call
         /\ \A c \in table : /\ line[c].priority <= line[m].priority
                             /\ line[c].priority = line[m].priority => m <= c
<1>1. \A c \in Call : c \in Int /\ c # none /\ line[c].priority \in Int
  BY DEF TypeOK, Line, Call, none
<1> QED
  BY <1>1 DEF IsMaximum

-----------------------------------------------------------------------------
(* The parts of the invariant, each preserved by every step *)

\* Threads go on being started in the order of the file.
LEMMA NumberedStep ==
  ASSUME Inv, [Next]_vars
  PROVE  Numbered'
<1>0. /\ TypeOK /\ Numbered /\ Tabled /\ Chosen /\ next \in Int /\ Call \subseteq Int
      /\ NumCalls \in Nat /\ none \notin Call
      /\ priorities \subseteq Call
      /\ \A c \in Call : c <= NumCalls
  BY CppThreads2Assumption DEF Inv, TypeOK, Call, none
<1>t. /\ pc \in [Call -> {"none", "asleep", "connect", "open", "write", "wait",
                         "finish", "report", "exited"}]
      /\ sleep_map \in [Call -> BOOLEAN]
  BY <1>0 DEF TypeOK
<1> USE DEF Numbered
<1>1. CASE UNCHANGED vars \/ Pop
  BY <1>0, <1>1 DEF vars, schedVars, callVars, Pop
<1>2. ASSUME NEW c \in Call, Subscribe(c) PROVE Numbered'
  <2>1. /\ sched = "read" /\ c = next /\ next' = next /\ sched' \in {"wake", "poll"}
        /\ sent' = sent
    BY <1>2 DEF Subscribe
  <2>2. \A d \in Call : sleep_map'[d] => sleep_map[d]
    BY <1>2, <1>t DEF Subscribe
  <2>3. \A d \in Call : d # c => pc'[d] = pc[d]
    BY <1>2, <1>t DEF Subscribe
  <2>4. sched' = "wake" <=> pc'[c] = "none"
    BY <1>0, <1>2, <1>t, <2>1 DEF Subscribe
  <2> QED
    BY <1>0, <2>1, <2>2, <2>3, <2>4
<1>3. CASE Wake
  <2>1. max_id = next /\ max_id \in Call
    BY <1>0, <1>3 DEF Wake, Chosen, Call, TypeOK
  <2>2. /\ \A d \in Call : d # next => pc'[d] = pc[d] /\ sleep_map'[d] = sleep_map[d]
        /\ pc'[next] = "connect" /\ sched = "wake" /\ sched' = "poll" /\ next' = next
        /\ sent' = sent
    BY <1>3, <1>t, <2>1 DEF Wake, callVars
  <2>3. next <= NumCalls /\ \A d \in Call : pc[d] = "none" <=> d >= next
    BY <1>0, <2>2
  <2>4. \A d \in Call : pc'[d] = "none" <=> d > next
    BY <1>0, <2>2, <2>3
  <2>5. \A d \in Call : pc'[d] = "none" => ~sleep_map'[d] /\ sent'[d] = 0
    BY <1>0, <2>2
  <2> QED
    BY <2>2, <2>3, <2>4, <2>5
<1>4. CASE PollEmpty
  BY <1>0, <1>4 DEF PollEmpty, AfterPoll, NextLine, callVars
<1>5. CASE Join
  <2>1. /\ sched \in {"poll", "drain"} /\ leaving \in priorities
        /\ UNCHANGED <<pc, sent>> /\ AfterPoll
    BY <1>0, <1>5 DEF Join, Joinable, Tabled, callVars
  <2>2. \A d \in Call : sleep_map'[d] => sleep_map[d] \/ pc[d] # "none"
    <3>1. CASE ~use_scheduler
      BY <1>5, <3>1 DEF Join
    <3>2. CASE use_scheduler
      <4>1. PICK m \in Call \cup {none} : IsMaximum(m, priorities') /\ Choose(m)
        BY <1>5, <3>2 DEF Join
      <4>2. m # none => m \in priorities
        BY <1>0, <1>5, <4>1, Maximum DEF Join
      <4>3. m # none => pc[m] # "none"
        BY <1>0, <2>1, <4>2 DEF Tabled
      <4> QED
        BY <1>0, <4>1, <4>3 DEF Choose
    <3> QED
      BY <3>1, <3>2
  <2> QED
    BY <1>0, <2>1, <2>2 DEF AfterPoll, NextLine
<1>6. CASE Finish
  BY <1>0, <1>6 DEF Finish
<1>7. ASSUME NEW c \in Call, Thread(c) PROVE Numbered'
  <2>1. /\ UNCHANGED <<sched, next, sleep_map>>
        /\ \A d \in Call : /\ pc'[d] = "none" <=> pc[d] = "none"
                           /\ pc[d] = "none" => sent'[d] = sent[d]
    BY <1>0, <1>7, ThreadFrame DEF schedVars
  <2> QED
    BY <1>0, <2>1
<1> QED
  BY <1>1, <1>2, <1>3, <1>4, <1>5, <1>6, <1>7, Steps

\* A call enters the table when its line is read; its id goes through the
\* queue to the scheduler once.
LEMMA TabledStep ==
  ASSUME Inv, [Next]_vars
  PROVE  Tabled'
<1>0. /\ TypeOK /\ Numbered /\ Tabled /\ Chosen
      /\ priorities \subseteq Call /\ unsubscribe \in Seq(Call)
      /\ leaving \in Call \cup {none} /\ none \notin Call
      /\ pc \in [Call -> {"none", "asleep", "connect", "open", "write", "wait",
                         "finish", "report", "exited"}]
      /\ Len(unsubscribe) \in Nat /\ \A i \in 1 .. Len(unsubscribe) : unsubscribe[i] \in Call
  <2>1. TypeOK /\ Numbered /\ Tabled /\ Chosen
    BY DEF Inv
  <2>2. unsubscribe \in Seq(Call) /\ none \notin Call
    BY <2>1 DEF TypeOK, Call, none
  <2> QED
    BY <2>1, <2>2 DEF TypeOK
<1> USE DEF Tabled
<1>1. CASE UNCHANGED vars \/ PollEmpty \/ Finish
  BY <1>0, <1>1 DEF vars, schedVars, callVars, PollEmpty, AfterPoll, Finish
<1>2. ASSUME NEW c \in Call, Subscribe(c) PROVE Tabled'
  <2>1. /\ sched = "read" /\ c = next /\ next' = next /\ priorities' = priorities \cup {c}
        /\ UNCHANGED <<leaving, unsubscribe>> /\ leaving = none /\ pc[c] = "none"
    BY <1>0, <1>2 DEF Subscribe, Numbered, TypeOK
  <2>2. \A d \in Call : d # c => pc'[d] = pc[d]
    BY <1>2, <1>0 DEF Subscribe
  <2>3. pc'[c] # "none" \/ sched' = "wake"
    BY <1>0, <1>2 DEF Subscribe
  <2> QED
    BY <1>0, <2>1, <2>2, <2>3
<1>3. CASE Wake
  <2>1. max_id = next /\ max_id \in priorities /\ pc[next] = "none"
    <3>1. next \in Int /\ next >= 1 /\ Call \subseteq Int /\ none < 1
      BY <1>0 DEF TypeOK, Call, none
    <3>2. max_id = next /\ IsMaximum(max_id, priorities)
      BY <1>0, <1>3 DEF Wake, Chosen
    <3>3. max_id \in priorities
      BY <3>1, <3>2 DEF IsMaximum
    <3> QED
      BY <1>0, <1>3, <3>1, <3>2, <3>3 DEF Wake, Numbered
  <2>2. /\ \A d \in Call : d # next => pc'[d] = pc[d]
        /\ pc'[next] = "connect" /\ sched = "wake" /\ leaving = none
        /\ UNCHANGED <<next, priorities, leaving, unsubscribe>>
    BY <1>3, <1>0, <2>1 DEF Wake
  <2>3. \A i \in 1 .. Len(unsubscribe) : unsubscribe[i] # next
    BY <1>0, <2>1
  <2> QED
    BY <1>0, <2>1, <2>2, <2>3
<1>4. CASE Pop
  <2>1. /\ leaving' = unsubscribe[1] /\ unsubscribe' \in Seq(Call)
        /\ Len(unsubscribe') = Len(unsubscribe) - 1 /\ 1 \in 1 .. Len(unsubscribe)
        /\ \A i \in 1 .. Len(unsubscribe') :
             unsubscribe'[i] = unsubscribe[i + 1] /\ i + 1 \in 1 .. Len(unsubscribe)
    BY <1>0, <1>4, HeadTailProperties, EmptySeq DEF Pop
  <2>2. /\ UNCHANGED <<priorities, pc, sched, next>> /\ sched \in {"poll", "drain"}
    BY <1>4 DEF Pop
  <2>3. leaving' \in priorities /\ pc[leaving'] \in {"report", "exited"}
    BY <1>0, <2>1
  <2>4. \A i \in 1 .. Len(unsubscribe') :
          /\ unsubscribe'[i] \in priorities /\ unsubscribe'[i] # leaving'
          /\ pc[unsubscribe'[i]] \in {"report", "exited"}
          /\ \A j \in 1 .. Len(unsubscribe') : unsubscribe'[i] = unsubscribe'[j] => i = j
    <3> SUFFICES ASSUME NEW i \in 1 .. Len(unsubscribe')
                 PROVE  /\ unsubscribe'[i] \in priorities /\ unsubscribe'[i] # leaving'
                        /\ pc[unsubscribe'[i]] \in {"report", "exited"}
                        /\ \A j \in 1 .. Len(unsubscribe') :
                             unsubscribe'[i] = unsubscribe'[j] => i = j
      OBVIOUS
    <3>1. /\ unsubscribe'[i] = unsubscribe[i + 1] /\ i + 1 \in 1 .. Len(unsubscribe)
          /\ i + 1 # 1
      BY <2>1
    <3>2. \A j \in 1 .. Len(unsubscribe') : unsubscribe'[i] = unsubscribe'[j] => i = j
      BY <1>0, <2>1, <3>1
    <3> QED
      BY <1>0, <2>1, <3>1, <3>2
  <2> QED
    BY <1>0, <2>2, <2>3, <2>4
<1>5. CASE Join
  <2>1. /\ sched \in {"poll", "drain"} /\ leaving \in priorities
        /\ pc[leaving] = "exited" /\ leaving' = none /\ priorities' = priorities \ {leaving}
        /\ UNCHANGED <<pc, unsubscribe>>
    BY <1>0, <1>5 DEF Join, Joinable
  <2> QED
    BY <1>0, <2>1
<1>6. ASSUME NEW c \in Call, Thread(c) PROVE Tabled'
  <2>1. /\ UNCHANGED <<priorities, sched, next, leaving>>
        /\ \A d \in Call \ {c} : pc'[d] = pc[d]
        /\ c \in priorities /\ pc'[c] # "none" /\ pc[c] \notin {"none", "exited"}
        /\ pc[c] = "report" => pc'[c] = "exited"
    BY <1>0, <1>6, ThreadFrame DEF schedVars
  <2>2. CASE UNCHANGED unsubscribe
    <3>1. \A d \in Call :
            /\ pc[d] \in {"report", "exited"} => pc'[d] \in {"report", "exited"}
            /\ d \in priorities /\ pc[d] # "none" => pc'[d] # "none"
            /\ pc'[d] \notin {"none", "exited"} => d \in priorities
      BY <1>0, <2>1
    <3> QED
      BY <1>0, <2>1, <2>2, <3>1
  <2>3. CASE Unsubscribe(c)
    <3>1. /\ unsubscribe' = Append(unsubscribe, c) /\ pc[c] = "finish" /\ pc'[c] = "report"
      BY <1>0, <2>3 DEF Unsubscribe, Goto
    <3>2. /\ Len(unsubscribe') = Len(unsubscribe) + 1
          /\ \A i \in 1 .. Len(unsubscribe) : unsubscribe'[i] = unsubscribe[i]
          /\ unsubscribe'[Len(unsubscribe) + 1] = c
      BY <1>0, <3>1, AppendProperties
    <3>3. \A i \in 1 .. Len(unsubscribe) : unsubscribe[i] # c
      BY <1>0, <3>1
    <3>4. ASSUME NEW i \in 1 .. Len(unsubscribe')
          PROVE  /\ unsubscribe'[i] \in priorities /\ unsubscribe'[i] # leaving
                 /\ pc'[unsubscribe'[i]] \in {"report", "exited"}
                 /\ \A j \in 1 .. Len(unsubscribe') : unsubscribe'[i] = unsubscribe'[j] => i = j
      <4>1. CASE i = Len(unsubscribe) + 1
        BY <1>0, <2>1, <3>1, <3>2, <3>3, <4>1
      <4>2. CASE i \in 1 .. Len(unsubscribe)
        BY <1>0, <2>1, <3>1, <3>2, <3>3, <4>2
      <4> QED
        BY <1>0, <3>2, <4>1, <4>2
    <3>5. leaving # none => pc'[leaving] \in {"report", "exited"}
      BY <1>0, <2>1, <3>1
    <3> QED
      BY <1>0, <2>1, <3>1, <3>4, <3>5
  <2> QED
    BY <1>6, <2>2, <2>3 DEF Thread, RunRpc, Failure, Awaken, Connect, Stub, Wait, Broken,
                Write, Report
<1> QED
  BY <1>1, <1>2, <1>3, <1>4, <1>5, <1>6, Steps

\* The cached maximum stays the table's: a newcomer replaces it or does not
\* outrank it, and it is chosen again whenever a call leaves.
LEMMA ChosenStep ==
  ASSUME Inv, [Next]_vars
  PROVE  Chosen'
<1>0. /\ TypeOK /\ Numbered /\ Tabled /\ Chosen
      /\ priorities \subseteq Call /\ none = -1
      /\ \A c \in Call : c \in Nat /\ c > 0 /\ line[c].priority \in Nat /\ line[c].priority > 0
  <2>1. TypeOK /\ Numbered /\ Tabled /\ Chosen
    BY DEF Inv
  <2>2. \A c \in Call : c \in Nat /\ c > 0 /\ line[c].priority \in Nat /\ line[c].priority > 0
    <3>1. line \in [Call -> Line]
      BY <2>1 DEF TypeOK
    <3> QED
      BY <3>1 DEF Line, Call
  <2> QED
    BY <2>1, <2>2 DEF TypeOK, none
<1>c. UNCHANGED <<use_scheduler, line>>
  BY ConfigIsFixed
<1> USE DEF Chosen, IsMaximum
<1>1. CASE UNCHANGED vars \/ PollEmpty \/ Pop \/ Finish
  BY <1>0, <1>1 DEF vars, schedVars, config, PollEmpty, AfterPoll, NextLine, Pop, Finish
<1>2. ASSUME NEW c \in Call, Subscribe(c) PROVE Chosen'
  <2>1. CASE use_scheduler /\ Preempts(line[c].priority)
    BY <1>0, <1>c, <1>2, <2>1 DEF Subscribe, Preempts
  <2>2. CASE use_scheduler /\ ~Preempts(line[c].priority)
    <3>1. /\ UNCHANGED <<max_id, max_priority>> /\ sched' = "poll"
          /\ priorities' = priorities \cup {c} /\ c = next
      BY <1>2, <2>2 DEF Subscribe
    <3>2. max_id # none /\ max_id \in priorities /\ line[c].priority <= line[max_id].priority
      BY <1>0, <2>2 DEF Preempts
    <3>3. max_id < c
      BY <1>0, <1>2, <3>1, <3>2 DEF Numbered, Subscribe, Tabled, TypeOK
    <3> QED
      BY <1>0, <1>c, <2>2, <3>1, <3>2, <3>3
  <2>3. CASE ~use_scheduler
    BY <1>0, <1>c, <1>2, <2>3 DEF Subscribe
  <2> QED
    BY <2>1, <2>2, <2>3
<1>3. CASE Wake
  BY <1>0, <1>c, <1>3 DEF Wake
<1>4. CASE Join
  <2>1. CASE use_scheduler
    <3>1. PICK m \in Call \cup {none} : IsMaximum(m, priorities') /\ Choose(m)
      BY <1>4, <2>1 DEF Join
    <3>2. sched' # "wake"
      BY <1>4 DEF Join, AfterPoll, NextLine
    <3> QED
      BY <1>c, <2>1, <3>1, <3>2 DEF Choose
  <2>2. CASE ~use_scheduler
    BY <1>0, <1>c, <1>4, <2>2 DEF Join, AfterPoll, NextLine
  <2> QED
    BY <2>1, <2>2
<1>5. ASSUME NEW c \in Call, Thread(c) PROVE Chosen'
  BY <1>0, <1>5, ThreadFrame DEF schedVars, config
<1> QED
  BY <1>1, <1>2, <1>3, <1>4, <1>5, Steps

\* The call that preempts is woken after the one it preempts has been put to
\* sleep; a call that leaves is followed by the best that is left.
LEMMA AwakeStep ==
  ASSUME Inv, [Next]_vars
  PROVE  Awake'
<1> SUFFICES ASSUME use_scheduler
             PROVE  /\ \A c \in priorities' : sleep_map'[c] => c = max_id'
                    /\ sched' # "wake" /\ max_id' # none => sleep_map'[max_id']
  BY ConfigIsFixed DEF Awake
<1>0. /\ TypeOK /\ Numbered /\ Tabled
      /\ IsMaximum(max_id, priorities) /\ (sched = "wake" => max_id = next)
      /\ \A c \in priorities : sleep_map[c] => c = max_id
      /\ sched # "wake" /\ max_id # none => sleep_map[max_id]
  BY DEF Inv, Chosen, Awake
<1>t. /\ priorities \subseteq Call /\ none \notin Call /\ max_id \in Call \cup {none}
      /\ sleep_map \in [Call -> BOOLEAN]
  BY <1>0 DEF TypeOK, Call, none
<1>1. CASE UNCHANGED vars \/ PollEmpty \/ Pop \/ Finish
  BY <1>0, <1>1 DEF vars, schedVars, PollEmpty, AfterPoll, NextLine, Pop, Finish
<1>2. ASSUME NEW c \in Call, Subscribe(c)
      PROVE  /\ \A d \in priorities' : sleep_map'[d] => d = max_id'
             /\ sched' # "wake" /\ max_id' # none => sleep_map'[max_id']
  <2>1. ~sleep_map[c] /\ priorities' = priorities \cup {c}
    BY <1>0, <1>2 DEF Subscribe, Numbered, TypeOK
  <2>2. CASE Preempts(line[c].priority)
    <3>1. max_id' = c /\ sched' = "wake"
      BY <1>2, <2>2 DEF Subscribe
    <3>2. \A d \in Call : sleep_map'[d] => sleep_map[d] /\ d # max_id
      BY <1>2, <1>0, <1>t, <2>2 DEF Subscribe, IsMaximum
    <3> QED
      BY <1>0, <1>t, <2>1, <3>1, <3>2
  <2>3. CASE ~Preempts(line[c].priority)
    BY <1>0, <1>2, <2>1, <2>3 DEF Subscribe
  <2> QED
    BY <2>2, <2>3
<1>3. CASE Wake
  <2>1. max_id' = max_id /\ priorities' = priorities
    BY <1>3 DEF Wake
  <2>2. \A d \in Call : sleep_map'[d] <=> (sleep_map[d] \/ d = max_id)
    BY <1>3, <1>t DEF Wake
  <2> QED
    BY <1>0, <1>t, <2>1, <2>2
<1>4. CASE Join
  <2>1. PICK m \in Call \cup {none} : IsMaximum(m, priorities') /\ Choose(m)
    BY <1>4 DEF Join
  <2>2. priorities' = priorities \ {leaving} /\ leaving \in priorities /\ sched # "wake"
    BY <1>0, <1>4 DEF Join, Joinable, Tabled
  <2>3. max_id' = m /\ \A d \in Call : sleep_map'[d] <=> (d = m \/ sleep_map[d])
    BY <2>1 DEF Choose
  <2>4. ASSUME NEW d \in priorities', sleep_map[d] PROVE d = m
    <3>1. d = max_id /\ d \in priorities
      BY <1>0, <2>2, <2>4
    <3>2. /\ m # none => m \in priorities' /\ m \in Call
          /\ \A e \in priorities' : /\ line[e].priority <= line[m].priority
                                    /\ line[e].priority = line[m].priority => m <= e
          /\ m = none <=> priorities' = {}
      BY <1>0, <1>t, <2>1, <2>2, Maximum
    <3>3. \A e \in priorities : /\ line[e].priority <= line[d].priority
                                /\ line[e].priority = line[d].priority => d <= e
      BY <1>0, <1>t, <3>1, Maximum
    <3>4. \A e \in Call : line[e].priority \in Int /\ e \in Int
      BY <1>0 DEF TypeOK, Line, Call
    <3> QED
      BY <1>t, <2>2, <2>4, <3>1, <3>2, <3>3, <3>4
  <2> QED
    BY <1>t, <2>1, <2>2, <2>3, <2>4
<1>5. ASSUME NEW c \in Call, Thread(c)
      PROVE  UNCHANGED <<priorities, sleep_map, max_id, sched>>
  BY <1>0, <1>5, ThreadFrame DEF schedVars
<1> QED
  BY <1>0, <1>1, <1>2, <1>3, <1>4, <1>5, Steps

\* A later call of the same priority neither preempts nor is chosen.
LEMMA SerialStep ==
  ASSUME Inv, [Next]_vars
  PROVE  Serial'
<1> SUFFICES ASSUME use_scheduler, NEW c \in Call, NEW d \in Call,
                    c < d, line[c].priority = line[d].priority,
                    c \in priorities', pc'[d] # "none"
             PROVE  pc'[d] = "asleep" /\ ~sleep_map'[d] /\ sent'[d] = 0
  BY ConfigIsFixed DEF Serial
<1>0. /\ TypeOK /\ Numbered /\ Tabled
      /\ IsMaximum(max_id, priorities) /\ (sched = "wake" => max_id = next)
      /\ max_priority = IF max_id = none THEN -1 ELSE line[max_id].priority
      /\ c \in priorities /\ pc[d] # "none"
         => pc[d] = "asleep" /\ ~sleep_map[d] /\ sent[d] = 0
  BY DEF Inv, Chosen, Serial
<1>t. /\ priorities \subseteq Call /\ none \notin Call /\ max_id \in Call \cup {none}
      /\ sleep_map \in [Call -> BOOLEAN]
      /\ pc \in [Call -> {"none", "asleep", "connect", "open", "write", "wait",
                         "finish", "report", "exited"}]
      /\ next \in Int /\ \A e \in Call : e \in Int /\ line[e].priority \in Int
  <2>1. priorities \subseteq Call /\ max_id \in Call \cup {none} /\ next \in Int
    BY <1>0 DEF TypeOK
  <2>2. line \in [Call -> Line]
    BY <1>0 DEF TypeOK
  <2>3. \A e \in Call : e \in Int /\ line[e].priority \in Int /\ e # none
    BY <2>2 DEF Line, Call, none
  <2> QED
    BY <1>0, <2>1, <2>3 DEF TypeOK
<1>1. CASE UNCHANGED vars \/ PollEmpty \/ Pop \/ Finish
  BY <1>0, <1>1 DEF vars, schedVars, callVars, PollEmpty, Pop, Finish
<1>2. ASSUME NEW e \in Call, Subscribe(e)
      PROVE  pc'[d] = "asleep" /\ ~sleep_map'[d] /\ sent'[d] = 0
  <2>1. /\ e = next /\ priorities' = priorities \cup {e} /\ sent' = sent
        /\ pc[d] = "none" <=> d >= next
        /\ \A f \in Call : f # e => pc'[f] = pc[f]
    BY <1>0, <1>t, <1>2 DEF Subscribe, Numbered
  <2>2. \A f \in Call : sleep_map'[f] => sleep_map[f]
    BY <1>2, <1>t DEF Subscribe
  <2>3. CASE d = e
    <3>1. c \in priorities /\ ~sleep_map[d] /\ sent[d] = 0
      BY <1>0, <1>t, <2>1, <2>3 DEF Numbered
    <3>2. line[d].priority <= max_priority /\ max_priority \in Int
      BY <1>0, <1>t, <3>1, Maximum
    <3>3. pc'[d] = "asleep"
      BY <1>2, <1>t, <2>3, <3>2 DEF Subscribe, Preempts
    <3> QED
      BY <2>1, <2>2, <3>1, <3>3
  <2>4. CASE d # e
    <3>1. pc'[d] = pc[d] /\ d < next /\ c # e
      BY <1>t, <2>1, <2>4
    <3> QED
      BY <1>0, <2>1, <2>2, <3>1
  <2> QED
    BY <2>3, <2>4
<1>3. CASE Wake
  <2>1. /\ max_id = next /\ UNCHANGED <<priorities, sent>>
        /\ \A f \in Call : f # max_id => pc'[f] = pc[f] /\ sleep_map'[f] = sleep_map[f]
    BY <1>0, <1>t, <1>3 DEF Wake, callVars
  <2>2. d # max_id
    <3>1. c \in priorities /\ (line[c].priority = line[max_id].priority => max_id <= c)
      BY <1>0, <1>t, <2>1, Maximum
    <3> QED
      BY <1>t, <3>1
  <2> QED
    BY <1>0, <2>1, <2>2
<1>4. CASE Join
  <2>1. PICK m \in Call \cup {none} : IsMaximum(m, priorities') /\ Choose(m)
    BY <1>4 DEF Join
  <2>2. priorities' = priorities \ {leaving} /\ UNCHANGED <<pc, sent>>
    BY <1>4 DEF Join, callVars
  <2>3. d # m
    BY <1>0, <1>t, <2>1, <2>2, Maximum
  <2> QED
    BY <1>0, <2>1, <2>2, <2>3 DEF Choose
<1>5. ASSUME NEW e \in Call, Thread(e)
      PROVE  pc'[d] = "asleep" /\ ~sleep_map'[d] /\ sent'[d] = 0
  <2>1. /\ UNCHANGED <<priorities, sleep_map>>
        /\ \A f \in Call \ {e} : pc'[f] = pc[f] /\ sent'[f] = sent[f]
        /\ pc[e] # "none" /\ (pc[e] = "asleep" => sleep_map[e])
    BY <1>0, <1>5, ThreadFrame DEF schedVars, MayRun
  <2> QED
    BY <1>0, <2>1
<1> QED
  BY <1>1, <1>0, <1>2, <1>3, <1>4, <1>5, Steps

\* One look at sleep_map lets a call write one number.
LEMMA DrainingStep ==
  ASSUME Inv, [Next]_vars
  PROVE  Draining'
<1> SUFFICES ASSUME use_scheduler, NEW c \in Call
             PROVE  /\ overrun'[c] <= 1
                    /\ pc'[c] \in {"open", "write"} /\ ~sleep_map'[c] => overrun'[c] = 0
  BY ConfigIsFixed DEF Draining
<1>0. /\ TypeOK /\ Chosen
      /\ overrun[c] <= 1
      /\ pc[c] \in {"open", "write"} /\ ~sleep_map[c] => overrun[c] = 0
  BY DEF Inv, Draining
<1>t. /\ sleep_map \in [Call -> BOOLEAN] /\ overrun \in [Call -> Nat]
      /\ pc \in [Call -> {"none", "asleep", "connect", "open", "write", "wait",
                         "finish", "report", "exited"}]
  BY <1>0 DEF TypeOK
<1>1. CASE UNCHANGED vars \/ PollEmpty \/ Pop \/ Finish
  BY <1>0, <1>1 DEF vars, schedVars, callVars, PollEmpty, Pop, Finish
<1>2. ASSUME NEW e \in Call, Subscribe(e)
      PROVE  /\ overrun'[c] <= 1
             /\ pc'[c] \in {"open", "write"} /\ ~sleep_map'[c] => overrun'[c] = 0
  <2>1. pc'[c] \in {"open", "write"} => pc[c] \in {"open", "write"}
    BY <1>2, <1>t DEF Subscribe
  <2>2. \/ sleep_map'[c] = sleep_map[c] /\ overrun'[c] = overrun[c]
        \/ overrun'[c] = 0
    BY <1>2, <1>t DEF Subscribe
  <2> QED
    BY <1>0, <2>1, <2>2
<1>3. CASE Wake
  <2>1. overrun' = overrun
    BY <1>3 DEF Wake, callVars
  <2>2. pc'[c] \in {"open", "write"} => pc[c] \in {"open", "write"}
    BY <1>3, <1>t DEF Wake
  <2>3. sleep_map[c] => sleep_map'[c]
    BY <1>3, <1>t DEF Wake
  <2> QED
    BY <1>0, <2>1, <2>2, <2>3
<1>4. CASE Join
  <2>1. UNCHANGED <<pc, overrun>>
    BY <1>4 DEF Join, callVars
  <2>2. sleep_map[c] => sleep_map'[c]
    BY <1>4 DEF Join, Choose
  <2> QED
    BY <1>0, <2>1, <2>2
<1>5. ASSUME NEW e \in Call, Thread(e)
      PROVE  /\ overrun'[c] <= 1
             /\ pc'[c] \in {"open", "write"} /\ ~sleep_map'[c] => overrun'[c] = 0
  <2>1. UNCHANGED sleep_map
    BY <1>0, <1>5, ThreadFrame
  <2>2. CASE e # c
    BY <1>0, <1>5, <2>1, <2>2, ThreadFrame
  <2>3. CASE e = c /\ Write(c)
    <3>1. /\ pc[c] = "write" /\ pc'[c] \in {"wait", "finish"}
          /\ overrun'[c] = IF sleep_map[c] THEN 0 ELSE overrun[c] + 1
      BY <1>t, <2>3 DEF Write, AfterWrite, Goto
    <3> QED
      BY <1>0, <3>1
  <2>4. CASE e = c /\ ~Write(c)
    <3>1. UNCHANGED overrun
      BY <1>5, <2>4 DEF Thread, RunRpc, Failure, Awaken, Connect, Stub, Wait, Broken,
                  Unsubscribe, Report, callVars
    <3>2. pc'[c] \in {"open", "write"} => pc[c] \in {"open", "write"} \/ sleep_map[c]
      BY <1>5, <1>t, <2>4 DEF Thread, RunRpc, Failure, Awaken, Connect, Stub, Wait, Broken,
                  Unsubscribe, Report, Goto, MayRun
    <3> QED
      BY <1>0, <2>1, <3>1, <3>2
  <2> QED
    BY <2>2, <2>3, <2>4
<1> QED
  BY <1>0, <1>1, <1>2, <1>3, <1>4, <1>5, Steps

\* A thread that ends has put its result in the output file, and the total
\* follows when every thread has ended.
LEMMA ReportedStep ==
  ASSUME Inv, [Next]_vars
  PROVE  Reported'
<1>0. /\ TypeOK /\ Numbered /\ Tabled /\ Reported /\ NumCalls \in Nat
      /\ output \in Seq(Call \cup {Total_time}) /\ Len(output) \in Nat
      /\ pc \in [Call -> {"none", "asleep", "connect", "open", "write", "wait",
                         "finish", "report", "exited"}]
      /\ IsFiniteSet(Ended) /\ Ended \subseteq Call
  <2>1. TypeOK /\ Numbered /\ Tabled /\ Reported /\ NumCalls \in Nat
    BY CppThreads2Assumption DEF Inv
  <2>2. IsFiniteSet(Call)
    BY <2>1, FS_Interval DEF Call
  <2>3. Ended \subseteq Call /\ IsFiniteSet(Ended)
    BY <2>2, FS_Subset DEF Ended
  <2> QED
    BY <2>1, <2>3 DEF TypeOK
<1>1. ASSUME Ended' = Ended, UNCHANGED <<output, sched, priorities>>
      PROVE  Reported'
  BY <1>0, <1>1 DEF Reported, Results
<1>2. ASSUME Ended' = Ended, UNCHANGED output, sched # "returned", sched' # "returned"
      PROVE  Reported'
  BY <1>0, <1>2 DEF Reported, Results
<1>3. CASE UNCHANGED vars
  BY <1>1, <1>3 DEF vars, schedVars, callVars, Ended
<1>4. ASSUME NEW c \in Call, Subscribe(c) PROVE Reported'
  <2>1. sched = "read" /\ sched' \in {"wake", "poll"} /\ UNCHANGED output /\ c = next
    BY <1>4 DEF Subscribe
  <2>2. pc[c] = "none"
    BY <1>0, <2>1 DEF Numbered, TypeOK
  <2>3. \A d \in Call : pc'[d] = "exited" <=> pc[d] = "exited"
    BY <1>0, <1>4, <2>2 DEF Subscribe
  <2> QED
    BY <1>2, <2>1, <2>3 DEF Ended
<1>5. CASE Wake
  <2>1. sched = "wake" /\ sched' = "poll" /\ UNCHANGED output
    BY <1>5 DEF Wake, callVars
  <2>2. \A d \in Call : pc'[d] = "exited" <=> pc[d] = "exited"
    <3>1. max_id \in Call => pc[max_id] = "none"
      BY <1>0, <2>1 DEF Inv, Chosen, Numbered, TypeOK
    <3> QED
      BY <1>0, <1>5, <3>1 DEF Wake
  <2> QED
    BY <1>2, <2>1, <2>2 DEF Ended
<1>6. CASE PollEmpty \/ Pop \/ Join
  <2>1. sched # "returned" /\ sched' # "returned" /\ UNCHANGED <<output, pc>>
    BY <1>0, <1>6 DEF PollEmpty, Pop, Join, Joinable, Tabled, AfterPoll, NextLine, callVars
  <2> QED
    BY <1>2, <2>1 DEF Ended
<1>7. CASE Finish
  <2>1. /\ sched # "returned" /\ sched' = "returned" /\ priorities' = {} /\ priorities = {}
        /\ output' = Append(output, Total_time) /\ pc' = pc
        /\ next = NumCalls + 1 /\ sched # "poll"
    BY <1>0, <1>7 DEF Finish, Numbered
  <2>2. Ended = Call
    BY <1>0, <2>1 DEF Numbered, Tabled, Ended, Call
  <2>3. /\ Len(output') = Len(output) + 1 /\ output'[Len(output) + 1] = Total_time
        /\ \A i \in 1 .. Len(output) : output'[i] = output[i]
    <3>1. Total_time \in Call \cup {Total_time}
      OBVIOUS
    <3> QED
      BY <1>0, <2>1, <3>1, AppendProperties
  <2>4. Results' = Results /\ Ended' = Ended /\ Results = Len(output)
    BY <1>0, <2>1, <2>3 DEF Results, Ended
  <2> QED
    BY <1>0, <2>1, <2>2, <2>3, <2>4 DEF Reported
<1>8. ASSUME NEW c \in Call, Thread(c) PROVE Reported'
  <2>1. /\ UNCHANGED <<sched, priorities>> /\ pc[c] # "exited"
        /\ \A d \in Call \ {c} : pc'[d] = pc[d]
        /\ pc[c] = "report" <=> pc'[c] = "exited"
    BY <1>0, <1>8, ThreadFrame DEF schedVars
  <2>2. CASE Report(c)
    <3>1. pc[c] = "report" /\ output' = Append(output, c)
      BY <2>2 DEF Report
    <3>2. /\ Len(output') = Len(output) + 1 /\ output'[Len(output) + 1] = c
          /\ \A i \in 1 .. Len(output) : output'[i] = output[i]
      BY <1>0, <3>1, AppendProperties
    <3>3. Ended' = Ended \cup {c} /\ c \notin Ended
      BY <1>0, <2>1, <3>1 DEF Ended
    <3>4. sched # "returned"
      BY <1>0, <3>3 DEF Reported
    <3>5. Cardinality(Ended') = Cardinality(Ended) + 1
      BY <1>0, <3>3, FS_AddElement
    <3>6. Results = Len(output) /\ Results' = Len(output) + 1
      BY <2>1, <3>2, <3>4 DEF Results
    <3>7. \A d \in Ended' : \E i \in 1 .. Results' : output'[i] = d
      BY <1>0, <3>2, <3>3, <3>6 DEF Reported
    <3> QED
      BY <1>0, <2>1, <3>4, <3>5, <3>6, <3>7 DEF Reported
  <2>3. CASE ~Report(c)
    <3>1. UNCHANGED output /\ pc[c] # "report"
      BY <1>8, <2>3 DEF Thread, RunRpc, Failure, Awaken, Connect, Stub, Wait, Broken,
                  Write, Unsubscribe, callVars
    <3> QED
      BY <1>0, <1>1, <2>1, <3>1 DEF Ended
  <2> QED
    BY <2>2, <2>3
<1> QED
  BY <1>3, <1>4, <1>5, <1>6, <1>7, <1>8, Steps

-----------------------------------------------------------------------------
(* What follows from the invariant *)

\* Every reachable state satisfies the inductive invariant.
THEOREM Invariance == Spec => []Inv
<1>1. Init => Inv
  <2> SUFFICES ASSUME Init PROVE Inv
    OBVIOUS
  <2>1. NumCalls \in Nat /\ Call \subseteq Int /\ \A c \in Call : 1 <= c /\ c <= NumCalls
    BY CppThreads2Assumption DEF Call
  <2>2. Numbered
    BY <2>1 DEF Init, Numbered
  <2>3. Tabled
    BY DEF Init, Tabled
  <2>4. Chosen /\ Awake /\ Serial /\ Draining
    BY DEF Init, Chosen, Awake, Serial, Draining, IsMaximum
  <2>5. Reported
    <3>1. Ended = {}
      BY DEF Init, Ended
    <3> QED
      BY <3>1, FS_EmptySet DEF Init, Reported, Results
  <2>6. TypeOK
    <3>1. line \in [Call -> Line]
      BY CppThreads2Assumption DEF Init
    <3> QED
      BY <2>1, <3>1, CppThreads2Assumption DEF Init, TypeOK, Call, none
  <2> QED
    BY <2>2, <2>3, <2>4, <2>5, <2>6 DEF Inv
<1>2. Inv /\ [Next]_vars /\ TypeOK' => Inv'
  BY NumberedStep, TabledStep, ChosenStep, AwakeStep, SerialStep, DrainingStep,
     ReportedStep DEF Inv
<1> QED
  BY <1>1, <1>2, TypeCorrect, PTL DEF Spec

\* Between two decisions of the scheduler exactly one call of the table is
\* awake, the first of the highest priority: what an application that asks
\* for --scheduler relies on.
THEOREM BestIsAwake == Spec => []OnlyTheBestIsAwake
<1>1. Inv => OnlyTheBestIsAwake
  BY Maximum DEF Inv, TypeOK, Chosen, Awake, OnlyTheBestIsAwake
<1> QED
  BY <1>1, Invariance, PTL

\* A call that is preempted writes at most one number more, however the
\* threads are scheduled.
THEOREM OverrunIsOne == Spec => []OneMoreWrite
<1>1. Inv => OneMoreWrite
  BY DEF Inv, Draining, OneMoreWrite
<1> QED
  BY <1>1, Invariance, PTL

\* Calls of one priority are served one after the other, in the order of the
\* input file.
THEOREM Serialised == Spec => []SerialWithinPriority
<1>1. Inv => SerialWithinPriority
  <2> SUFFICES ASSUME Inv, use_scheduler, NEW c \in Call, NEW d \in Call,
                      c < d, line[c].priority = line[d].priority,
                      pc[c] # "exited", pc[d] # "none"
               PROVE  sent[d] = 0 /\ pc[d] # "write"
    BY DEF SerialWithinPriority
  <2>1. TypeOK /\ Numbered /\ Tabled /\ Serial
    BY DEF Inv
  <2>2. next \in Int /\ c \in Int /\ d \in Int
    BY <2>1 DEF TypeOK, Call
  <2>3. pc[c] # "none"
    BY <2>1, <2>2 DEF Numbered
  <2> QED
    BY <2>1, <2>3 DEF Tabled, Serial
<1> QED
  BY <1>1, Invariance, PTL

\* When main returns the output file has one result per line of the input
\* file and then the total.
THEOREM TotalComesLast == Spec => []TotalIsLast
<1>1. Inv => TotalIsLast
  <2> SUFFICES ASSUME Inv, sched = "returned" PROVE TotalIsLast
    BY DEF TotalIsLast
  <2>1. /\ Ended = Call /\ Len(output) - 1 = Cardinality(Call)
        /\ output[Len(output)] = Total_time
        /\ \A c \in Call : \E i \in 1 .. Len(output) - 1 : output[i] = c
    BY DEF Inv, Reported, Results
  <2>2. Cardinality(Call) = NumCalls /\ Len(output) \in Nat /\ NumCalls \in Nat
    <3>1. output \in Seq(Call \cup {Total_time}) /\ NumCalls \in Nat
      BY CppThreads2Assumption DEF Inv, TypeOK
    <3>2. Cardinality(1 .. NumCalls) = NumCalls
      BY <3>1, FS_Interval
    <3> QED
      BY <3>1, <3>2 DEF Call
  <2> QED
    BY <2>1, <2>2 DEF TotalIsLast
<1> QED
  BY <1>1, Invariance, PTL

-----------------------------------------------------------------------------
(* Refinement *)

\* Preempting a call only for a strictly higher priority, and choosing again
\* when the call that was chosen leaves, is what PriorityGrant promises.  The
\* call is chosen anew at every departure, but it is the same one unless it
\* was the call that left.  Without --scheduler every step is a stutter.
THEOREM Refinement == Spec => Implements
<1> USE DEF Abstract!vars
<1>1. Init => Abstract!Init
  <2> SUFFICES ASSUME Init PROVE Abstract!Init
    OBVIOUS
  <2>1. \A c \in Call : line[c].priority \in Int
    BY CppThreads2Assumption DEF Init, Line
  <2> QED
    BY <2>1 DEF Init, Abstract!Init
<1>2. Inv /\ [Next]_vars => [Abstract!Next]_Abstract!vars
  <2> SUFFICES ASSUME Inv, [Next]_vars PROVE [Abstract!Next]_Abstract!vars
    OBVIOUS
  <2>0. /\ TypeOK /\ Numbered /\ Tabled /\ Chosen /\ Chosen'
        /\ priorities \subseteq Call /\ none \notin Call
        /\ \A c \in Call : c \in Int /\ line[c].priority \in Int
    <3>1. TypeOK /\ Numbered /\ Tabled /\ Chosen /\ Chosen'
      BY ChosenStep DEF Inv
    <3>2. line \in [Call -> Line] /\ priorities \subseteq Call
      BY <3>1 DEF TypeOK
    <3> QED
      BY <3>1, <3>2 DEF Line, Call, none
  <2>c. UNCHANGED <<use_scheduler, line>>
    BY ConfigIsFixed
  <2>1. ASSUME UNCHANGED <<priorities, max_id>> PROVE UNCHANGED Abstract!vars
    BY <2>1, <2>c
  <2>2. CASE ~use_scheduler
    BY <2>0, <2>2, <2>c DEF Chosen
  <2>3. CASE UNCHANGED vars \/ Wake \/ PollEmpty \/ Pop \/ Finish
    BY <2>1, <2>3 DEF vars, schedVars, Wake, PollEmpty, Pop, Finish
  <2>4. ASSUME NEW c \in Call, Thread(c) PROVE UNCHANGED Abstract!vars
    BY <2>0, <2>1, <2>4, ThreadFrame DEF schedVars
  <2>5. ASSUME use_scheduler, NEW c \in Call, Subscribe(c) PROVE Abstract!Next
    <3>1. priorities' = priorities \cup {c} /\ pc[c] = "none" /\ sched = "read"
      BY <2>0, <2>5 DEF Subscribe, Numbered, TypeOK
    <3>2. c \notin priorities
      BY <2>0, <3>1 DEF Tabled
    <3>3. max_id' = IF max_id = none \/ line[c].priority > line[max_id].priority
                    THEN c ELSE max_id
      <4>1. line[c].priority > -1
        <5>1. line \in [Call -> Line]
          BY <2>0 DEF TypeOK
        <5> QED
          BY <5>1 DEF Line
      <4> QED
        BY <2>0, <2>5, <4>1 DEF Subscribe, Preempts, Chosen, IsMaximum
    <3>4. max_id \in Call \/ max_id = none
      BY <2>0 DEF TypeOK
    <3>5. [d \in Call |-> line'[d].priority] =
            [[d \in Call |-> line[d].priority] EXCEPT ![c] = line'[c].priority]
      BY <2>c
    <3>6. Abstract!Register(c)
      BY <2>0, <2>c, <2>5, <3>1, <3>2, <3>3, <3>4, <3>5 DEF Abstract!Register
    <3> QED
      BY <3>6 DEF Abstract!Next
  <2>6. CASE use_scheduler /\ Join
    <3>1. /\ leaving \in priorities /\ priorities' = priorities \ {leaving}
          /\ leaving \in Call
      BY <2>0, <2>6 DEF Join, Joinable, Tabled
    <3>2. IsMaximum(max_id, priorities) /\ IsMaximum(max_id', priorities')
      BY <2>0, <2>6, <2>c DEF Chosen, IsMaximum
    <3>3. /\ max_id = none <=> priorities = {}
          /\ max_id # none => max_id \in priorities
          /\ \A d \in priorities : /\ line[d].priority <= line[max_id].priority
                                   /\ line[d].priority = line[max_id].priority => max_id <= d
      BY <2>0, <3>2, Maximum
    <3>4. /\ max_id' = none <=> priorities' = {}
          /\ max_id' # none => max_id' \in priorities'
          /\ \A d \in priorities' : /\ line[d].priority <= line[max_id'].priority
                                    /\ line[d].priority = line[max_id'].priority => max_id' <= d
      BY <2>0, <3>1, <3>2, Maximum
    <3>5. Abstract!Leave(leaving)
      <4>1. CASE leaving # max_id
        <5>1. /\ max_id \in priorities /\ max_id \in priorities'
              /\ max_id' \in priorities /\ max_id' \in priorities'
          BY <3>1, <3>3, <3>4, <4>1
        <5>2. /\ line[max_id'].priority <= line[max_id].priority
              /\ line[max_id'].priority = line[max_id].priority => max_id <= max_id'
          BY <3>3, <5>1
        <5>3. /\ line[max_id].priority <= line[max_id'].priority
              /\ line[max_id].priority = line[max_id'].priority => max_id' <= max_id
          BY <3>4, <5>1
        <5>4. max_id' = max_id
          <6>1. max_id \in Call /\ max_id' \in Call
            BY <2>0, <5>1
          <6> QED
            BY <2>0, <5>2, <5>3, <6>1
        <5> QED
          BY <2>6, <2>c, <3>1, <4>1, <5>4 DEF Abstract!Leave
      <4>2. CASE leaving = max_id /\ priorities' = {}
        BY <2>6, <2>c, <3>1, <3>4, <4>2 DEF Abstract!Leave
      <4>3. CASE leaving = max_id /\ priorities' # {}
        <5>1. max_id' \in priorities' /\ max_id' \in Call /\ priorities' \subseteq Call
          BY <2>0, <3>1, <3>4, <4>3
        <5>2. \A d \in priorities' :
                [e \in Call |-> line[e].priority][d] <= [e \in Call |-> line[e].priority][max_id']
          BY <2>0, <3>4, <5>1
        <5>3. Abstract!Highest(max_id', priorities')
          BY <5>1, <5>2 DEF Abstract!Highest
        <5>4. use_scheduler /\ use_scheduler'
          BY <2>6, <2>c
        <5> QED
          BY <2>c, <3>1, <4>3, <5>1, <5>3, <5>4 DEF Abstract!Leave
      <4> QED
        BY <4>1, <4>2, <4>3
    <3> QED
      BY <3>1, <3>5 DEF Abstract!Next
  <2> QED
    BY <2>2, <2>3, <2>4, <2>5, <2>6, Steps
<1> QED
  BY <1>1, <1>2, Invariance, PTL DEF Spec, Implements, Abstract!Spec

=============================================================================
